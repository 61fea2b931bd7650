----------------------------- MODULE VerityProofs ------------------------------
(***************************************************************************)
(* What writeVerity may write, proved for every manifest, block size and   *)
(* word: the tests on the extents are enough, in exact arithmetic, for     *)
(* what is written to be inside the image and apart from what it is        *)
(* computed from, and for fec.Generate to accept the partition.            *)
(* And what it builds: the levels of the tree hash one another and fill    *)
(* the extent whose size was compared before the first of them was built.  *)
(***************************************************************************)
EXTENDS Verity, ExtentsProofs

--------------------------------------------------------------------------------
(* The tests on two extents                                                 *)

LEMMA ValidOnes ==
  ASSUME NEW a, NEW b, NEW c
  PROVE  /\ ValidExtents(<<a, b>>) => ValidExtent(a) /\ ValidExtent(b)
         /\ ValidExtents(<<a, b, c>>) => ValidExtent(a) /\ ValidExtent(b) /\ ValidExtent(c)
<1>1. ASSUME ValidExtents(<<a, b>>) PROVE ValidExtent(a) /\ ValidExtent(b)
  <2> DEFINE all == <<a, b>>
  <2>1. 1 \in DOMAIN all /\ 2 \in DOMAIN all /\ all[1] = a /\ all[2] = b
    OBVIOUS
  <2> HIDE DEF all
  <2> QED BY <1>1, <2>1 DEF ValidExtents, all
<1>2. ASSUME ValidExtents(<<a, b, c>>) PROVE ValidExtent(a) /\ ValidExtent(b) /\ ValidExtent(c)
  <2> DEFINE all == <<a, b, c>>
  <2>1. /\ 1 \in DOMAIN all /\ 2 \in DOMAIN all /\ 3 \in DOMAIN all
        /\ all[1] = a /\ all[2] = b /\ all[3] = c
    OBVIOUS
  <2> HIDE DEF all
  <2> QED BY <1>2, <2>1 DEF ValidExtents, all
<1> QED BY <1>1, <1>2

LEMMA BlockFacts ==
  ASSUME NEW e \in AnyExtent, NEW b \in Block(e)
  PROVE  b \in Nat /\ e.num # 0 /\ e.start <= b /\ b < e.start + e.num
<1>1. MaxInt \in Nat
  BY ExtentsAssumption
<1>2. e.start \in Nat /\ e.num \in Nat
  BY <1>1 DEF AnyExtent, Word
<1> QED BY <1>2 DEF Block

\* EndsInside, computed in 64 bits, tells where the blocks of a valid extent are.
LEMMA InsideIsExact ==
  ASSUME NEW e \in AnyExtent, ValidExtent(e), NEW size \in Nat, EndsInside(e, size)
  PROVE  \A b \in Block(e) : (b + 1) * BlockSize <= size
<1> SUFFICES ASSUME NEW b \in Block(e) PROVE (b + 1) * BlockSize <= size
  OBVIOUS
<1> DEFINE n == e.start + e.num
<1>1. MaxInt \in Nat /\ BlockSize \in Nat \ {0}
  BY ExtentsAssumption
<1>2. e.start \in Nat /\ e.num \in Nat
  BY <1>1 DEF AnyExtent, Word
<1>3. b \in Nat /\ e.num # 0 /\ b + 1 <= n
  BY <1>2, BlockFacts
<1>4. Times(n, BlockSize) <= size
  <2>1. Wrap(Times(n, BlockSize)) = Times(n, BlockSize)
    BY <1>3, ValidExtentIsExact
  <2>2. Wrap(n * BlockSize) <= size
    BY DEF EndsInside
  <2> QED BY <2>1, <2>2 DEF Times
<1>5. n \in Nat /\ b + 1 \in Nat
  BY <1>2, <1>3
<1> HIDE DEF n
<1>6. Times(b + 1, BlockSize) <= Times(n, BlockSize)
  BY <1>1, <1>3, <1>5, TimesFacts
<1>7. Times(b + 1, BlockSize) \in Nat /\ Times(n, BlockSize) \in Nat
  BY <1>1, <1>5, TimesFacts
<1>8. Times(b + 1, BlockSize) <= size
  BY <1>4, <1>6, <1>7
<1> QED BY <1>8 DEF Times

\* So does the comparison of their ends, for two valid extents.
LEMMA OverlapIsExact ==
  ASSUME NEW a \in AnyExtent, NEW b \in AnyExtent, ValidExtent(a), ValidExtent(b), ~ Overlap(a, b)
  PROVE  Block(a) \cap Block(b) = {}
<1> SUFFICES ASSUME NEW k \in Block(a), k \in Block(b) PROVE FALSE
  OBVIOUS
<1>1. /\ k \in Nat /\ a.num # 0 /\ a.start <= k /\ k < a.start + a.num
      /\ b.num # 0 /\ b.start <= k /\ k < b.start + b.num
  BY BlockFacts
<1>2. Wrap(a.start + a.num) = a.start + a.num /\ Wrap(b.start + b.num) = b.start + b.num
  BY <1>1, ValidExtentIsExact
<1>3. ~ (a.start < b.start + b.num /\ b.start < a.start + a.num)
  BY <1>1, <1>2 DEF Overlap
<1>4. a.start \in Nat /\ a.num \in Nat /\ b.start \in Nat /\ b.num \in Nat
  BY ExtentsAssumption DEF AnyExtent, Word
<1> QED BY <1>1, <1>3, <1>4

--------------------------------------------------------------------------------
(* The parity of an accepted partition                                      *)

LEMMA CeilAtMost ==
  ASSUME NEW a \in Nat, NEW b \in Nat \ {0}
  PROVE  Fec!CeilDiv(a, b) \in 0 .. a /\ (a > 0 => Fec!CeilDiv(a, b) > 0)
<1> DEFINE q == a \div b
           r == a % b
           s == b * q
<1>1. q \in Nat /\ r \in Nat /\ a = s + r
  OBVIOUS
<1>2. s \in Nat /\ q <= s /\ (q = 0 => s = 0)
  <2> HIDE DEF q
  <2> QED BY <1>1
<1>3. Fec!CeilDiv(a, b) = IF r = 0 THEN q ELSE q + 1
  BY DEF Fec!CeilDiv
<1> HIDE DEF q, r, s
<1> QED BY <1>1, <1>2, <1>3

LEMMA QuotientOfProduct ==
  ASSUME NEW n \in Nat, NEW r \in Nat \ {0}, NEW q \in Nat, Times(n, r) <= q
  PROVE  n <= q \div r
<1> DEFINE d == q \div r
           m == q % r
<1>1. d \in Nat /\ m \in 0 .. r - 1 /\ q = r * d + m
  OBVIOUS
<1> HIDE DEF d, m
<1>2. Times(d, r) = r * d /\ Times(d + 1, r) = r * d + r /\ r * d \in Nat
  BY <1>1 DEF Times
<1>3. SUFFICES ASSUME n >= d + 1 PROVE FALSE
  BY <1>1 DEF d
<1>4. Times(d + 1, r) <= Times(n, r)
  BY <1>1, <1>3, TimesFacts
<1>5. Times(n, r) \in Nat
  BY TimesFacts
<1> DEFINE s == r * d
<1>6. s \in Nat /\ q = s + m /\ s + r <= q
  BY <1>1, <1>2, <1>4, <1>5
<1> HIDE DEF s
<1> QED BY <1>1, <1>6

\* What fec.Params.Validate asks of the sizes follows from what writeFEC has asked
\* of the extents, and no product on the way wraps.
LEMMA ParityFits ==
  ASSUME NEW p, p.fec \in AnyExtent, p.fecData \in AnyExtent, p.roots \in Nat,
         FecAccepted(p)
  PROVE  LET f == FecParameters(p) IN
         /\ Fec!Valid(f)
         /\ Fec!ParityBytes(f) = p.fec.num * BlockSize
<1> DEFINE f == FecParameters(p)
           d == p.fecData.num
           r == p.roots
           limit == MaxInt \div BlockSize
           n == Fec!CeilDiv(d, CodewordLen - r)
           size == Times(n, r)
<1>1. /\ MaxInt \in Nat /\ BlockSize \in Nat \ {0} /\ CodewordLen \in Nat
      /\ MinFecRoots \in Nat /\ MaxFecRoots \in Nat /\ DefaultBatchRounds \in Nat \ {0}
      /\ 0 < MinFecRoots /\ MaxFecRoots < CodewordLen /\ MaxFecRoots <= BlockBytes
  BY ExtentsAssumption, VerityAssumption
<1>2. /\ BlockSize = BlockBytes /\ d # 0 /\ r \in MinFecRoots .. MaxFecRoots
      /\ p.fec.num = Wrap(Fec!Rounds(f) * r)
      /\ ValidExtents(<<p.fec, p.fecData, p.tree>>)
  BY DEF FecAccepted
<1>3. /\ f.dataBlocks = d /\ f.roots = r /\ f.blockSize = BlockSize /\ f.batchRounds = 0
      /\ Fec!RsN(f) = CodewordLen - r /\ Fec!Rounds(f) = n
  BY DEF FecParameters, Fec!RsN, Fec!Rounds
<1>4. /\ d \in Nat \ {0} /\ r \in Nat \ {0} /\ r <= BlockSize /\ CodewordLen - r \in Nat \ {0}
      /\ r \in 1 .. CodewordLen - 1
  BY <1>1, <1>2 DEF AnyExtent, Word
<1>5. ValidExtent(p.fec) /\ ValidExtent(p.fecData)
  BY <1>2, ValidOnes
<1>6. limit \in Nat
  BY <1>1
<1>7. \A e \in AnyExtent : ValidExtent(e) /\ e.num # 0 => e.num <= limit /\ e.num \in Nat
  <2> SUFFICES ASSUME NEW e \in AnyExtent, ValidExtent(e), e.num # 0
               PROVE  e.num <= limit /\ e.num \in Nat
    OBVIOUS
  <2>1. Wrap(e.start + e.num) = e.start + e.num
    BY ValidExtentIsExact
  <2>2. e.start + e.num <= limit
    BY <2>1 DEF ValidExtent
  <2>3. e.start \in Nat /\ e.num \in Nat
    BY <1>1 DEF AnyExtent, Word
  <2> HIDE DEF limit
  <2> QED BY <1>6, <2>2, <2>3
<1>8. d <= limit
  BY <1>2, <1>5, <1>7
<1>9. n \in Nat \ {0} /\ n <= d
  <2>1. n \in 0 .. d /\ (d > 0 => n > 0)
    BY <1>4, CeilAtMost
  <2> HIDE DEF n, d
  <2> QED BY <1>4, <2>1
<1> HIDE DEF n, d, r, limit
<1>10. size \in Nat \ {0} /\ size <= Times(n, BlockSize)
  BY <1>1, <1>4, <1>9 DEF Times
<1>11. Times(n, BlockSize) \in 0 .. MaxInt
  <2>1. n <= MaxInt \div BlockSize
    BY <1>4, <1>6, <1>8, <1>9 DEF limit
  <2> QED BY <1>9, <2>1, BlocksFit
<1> HIDE DEF size, f
<1>12. p.fec.num = size
  <2>1. size \in 0 .. MaxInt
    BY <1>1, <1>10, <1>11
  <2>2. p.fec.num = Wrap(size)
    BY <1>2, <1>3 DEF size, Times, r
  <2> QED BY <2>1, <2>2, Int64Exact
<1>13. size <= limit
  BY <1>5, <1>7, <1>10, <1>12
<1>14. n <= limit \div r
  BY <1>4, <1>6, <1>9, <1>13, QuotientOfProduct DEF size
<1>15. Fec!BufferRounds(f) <= n
  BY <1>1, <1>3, <1>9 DEF Fec!BufferRounds, Fec!BatchRounds
<1>16. Fec!Valid(f)
  <2>1. Fec!BufferRounds(f) <= limit \div r
    <3> DEFINE l == limit \div r
               b == Fec!BufferRounds(f)
    <3>1. l \in Int /\ b \in Int
      BY <1>1, <1>3, <1>4, <1>6, <1>9 DEF Fec!BufferRounds, Fec!BatchRounds
    <3>2. n <= l /\ b <= n
      BY <1>14, <1>15
    <3> HIDE DEF l, b
    <3>3. b <= l
      BY <1>9, <3>1, <3>2
    <3> QED BY <3>3 DEF l, b
  <2> QED BY <1>2, <1>3, <1>4, <1>8, <1>14, <2>1 DEF Fec!Valid, limit
<1>17. Fec!ParityBytes(f) = p.fec.num * BlockSize
  BY <1>3, <1>12 DEF Fec!ParityBytes, size, Times
<1> QED BY <1>16, <1>17 DEF f

--------------------------------------------------------------------------------
(* writeVerity                                                              *)

\* What has been tested is still true when it is used.
Checked ==
  /\ part \in Parts
  /\ pc \in {"hash", "write"} => TreeAccepted
  /\ pc = "generate" => FecAccepted(part)

LEMMA InitChecked == Init => Checked
BY DEF Init, Checked

\* The tests read the partition only, which no action changes.
LEMMA SameTests ==
  ASSUME part' = part
  PROVE  (TreeAccepted <=> TreeAccepted')
BY DEF TreeAccepted, Algorithm, HashSize, HashesPerBlock, TreeBlocks

LEMMA NextChecked == Checked /\ [Next]_vars => Checked'
<1> SUFFICES ASSUME Checked, [Next]_vars PROVE Checked'
  OBVIOUS
<1> USE DEF Goto, Return, Checked
<1>1. CASE Cancel BY <1>1, SameTests DEF Cancel
<1>2. CASE Cancelled BY <1>2, SameTests DEF Cancelled
<1>3. CASE Begin BY <1>3, SameTests DEF Begin
<1>4. CASE CheckTree BY <1>4, SameTests DEF CheckTree
<1>5. CASE HashBlock BY <1>5, SameTests DEF HashBlock
<1>6. CASE ReadFails BY <1>6, SameTests DEF ReadFails
<1>7. CASE LevelBuilt BY <1>7, SameTests DEF LevelBuilt
<1>8. CASE WriteTree BY <1>8, SameTests DEF WriteTree
<1>9. CASE CheckFec BY <1>9, SameTests DEF CheckFec
<1>10. CASE Generate BY <1>10, SameTests DEF Generate
<1>11. CASE UNCHANGED vars BY <1>11, SameTests DEF vars
<1> QED
  BY <1>1, <1>2, <1>3, <1>4, <1>5, <1>6, <1>7, <1>8, <1>9, <1>10, <1>11 DEF Next

LEMMA AlwaysChecked == Spec => []Checked
BY InitChecked, NextChecked, PTL DEF Spec

LEMMA PartTypes ==
  ASSUME part \in Parts
  PROVE  /\ part.tree \in AnyExtent /\ part.data \in AnyExtent
         /\ part.fec \in AnyExtent /\ part.fecData \in AnyExtent
         /\ part.roots \in Nat /\ part.size \in Nat
<1>1. part \in PartType /\ MaxInt \in Nat
  BY VerityAssumption, ExtentsAssumption
<1> QED BY <1>1 DEF PartType, ExtentType, AnyExtent, Word

\* Neither the tree nor the parity is written outside the image, over what it is
\* computed from, or over the other (verity.go:35-59 and 134-158), whatever 64-bit
\* numbers the manifest holds.
THEOREM WritesStayApart == Spec => []WritesAreApart
<1>1. ASSUME Checked PROVE WritesAreApart
  <2> USE <1>1
  <2>1. /\ part.tree \in AnyExtent /\ part.data \in AnyExtent
        /\ part.fec \in AnyExtent /\ part.fecData \in AnyExtent /\ part.size \in Nat
    BY PartTypes DEF Checked
  <2>2. ASSUME pc \in {"hash", "write"}
        PROVE  /\ \A b \in Block(part.tree) : (b + 1) * BlockSize <= part.size
               /\ \A b \in Block(part.data) : (b + 1) * BlockSize <= part.size
               /\ Block(part.tree) \cap Block(part.data) = {}
    <3>1. /\ ValidExtents(<<part.tree, part.data>>)
          /\ EndsInside(part.tree, part.size) /\ EndsInside(part.data, part.size)
          /\ ~ Overlap(part.tree, part.data)
      BY <2>2 DEF Checked, TreeAccepted
    <3>2. ValidExtent(part.tree) /\ ValidExtent(part.data)
      BY <3>1, ValidOnes
    <3> QED BY <2>1, <3>1, <3>2, InsideIsExact, OverlapIsExact
  <2>3. ASSUME pc = "generate"
        PROVE  /\ \A b \in Block(part.fec) : (b + 1) * BlockSize <= part.size
               /\ \A b \in Block(part.fecData) : (b + 1) * BlockSize <= part.size
               /\ Block(part.fec) \cap Block(part.fecData) = {}
               /\ Block(part.fec) \cap Block(part.tree) = {}
    <3>1. /\ ValidExtents(<<part.fec, part.fecData, part.tree>>)
          /\ EndsInside(part.fec, part.size) /\ EndsInside(part.fecData, part.size)
          /\ ~ Overlap(part.fec, part.fecData) /\ ~ Overlap(part.fec, part.tree)
      BY <2>3 DEF Checked, FecAccepted
    <3>2. ValidExtent(part.fec) /\ ValidExtent(part.fecData) /\ ValidExtent(part.tree)
      BY <3>1, ValidOnes
    <3> QED BY <2>1, <3>1, <3>2, InsideIsExact, OverlapIsExact
  <2> QED BY <2>2, <2>3 DEF WritesAreApart
<1> QED BY <1>1, AlwaysChecked, PTL

\* fec.Generate is only called with parameters it accepts, and the parity it will
\* write is exactly as long as the extent reserved for it.
THEOREM AcceptedIsValid == Spec => []AcceptedFecIsValid
<1>1. ASSUME Checked PROVE AcceptedFecIsValid
  <2> SUFFICES ASSUME pc = "generate"
               PROVE  LET p == FecParameters(part) IN
                      Fec!Valid(p) /\ Fec!ParityBytes(p) = part.fec.num * BlockSize
    BY DEF AcceptedFecIsValid
  <2>1. FecAccepted(part) /\ part \in Parts
    BY <1>1 DEF Checked
  <2>2. part.fec \in AnyExtent /\ part.fecData \in AnyExtent /\ part.roots \in Nat
    BY <2>1, PartTypes
  <2> QED BY <2>1, <2>2, ParityFits
<1> QED BY <1>1, AlwaysChecked, PTL

--------------------------------------------------------------------------------
(* The outcome                                                              *)

Untouched == onDisk = [tree |-> "old", parity |-> "old"]

TreeWritten == IF part.tree.num = 0 THEN "old" ELSE "new"

\* How far the image is, at each point of writeVerity.
HowFar ==
  /\ pc \in {"begin", "tree", "hash", "write", "fec", "generate", "done"}
  /\ pc \in {"begin", "tree", "hash", "write"} => Untouched
  /\ pc \in {"tree", "hash", "write"} => part.tree.num # 0
  /\ pc \in {"fec", "generate"} => onDisk = [tree |-> TreeWritten, parity |-> "old"]
  /\ pc = "generate" => part.fec.num # 0 /\ FecAccepted(part)
  /\ OutcomeMatchesImage

LEMMA InitHowFar == Init => HowFar
BY DEF Init, HowFar, Untouched, OutcomeMatchesImage

LEMMA NextHowFar == HowFar /\ [Next]_vars => HowFar'
<1> SUFFICES ASSUME HowFar, [Next]_vars PROVE HowFar'
  OBVIOUS
<1> USE DEF Goto, Return, Untouched
<1>1. CASE Cancel
  BY <1>1 DEF Cancel, HowFar, TreeWritten, OutcomeMatchesImage
<1>2. CASE Cancelled
  <2>1. /\ part' = part /\ onDisk' = onDisk /\ Untouched
        /\ pc' = "done" /\ result' = "cancelled"
    BY <1>2 DEF Cancelled, HowFar
  <2>2. OutcomeMatchesImage'
    BY <2>1 DEF OutcomeMatchesImage
  <2> QED BY <2>1, <2>2 DEF HowFar
<1>3. CASE Begin
  <2>1. /\ part' = part /\ onDisk' = onDisk /\ Untouched /\ pc' \in {"fec", "done", "tree"}
        /\ pc' = "fec" => part.tree.num = 0
        /\ pc' = "tree" => part.tree.num # 0
        /\ pc' = "done" => result' = "no tree data"
    BY <1>3 DEF Begin, HowFar
  <2>2. OutcomeMatchesImage'
    BY <2>1 DEF OutcomeMatchesImage
  <2> QED BY <2>1, <2>2 DEF HowFar, TreeWritten
<1>4. CASE CheckTree
  <2>1. /\ part' = part /\ onDisk' = onDisk /\ Untouched /\ part.tree.num # 0
        /\ pc' = "hash" \/ (pc' = "done" /\ result' = "tree extent")
    BY <1>4 DEF CheckTree, HowFar
  <2>2. OutcomeMatchesImage'
    BY <2>1 DEF OutcomeMatchesImage
  <2> QED BY <2>1, <2>2 DEF HowFar
<1>5. CASE HashBlock
  BY <1>5 DEF HashBlock, HowFar, TreeWritten, OutcomeMatchesImage
<1>6. CASE ReadFails
  BY <1>6 DEF ReadFails, HowFar, TreeWritten, OutcomeMatchesImage
<1>7. CASE LevelBuilt
  BY <1>7 DEF LevelBuilt, HowFar, TreeWritten, OutcomeMatchesImage
<1>8. CASE WriteTree
  <2>1. part' = part /\ onDisk = [tree |-> "old", parity |-> "old"] /\ part.tree.num # 0
    BY <1>8 DEF WriteTree, HowFar
  <2>2. CASE pc' = "done" /\ result' = "tree size" /\ onDisk' = onDisk
    <3>1. OutcomeMatchesImage'
      BY <2>1, <2>2 DEF OutcomeMatchesImage
    <3> QED BY <2>1, <2>2, <3>1 DEF HowFar
  <2>3. CASE pc' = "fec" /\ onDisk' = [onDisk EXCEPT !.tree = "new"]
    <3>1. onDisk' = [tree |-> "new", parity |-> "old"]
      BY <2>1, <2>3
    <3>2. OutcomeMatchesImage'
      BY <2>3 DEF OutcomeMatchesImage
    <3> QED BY <2>1, <2>3, <3>1, <3>2 DEF HowFar, TreeWritten
  <2>4. CASE pc' = "done" /\ result' = "io" /\ onDisk' = [onDisk EXCEPT !.tree = "torn"]
    <3>1. onDisk' = [tree |-> "torn", parity |-> "old"]
      BY <2>1, <2>4
    <3>2. OutcomeMatchesImage'
      BY <2>1, <2>4, <3>1 DEF OutcomeMatchesImage
    <3> QED BY <2>1, <2>4, <3>1, <3>2 DEF HowFar
  <2> QED BY <1>8, <2>2, <2>3, <2>4 DEF WriteTree
<1>9. CASE CheckFec
  <2>1. /\ part' = part /\ onDisk' = onDisk
        /\ onDisk = [tree |-> TreeWritten, parity |-> "old"]
        /\ \/ pc' = "generate" /\ FecAccepted(part) /\ part.fec.num # 0
           \/ pc' = "done" /\ result' = "ok" /\ part.fec.num = 0
           \/ pc' = "done" /\ result' \in {"skipped", "fec extent"}
    BY <1>9 DEF CheckFec, HowFar
  <2>2. OutcomeMatchesImage'
    BY <2>1 DEF OutcomeMatchesImage, TreeWritten
  <2> QED BY <2>1, <2>2 DEF HowFar, TreeWritten
<1>10. CASE Generate
  <2>1. /\ part' = part /\ pc' = "done" /\ FecAccepted(part) /\ part.fec.num # 0
        /\ onDisk = [tree |-> TreeWritten, parity |-> "old"]
    BY <1>10 DEF Generate, HowFar
  <2>2. CASE result' = "ok" /\ onDisk' = [onDisk EXCEPT !.parity = "new"]
    <3>1. onDisk' = [tree |-> TreeWritten, parity |-> "new"]
      BY <2>1, <2>2
    <3>2. OutcomeMatchesImage'
      BY <2>1, <2>2, <3>1 DEF OutcomeMatchesImage, TreeWritten
    <3> QED BY <2>1, <3>2 DEF HowFar
  <2>3. ASSUME NEW s \in {"old", "torn"}, result' \in {"cancelled", "io"},
               onDisk' = [onDisk EXCEPT !.parity = s]
        PROVE  HowFar'
    <3>1. onDisk' = [tree |-> TreeWritten, parity |-> s]
      BY <2>1, <2>3
    <3>2. onDisk'.tree # "torn" /\ FecAccepted(part')
      BY <2>1, <3>1 DEF TreeWritten
    <3>3. OutcomeMatchesImage'
      BY <2>1, <2>3, <3>2 DEF OutcomeMatchesImage
    <3> QED BY <2>1, <3>3 DEF HowFar
  <2> QED BY <1>10, <2>2, <2>3 DEF Generate
<1>11. CASE UNCHANGED vars
  BY <1>11 DEF vars, HowFar, TreeWritten, OutcomeMatchesImage
<1> QED
  BY <1>1, <1>2, <1>3, <1>4, <1>5, <1>6, <1>7, <1>8, <1>9, <1>10, <1>11 DEF Next

\* However writeVerity ends, its result tells what it left of the tree and of the
\* parity on disk.
THEOREM OutcomeHonest == Spec => []OutcomeMatchesImage
<1>1. HowFar => OutcomeMatchesImage
  BY DEF HowFar
<1> QED BY <1>1, InitHowFar, NextHowFar, PTL DEF Spec

--------------------------------------------------------------------------------
(* Powers of two                                                            *)

\* The powers of two are the numbers in every set that has 1 and is closed under
\* doubling: for such a set there is nothing to induct over.
Powers ==
  {n \in Nat : \A S \in SUBSET Nat : 1 \in S /\ (\A p \in S : 2 * p \in S) => n \in S}

LEMMA PowersWithin ==
  ASSUME NEW S \in SUBSET Nat, 1 \in S, \A p \in S : 2 * p \in S
  PROVE  Powers \subseteq S
BY DEF Powers

LEMMA PowersFacts ==
  /\ Powers \subseteq Nat \ {0}
  /\ 1 \in Powers
  /\ \A p \in Powers : 2 * p \in Powers
  /\ \A p \in Powers : p = 1 \/ \E q \in Powers : p = 2 * q
<1>1. Powers \subseteq Nat \ {0}
  <2> DEFINE S == Nat \ {0}
  <2>1. S \in SUBSET Nat /\ 1 \in S /\ \A p \in S : 2 * p \in S
    OBVIOUS
  <2> HIDE DEF S
  <2>2. Powers \subseteq S
    BY <2>1, PowersWithin
  <2> QED BY <2>2 DEF S
<1>2. 1 \in Powers
  BY DEF Powers
<1>3. ASSUME NEW p \in Powers PROVE 2 * p \in Powers
  <2>1. 2 * p \in Nat
    BY <1>1
  <2>2. \A S \in SUBSET Nat : 1 \in S /\ (\A x \in S : 2 * x \in S) => 2 * p \in S
    BY DEF Powers
  <2> QED BY <2>1, <2>2 DEF Powers
<1>4. \A p \in Powers : p = 1 \/ \E q \in Powers : p = 2 * q
  <2> DEFINE S == {1} \cup {2 * q : q \in Powers}
  <2>1. S \subseteq Powers
    BY <1>2, <1>3
  <2>2. S \in SUBSET Nat
    BY <1>1
  <2>3. 1 \in S
    OBVIOUS
  <2>4. \A p \in S : 2 * p \in S
    BY <2>1
  <2> HIDE DEF S
  <2>5. Powers \subseteq S
    BY <2>2, <2>3, <2>4, PowersWithin
  <2> QED BY <2>5 DEF S
<1> QED BY <1>1, <1>2, <1>3, <1>4

\* The smaller of two powers divides the other.
LEMMA PowersDivide ==
  ASSUME NEW a \in Powers, NEW b \in Powers, a <= b
  PROVE  \E q \in Nat \ {0} : b = Times(q, a)
<1> DEFINE S == {p \in Nat \ {0} : b < p \/ \E q \in Powers : b = Times(q, p)}
<1>1. S \in SUBSET Nat /\ b \in Nat \ {0} /\ a \in Nat \ {0}
  BY PowersFacts
<1>2. 1 \in S
  BY <1>1 DEF Times
<1>3. ASSUME NEW p \in S PROVE 2 * p \in S
  <2>1. p \in Nat \ {0} /\ 2 * p \in Nat \ {0}
    OBVIOUS
  <2>2. CASE b < p
    BY <1>1, <2>1, <2>2
  <2>3. ASSUME NEW q \in Powers, b = Times(q, p) PROVE 2 * p \in S
    <3>1. CASE q = 1
      <4>1. b = p
        BY <2>1, <2>3, <3>1 DEF Times
      <4>2. b < 2 * p
        BY <2>1, <4>1
      <4> QED BY <2>1, <4>2
    <3>2. ASSUME NEW r \in Powers, q = 2 * r PROVE 2 * p \in S
      <4>1. r \in Nat
        BY PowersFacts
      <4>2. Times(2 * r, p) = Times(r, 2 * p)
        BY <2>1, <4>1 DEF Times
      <4> QED BY <2>1, <2>3, <3>2, <4>2
    <3> QED BY <3>1, <3>2, PowersFacts
  <2> QED BY <2>2, <2>3
<1>4. a \in S
  <2> HIDE DEF S
  <2> QED BY <1>1, <1>2, <1>3, PowersWithin
<1>5. ~ (b < a)
  BY <1>1
<1> QED BY <1>4, <1>5, PowersFacts

LEMMA PowersUnbounded == \A n \in Nat : \E p \in Powers : p >= n
<1> DEFINE T == {n \in Nat : ~ \E p \in Powers : p >= n}
<1>1. ASSUME T # {} PROVE FALSE
  <2>1. PICK n \in T : \A m \in T : n <= m
    <3>1. T \in SUBSET Nat
      OBVIOUS
    <3> HIDE DEF T
    <3> QED BY <1>1, <3>1, Least
  <2>2. n # 0
    BY PowersFacts
  <2>3. n - 1 \in Nat /\ ~ (n <= n - 1)
    BY <2>2
  <2>4. PICK p \in Powers : p >= n - 1
    BY <2>1, <2>3
  <2>5. p \in Nat \ {0} /\ 2 * p \in Powers
    BY PowersFacts
  <2>6. 2 * p >= n
    BY <2>4, <2>5
  <2> QED BY <2>5, <2>6
<1> QED BY <1>1

\* nextPowerOfTwo: doubling from a power of two ends in one.
LEMMA NextIsPower == ASSUME NEW n \in Nat PROVE NextPowerOfTwo(n) \in Powers
<1> DEFINE Value(f, p) == IF p >= n THEN p ELSE f[2 * p]
           Doubles(f) == f = [p \in Nat \ {0} |-> Value(f, p)]
           Reached(p) == {Times(t, p) : t \in {u \in Powers : Times(u, p) >= n}}
           First(p, v) == v \in Reached(p) /\ \A w \in Reached(p) : v <= w
           g == [p \in Nat \ {0} |-> CHOOSE v : First(p, v)]
<1>1. \A t \in Powers, p \in Nat \ {0} : Times(t, p) \in Nat /\ Times(t, p) >= p /\ Times(t, p) >= t
  <2>1. \A t, p \in Nat \ {0} : Times(t, p) \in Nat /\ Times(t, p) >= p /\ Times(t, p) >= t
    BY DEF Times
  <2> QED BY <2>1, PowersFacts
<1>2. \A p \in Nat \ {0} : Reached(p) \in SUBSET Nat
  BY <1>1
<1>3. ASSUME NEW p \in Nat \ {0} PROVE First(p, g[p])
  <2>1. PICK t \in Powers : t >= n
    BY PowersUnbounded
  <2>2. Times(t, p) >= n
    <3>1. Times(t, p) \in Nat /\ Times(t, p) >= t /\ t \in Nat
      BY <1>1, PowersFacts
    <3> QED BY <2>1, <3>1
  <2>3. Reached(p) # {}
    BY <2>2
  <2>4. \E v : First(p, v)
    <3> HIDE DEF Reached
    <3> QED BY <1>2, <2>3, Least
  <2> HIDE DEF First
  <2> QED BY <2>4
<1>4. ASSUME NEW p \in Nat \ {0}, NEW v, NEW w, First(p, v), First(p, w) PROVE v = w
  <2>1. v \in Nat /\ w \in Nat /\ v <= w /\ w <= v
    <3> HIDE DEF Reached
    <3> QED BY <1>2, <1>4
  <2> QED BY <2>1
<1>5. ASSUME NEW p \in Nat \ {0}, p >= n PROVE First(p, p)
  <2>1. Times(1, p) = p
    BY DEF Times
  <2>2. p \in Reached(p)
    BY <1>5, <2>1, PowersFacts
  <2> QED BY <1>1, <2>2
<1>6. ASSUME NEW p \in Nat \ {0}, p < n, NEW v, First(2 * p, v) PROVE First(p, v)
  <2>1. \A t \in Powers : Times(2 * t, p) = Times(t, 2 * p)
    <3>1. \A t, m \in Nat : Times(2 * t, m) = Times(t, 2 * m)
      BY DEF Times
    <3> QED BY <3>1, PowersFacts
  <2>2. v \in Reached(p)
    <3>1. PICK t \in Powers : v = Times(t, 2 * p) /\ Times(t, 2 * p) >= n
      BY <1>6
    <3>2. 2 * t \in Powers /\ v = Times(2 * t, p) /\ Times(2 * t, p) >= n
      BY <2>1, <3>1, PowersFacts
    <3> QED BY <3>2
  <2>3. ASSUME NEW w \in Reached(p) PROVE w \in Reached(2 * p)
    <3>1. PICK t \in Powers : w = Times(t, p) /\ Times(t, p) >= n
      BY <2>3
    <3>2. t # 1
      BY <1>6, <3>1 DEF Times
    <3>3. PICK u \in Powers : t = 2 * u
      BY <3>2, PowersFacts
    <3>4. w = Times(u, 2 * p) /\ Times(u, 2 * p) >= n
      BY <2>1, <3>1, <3>3
    <3> QED BY <3>4
  <2> HIDE DEF Reached
  <2> QED BY <1>6, <2>2, <2>3
<1>7. Doubles(g)
  <2>1. ASSUME NEW p \in Nat \ {0} PROVE g[p] = Value(g, p)
    <3>1. 2 * p \in Nat \ {0}
      OBVIOUS
    <3>2. CASE p >= n
      <4> HIDE DEF First, g
      <4> QED BY <1>3, <1>4, <1>5, <3>2
    <3>3. CASE p < n
      <4>1. First(2 * p, g[2 * p])
        <5> HIDE DEF First, g
        <5> QED BY <1>3, <3>1
      <4>2. First(p, g[2 * p]) /\ First(p, g[p])
        <5> HIDE DEF First, g
        <5> QED BY <1>3, <1>6, <3>3, <4>1
      <4>3. g[p] = g[2 * p]
        <5> HIDE DEF First, g
        <5> QED BY <1>4, <4>2
      <4>4. Value(g, p) = g[2 * p]
        <5> HIDE DEF g
        <5> QED BY <3>3
      <4> QED BY <4>3, <4>4
    <3>4. p >= n \/ p < n
      OBVIOUS
    <3> HIDE DEF g, Value
    <3> QED BY <3>2, <3>3, <3>4
  <2>2. g = [p \in Nat \ {0} |-> g[p]]
    OBVIOUS
  <2> HIDE DEF g, Value
  <2> QED BY <2>1, <2>2
<1> DEFINE f == CHOOSE f : Doubles(f)
<1>8. Doubles(f)
  <2> HIDE DEF Doubles, g
  <2> QED BY <1>7
<1>9. \A p \in Nat \ {0} : f[p] = IF p >= n THEN p ELSE f[2 * p]
  <2> HIDE DEF f
  <2> QED BY <1>8
<1>10. NextPowerOfTwo(n) = f[1]
  BY DEF NextPowerOfTwo
<1> HIDE DEF f
<1> DEFINE Bad == {p \in Powers : f[p] \notin Powers}
           Far == {n - p : p \in Bad}
<1>11. ASSUME Bad # {} PROVE FALSE
  <2>1. \A p \in Bad : p \in Nat \ {0} /\ p < n
    BY <1>9, PowersFacts
  <2>2. Far \in SUBSET Nat /\ Far # {}
    BY <1>11, <2>1
  <2>3. PICK d \in Far : \A e \in Far : d <= e
    <3> HIDE DEF Far
    <3> QED BY <2>2, Least
  <2>4. PICK p \in Bad : d = n - p
    OBVIOUS
  <2>5. p \in Nat \ {0} /\ p < n /\ 2 * p \in Powers /\ f[p] = f[2 * p]
    BY <1>9, <2>1, <2>4, PowersFacts
  <2>6. 2 * p \in Bad
    BY <2>4, <2>5
  <2>7. n - 2 * p \in Far
    BY <2>6
  <2>8. n - p <= n - 2 * p
    BY <2>3, <2>4, <2>7
  <2> QED BY <2>5, <2>8
<1> QED BY <1>10, <1>11, PowersFacts

--------------------------------------------------------------------------------
(* Levels                                                                   *)

\* Division by its quotient and remainder.
LEMMA QuotientIs ==
  ASSUME NEW a \in Nat, NEW m \in Nat \ {0}, NEW q \in Nat, NEW r \in 0 .. m - 1,
         a = Times(q, m) + r
  PROVE  a \div m = q /\ a % m = r
<1> DEFINE d == a \div m
           e == a % m
<1>1. d \in Int /\ e \in 0 .. m - 1 /\ a = m * d + e
  OBVIOUS
<1>2. d \in Nat
  OBVIOUS
<1>3. a = Times(d, m) + e
  BY <1>1, <1>2 DEF Times
<1> HIDE DEF d, e
<1>4. ASSUME NEW x \in Nat, NEW y \in Nat, x < y PROVE Times(x, m) + m <= Times(y, m)
  <2>1. x + 1 <= y /\ x + 1 \in Nat
    BY <1>4
  <2>2. Times(x + 1, m) <= Times(y, m)
    BY <2>1, TimesFacts
  <2>3. Times(x + 1, m) = Times(x, m) + m
    BY DEF Times
  <2> QED BY <2>2, <2>3
<1>5. Times(d, m) \in Nat /\ Times(q, m) \in Nat
  BY <1>2, TimesFacts
<1>6. d = q
  BY <1>1, <1>2, <1>3, <1>4, <1>5
<1>7. e = r
  BY <1>1, <1>3, <1>5, <1>6
<1> QED BY <1>6, <1>7 DEF d, e

\* A level of Above(n) blocks has room for n hashes.
Above(n) == (n + HashesPerBlock - 1) \div HashesPerBlock

LEMMA BlockOfHashes ==
  ASSUME NEW h \in Powers, NextPowerOfTwo(BlockSize) = BlockSize, BlockSize >= 2 * h
  PROVE  /\ BlockSize \div h \in Nat /\ BlockSize \div h >= 2
         /\ BlockSize = Times(BlockSize \div h, h)
<1>1. BlockSize \in Powers /\ BlockSize \in Nat \ {0} /\ h \in Nat \ {0}
  BY ExtentsAssumption, NextIsPower, PowersFacts
<1>2. PICK q \in Nat \ {0} : BlockSize = Times(q, h)
  BY <1>1, PowersDivide
<1>3. BlockSize \div h = q
  BY <1>1, <1>2, QuotientIs
<1>4. q # 1
  BY <1>1, <1>2 DEF Times
<1> QED BY <1>2, <1>3, <1>4

\* The hashes of n blocks, q to a block, padded to whole blocks.
LEMMA Padding ==
  ASSUME NEW n \in Nat, NEW h \in Nat \ {0}, NEW q \in Nat \ {0}, BlockSize = Times(q, h)
  PROVE  LET above == (n + q - 1) \div q
             pad == PadToBlock(n * h) IN
         /\ above \in Nat /\ pad = Times(above, BlockSize)
         /\ pad % BlockSize = 0 /\ pad \div BlockSize = above
         /\ n * h <= pad /\ pad < n * h + BlockSize
         /\ n > 0 => above > 0
         /\ n <= 1 => above = n
         /\ n > 1 /\ q > 1 => above < n
<1> DEFINE above == (n + q - 1) \div q
           pad == PadToBlock(n * h)
           u == n \div q
           r == n % q
<1>1. u \in Nat /\ r \in 0 .. q - 1 /\ n = q * u + r /\ BlockSize \in Nat \ {0}
  BY ExtentsAssumption
<1>2. n = Times(u, q) + r
  BY <1>1 DEF Times
<1> HIDE DEF u, r
<1>3. above = IF r = 0 THEN u ELSE u + 1
  <2>1. CASE r = 0
    <3> DEFINE t == Times(u, q)
    <3>1. t \in Nat /\ n = t + r
      BY <1>1, <1>2, TimesFacts
    <3> HIDE DEF t
    <3>2. n + q - 1 = t + (q - 1) /\ n + q - 1 \in Nat /\ q - 1 \in 0 .. q - 1
      BY <2>1, <3>1
    <3>3. above = u
      BY <1>1, <3>2, QuotientIs DEF t
    <3> QED BY <2>1, <3>3
  <2>2. CASE r # 0
    <3>1. Times(u + 1, q) = Times(u, q) + q
      BY <1>1 DEF Times
    <3>2. Times(u, q) \in Nat
      BY <1>1, TimesFacts
    <3>3. n + q - 1 = Times(u + 1, q) + (r - 1) /\ n + q - 1 \in Nat /\ r - 1 \in 0 .. q - 1
      BY <1>1, <1>2, <2>2, <3>1, <3>2
    <3>4. u + 1 \in Nat
      BY <1>1
    <3>5. above = u + 1
      BY <3>3, <3>4, QuotientIs
    <3> QED BY <2>2, <3>5
  <2> QED BY <2>1, <2>2
<1>4. n * h = Times(u, BlockSize) + Times(r, h)
  <2>1. Times(u, q) * h = Times(u, Times(q, h))
    BY <1>1 DEF Times
  <2>2. n * h = Times(u, q) * h + r * h
    <3>1. Times(u, q) \in Nat
      BY <1>1, TimesFacts
    <3>2. \A t \in Nat : (t + r) * h = t * h + r * h
      BY <1>1
    <3> QED BY <1>2, <3>1, <3>2
  <2> QED BY <2>1, <2>2 DEF Times
<1>5. Times(r, h) \in 0 .. BlockSize - 1 /\ (r = 0 => Times(r, h) = 0) /\ (r > 0 => Times(r, h) > 0)
  <2>1. Times(r, h) \in Nat /\ (r = 0 => Times(r, h) = 0) /\ (r > 0 => Times(r, h) > 0)
    BY <1>1 DEF Times
  <2>2. Times(r, h) + h <= Times(q, h)
    <3>1. Times(r + 1, h) <= Times(q, h)
      BY <1>1, TimesFacts
    <3>2. Times(r + 1, h) = Times(r, h) + h
      BY <1>1 DEF Times
    <3> QED BY <3>1, <3>2
  <2> QED BY <1>1, <2>1, <2>2
<1>6. n * h \in Nat /\ (n * h) % BlockSize = Times(r, h)
  BY <1>1, <1>4, <1>5, QuotientIs
<1>7. Times(u, BlockSize) \in Nat /\ Times(u + 1, BlockSize) = Times(u, BlockSize) + BlockSize
  <2>1. Times(1, BlockSize) = BlockSize
    BY <1>1 DEF Times
  <2>2. Times(u, BlockSize) \in Nat
    BY <1>1, TimesFacts
  <2>3. Times(u + 1, BlockSize) = Times(u, BlockSize) + Times(1, BlockSize)
    BY <1>1, TimesFacts
  <2> QED BY <2>1, <2>2, <2>3
<1>8. above \in Nat /\ pad = Times(above, BlockSize) /\ n * h <= pad /\ pad < n * h + BlockSize
  <2> DEFINE a == n * h
  <2>1. a = Times(u, BlockSize) + Times(r, h) /\ a \in Nat /\ a % BlockSize = Times(r, h)
        /\ pad = IF a % BlockSize = 0 THEN a ELSE a + BlockSize - (a % BlockSize)
    BY <1>4, <1>6 DEF PadToBlock
  <2> HIDE DEF a, pad, above
  <2>2. /\ pad = Times(above, BlockSize) /\ above \in Nat
        /\ a <= pad /\ pad < a + BlockSize
    <3>1. CASE r = 0
      <4>1. above = u /\ pad = a /\ a = Times(u, BlockSize)
        BY <1>3, <1>5, <1>7, <2>1, <3>1
      <4>2. pad = Times(above, BlockSize) /\ above \in Nat
        BY <1>1, <4>1, Zenon
      <4>3. a \in Nat /\ BlockSize \in Nat \ {0} /\ pad = a
        BY <1>1, <2>1, <4>1
      <4>4. a <= pad /\ pad < a + BlockSize
        BY ONLY <4>3
      <4> QED BY <4>2, <4>4
    <3>2. CASE r # 0
      <4>1. above = u + 1 /\ Times(r, h) \in 1 .. BlockSize - 1
        BY <1>1, <1>3, <1>5, <3>2
      <4>2. pad = a + BlockSize - Times(r, h)
        BY <2>1, <4>1
      <4> QED BY <1>1, <1>7, <2>1, <4>1, <4>2
    <3> QED BY <3>1, <3>2
  <2> QED BY <2>2 DEF a
<1>9. pad % BlockSize = 0 /\ pad \div BlockSize = above
  <2>1. pad = Times(above, BlockSize) + 0 /\ pad \in Nat
    <3>1. Times(above, BlockSize) \in Nat
      BY <1>1, <1>8, TimesFacts
    <3> QED BY <1>8, <3>1
  <2>2. above \in Nat /\ 0 \in 0 .. BlockSize - 1
    BY <1>1, <1>8
  <2> HIDE DEF pad, above
  <2> QED BY <1>1, <2>1, <2>2, QuotientIs
<1>10. (n > 0 => above > 0) /\ (n <= 1 => above = n) /\ (n > 1 /\ q > 1 => above < n)
  <2>1. u = 0 => Times(u, q) = 0
    BY DEF Times
  <2>2. u > 0 => Times(u, q) >= q
    <3>1. u >= 1 => Times(1, q) <= Times(u, q)
      BY <1>1, TimesFacts
    <3>2. Times(1, q) = q
      BY DEF Times
    <3> QED BY <1>1, <3>1, <3>2
  <2>3. Times(u, q) \in Nat /\ (q > 1 => Times(u, q) >= u + u)
    <3>1. q > 1 => Times(u, q) >= Times(u, 2)
      BY <1>1 DEF Times
    <3>2. Times(u, 2) = u + u
      BY <1>1 DEF Times
    <3> QED BY <1>1, <3>1, <3>2, TimesFacts
  <2> HIDE DEF above
  <2>4. n > 0 => above > 0
    BY <1>1, <1>2, <1>3, <2>1
  <2>5. n <= 1 => above = n
    BY <1>1, <1>2, <1>3, <2>1, <2>2, <2>3
  <2>6. n > 1 /\ q > 1 => above < n
    BY <1>1, <1>2, <1>3, <2>1, <2>2, <2>3
  <2> QED BY <2>4, <2>5, <2>6
<1> QED BY <1>8, <1>9, <1>10

--------------------------------------------------------------------------------
(* Recursion                                                                *)

\* A recursion from a number to a smaller one defines a function. Here below[n] is
\* the number after n.
Sizes(below) ==
  {f \in [Nat -> Nat] :
     \A n \in Nat : f[n] = IF below[n] <= 1 THEN below[n] ELSE below[n] + f[below[n]]}

LEMMA Descent ==
  ASSUME NEW below \in [Nat -> Nat], \A n \in Nat : below[n] > 1 => below[n] < n
  PROVE  Sizes(below) # {}
<1> DEFINE Value(f, n) == IF below[n] <= 1 THEN below[n] ELSE below[n] + f[below[n]]
           Upto(N, f) == f \in [0 .. N -> Nat] /\ \A n \in 0 .. N : f[n] = Value(f, n)
           T == {N \in Nat : ~ \E f : Upto(N, f)}
<1>1. ASSUME NEW N \in Nat, NEW M \in Nat, NEW f, NEW g, Upto(N, f), Upto(M, g), NEW n \in 0 .. N,
             n <= M
      PROVE  f[n] = g[n]
  <2> DEFINE D == {k \in Nat : k <= N /\ k <= M /\ f[k] # g[k]}
  <2>1. ASSUME D # {} PROVE FALSE
    <3>1. PICK k \in D : \A j \in D : k <= j
      <4>1. D \in SUBSET Nat
        OBVIOUS
      <4> HIDE DEF D
      <4> QED BY <2>1, <4>1, Least
    <3>2. k \in 0 .. N /\ k \in 0 .. M /\ below[k] \in Nat /\ f[k] # g[k]
      OBVIOUS
    <3>3. f[k] = Value(f, k) /\ g[k] = Value(g, k)
      BY <1>1, <3>2
    <3>4. below[k] > 1
      BY <3>2, <3>3
    <3>5. below[k] < k /\ below[k] \notin D
      BY <3>1, <3>2, <3>4
    <3>6. f[below[k]] = g[below[k]]
      BY <3>2, <3>5
    <3> QED BY <3>2, <3>3, <3>6
  <2>2. n \in Nat /\ n <= N /\ n <= M
    BY <1>1
  <2>3. n \notin D
    <3> HIDE DEF D
    <3> QED BY <2>1
  <2> QED BY <2>2, <2>3
<1>2. ASSUME NEW N \in Nat, NEW h, N = 0 \/ Upto(N - 1, h) PROVE \E f : Upto(N, f)
  <2> DEFINE v == Value(h, N)
             f == [n \in 0 .. N |-> IF n = N THEN v ELSE h[n]]
  <2>1. below[N] \in Nat /\ (below[N] > 1 => below[N] < N)
    OBVIOUS
  <2>2. below[N] > 1 => N # 0 /\ below[N] \in 0 .. N - 1
    BY <2>1
  <2>3. v \in Nat
    <3>1. CASE below[N] <= 1
      BY <2>1, <3>1
    <3>2. CASE below[N] > 1
      <4>1. h[below[N]] \in Nat
        BY <1>2, <2>2, <3>2
      <4> QED BY <2>1, <3>2, <4>1
    <3> QED BY <2>1, <3>1, <3>2
  <2>4. ASSUME NEW n \in 0 .. N, n # N PROVE n \in 0 .. N - 1 /\ N # 0 /\ f[n] = h[n] /\ f[n] \in Nat
    BY <1>2, <2>4
  <2>5. f[N] = v
    OBVIOUS
  <2>6. f \in [0 .. N -> Nat]
    <3>1. \A n \in 0 .. N : f[n] \in Nat
      BY <2>3, <2>4, <2>5
    <3> QED BY <3>1
  <2>7. ASSUME NEW n \in 0 .. N PROVE f[n] = Value(f, n)
    <3>1. below[n] \in Nat /\ (below[n] > 1 => below[n] < n)
      OBVIOUS
    <3>2. CASE n = N
      <4>1. below[N] > 1 => f[below[N]] = h[below[N]]
        BY <2>1, <2>2
      <4> HIDE DEF f
      <4> QED BY <2>5, <3>1, <3>2, <4>1
    <3>3. CASE n # N
      <4>1. n \in 0 .. N - 1 /\ N # 0 /\ f[n] = h[n]
        BY <2>4, <3>3
      <4>2. h[n] = Value(h, n)
        BY <1>2, <4>1
      <4>3. below[n] > 1 => below[n] \in 0 .. N /\ below[n] # N
        BY <3>1
      <4>4. below[n] > 1 => f[below[n]] = h[below[n]]
        BY <2>4, <4>3
      <4> HIDE DEF f
      <4> QED BY <3>1, <4>1, <4>2, <4>4
    <3> QED BY <3>2, <3>3
  <2> HIDE DEF f, Value
  <2> QED BY <2>6, <2>7
<1>3. ASSUME T # {} PROVE FALSE
  <2>1. PICK N \in T : \A M \in T : N <= M
    <3>1. T \in SUBSET Nat
      OBVIOUS
    <3> HIDE DEF T
    <3> QED BY <1>3, <3>1, Least
  <2>2. N = 0 \/ \E h : Upto(N - 1, h)
    <3>1. N # 0 => N - 1 \in Nat /\ ~ (N <= N - 1)
      OBVIOUS
    <3> HIDE DEF Upto
    <3> QED BY <2>1, <3>1
  <2>3. \E f : Upto(N, f)
    <3> HIDE DEF Upto
    <3> QED BY <1>2, <2>2
  <2> HIDE DEF Upto
  <2> QED BY <2>3
<1> DEFINE h == [N \in Nat |-> CHOOSE f : Upto(N, f)]
           g == [n \in Nat |-> h[n][n]]
<1>4. \A N \in Nat : Upto(N, h[N])
  <2> HIDE DEF Upto
  <2> QED BY <1>3
<1>5. \A n \in Nat : n \in 0 .. n /\ h[n][n] \in Nat /\ h[n][n] = Value(h[n], n)
  <2>1. \A n \in Nat : n \in 0 .. n
    OBVIOUS
  <2> HIDE DEF h, Value
  <2> QED BY <1>4, <2>1
<1>6. ASSUME NEW n \in Nat PROVE g[n] = Value(g, n)
  <2>1. below[n] \in Nat /\ (below[n] > 1 => below[n] < n)
    OBVIOUS
  <2>2. below[n] > 1 => h[n][below[n]] = h[below[n]][below[n]]
    <3> HIDE DEF h, Upto
    <3> QED BY <1>1, <1>4, <2>1
  <2>3. below[n] > 1 => g[below[n]] = h[n][below[n]]
    <3> HIDE DEF h
    <3> QED BY <2>1, <2>2
  <2>4. g[n] = Value(h[n], n)
    <3> HIDE DEF h, Value
    <3> QED BY <1>5
  <2> HIDE DEF g, h
  <2> QED BY <2>1, <2>3, <2>4
<1>7. g \in [Nat -> Nat]
  <2> HIDE DEF h, Value
  <2> QED BY <1>5
<1> HIDE DEF g
<1> QED BY <1>6, <1>7 DEF Sizes

\* What TreeAccepted has established of the sizes.
SizesFit ==
  /\ HashSize \in Nat \ {0} /\ HashesPerBlock \in Nat /\ HashesPerBlock >= 2
  /\ BlockSize = Times(HashesPerBlock, HashSize)

LEMMA AcceptedSizes == TreeAccepted => SizesFit
<1> SUFFICES ASSUME TreeAccepted PROVE SizesFit
  OBVIOUS
<1>1. DigestLen[Algorithm] \in Nat
  BY VerityAssumption DEF TreeAccepted
<1>2. HashSize \in Powers
  BY <1>1, NextIsPower DEF HashSize
<1>3. NextPowerOfTwo(BlockSize) = BlockSize /\ BlockSize >= 2 * HashSize
  BY DEF TreeAccepted, IsPowerOfTwo
<1> QED BY <1>2, <1>3, BlockOfHashes, PowersFacts DEF SizesFit, HashesPerBlock

LEMMA AboveFacts ==
  ASSUME SizesFit, NEW n \in Nat
  PROVE  LET pad == PadToBlock(n * HashSize) IN
         /\ Above(n) \in Nat /\ pad = Times(Above(n), BlockSize)
         /\ pad % BlockSize = 0 /\ pad \div BlockSize = Above(n)
         /\ n * HashSize <= pad /\ pad < n * HashSize + BlockSize
         /\ n > 0 => Above(n) > 0
         /\ n <= 1 => Above(n) = n
         /\ n > 1 => Above(n) < n
<1>1. HashesPerBlock \in Nat \ {0} /\ HashesPerBlock > 1
  BY DEF SizesFit
<1> QED BY <1>1, Padding, ZenonT(40) DEF SizesFit, Above

\* The number of blocks computed before anything is read counts those of one level
\* and then those of the levels above it.
LEMMA TreeBlocksFacts ==
  ASSUME SizesFit, NEW n \in Nat
  PROVE  /\ TreeBlocks[n] \in Nat
         /\ TreeBlocks[n] = IF Above(n) <= 1 THEN Above(n) ELSE Above(n) + TreeBlocks[Above(n)]
<1> DEFINE below == [m \in Nat |-> Above(m)]
           Value(f, m) == IF Above(m) <= 1 THEN Above(m) ELSE Above(m) + f[Above(m)]
           IsSize(f) == f = [m \in Nat |-> Value(f, m)]
<1>1. \A m \in Nat : Above(m) \in Nat /\ (Above(m) > 1 => Above(m) < m)
  <2> SUFFICES ASSUME NEW m \in Nat PROVE Above(m) \in Nat /\ (Above(m) > 1 => Above(m) < m)
    OBVIOUS
  <2> DEFINE a == Above(m)
  <2>1. a \in Nat /\ (m <= 1 => a = m) /\ (m > 1 => a < m)
    BY AboveFacts
  <2> HIDE DEF a
  <2>2. a \in Nat /\ (a > 1 => a < m)
    BY <2>1
  <2> QED BY <2>2 DEF a
<1>2. below \in [Nat -> Nat] /\ \A m \in Nat : below[m] = Above(m)
  BY <1>1
<1>3. PICK g : g \in Sizes(below)
  <2>1. \A m \in Nat : below[m] > 1 => below[m] < m
    BY <1>1, <1>2
  <2> HIDE DEF below
  <2> QED BY <1>2, <2>1, Descent
<1>4. IsSize(g)
  <2>1. g \in [Nat -> Nat] /\ \A m \in Nat : g[m] = Value(g, m)
    <3> HIDE DEF below
    <3> QED BY <1>2, <1>3 DEF Sizes
  <2>2. g = [m \in Nat |-> g[m]]
    BY <2>1
  <2> HIDE DEF Value
  <2> QED BY <2>1, <2>2
<1>5. TreeBlocks = CHOOSE f : IsSize(f)
  BY DEF TreeBlocks, Above
<1>6. IsSize(TreeBlocks)
  <2> HIDE DEF IsSize
  <2> QED BY <1>4, <1>5
<1>7. \A m \in Nat : TreeBlocks[m] = Value(TreeBlocks, m)
  <2> HIDE DEF Value
  <2> QED BY <1>6
<1> DEFINE T == {m \in Nat : TreeBlocks[m] \notin Nat}
<1>8. ASSUME T # {} PROVE FALSE
  <2>1. PICK m \in T : \A k \in T : m <= k
    <3>1. T \in SUBSET Nat
      OBVIOUS
    <3> HIDE DEF T
    <3> QED BY <1>8, <3>1, Least
  <2>2. Above(m) \in Nat /\ (Above(m) > 1 => Above(m) < m)
    BY <1>1
  <2>3. TreeBlocks[m] = Value(TreeBlocks, m)
    BY <1>7
  <2>4. Above(m) > 1 /\ TreeBlocks[Above(m)] \notin Nat
    <3> DEFINE a == Above(m)
               t == TreeBlocks[Above(m)]
    <3>1. a \in Nat /\ TreeBlocks[m] = (IF a <= 1 THEN a ELSE a + t) /\ TreeBlocks[m] \notin Nat
      BY <2>2, <2>3
    <3> HIDE DEF a, t
    <3>2. a > 1 /\ t \notin Nat
      BY <3>1
    <3> QED BY <3>2 DEF a, t
  <2>5. Above(m) \in T
    BY <2>2, <2>4
  <2>6. m <= Above(m)
    <3> HIDE DEF T
    <3> QED BY <2>1, <2>5
  <2> QED BY <2>2, <2>4, <2>6
<1> QED BY <1>7, <1>8

\* The bytes of a list of levels.
BytesOf(s) ==
  LET sum[k \in 0 .. Len(s)] == IF k = 0 THEN 0 ELSE sum[k - 1] + s[k]
  IN  sum[Len(s)]

LEMMA BytesOfFacts ==
  ASSUME NEW s \in Seq(Nat)
  PROVE  \E f \in [0 .. Len(s) -> Nat] :
            /\ f[0] = 0 /\ \A k \in 1 .. Len(s) : f[k] = f[k - 1] + s[k]
            /\ BytesOf(s) = f[Len(s)]
<1> DEFINE N == Len(s)
           step == [k \in 1 .. N |-> [n \in Nat |-> n + s[k]]]
           IsSum(f) == f = [k \in 0 .. N |-> IF k = 0 THEN 0 ELSE f[k - 1] + s[k]]
<1>1. N \in Nat /\ \A k \in 1 .. N : s[k] \in Nat
  OBVIOUS
<1>2. step \in Steps(N, Nat)
  BY <1>1 DEF Steps
<1>3. \A k \in 1 .. N, n \in Nat : step[k][n] = n + s[k]
  OBVIOUS
<1>4. PICK g \in [0 .. N -> Nat] : g[0] = 0 /\ \A k \in 1 .. N : g[k] = step[k][g[k - 1]]
  <2> HIDE DEF step, N
  <2>1. Solutions(N, Nat, 0, step) # {}
    BY <1>1, <1>2, Recursion
  <2> QED BY <2>1 DEF Solutions
<1>5. IsSum(g)
  <2>1. \A k \in 0 .. N : g[k] = IF k = 0 THEN 0 ELSE g[k - 1] + s[k]
    <3> SUFFICES ASSUME NEW k \in 0 .. N PROVE g[k] = IF k = 0 THEN 0 ELSE g[k - 1] + s[k]
      OBVIOUS
    <3>1. CASE k = 0
      BY <1>4, <3>1
    <3>2. CASE k # 0
      <4>1. k \in 1 .. N /\ k - 1 \in 0 .. N
        BY <1>1, <3>2
      <4>2. g[k] = step[k][g[k - 1]] /\ g[k - 1] \in Nat
        BY <1>4, <4>1
      <4> HIDE DEF step, N
      <4> QED BY <1>3, <3>2, <4>1, <4>2
    <3> QED BY <3>1, <3>2
  <2> HIDE DEF N
  <2> QED BY <1>4, <2>1
<1> DEFINE sum == CHOOSE f : IsSum(f)
<1>6. IsSum(sum)
  <2> HIDE DEF IsSum
  <2> QED BY <1>5
<1>7. BytesOf(s) = sum[N]
  BY DEF BytesOf
<1> HIDE DEF sum
<1>8. sum[0] = 0 /\ \A k \in 1 .. N : sum[k] = sum[k - 1] + s[k]
  BY <1>1, <1>6, SMTT(20)
<1>9. sum \in [0 .. N -> Nat]
  <2>1. \A k \in 0 .. N : sum[k] \in Nat
    <3>1. \A k \in 1 .. N : sum[k - 1] \in Nat => sum[k] = step[k][sum[k - 1]]
      BY <1>3, <1>8
    <3> HIDE DEF N, step
    <3>2. N \in Nat /\ sum[0] \in Nat
      BY <1>1, <1>8
    <3> QED BY ONLY <1>2, <3>1, <3>2, RecursionTypes
  <2>2. sum = [k \in 0 .. N |-> sum[k]]
    <3> HIDE DEF N
    <3> QED BY <1>6
  <2> HIDE DEF N
  <2> QED BY <2>1, <2>2
<1> QED BY <1>7, <1>8, <1>9

LEMMA BytesOfOneMore ==
  /\ BytesOf(<<>>) = 0
  /\ \A s \in Seq(Nat), e \in Nat :
       BytesOf(s) \in Nat /\ BytesOf(Append(s, e)) = BytesOf(s) + e
<1>1. BytesOf(<<>>) = 0
  <2>1. <<>> \in Seq(Nat) /\ Len(<<>>) = 0
    OBVIOUS
  <2> QED BY <2>1, BytesOfFacts
<1>2. ASSUME NEW s \in Seq(Nat), NEW e \in Nat
      PROVE  BytesOf(s) \in Nat /\ BytesOf(Append(s, e)) = BytesOf(s) + e
  <2> DEFINE N == Len(s)
             t == Append(s, e)
  <2>1. /\ N \in Nat /\ t \in Seq(Nat) /\ Len(t) = N + 1 /\ t[N + 1] = e
        /\ \A k \in 1 .. N : t[k] = s[k] /\ s[k] \in Nat
    OBVIOUS
  <2>2. PICK f \in [0 .. N -> Nat] :
          f[0] = 0 /\ (\A k \in 1 .. N : f[k] = f[k - 1] + s[k]) /\ BytesOf(s) = f[N]
    BY BytesOfFacts
  <2> HIDE DEF t
  <2>3. PICK g \in [0 .. N + 1 -> Nat] :
          g[0] = 0 /\ (\A k \in 1 .. N + 1 : g[k] = g[k - 1] + t[k]) /\ BytesOf(t) = g[N + 1]
    BY <2>1, BytesOfFacts
  <2> HIDE DEF N
  <2> DEFINE T == {k \in 0 .. N : f[k] # g[k]}
  <2>4. ASSUME T # {} PROVE FALSE
    <3>1. PICK k \in T : \A j \in T : k <= j
      <4>1. T \in SUBSET Nat
        OBVIOUS
      <4> HIDE DEF T
      <4> QED BY <2>4, <4>1, Least
    <3>2. k # 0
      BY <2>2, <2>3
    <3>3. k \in 1 .. N /\ k \in 1 .. N + 1 /\ k - 1 \in 0 .. N /\ ~ (k <= k - 1)
      BY <2>1, <3>2
    <3>4. f[k - 1] = g[k - 1]
      BY <3>1, <3>3
    <3> QED BY <2>1, <2>2, <2>3, <3>3, <3>4
  <2>5. f[N] = g[N] /\ f[N] \in Nat
    <3>1. N \in 0 .. N
      BY <2>1
    <3>2. N \notin T
      <4> HIDE DEF T
      <4> QED BY <2>4
    <3> QED BY <3>1, <3>2
  <2>6. g[N + 1] = g[N] + e
    <3>1. N + 1 \in 1 .. N + 1 /\ (N + 1) - 1 = N
      BY <2>1
    <3> QED BY <2>1, <2>3, <3>1
  <2> QED BY <2>2, <2>3, <2>5, <2>6 DEF t
<1> QED BY <1>1, <1>2

--------------------------------------------------------------------------------
(* Building the tree                                                        *)

\* Levels over n blocks of data with hashes of h bytes, none of them the root but
\* perhaps the last.
Stacked(s, n, h) ==
  /\ s \in Seq(Nat)
  /\ \A k \in DOMAIN s :
       LET below == IF k = 1 THEN n ELSE s[k - 1] \div BlockSize IN
       /\ s[k] % BlockSize = 0
       /\ below * h <= s[k] /\ s[k] < below * h + BlockSize
       /\ k < Len(s) => s[k] > BlockSize

LEMMA StackedOneMore ==
  ASSUME NEW s, NEW n, NEW h, NEW e \in Nat, Stacked(s, n, h),
         s # <<>> => s[Len(s)] > BlockSize,
         NEW below, below = (IF s = <<>> THEN n ELSE s[Len(s)] \div BlockSize),
         e % BlockSize = 0, below * h <= e, e < below * h + BlockSize
  PROVE  Stacked(Append(s, e), n, h)
<1> DEFINE N == Len(s)
           t == Append(s, e)
<1>1. s \in Seq(Nat)
  BY DEF Stacked
<1>2. /\ N \in Nat /\ t \in Seq(Nat) /\ Len(t) = N + 1 /\ DOMAIN t = 1 .. N + 1 /\ t[N + 1] = e
      /\ DOMAIN s = 1 .. N /\ \A k \in 1 .. N : t[k] = s[k]
      /\ N = 0 => s = <<>>
      /\ N # 0 => s # <<>>
  BY <1>1
<1> HIDE DEF N, t
<1>3. ASSUME NEW k \in DOMAIN t
      PROVE  LET b == IF k = 1 THEN n ELSE t[k - 1] \div BlockSize IN
             /\ t[k] % BlockSize = 0
             /\ b * h <= t[k] /\ t[k] < b * h + BlockSize
             /\ k < Len(t) => t[k] > BlockSize
  <2>1. CASE k = N + 1
    <3>1. (IF k = 1 THEN n ELSE t[k - 1] \div BlockSize) = below
      <4>1. CASE N = 0
        BY <1>2, <2>1, <4>1
      <4>2. CASE N # 0
        <5>1. k # 1 /\ k - 1 = N /\ N \in 1 .. N
          BY <1>2, <2>1, <4>2
        <5> QED BY <1>2, <4>2, <5>1 DEF N
      <4> QED BY <4>1, <4>2
    <3>2. t[k] = e /\ ~ (k < Len(t))
      BY <1>2, <2>1
    <3> QED BY <3>1, <3>2
  <2>2. CASE k # N + 1
    <3>1. k \in 1 .. N /\ (k # 1 => k - 1 \in 1 .. N)
      BY <1>2, <2>2
    <3>2. t[k] = s[k] /\ (k # 1 => t[k - 1] = s[k - 1])
      BY <1>2, <3>1
    <3>3. LET b == IF k = 1 THEN n ELSE s[k - 1] \div BlockSize IN
          /\ s[k] % BlockSize = 0
          /\ b * h <= s[k] /\ s[k] < b * h + BlockSize
          /\ k < N => s[k] > BlockSize
      BY <1>2, <3>1 DEF Stacked, N
    <3>4. k < Len(t) => s[k] > BlockSize
      <4>1. k < N \/ k = N
        BY <1>2, <3>1
      <4>2. k = N => s[k] > BlockSize
        BY <1>2, <3>1 DEF N
      <4> QED BY <3>3, <4>1, <4>2
    <3> QED BY <3>2, <3>3, <3>4
  <2> QED BY <2>1, <2>2
<1>4. t \in Seq(Nat)
  BY <1>2
<1> QED BY <1>3, <1>4 DEF Stacked, t

\* The blocks written for the levels so far and the blocks still to come, computed
\* as at the beginning but from the last level, are the extent.
Hashing ==
  /\ SizesFit
  /\ Below \in Nat \ {0} /\ hashed \in 0 .. Below
  /\ levels # <<>> => levels[Len(levels)] > BlockSize
  /\ BytesOf(levels) + Times(TreeBlocks[Below], BlockSize) = Times(part.tree.num, BlockSize)

Built ==
  /\ part \in Parts
  /\ Stacked(levels, part.data.num, HashSize)
  /\ pc \in {"begin", "tree"} => levels = <<>> /\ hashed = 0
  /\ pc = "tree" => part.data.num # 0
  /\ pc = "hash" => Hashing
  /\ pc \in {"write", "fec", "generate"} /\ levels # <<>> => levels[Len(levels)] = BlockSize
  /\ pc = "write" => BytesOf(levels) = Times(part.tree.num, BlockSize)
  /\ result # "tree size"

LEMMA BuiltFills == Built => TreeFillsItsExtent
<1> SUFFICES ASSUME Built PROVE TreeFillsItsExtent
  OBVIOUS
<1>1. LevelsHashTheLevelBelow
  <2> SUFFICES ASSUME NEW k \in DOMAIN levels
      PROVE LET below == IF k = 1 THEN part.data.num ELSE levels[k - 1] \div BlockSize IN
            /\ levels[k] % BlockSize = 0
            /\ below * HashSize <= levels[k] /\ levels[k] < below * HashSize + BlockSize
            /\ k < Len(levels) => levels[k] > BlockSize
            /\ k = Len(levels) /\ pc \in {"write", "fec", "generate"} => levels[k] = BlockSize
    BY DEF LevelsHashTheLevelBelow
  <2>1. LET below == IF k = 1 THEN part.data.num ELSE levels[k - 1] \div BlockSize IN
        /\ levels[k] % BlockSize = 0
        /\ below * HashSize <= levels[k] /\ levels[k] < below * HashSize + BlockSize
        /\ k < Len(levels) => levels[k] > BlockSize
    BY DEF Built, Stacked
  <2>2. levels # <<>>
    OBVIOUS
  <2> QED BY <2>1, <2>2 DEF Built
<1>2. TreeBytes = BytesOf(levels)
  BY DEF TreeBytes, BytesOf
<1> QED BY <1>1, <1>2 DEF Built, TreeFillsItsExtent, Times

LEMMA SameSizes ==
  ASSUME part' = part
  PROVE  HashSize' = HashSize /\ TreeBlocks' = TreeBlocks /\ (SizesFit' <=> SizesFit)
BY DEF HashSize, Algorithm, HashesPerBlock, TreeBlocks, SizesFit

\* A step that builds nothing.
LEMMA NothingBuilt ==
  ASSUME Built, part' = part, levels' = levels, result' # "tree size",
         \/ pc' = pc /\ hashed' = hashed
         \/ pc' = "done"
         \/ pc' \in {"fec", "generate"} /\ pc \in {"begin", "write", "fec"}
  PROVE  Built'
<1>1. HashSize' = HashSize /\ TreeBlocks' = TreeBlocks /\ (SizesFit' <=> SizesFit)
  BY SameSizes
<1>2. BytesOf(levels)' = BytesOf(levels) /\ Below' = Below
  BY DEF BytesOf, Below
<1>3. Stacked(levels, part.data.num, HashSize)'
  BY <1>1 DEF Built, Stacked
<1>4. pc' = pc /\ hashed' = hashed => (Hashing' <=> Hashing)
  BY <1>1, <1>2 DEF Hashing
<1> QED BY <1>2, <1>3, <1>4 DEF Built

LEMMA BeginHashing ==
  ASSUME Built, CheckTree, part.data.num \in Nat PROVE Built'
<1>1. CASE TreeAccepted
  <2>1. part' = part /\ levels' = <<>> /\ levels = <<>> /\ hashed' = 0 /\ pc' = "hash"
        /\ result' = result /\ part.data.num # 0
    BY <1>1 DEF CheckTree, Goto, Built
  <2>2. SizesFit /\ TreeBlocks[part.data.num] = part.tree.num
    BY <1>1, AcceptedSizes DEF TreeAccepted
  <2>3. Below' = part.data.num
    BY <2>1 DEF Below
  <2>4. BytesOf(levels)' = 0
    BY <2>1, BytesOfOneMore
  <2>5. HashSize' = HashSize /\ TreeBlocks' = TreeBlocks /\ SizesFit'
    BY <2>1, <2>2, SameSizes
  <2>6. Times(part.tree.num, BlockSize) \in Nat
    <3>1. part.tree.num \in Nat /\ BlockSize \in Nat
      BY <2>2, TreeBlocksFacts, ExtentsAssumption
    <3> QED BY <3>1, TimesFacts
  <2>7. BytesOf(levels)' + Times(TreeBlocks'[Below'], BlockSize) = Times(part'.tree.num, BlockSize)
    BY <2>1, <2>2, <2>3, <2>4, <2>5, <2>6
  <2>8. Hashing'
    BY <2>1, <2>3, <2>5, <2>7 DEF Hashing
  <2>9. Stacked(levels, part.data.num, HashSize)'
    BY <2>1, <2>5 DEF Built, Stacked
  <2> QED BY <2>1, <2>8, <2>9 DEF Built
<1>2. CASE ~ TreeAccepted
  BY <1>2, NothingBuilt DEF CheckTree, Return
<1> QED BY <1>1, <1>2

LEMMA OneMoreLevel ==
  ASSUME Built, LevelBuilt PROVE Built'
<1> DEFINE n == Below
           a == Above(n)
           pad == PadToBlock(n * HashSize)
<1>1. /\ pc = "hash" /\ hashed = n /\ part' = part /\ result' = result /\ hashed' = 0
      /\ levels' = Append(levels, pad)
      /\ pc' = IF pad \div BlockSize <= 1 THEN "write" ELSE "hash"
  BY DEF LevelBuilt, Root
<1>2. Hashing /\ Stacked(levels, part.data.num, HashSize)
  BY <1>1 DEF Built
<1>3. SizesFit /\ n \in Nat \ {0} /\ BlockSize \in Nat \ {0}
  BY <1>2, ExtentsAssumption DEF Hashing
<1>4. /\ a \in Nat /\ pad = Times(a, BlockSize) /\ pad % BlockSize = 0 /\ pad \div BlockSize = a
      /\ n * HashSize <= pad /\ pad < n * HashSize + BlockSize /\ a > 0
  <2>1. n \in Nat /\ n > 0
    BY <1>3
  <2> HIDE DEF n
  <2> QED BY <1>3, <2>1, AboveFacts
<1>5. n = IF levels = <<>> THEN part.data.num ELSE levels[Len(levels)] \div BlockSize
  BY DEF Below
<1>6. levels # <<>> => levels[Len(levels)] > BlockSize
  BY <1>2 DEF Hashing
<1>7. BytesOf(levels) + Times(TreeBlocks[n], BlockSize) = Times(part.tree.num, BlockSize)
  BY <1>2 DEF Hashing
<1>8. TreeBlocks[n] = (IF a <= 1 THEN a ELSE a + TreeBlocks[a]) /\ TreeBlocks[a] \in Nat
  <2>1. n \in Nat /\ a \in Nat
    BY <1>3, <1>4
  <2> HIDE DEF n
  <2> QED BY <1>3, <2>1, TreeBlocksFacts
<1> HIDE DEF n, a, pad
<1>9. pad \in Nat
  BY <1>3, <1>4, TimesFacts
<1>10. Stacked(levels', part.data.num, HashSize)
  BY <1>1, <1>2, <1>4, <1>5, <1>6, <1>9, StackedOneMore
<1>11. levels \in Seq(Nat) /\ levels' \in Seq(Nat)
  BY <1>2, <1>10 DEF Stacked
<1>12. levels' # <<>> /\ levels'[Len(levels')] = pad
  BY <1>1, <1>9, <1>11
<1>13. BytesOf(levels') = BytesOf(levels) + pad /\ BytesOf(levels) \in Nat
  BY <1>1, <1>9, <1>11, BytesOfOneMore
<1>14. HashSize' = HashSize /\ TreeBlocks' = TreeBlocks /\ (SizesFit' <=> SizesFit)
  BY <1>1, SameSizes
<1>15. BytesOf(levels)' = BytesOf(levels') /\ Below' = a
  BY <1>4, <1>12 DEF BytesOf, Below
<1>16. CASE a <= 1
  <2>1. a = 1 /\ pc' = "write"
    BY <1>1, <1>4, <1>16
  <2>2. pad = BlockSize
    BY <1>3, <1>4, <2>1 DEF Times
  <2>3. BytesOf(levels)' = Times(part.tree.num, BlockSize)
    <3>1. TreeBlocks[n] = a
      BY <1>8, <1>16
    <3> QED BY <1>4, <1>7, <1>13, <1>15, <3>1
  <2> QED BY <1>1, <1>10, <1>12, <1>14, <2>1, <2>2, <2>3 DEF Built
<1>17. CASE a > 1
  <2>1. pc' = "hash"
    BY <1>1, <1>4, <1>17
  <2>2. pad > BlockSize
    <3>1. Times(2, BlockSize) <= Times(a, BlockSize)
      BY <1>3, <1>4, <1>17, TimesFacts
    <3>2. Times(2, BlockSize) = BlockSize + BlockSize
      BY <1>3 DEF Times
    <3> QED BY <1>3, <1>4, <1>9, <3>1, <3>2
  <2>3. BytesOf(levels)' + Times(TreeBlocks[a], BlockSize) = Times(part.tree.num, BlockSize)
    <3>1. TreeBlocks[n] = a + TreeBlocks[a]
      BY <1>4, <1>8, <1>17
    <3>2. Times(TreeBlocks[n], BlockSize) = Times(a, BlockSize) + Times(TreeBlocks[a], BlockSize)
      <4>1. BlockSize \in Nat
        BY <1>3
      <4>2. a \in Nat /\ TreeBlocks[a] \in Nat
        BY <1>4, <1>8
      <4>3. Times(a + TreeBlocks[a], BlockSize)
              = Times(a, BlockSize) + Times(TreeBlocks[a], BlockSize)
        BY ONLY <4>1, <4>2, TimesFacts, ZenonT(40)
      <4> QED BY <3>1, <4>3
    <3>3. Times(TreeBlocks[a], BlockSize) \in Nat
      BY <1>3, <1>8, TimesFacts
    <3> QED BY <1>4, <1>7, <1>9, <1>13, <1>15, <3>2, <3>3
  <2>4. Hashing'
    BY <1>1, <1>3, <1>4, <1>12, <1>14, <1>15, <2>2, <2>3 DEF Hashing
  <2> QED BY <1>1, <1>10, <1>14, <2>1, <2>4 DEF Built
<1> QED BY <1>4, <1>16, <1>17

LEMMA InitBuilt == Init => Built
BY DEF Init, Built, Stacked

LEMMA NextBuilt == Built /\ [Next]_vars => Built'
<1> SUFFICES ASSUME Built, [Next]_vars PROVE Built'
  OBVIOUS
<1>1. CASE Cancel
  BY <1>1, NothingBuilt DEF Cancel, Built
<1>2. CASE Cancelled
  BY <1>2, NothingBuilt DEF Cancelled, Return
<1>3. CASE Begin
  <2>1. CASE pc' # "tree"
    BY <1>3, <2>1, NothingBuilt DEF Begin, Return, Goto, Built
  <2>2. CASE pc' = "tree"
    <3>1. /\ part' = part /\ levels' = <<>> /\ hashed' = 0 /\ result' = result
          /\ part.data.num # 0
      BY <1>3, <2>2 DEF Begin, Return, Goto, Built
    <3>2. Stacked(levels, part.data.num, HashSize)'
      BY <3>1 DEF Stacked
    <3> QED BY <2>2, <3>1, <3>2 DEF Built
  <2> QED BY <2>1, <2>2
<1>4. CASE CheckTree
  <2>1. part.data.num \in Nat
    <3>1. part.data \in AnyExtent /\ MaxInt \in Nat
      BY PartTypes, ExtentsAssumption DEF Built
    <3> QED BY <3>1 DEF AnyExtent, Word
  <2> QED BY <1>4, <2>1, BeginHashing
<1>5. CASE HashBlock
  <2>1. /\ pc = "hash" /\ pc' = pc /\ part' = part /\ levels' = levels /\ result' = result
        /\ hashed < Below /\ hashed' = hashed + 1
    BY <1>5 DEF HashBlock
  <2>2. Hashing
    BY <2>1 DEF Built
  <2>3. /\ HashSize' = HashSize /\ TreeBlocks' = TreeBlocks /\ (SizesFit' <=> SizesFit)
        /\ BytesOf(levels)' = BytesOf(levels) /\ Below' = Below
    BY <2>1, SameSizes DEF BytesOf, Below
  <2>4. hashed' \in 0 .. Below
    BY <2>1, <2>2 DEF Hashing
  <2>5. Hashing'
    BY <2>1, <2>2, <2>3, <2>4 DEF Hashing
  <2>6. Stacked(levels, part.data.num, HashSize)'
    BY <2>1, <2>3 DEF Built, Stacked
  <2> QED BY <2>1, <2>5, <2>6 DEF Built
<1>6. CASE ReadFails
  BY <1>6, NothingBuilt DEF ReadFails, Return
<1>7. CASE LevelBuilt
  BY <1>7, OneMoreLevel
<1>8. CASE WriteTree
  <2>1. pc = "write" /\ BytesOf(levels) = part.tree.num * BlockSize
    BY <1>8 DEF WriteTree, Built, Times
  <2>2. TreeBytes = part.tree.num * BlockSize
    BY <2>1 DEF TreeBytes, BytesOf
  <2>3. /\ part' = part /\ levels' = levels /\ pc' \in {"fec", "done"}
        /\ result' # "tree size"
    BY <1>8, <2>2 DEF WriteTree, Return, Built
  <2> QED BY <2>1, <2>3, NothingBuilt
<1>9. CASE CheckFec
  BY <1>9, NothingBuilt DEF CheckFec, Return, Goto, Built
<1>10. CASE Generate
  BY <1>10, NothingBuilt DEF Generate
<1>11. CASE UNCHANGED vars
  BY <1>11, NothingBuilt DEF vars, Built
<1> QED
  BY <1>1, <1>2, <1>3, <1>4, <1>5, <1>6, <1>7, <1>8, <1>9, <1>10, <1>11 DEF Next

\* The size of the tree computed before anything is read (verity.go:49-59) is the
\* size of the levels that are built, each of which hashes the one below it: the
\* comparison of line 108 never fails, for any manifest, digest and block size.
THEOREM TreeFills == Spec => []TreeFillsItsExtent
BY InitBuilt, NextBuilt, BuiltFills, PTL DEF Spec
================================================================================
