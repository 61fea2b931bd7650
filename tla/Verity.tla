-------------------------------- MODULE Verity --------------------------------
(***************************************************************************)
(* writeVerity (payload/verity.go) on one partition: what writeHashTree    *)
(* and writeFEC demand of the extents in the manifest, the levels of the   *)
(* dm-verity hash tree block by block, and its single write.  Generating   *)
(* the parity is module FecPool's; here the call is made and ends somehow. *)
(*                                                                         *)
(* A partition has extents tree, data, fec and fecData ([start, num], all  *)
(* zero when the manifest has none), algorithm, roots and its new size.    *)
(***************************************************************************)
EXTENDS Integers, Sequences, Extents

CONSTANTS
  Parts,                   \* partitions considered
  DigestLen,               \* digest length of the known algorithms
  NoFecs,                  \* the values of opts.noFEC considered
  MinFecRoots, MaxFecRoots,
  CodewordLen, DefaultBatchRounds, BlockBytes  \* see FecParams

Fec == INSTANCE FecParams

ExtentType == [start : 0 .. 2 * MaxInt + 1, num : 0 .. 2 * MaxInt + 1]

PartType ==
  [tree : ExtentType, data : ExtentType, fec : ExtentType, fecData : ExtentType,
   algorithm : STRING, roots : Nat, size : 0 .. 2 * MaxInt + 1]

ASSUME VerityAssumption ==
  /\ "sha1" \in DOMAIN DigestLen
  /\ \A p \in Parts : p \in PartType
  /\ NoFecs \subseteq BOOLEAN
  /\ DigestLen \in [DOMAIN DigestLen -> Nat \ {0}]
  /\ CodewordLen \in Nat /\ BlockBytes \in Nat \ {0} /\ DefaultBatchRounds \in Nat \ {0}
  /\ 0 < MinFecRoots /\ MinFecRoots <= MaxFecRoots /\ MinFecRoots \in Nat /\ MaxFecRoots \in Nat
  /\ MaxFecRoots < CodewordLen /\ MaxFecRoots <= BlockBytes

VARIABLES
  part,
  noFec,      \* opts.noFEC
  pc,         \* "begin", "tree", "hash", "write", "fec", "generate" or "done"
  cancelled,  \* the context is done
  levels,     \* bytes of the levels built so far, the lowest first
  hashed,     \* blocks hashed for the level being built
  onDisk,     \* [tree, parity]: "old", "torn" or "new"
  result      \* "none", "ok", "skipped", or why writeVerity failed

vars == <<part, noFec, pc, cancelled, levels, hashed, onDisk, result>>

--------------------------------------------------------------------------------
(* Extents in the manifest                                                  *)

Block(e) == e.start .. e.start + e.num - 1

\* Mutant of Overlap: touching only counts when one starts inside the other.
OverlapStart(a, b) ==
  a.num # 0 /\ b.num # 0 /\ b.start <= a.start /\ a.start < Wrap(b.start + b.num)

Overlap(a, b) ==
  /\ a.num # 0 /\ b.num # 0
  /\ a.start < Wrap(b.start + b.num) /\ b.start < Wrap(a.start + a.num)

\* Mutant of EndsInside: the start is left out.
EndsInsideFromZero(e, size) == Wrap(e.num * BlockSize) <= size

EndsInside(e, size) == Wrap((e.start + e.num) * BlockSize) <= size

NextPowerOfTwo(n) ==
  LET double[p \in Nat \ {0}] == IF p >= n THEN p ELSE double[2 * p] IN double[1]

\* An absent algorithm means sha1 (lines 26-29).
Algorithm == IF part.algorithm = "" THEN "sha1" ELSE part.algorithm

HashSize == NextPowerOfTwo(DigestLen[Algorithm])

IsPowerOfTwo(n) == NextPowerOfTwo(n) = n

HashesPerBlock == BlockSize \div HashSize

\* Blocks of the tree over n blocks, one level after the other (lines 49-56).
TreeBlocks ==
  LET size[n \in Nat] ==
        LET above == (n + HashesPerBlock - 1) \div HashesPerBlock
        IN  IF above <= 1 THEN above ELSE above + size[above]
  IN  size

TreeAccepted ==
  /\ Algorithm \in DOMAIN DigestLen
  /\ BlockSize >= 2 * HashSize /\ IsPowerOfTwo(BlockSize)
  /\ ValidExtents(<<part.tree, part.data>>)
  /\ EndsInside(part.tree, part.size) /\ EndsInside(part.data, part.size)
  /\ ~ Overlap(part.tree, part.data)
  /\ TreeBlocks[part.data.num] = part.tree.num
  /\ part.tree.num <= MaxInt \div BlockSize

\* fec.Params of a partition; fecBatchRounds is the default outside tests.
FecParameters(p) ==
  [dataBlocks |-> p.fecData.num, roots |-> p.roots, blockSize |-> BlockSize, batchRounds |-> 0]

\* Mutant of FecAccepted: the size of the FEC extent is not compared.
FecAcceptedAnySize(p) ==
  /\ ValidExtents(<<p.fec, p.fecData, p.tree>>)
  /\ p.fecData.num # 0 /\ BlockSize = BlockBytes
  /\ p.roots \in MinFecRoots .. MaxFecRoots
  /\ ~ Overlap(p.fec, p.fecData) /\ ~ Overlap(p.fec, p.tree)
  /\ EndsInside(p.fecData, p.size) /\ EndsInside(p.fec, p.size)

FecAccepted(p) ==
  /\ ValidExtents(<<p.fec, p.fecData, p.tree>>)
  /\ p.fecData.num # 0
  /\ BlockSize = BlockBytes
  /\ p.roots \in MinFecRoots .. MaxFecRoots
  /\ p.fecData.num <= MaxInt
  /\ p.fec.num = Wrap(Fec!Rounds(FecParameters(p)) * p.roots)
  /\ ~ Overlap(p.fec, p.fecData) /\ ~ Overlap(p.fec, p.tree)
  /\ EndsInside(p.fecData, p.size) /\ EndsInside(p.fec, p.size)

--------------------------------------------------------------------------------
(* writeVerity                                                              *)

Init ==
  /\ part \in Parts /\ noFec \in NoFecs
  /\ pc = "begin" /\ cancelled = FALSE
  /\ levels = <<>> /\ hashed = 0
  /\ onDisk = [tree |-> "old", parity |-> "old"]
  /\ result = "none"

Cancel ==
  /\ pc # "done" /\ ~ cancelled
  /\ cancelled' = TRUE
  /\ UNCHANGED <<part, noFec, pc, levels, hashed, onDisk, result>>

Return(r) == pc' = "done" /\ result' = r /\ UNCHANGED <<part, noFec, cancelled, levels, hashed, onDisk>>

Goto(label) == pc' = label /\ UNCHANGED <<part, noFec, cancelled, levels, hashed, onDisk, result>>


Begin ==
  /\ pc = "begin" /\ ~ cancelled
  /\ IF part.tree.num = 0 THEN Goto("fec")
     ELSE IF part.data.num = 0 THEN Return("no tree data")
     ELSE Goto("tree")

CheckTree == pc = "tree" /\ IF TreeAccepted THEN Goto("hash") ELSE Return("tree extent")

\* Blocks under the level being built: data, or the level built last.
Below == IF levels = <<>> THEN part.data.num ELSE levels[Len(levels)] \div BlockSize

\* ctx.Err(): on entry, before each block that is hashed, and before the write.
Cancelled ==
  /\ cancelled
  /\ pc \in {"begin", "write"} \/ (pc = "hash" /\ hashed < Below)
  /\ Return("cancelled")

PadToBlock(n) == IF n % BlockSize = 0 THEN n ELSE n + BlockSize - (n % BlockSize)

HashBlock ==
  /\ pc = "hash" /\ ~ cancelled
  /\ hashed < Below
  /\ hashed' = hashed + 1
  /\ UNCHANGED <<part, noFec, pc, cancelled, levels, onDisk, result>>

\* Reading a block of data from the image fails; the levels are in memory.
ReadFails == pc = "hash" /\ ~ cancelled /\ levels = <<>> /\ hashed < Below /\ Return("io")

\* Mutant of Root: the level of two blocks is taken for the root.
RootEarly(bytes) == bytes \div BlockSize <= 2

Root(bytes) == bytes \div BlockSize <= 1

\* Mutant of LevelBuilt: only the first level is kept.
LevelBuiltForgotten ==
  /\ pc = "hash" /\ hashed = Below
  /\ levels' = IF levels = <<>> THEN <<PadToBlock(hashed * HashSize)>> ELSE levels
  /\ hashed' = 0
  /\ pc' = IF Root(levels'[Len(levels')]) THEN "write" ELSE "hash"
  /\ UNCHANGED <<part, noFec, cancelled, onDisk, result>>

LevelBuilt ==
  /\ pc = "hash" /\ hashed = Below
  /\ levels' = Append(levels, PadToBlock(hashed * HashSize))
  /\ hashed' = 0
  /\ pc' = IF Root(PadToBlock(hashed * HashSize)) THEN "write" ELSE "hash"
  /\ UNCHANGED <<part, noFec, cancelled, onDisk, result>>

TreeBytes ==
  LET sum[k \in 0 .. Len(levels)] == IF k = 0 THEN 0 ELSE sum[k - 1] + levels[k]
  IN  sum[Len(levels)]

\* Mutant of WriteTree: a failed write is only found out later.
WriteTreeUnchecked ==
  /\ pc = "write" /\ ~ cancelled
  /\ \E state \in {"new", "torn"} : onDisk' = [onDisk EXCEPT !.tree = state]
  /\ pc' = "fec"
  /\ UNCHANGED <<part, noFec, cancelled, levels, hashed, result>>

\* The whole tree at once; a write that fails may have written a part of it.
WriteTree ==
  /\ pc = "write" /\ ~ cancelled
  /\ IF TreeBytes # part.tree.num * BlockSize THEN Return("tree size")
     ELSE \E state \in {"new", "torn"} :
            /\ onDisk' = [onDisk EXCEPT !.tree = state]
            /\ IF state = "new" THEN pc' = "fec" /\ UNCHANGED result
               ELSE pc' = "done" /\ result' = "io"
            /\ UNCHANGED <<part, noFec, cancelled, levels, hashed>>

CheckFec ==
  /\ pc = "fec"
  /\ IF part.fec.num = 0 THEN Return("ok")
     ELSE IF noFec THEN Return("skipped")
     ELSE IF FecAccepted(part) THEN Goto("generate")
     ELSE Return("fec extent")

\* fec.Generate: completes, is cancelled, or fails with part of the parity written.
Generate ==
  /\ pc = "generate"
  /\ \/ onDisk' = [onDisk EXCEPT !.parity = "new"] /\ result' = "ok"
     \/ \E state \in {"old", "torn"} :
          /\ onDisk' = [onDisk EXCEPT !.parity = state]
          /\ result' = IF cancelled THEN "cancelled" ELSE "io"
  /\ pc' = "done"
  /\ UNCHANGED <<part, noFec, cancelled, levels, hashed>>

Next ==
  \/ Cancel \/ Cancelled \/ Begin \/ CheckTree \/ HashBlock \/ ReadFails \/ LevelBuilt
  \/ WriteTree \/ CheckFec \/ Generate

Spec == Init /\ [][Next]_vars /\ WF_vars(Next)

--------------------------------------------------------------------------------
(* Properties                                                               *)

\* Every level has room for one padded digest of each block below it, none has a
\* block too many, and only the last is a single block: the root.
LevelsHashTheLevelBelow ==
  \A k \in DOMAIN levels :
    LET below == IF k = 1 THEN part.data.num ELSE levels[k - 1] \div BlockSize IN
    /\ levels[k] % BlockSize = 0
    /\ below * HashSize <= levels[k] /\ levels[k] < below * HashSize + BlockSize
    /\ k < Len(levels) => levels[k] > BlockSize
    /\ k = Len(levels) /\ pc \in {"write", "fec", "generate"} => levels[k] = BlockSize

\* The size computed before anything is read (verity.go:49-59) is the size of the
\* tree that is built, whose levels are as dm-verity has them: the comparison of
\* line 108 never fails.
TreeFillsItsExtent ==
  /\ LevelsHashTheLevelBelow
  /\ pc = "write" => TreeBytes = part.tree.num * BlockSize
  /\ result # "tree size"

\* What is about to be written, tree or parity, lies inside the new image and on
\* no block it is computed from, nor the parity on the tree, in exact arithmetic.
WritesAreApart ==
  LET Inside(e) == \A b \in Block(e) : (b + 1) * BlockSize <= part.size
      Apart(a, b) == Block(a) \cap Block(b) = {}
  IN  /\ pc \in {"hash", "write"} =>
           Inside(part.tree) /\ Inside(part.data) /\ Apart(part.tree, part.data)
      /\ pc = "generate" => /\ Inside(part.fec) /\ Inside(part.fecData)
                            /\ Apart(part.fec, part.fecData) /\ Apart(part.fec, part.tree)

\* fec.Generate accepts every partition writeFEC accepts, and the parity it makes
\* is exactly as long as the FEC extent.
AcceptedFecIsValid ==
  pc = "generate" =>
    LET p == FecParameters(part) IN
    /\ Fec!Valid(p)
    /\ Fec!ParityBytes(p) = part.fec.num * BlockSize

\* Success means a new tree wherever the manifest has one and new parity unless it
\* was not asked for; a cancelled or refused tree leaves the image as it was.
OutcomeMatchesImage ==
  pc = "done" =>
    /\ result \in {"ok", "skipped"} => onDisk.tree = (IF part.tree.num = 0 THEN "old" ELSE "new")
    /\ result = "ok" => onDisk.parity = (IF part.fec.num = 0 THEN "old" ELSE "new")
    /\ result \in {"tree extent", "no tree data"} => onDisk = [tree |-> "old", parity |-> "old"]
    /\ onDisk.tree = "torn" => result = "io"
    /\ onDisk.parity # "old" => onDisk.tree # "torn" /\ FecAccepted(part)

\* Building the levels ends, at any size of the data, and so does writeVerity.
Terminates == <>(pc = "done")
================================================================================
