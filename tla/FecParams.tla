------------------------------- MODULE FecParams -------------------------------
(***************************************************************************)
(* The geometry of dm-verity FEC (internal/fec/fec.go, type Params): how   *)
(* many parity rounds a partition has, how the rounds are cut into batches *)
(* for the workers of Generate, and which data block feeds symbol j of     *)
(* round r.                                                                *)
(*                                                                         *)
(* A parameter record p has the fields of the Go struct: dataBlocks,       *)
(* roots, blockSize, batchRounds.                                          *)
(***************************************************************************)
EXTENDS Integers

CONSTANTS
  CodewordLen,         \* symbols of one Reed-Solomon codeword: 255
  DefaultBatchRounds,  \* rounds of a batch when Params leaves it open: 128
  BlockBytes,          \* the only supported block size: 4096
  MaxInt               \* math.MaxInt64, also the largest int: 2^63 - 1

ASSUME FecConstantsAssumption ==
  /\ CodewordLen \in Nat /\ CodewordLen >= 2
  /\ DefaultBatchRounds \in Nat \ {0}
  /\ BlockBytes \in Nat \ {0}
  /\ MaxInt \in Nat

ParamsType == [dataBlocks : Int, roots : Int, blockSize : Nat, batchRounds : Int]

\* a / b, plus one when b does not divide a: the shape of Rounds and Batches.
CeilDiv(a, b) == IF a % b = 0 THEN a \div b ELSE (a \div b) + 1

\* Data symbols of a codeword; Encoder.DataLen returns the same number.
RsN(p) == CodewordLen - p.roots

Rounds(p) == CeilDiv(p.dataBlocks, RsN(p))

BatchRounds(p) == IF p.batchRounds <= 0 THEN DefaultBatchRounds ELSE p.batchRounds

\* Mutant of Batches: the last, incomplete batch is forgotten.
BatchesFloor(p) == Rounds(p) \div BatchRounds(p)

Batches(p) == CeilDiv(Rounds(p), BatchRounds(p))

ParityBytes(p) == Rounds(p) * p.roots * p.blockSize

\* Rounds for which Generate sizes the buffers of a worker.
BufferRounds(p) == IF BatchRounds(p) < Rounds(p) THEN BatchRounds(p) ELSE Rounds(p)

\* Validate. The order of the conjuncts is the order of the checks: the later
\* ones divide by quantities the earlier ones have bounded.
Valid(p) ==
  /\ p.blockSize = BlockBytes
  /\ p.roots \in 1 .. CodewordLen - 1
  /\ p.dataBlocks > 0
  /\ p.batchRounds >= 0
  /\ p.dataBlocks <= MaxInt \div p.blockSize
  /\ Rounds(p) <= (MaxInt \div p.blockSize) \div p.roots
  /\ BufferRounds(p) <= (MaxInt \div p.blockSize) \div p.roots

--------------------------------------------------------------------------------
(* generateBatch: the rounds of a batch and the blocks behind them          *)

BatchStart(p, b) == b * BatchRounds(p)

BatchWidth(p, b) ==
  IF Rounds(p) - BatchStart(p, b) < BatchRounds(p)
  THEN Rounds(p) - BatchStart(p, b)
  ELSE BatchRounds(p)

BatchSpan(p, b) == BatchStart(p, b) .. BatchStart(p, b) + BatchWidth(p, b) - 1

RoundSet(p) == 0 .. Rounds(p) - 1

BatchSet(p) == 0 .. Batches(p) - 1

\* The data block that is symbol j of round r.
BlockOf(p, r, j) == j * Rounds(p) + r

\* Blocks of symbol j that exist for batch b; the rest of the buffer is zeroed.
Have(p, b, j) ==
  LET first == BlockOf(p, BatchStart(p, b), j)
  IN  CASE first >= p.dataBlocks -> 0
        [] p.dataBlocks - first \in 1 .. BatchWidth(p, b) -> p.dataBlocks - first
        [] OTHER -> BatchWidth(p, b)
================================================================================
