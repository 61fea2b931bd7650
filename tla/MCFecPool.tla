------------------------------- MODULE MCFecPool -------------------------------
(* An instance of FecPool for TLC, which also checks the invariant of the proofs. *)
EXTENDS FecPoolProofs

\* Codewords of 4 symbols, 2 of them parity: 2 data symbols.
MCParams ==
  [c \in Calls |->
     CASE c = "system" -> [dataBlocks |-> 5, roots |-> 2, blockSize |-> 4, batchRounds |-> 2]
       [] c = "vendor" -> [dataBlocks |-> 2, roots |-> 2, blockSize |-> 4, batchRounds |-> 0]
       [] OTHER        -> [dataBlocks |-> 4, roots |-> 4, blockSize |-> 4, batchRounds |-> 0]]
================================================================================
