---------------------------- MODULE MCReedSolomon -----------------------------
(* Instance of ReedSolomon: the field of the code, with words shortened to 31 *)
(* of its 255 symbols.                                                        *)
EXTENDS ReedSolomon

Params(blocks, roots, blockSize, batchRounds) ==
  [dataBlocks |-> blocks, roots |-> roots, blockSize |-> blockSize, batchRounds |-> batchRounds]

Mixture(len, a) == [i \in 0 .. len - 1 |-> (i * i + a * i + 91) % 256]

\* Data: a single symbol at one place, and a mixture of many symbols.
Patterns(len) ==
  {[i \in 0 .. len - 1 |-> IF i = k THEN s ELSE 0] : k \in 0 .. len - 1, s \in {1, 214}}
    \cup {Mixture(len, 7)}

\* Few data symbols to a word: one to four rounds in batches of one to three, the
\* last one narrower or not, with and without padding in the last symbols.
Short ==
  UNION {[p : {Params(n, r, 2, w)}, data : Patterns(2 * n)] :
           n \in {1, 4, 7}, r \in {24, 28, 29}, w \in {0, 1, 3}}

\* Many data symbols, and the fewest roots writeFEC accepts.
Long ==
  UNION {[p : {Params(n, r, 2, w)}, data : {Mixture(2 * n, a) : a \in {0, 130}}] :
           n \in {5, 20, 70}, r \in {2, 3}, w \in {0, 1}}

MCInputs == Short \cup Long
================================================================================
