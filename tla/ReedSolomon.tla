----------------------------- MODULE ReedSolomon ------------------------------
(***************************************************************************)
(* The parity bytes themselves: the Reed-Solomon encoder (internal/fec/    *)
(* rs.go) as the worker of generateBatch (fec.go) drives it, batch after   *)
(* batch through the same two buffers, against the reference encoder the   *)
(* tests compare it with (internal/fec/fectest).                           *)
(*                                                                         *)
(* Scheduling, failures and cancellation are FecPool's; here one worker    *)
(* runs all batches, which is what decides every byte (FecPool shows that  *)
(* a batch is written once, by one worker).                                *)
(*                                                                         *)
(* A symbol is a byte, the highest bit of which is HighBit.  A polynomial  *)
(* over the field is a sequence of symbols, the highest coefficient first, *)
(* except for GeneratorPoly, which has the lowest first as in the code.    *)
(***************************************************************************)
EXTENDS Integers, Sequences, FiniteSets, FecParams

CONSTANTS
  HighBit,       \* 0x80, the bit that a shift carries out of a symbol
  FieldPolyLow,  \* 29: 0x11d without its highest bit
  Inputs,        \* the partitions considered: [p : Params, data : symbols by offset]
  Old            \* what the FEC extent holds before: no symbol

VARIABLES
  input,  \* the partition
  batch,  \* the batch the worker is at
  pos,    \* symbols of its codewords consumed so far
  syms,   \* buf[:span]: one symbol for each codeword of the batch
  st,     \* state[:span*roots]: the shift register of each codeword
  dst,    \* the FEC extent
  pc      \* "take", "symbol", "write" or "done"

vars == <<input, batch, pos, syms, st, dst, pc>>

Symbols == 0 .. 2 * HighBit - 1

\* The powers of 2 repeat after so many; the longest codeword there is.
FieldOrder == 2 * HighBit - 1

--------------------------------------------------------------------------------
(* rs.go                                                                    *)

\* The same function, its values computed once and for all.
Tabulated(f) == CHOOSE g \in {f} : g = f

\* a ^= b on bytes: the last bits, and above them the xor of the halves.
Plus ==
  LET xor[a \in Symbols] ==
        [b \in Symbols |-> IF a = 0 THEN b ELSE 2 * xor[a \div 2][b \div 2] + ((a + b) % 2)]
  IN  Tabulated([a \in Symbols |-> Tabulated(xor[a])])

\* a <<= 1 in the field: a * x modulo the field polynomial.
Shifted ==
  Tabulated([a \in Symbols |->
     IF a < HighBit THEN 2 * a ELSE Plus[2 * (a - HighBit)][FieldPolyLow]])

\* a * b, one bit of b after the other.
GfMul ==
  LET mul[b \in Symbols] ==
        [a \in Symbols |->
           IF b = 0 THEN 0 ELSE Plus[IF b % 2 = 1 THEN a ELSE 0][mul[b \div 2][Shifted[a]]]]
  IN  Tabulated([a \in Symbols |-> Tabulated([b \in Symbols |-> mul[b][a]])])

\* Mutant of Root: every factor takes the same root.
RootStuck == Tabulated([n \in 0 .. CodewordLen |-> 1])

\* root = gfMul(root, 2), n times.
Root ==
  LET root[n \in 0 .. CodewordLen] == IF n = 0 THEN 1 ELSE GfMul[root[n - 1]][2]
  IN  Tabulated(root)

\* g * (x - root), the lowest coefficient first.
TimesFactor(g, root) ==
  <<GfMul[g[1]][root]>>
    \o [k \in 1 .. Len(g) - 1 |-> Plus[g[k]][GfMul[g[k + 1]][root]]]
    \o <<g[Len(g)]>>

\* (x - a^0) ... (x - a^(roots-1)) for the numbers of roots in use.
GeneratorPoly ==
  LET gen[n \in 0 .. CodewordLen] ==
        IF n = 0 THEN <<1>> ELSE TimesFactor(gen[n - 1], Root[n - 1])
  IN  Tabulated([n \in {i.p.roots : i \in Inputs} |-> gen[n]])

\* Mutant of Tap: the taps in the order of the generator's coefficients.
TapReversed(roots, j) == GeneratorPoly[roots][j]

\* NewEncoder: tap j of the register multiplies by e.mul[j], j from 1.
Tap(roots, j) == GeneratorPoly[roots][roots + 1 - j]

\* One symbol through the register of a codeword: the body of Update and of
\* Encode.  The branch for two roots is this loop unrolled.
Stepped(reg, s) ==
  LET f == Plus[s][reg[1]]
      r == Len(reg)
  IN  [j \in 1 .. r - 1 |-> Plus[reg[j + 1]][GfMul[Tap(r, j)][f]]] \o <<GfMul[Tap(r, r)][f]>>

Cleared(roots) == [j \in 1 .. roots |-> 0]

\* Encode: the parity of one message.
Encode(message, roots) ==
  LET reg[n \in 0 .. Len(message)] ==
        IF n = 0 THEN Cleared(roots) ELSE Stepped(reg[n - 1], message[n])
  IN  reg[Len(message)]

--------------------------------------------------------------------------------
(* generateBatch                                                            *)

p == input.p

Span == 0 .. BatchWidth(p, batch) * p.blockSize - 1

Init ==
  /\ input \in Inputs
  /\ batch = 0 /\ pos = 0
  /\ syms = [i \in 0 .. BufferRounds(input.p) * input.p.blockSize - 1 |-> 0]
  /\ st = [i \in 0 .. BufferRounds(input.p) * input.p.blockSize - 1 |-> Cleared(input.p.roots)]
  /\ dst = [k \in 0 .. ParityBytes(input.p) - 1 |-> Old]
  /\ pc = "take"

\* Mutant of Take: the registers are not cleared.
TakeUncleared ==
  /\ pc = "take"
  /\ pc' = (IF batch < Batches(p) THEN "symbol" ELSE "done")
  /\ pos' = 0
  /\ UNCHANGED <<input, batch, syms, st, dst>>

\* The next batch, if there is one: its registers are cleared.
Take ==
  /\ pc = "take"
  /\ pc' = (IF batch < Batches(p) THEN "symbol" ELSE "done")
  /\ pos' = 0
  /\ st' = [i \in DOMAIN st |->
              IF batch < Batches(p) /\ i \in Span THEN Cleared(p.roots) ELSE st[i]]
  /\ UNCHANGED <<input, batch, syms, dst>>

\* Mutant of Gathered: what the buffer held is left behind the end of the data.
GatheredStale ==
  LET first == BlockOf(p, BatchStart(p, batch), pos)
  IN  [i \in DOMAIN syms |->
         IF i < Have(p, batch, pos) * p.blockSize THEN input.data[first * p.blockSize + i]
         ELSE syms[i]]

\* ReadAt into syms[:have*bs]; the rest of the batch reads as zeroes.
Gathered ==
  LET first == BlockOf(p, BatchStart(p, batch), pos)
  IN  [i \in DOMAIN syms |->
         CASE i < Have(p, batch, pos) * p.blockSize -> input.data[first * p.blockSize + i]
           [] i \in Span /\ i >= Have(p, batch, pos) * p.blockSize -> 0
           [] OTHER -> syms[i]]

\* One turn of the loop: symbol pos of every codeword, and Update.
Symbol ==
  /\ pc = "symbol"
  /\ syms' = Gathered
  /\ st' = [i \in DOMAIN st |-> IF i \in Span THEN Stepped(st[i], syms'[i]) ELSE st[i]]
  /\ pos' = pos + 1
  /\ pc' = (IF pos + 1 = RsN(p) THEN "write" ELSE "symbol")
  /\ UNCHANGED <<input, batch, dst>>

\* Mutant of ParityOffset: all batches are taken to be as wide as this one.
ParityOffsetByWidth == batch * BatchWidth(p, batch) * p.roots * p.blockSize

ParityOffset == BatchStart(p, batch) * p.roots * p.blockSize

\* The registers of the batch, one after the other, at its place in the extent.
WriteBatch ==
  /\ pc = "write"
  /\ dst' = [k \in DOMAIN dst |->
               LET n == k - ParityOffset
               IN  IF n >= 0 /\ n \div p.roots \in Span
                   THEN st[n \div p.roots][1 + (n % p.roots)] ELSE dst[k]]
  /\ batch' = batch + 1
  /\ pc' = "take"
  /\ UNCHANGED <<input, pos, syms, st>>

Next == Take \/ Symbol \/ WriteBatch

Spec == Init /\ [][Next]_vars

--------------------------------------------------------------------------------
(* fectest: the reference the tests use, derived in another way             *)

\* init: powers of the generator of the field.
ExpTab ==
  LET exp[n \in 0 .. FieldOrder - 1] == IF n = 0 THEN 1 ELSE Shifted[exp[n - 1]]
  IN  Tabulated(exp)

LogTab == Tabulated([s \in Symbols \ {0} |-> CHOOSE n \in DOMAIN ExpTab : ExpTab[n] = s])

Exp(n) == ExpTab[n % FieldOrder]

Mul(a, b) == IF a = 0 \/ b = 0 THEN 0 ELSE Exp(LogTab[a] + LogTab[b])

\* Gen: the generator, the highest coefficient first.
Gen ==
  LET Times(g, root) ==
        <<g[1]>> \o [k \in 1 .. Len(g) - 1 |-> Plus[g[k + 1]][Mul(g[k], root)]]
          \o <<Mul(g[Len(g)], root)>>
      gen[n \in 0 .. CodewordLen] == IF n = 0 THEN <<1>> ELSE Times(gen[n - 1], Exp(n - 1))
  IN  Tabulated([n \in {i.p.roots : i \in Inputs} |-> gen[n]])

\* Encode: long division of the message followed by zeroes; what is left of it.
Divided(message, roots) ==
  LET rest[n \in 0 .. Len(message)] ==
        IF n = 0 THEN message \o Cleared(roots)
        ELSE LET last == rest[n - 1]
             IN  [k \in 1 .. roots |-> Plus[last[k + 1]][Mul(Gen[roots][k + 1], last[1])]]
                   \o SubSeq(last, roots + 2, Len(last))
  IN  rest[Len(message)]

Eval(poly, x) ==
  LET acc[n \in 0 .. Len(poly)] == IF n = 0 THEN 0 ELSE Plus[Mul(acc[n - 1], x)][poly[n]]
  IN  acc[Len(poly)]

\* fec_ecc_interleave: where the bytes of codeword after codeword come from.
Interleave(offset, rsn, rounds, blockSize) ==
  offset \div rsn + (offset % rsn) * rounds * blockSize

\* Symbol j of codeword k of round i, from the image.
ReferenceSymbol(i, k, j) ==
  LET at == Interleave(i * RsN(p) * p.blockSize + j, RsN(p), Rounds(p), p.blockSize) + k
  IN  IF at \in DOMAIN input.data THEN input.data[at] ELSE 0

ReferenceMessage(i, k) == [j \in 1 .. RsN(p) |-> ReferenceSymbol(i, k, j - 1)]

--------------------------------------------------------------------------------
(* Assumptions                                                              *)

\* A symbol has some number of bits, more than one: only 1 is an odd divisor of the
\* highest.
SymbolsAssumption ==
  /\ HighBit \in Nat \ {0, 1}
  /\ \A d \in 2 .. HighBit : HighBit % d = 0 => d % 2 = 0
  /\ FieldPolyLow \in Symbols

\* The field polynomial is primitive: each symbol but zero is one power of 2, and the
\* next is 1 again. So init fills both tables (fectest.go:25-39).
PrimitiveAssumption ==
  /\ {ExpTab[n] : n \in 0 .. FieldOrder - 1} = Symbols \ {0}
  /\ \A m, n \in 0 .. FieldOrder - 1 : ExpTab[m] = ExpTab[n] => m = n
  /\ Shifted[ExpTab[FieldOrder - 1]] = 1

InputsAssumption ==
  /\ CodewordLen <= FieldOrder
  /\ Old \notin Symbols
  /\ \A i \in Inputs : /\ i.p \in ParamsType /\ Valid(i.p)
                       /\ i.data \in [0 .. i.p.dataBlocks * i.p.blockSize - 1 -> Symbols]

ASSUME ReedSolomonAssumption == SymbolsAssumption /\ PrimitiveAssumption /\ InputsAssumption

--------------------------------------------------------------------------------
(* Properties                                                               *)

\* The register of a codeword is, at every moment, the remainder of the symbols
\* that codeword has had in the image: those symbols followed by the register
\* vanish at the powers a^0 to a^(roots-1) (rs.go:12-18), across the buffers that
\* batches share and the blocks behind the end of the data.
RegistersAreRemainders ==
  pc \in {"symbol", "write"} =>
    \A i \in Span :
      LET r == BatchStart(p, batch) + i \div p.blockSize
          seen == SubSeq(ReferenceMessage(r, i % p.blockSize), 1, pos)
      IN  \A n \in 0 .. p.roots - 1 : Eval(seen \o st[i], Exp(n)) = 0

\* The extent ends up byte for byte as the reference encoder has it, the last,
\* narrower batch and the zero padding included; so does Encode, one message at a
\* time.
ParityIsTheReference ==
  pc = "done" =>
    \A i \in RoundSet(p), k \in 0 .. p.blockSize - 1 :
      LET at == (i * p.blockSize + k) * p.roots
          parity == [n \in 1 .. p.roots |-> dst[at + n - 1]]
      IN  /\ parity = Divided(ReferenceMessage(i, k), p.roots)
          /\ parity = Encode(ReferenceMessage(i, k), p.roots)

\* A codeword: its symbols in the image and its parity in the extent.
Codeword(i, k) ==
  ReferenceMessage(i, k) \o
    [n \in 1 .. p.roots |-> dst[(i * p.blockSize + k) * p.roots + n - 1]]

Codewords == {Codeword(i, k) : i \in RoundSet(p), k \in 0 .. p.blockSize - 1}

\* Where two codewords differ.
Differences(c, d) == {n \in 1 .. CodewordLen : c[n] # d[n]}

\* Two different codewords of an image differ in more symbols than there are
\* roots, which is what makes that many losses repairable.
CodewordsAreFarApart ==
  pc = "done" =>
    \A c, d \in Codewords : c # d => Cardinality(Differences(c, d)) > p.roots
================================================================================
