--------------------------- MODULE ReedSolomonProofs ---------------------------
(***************************************************************************)
(* The Reed-Solomon encoder, proved for every symbol width, primitive      *)
(* field polynomial, codeword length, number of roots, partition and batch *)
(* size.                                                                   *)
(*                                                                         *)
(* First the field: symbols under xor, shifting, the tables of powers and  *)
(* logarithms, and that gfMul multiplies as the tables do.  Then           *)
(* polynomials: the generator vanishes at the powers of 2, the register is *)
(* a remainder of the division by it, long division leaves the same, and   *)
(* words that vanish at the roots are far apart.  Last the worker: what    *)
(* its buffers and the extent hold at each step.                           *)
(***************************************************************************)
EXTENDS ReedSolomon, FiniteSetTheorems, TLAPS

\* The lemmas on least elements and on recursion hold for any word.
Shared == INSTANCE ExtentsProofs WITH MaxInt <- 1, BlockSize <- 1

\* A set of numbers has a least one: an induction takes the least counterexample.
LEMMA LeastSymbol ==
  ASSUME NEW T \in SUBSET Nat, T # {}
  PROVE  \E x \in T : \A y \in T : x <= y
<1>1. 1 \in Nat /\ 1 \in 1 .. 1
  OBVIOUS
<1> QED BY <1>1, Shared!Least, Zenon

\* Tabulating a function leaves it as it is.
LEMMA TabulatedFacts ==
  ASSUME NEW f
  PROVE  Tabulated(f) = f
BY DEF Tabulated

--------------------------------------------------------------------------------
(* Symbols under xor                                                        *)

\* A recursive definition over 0 .. N that goes from a number to its half.
HalvingSolutions(N, X, step) ==
  {f \in [0 .. N -> X] : \A n \in 0 .. N : f[n] = step[n][f[n \div 2]]}

\* Such a definition defines a function, when the value at 0 is not taken from
\* itself.
LEMMA HalvingRecursion ==
  ASSUME NEW X, NEW N \in Nat, NEW step \in [0 .. N -> [X -> X]], NEW x0 \in X,
         \A x \in X : step[0][x] = x0
  PROVE  HalvingSolutions(N, X, step) # {}
<1> DEFINE Solves(f, m) == \A n \in 0 .. m : f[n] = step[n][f[n \div 2]]
           T == {m \in 0 .. N : ~ \E f \in [0 .. m -> X] : Solves(f, m)}
<1>1. ASSUME T # {} PROVE FALSE
  <2>1. PICK m \in T : \A y \in T : m <= y
    <3>1. T \in SUBSET Nat
      OBVIOUS
    <3> HIDE DEF T
    <3> QED BY <1>1, <3>1, LeastSymbol
  <2>2. m \in 0 .. N /\ ~ \E f \in [0 .. m -> X] : Solves(f, m)
    OBVIOUS
  <2>3. CASE m = 0
    <3> DEFINE f == [n \in 0 .. 0 |-> x0]
    <3>1. f \in [0 .. m -> X] /\ Solves(f, m)
      BY <2>3
    <3> QED BY <2>2, <3>1
  <2>4. CASE m # 0
    <3>1. m - 1 \in 0 .. N /\ ~ (m <= m - 1)
      BY <2>2, <2>4
    <3>2. m - 1 \notin T
      BY <2>1, <3>1
    <3>3. PICK f \in [0 .. m - 1 -> X] : Solves(f, m - 1)
      BY <3>1, <3>2
    <3> DEFINE g == [n \in 0 .. m |-> IF n = m THEN step[m][f[m \div 2]] ELSE f[n]]
    <3>4. step[m][f[m \div 2]] \in X
      <4>1. m \in 0 .. N /\ m \div 2 \in 0 .. m - 1
        BY <2>2, <2>4
      <4> QED BY <4>1
    <3>5. g \in [0 .. m -> X]
      BY <2>2, <3>4
    <3>6. ASSUME NEW n \in 0 .. m PROVE g[n] = step[n][g[n \div 2]]
      <4>1. n \div 2 \in 0 .. m - 1 /\ n \div 2 \in 0 .. m /\ n \div 2 # m
        BY <2>2, <2>4
      <4>2. g[n \div 2] = f[n \div 2]
        BY <4>1
      <4>3. CASE n = m
        BY <4>1, <4>2, <4>3
      <4>4. CASE n # m
        <5>1. n \in 0 .. m - 1
          BY <2>2, <4>4
        <5> QED BY <3>3, <4>1, <4>2, <4>4, <5>1
      <4> QED BY <4>3, <4>4
    <3> HIDE DEF g
    <3> QED BY <2>2, <3>5, <3>6
  <2> QED BY <2>3, <2>4
<1>2. N \in 0 .. N
  OBVIOUS
<1>3. PICK f \in [0 .. N -> X] : Solves(f, N)
  BY <1>1, <1>2
<1> QED BY <1>3 DEF HalvingSolutions

\* What the assumptions say of symbols.
LEMMA SymbolsFacts ==
  /\ HighBit \in Nat /\ HighBit >= 2 /\ FieldPolyLow \in Symbols
  /\ Symbols \in SUBSET Nat
  /\ 0 \in Symbols /\ 1 \in Symbols /\ 2 \in Symbols /\ HighBit \in Symbols
  /\ \A a \in Symbols : a \in Nat /\ a < 2 * HighBit /\ a \div 2 \in Symbols /\ a \div 2 < HighBit
  /\ \A a \in Nat : a < 2 * HighBit => a \in Symbols
BY ReedSolomonAssumption DEF SymbolsAssumption, Symbols

\* The table of xor satisfies its definition.
LEMMA PlusTable ==
  /\ Plus \in [Symbols -> [Symbols -> Nat]]
  /\ \A a, b \in Symbols :
       Plus[a][b] = IF a = 0 THEN b ELSE 2 * Plus[a \div 2][b \div 2] + ((a + b) % 2)
<1> DEFINE N == 2 * HighBit - 1
           X == [Symbols -> Nat]
           F(f, a) == [b \in Symbols |->
                         IF a = 0 THEN b ELSE 2 * f[a \div 2][b \div 2] + ((a + b) % 2)]
           step == [a \in 0 .. N |-> [g \in X |-> [b \in Symbols |->
                         IF a = 0 THEN b ELSE 2 * g[b \div 2] + ((a + b) % 2)]]]
           x0 == [b \in Symbols |-> b]
           xor == CHOOSE f : f = [a \in Symbols |-> F(f, a)]
<1>1. N \in Nat /\ Symbols = 0 .. N
  BY SymbolsFacts DEF Symbols
<1>2. step \in [0 .. N -> [X -> X]] /\ x0 \in X /\ \A x \in X : step[0][x] = x0
  <2>1. ASSUME NEW a \in 0 .. N, NEW g \in X, NEW b \in Symbols
        PROVE  (IF a = 0 THEN b ELSE 2 * g[b \div 2] + ((a + b) % 2)) \in Nat
    <3>1. a \in Nat /\ b \in Nat /\ b \div 2 \in Symbols
      BY <1>1, SymbolsFacts
    <3>2. g[b \div 2] \in Nat
      BY <3>1
    <3>3. (a + b) % 2 \in Nat
      BY <3>1
    <3> QED BY <3>1, <3>2, <3>3
  <2>2. x0 \in X
    BY SymbolsFacts
  <2>3. 0 \in 0 .. N
    BY <1>1
  <2>4. \A x \in X : step[0][x] = x0
    BY <2>3
  <2> QED BY <2>1, <2>2, <2>4
<1>3. PICK f \in [0 .. N -> X] : \A n \in 0 .. N : f[n] = step[n][f[n \div 2]]
  <2>1. HalvingSolutions(N, X, step) # {}
    <3> HIDE DEF step, N, X, x0
    <3> QED BY <1>1, <1>2, HalvingRecursion, Zenon
  <2> HIDE DEF step, N, X
  <2> QED BY <2>1 DEF HalvingSolutions
<1>4. f = [a \in Symbols |-> F(f, a)]
  <2>1. ASSUME NEW a \in Symbols PROVE f[a] = F(f, a)
    <3>1. a \in 0 .. N /\ a \div 2 \in 0 .. N
      BY <1>1, SymbolsFacts
    <3>2. f[a \div 2] \in X
      BY <3>1
    <3>3. f[a] = step[a][f[a \div 2]]
      BY <1>3, <3>1
    <3> QED BY <3>1, <3>2, <3>3
  <2>2. f \in [Symbols -> X]
    BY <1>1, <1>3
  <2> HIDE DEF F, X
  <2> QED BY <2>1, <2>2
<1>5. xor = [a \in Symbols |-> F(xor, a)]
  BY <1>4
<1>6. Plus = [a \in Symbols |-> xor[a]]
  <2> HIDE DEF F
  <2> QED BY TabulatedFacts DEF Plus, F
<1>7. ASSUME NEW a \in Symbols
      PROVE  Plus[a] = F(Plus, a)
  <2>1. a \div 2 \in Symbols
    BY SymbolsFacts
  <2> HIDE DEF xor
  <2> QED BY <1>5, <1>6, <2>1
<1>8. ASSUME NEW a \in Symbols, NEW b \in Symbols
      PROVE  Plus[a][b] = IF a = 0 THEN b ELSE 2 * Plus[a \div 2][b \div 2] + ((a + b) % 2)
  BY <1>7
<1> DEFINE T == {a \in Symbols : ~ (Plus[a] \in [Symbols -> Nat])}
<1>9. ASSUME T # {} PROVE FALSE
  <2>1. PICK a \in T : \A y \in T : a <= y
    <3>1. T \in SUBSET Nat
      BY SymbolsFacts
    <3> HIDE DEF T
    <3> QED BY <1>9, <3>1, LeastSymbol
  <2>2. a \in Symbols /\ ~ (Plus[a] \in [Symbols -> Nat])
    OBVIOUS
  <2>3. Plus[a] = F(Plus, a)
    BY <1>7, <2>2
  <2>4. ASSUME NEW b \in Symbols PROVE F(Plus, a)[b] \in Nat
    <3>1. a \in Nat /\ b \in Nat /\ a \div 2 \in Symbols /\ b \div 2 \in Symbols /\ (a + b) % 2 \in Nat
      BY SymbolsFacts, <2>2
    <3>2. CASE a = 0
      BY <3>1, <3>2
    <3>3. CASE a # 0
      <4>1. ~ (a <= a \div 2)
        BY <3>1, <3>3
      <4>2. Plus[a \div 2] \in [Symbols -> Nat]
        BY <2>1, <3>1, <4>1
      <4>3. Plus[a \div 2][b \div 2] \in Nat
        BY <3>1, <4>2
      <4> QED BY <3>1, <3>3, <4>3
    <3> QED BY <3>2, <3>3
  <2> QED BY <2>2, <2>3, <2>4
<1>10. Plus \in [Symbols -> [Symbols -> Nat]]
  <2> HIDE DEF xor
  <2>1. \A a \in Symbols : Plus[a] \in [Symbols -> Nat]
    BY <1>9
  <2> QED BY <1>6, <2>1
<1> QED BY <1>8, <1>10

a \oplus b == Plus[a][b]

\* Xor by its definition, and that it stays among numbers.
LEMMA PlusBits ==
  ASSUME NEW a \in Symbols, NEW b \in Symbols
  PROVE  /\ a \oplus b \in Nat
         /\ 0 \oplus b = b
         /\ a \oplus b = 2 * ((a \div 2) \oplus (b \div 2)) + ((a + b) % 2)
<1>1. a \in Nat /\ b \in Nat /\ 0 \in Symbols /\ a \div 2 \in Symbols /\ b \div 2 \in Symbols
  BY SymbolsFacts
<1>2. /\ Plus[a][b] \in Nat /\ Plus[0][b] = b /\ Plus[0][b \div 2] = b \div 2
      /\ Plus[a][b] = IF a = 0 THEN b ELSE 2 * Plus[a \div 2][b \div 2] + ((a + b) % 2)
  BY <1>1, PlusTable
<1>3. CASE a = 0
  <2>1. a \div 2 = 0 /\ (a + b) % 2 = b % 2 /\ b = 2 * (b \div 2) + (b % 2)
    BY <1>1, <1>3
  <2> QED BY <1>2, <1>3, <2>1 DEF \oplus
<1>4. CASE a # 0
  BY <1>2, <1>4 DEF \oplus
<1> QED BY <1>3, <1>4

\* Zero changes nothing.
LEMMA PlusZero ==
  ASSUME NEW a \in Symbols
  PROVE  a \oplus 0 = a
<1> DEFINE T == {b \in Symbols : b \oplus 0 # b}
<1>1. ASSUME T # {} PROVE FALSE
  <2>1. PICK b \in T : \A y \in T : b <= y
    <3>1. T \in SUBSET Nat
      BY SymbolsFacts
    <3> HIDE DEF T
    <3> QED BY <1>1, <3>1, LeastSymbol
  <2>2. b \in Symbols /\ b \in Nat /\ b \oplus 0 # b /\ 0 \in Symbols /\ b \div 2 \in Symbols
    BY SymbolsFacts
  <2>3. 0 \oplus 0 = 0
    BY <2>2, PlusBits
  <2>4. ~ (b <= b \div 2)
    BY <2>2, <2>3
  <2>5. (b \div 2) \oplus 0 = b \div 2
    BY <2>1, <2>2, <2>4
  <2>6. b \oplus 0 = 2 * ((b \div 2) \oplus (0 \div 2)) + ((b + 0) % 2) /\ 0 \div 2 = 0
    BY <2>2, PlusBits
  <2>7. b \oplus 0 = 2 * (b \div 2) + (b % 2)
    BY <2>2, <2>5, <2>6
  <2> QED BY <2>2, <2>7
<1> QED BY <1>1

\* Below a power of two, here Pow: a number with no odd divisor but 1.
PowersOfTwo == {P \in 1 .. HighBit : \A d \in 2 .. P : P % d = 0 => d % 2 = 0}

\* The half of a power of two is one.
LEMMA HalfPower ==
  ASSUME NEW P \in PowersOfTwo, P # 1
  PROVE  P \in Nat /\ P = 2 * (P \div 2) /\ P \div 2 \in PowersOfTwo /\ P \div 2 < P
<1>1. HighBit \in Nat /\ P \in 1 .. HighBit /\ P >= 2 /\ P \in Nat
  BY SymbolsFacts DEF PowersOfTwo
<1>2. P \in 2 .. P /\ P % P = 0
  BY <1>1
<1>3. P % 2 = 0
  BY <1>2 DEF PowersOfTwo
<1>4. P = 2 * (P \div 2) /\ P \div 2 \in 1 .. HighBit /\ P \div 2 < P
  BY <1>1, <1>3
<1> DEFINE h == P \div 2
<1>5. ASSUME NEW d \in 2 .. h, h % d = 0 PROVE d % 2 = 0
  <2>1. d \in Nat \ {0} /\ h \in Nat /\ d \in 2 .. P
    BY <1>1, <1>4
  <2>2. h = d * (h \div d) /\ h \div d \in Int
    <3> HIDE DEF h
    <3> QED BY <1>5, <2>1
  <2>3. P = d * (2 * (h \div d))
    <3> DEFINE q == h \div d
    <3>1. q \in Int /\ h = d * q /\ P = 2 * h
      BY <1>4, <2>2
    <3> HIDE DEF q, h
    <3>2. P = d * (2 * q)
      BY <2>1, <3>1
    <3> QED BY <3>2 DEF q
  <2>4. P % d = 0
    <3> DEFINE q == 2 * (h \div d)
    <3>1. q \in Int /\ P = d * q
      BY <2>2, <2>3
    <3> HIDE DEF q, h
    <3> QED BY <2>1, <3>1
  <2> QED BY <2>1, <2>4 DEF PowersOfTwo
<1> QED BY <1>1, <1>4, <1>5 DEF PowersOfTwo

\* The highest bit of a symbol is a power of two.
LEMMA HighBitIsPower == HighBit \in PowersOfTwo
BY ReedSolomonAssumption DEF SymbolsAssumption, PowersOfTwo

\* Below a power of two xor stays below it, and adds the power itself.
LEMMA PlusBelow ==
  \A P \in PowersOfTwo : \A a, b \in 0 .. P - 1 : a \oplus b < P /\ a \oplus P = a + P
<1> DEFINE Good(P) == \A a, b \in 0 .. P - 1 : a \oplus b < P /\ a \oplus P = a + P
           T == {P \in PowersOfTwo : ~ Good(P)}
<1>1. ASSUME T # {} PROVE FALSE
  <2>1. PICK P \in T : \A y \in T : P <= y
    <3>1. T \in SUBSET Nat
      BY DEF PowersOfTwo
    <3> HIDE DEF T
    <3> QED BY <1>1, <3>1, LeastSymbol
  <2>2. P \in PowersOfTwo /\ P \in 1 .. HighBit /\ ~ Good(P) /\ HighBit \in Nat
    BY SymbolsFacts DEF PowersOfTwo
  <2>3. 0 \in Symbols /\ P \in Symbols /\ \A a \in 0 .. P - 1 : a \in Symbols
    BY <2>2, SymbolsFacts
  <2>4. CASE P = 1
    <3>1. ASSUME NEW a \in 0 .. P - 1, NEW b \in 0 .. P - 1 PROVE a \oplus b < P /\ a \oplus P = a + P
      <4>1. a = 0 /\ b = 0 /\ 0 \oplus 0 = 0 /\ 0 \oplus P = P
        BY <2>3, <2>4, PlusBits
      <4> QED BY <2>4, <4>1
    <3> QED BY <2>2, <3>1
  <2>5. CASE P # 1
    <3>1. P \in Nat /\ P = 2 * (P \div 2) /\ P \div 2 \in PowersOfTwo /\ P \div 2 < P
      BY <2>2, <2>5, HalfPower
    <3>2. Good(P \div 2)
      <4>1. ~ (P <= P \div 2)
        BY <3>1
      <4> HIDE DEF Good
      <4> QED BY <2>1, <3>1, <4>1
    <3>3. ASSUME NEW a \in 0 .. P - 1, NEW b \in 0 .. P - 1
          PROVE  a \oplus b < P /\ a \oplus P = a + P
      <4>1. a \in Symbols /\ b \in Symbols /\ P \in Symbols /\ a \div 2 \in Symbols /\ b \div 2 \in Symbols
        BY <2>3, SymbolsFacts
      <4>2. a \div 2 \in 0 .. (P \div 2) - 1 /\ b \div 2 \in 0 .. (P \div 2) - 1
        BY <3>1
      <4>3. /\ (a \div 2) \oplus (b \div 2) < P \div 2
            /\ (a \div 2) \oplus (P \div 2) = (a \div 2) + (P \div 2)
        BY <3>2, <4>2
      <4>4. /\ a \oplus b = 2 * ((a \div 2) \oplus (b \div 2)) + ((a + b) % 2)
            /\ a \oplus P = 2 * ((a \div 2) \oplus (P \div 2)) + ((a + P) % 2)
            /\ (a \div 2) \oplus (b \div 2) \in Nat
        BY <4>1, PlusBits
      <4>5. (a + P) % 2 = a % 2 /\ a = 2 * (a \div 2) + (a % 2)
        BY <3>1
      <4> QED BY <3>1, <4>3, <4>4, <4>5
    <3> QED BY <2>2, <3>3
  <2> QED BY <2>4, <2>5
<1> QED BY <1>1

\* The xor of two symbols is a symbol.
LEMMA PlusType ==
  \A a, b \in Symbols : a \oplus b \in Symbols
<1> SUFFICES ASSUME NEW a \in Symbols, NEW b \in Symbols PROVE a \oplus b \in Symbols
  OBVIOUS
<1>1. /\ a \in Nat /\ b \in Nat /\ a \div 2 \in Symbols /\ b \div 2 \in Symbols /\ HighBit \in Nat
      /\ a \div 2 \in 0 .. HighBit - 1 /\ b \div 2 \in 0 .. HighBit - 1
  BY SymbolsFacts
<1>2. (a \div 2) \oplus (b \div 2) < HighBit /\ (a \div 2) \oplus (b \div 2) \in Nat
  BY <1>1, HighBitIsPower, PlusBelow, PlusBits
<1>3. a \oplus b = 2 * ((a \div 2) \oplus (b \div 2)) + ((a + b) % 2) /\ a \oplus b \in Nat
  BY PlusBits
<1>4. a \oplus b < 2 * HighBit
  BY <1>1, <1>2, <1>3
<1> QED BY <1>3, <1>4, SymbolsFacts

\* What halving and the last bit make of a xor.
LEMMA PlusHalves ==
  ASSUME NEW a \in Symbols, NEW b \in Symbols
  PROVE  /\ (a \oplus b) \div 2 = (a \div 2) \oplus (b \div 2)
         /\ (a \oplus b) % 2 = (a + b) % 2
<1>1. /\ (a \div 2) \oplus (b \div 2) \in Nat /\ a \in Nat /\ b \in Nat
      /\ a \oplus b = 2 * ((a \div 2) \oplus (b \div 2)) + ((a + b) % 2)
  BY SymbolsFacts, PlusBits
<1> QED BY <1>1

\* The order of two summands does not matter.
LEMMA PlusCommutes ==
  \A a, b \in Symbols : a \oplus b = b \oplus a
<1> DEFINE T == {a \in Symbols : \E b \in Symbols : a \oplus b # b \oplus a}
<1>1. ASSUME T # {} PROVE FALSE
  <2>1. PICK a \in T : \A y \in T : a <= y
    <3>1. T \in SUBSET Nat
      BY SymbolsFacts
    <3> HIDE DEF T
    <3> QED BY <1>1, <3>1, LeastSymbol
  <2>2. PICK b \in Symbols : a \oplus b # b \oplus a
    OBVIOUS
  <2>3. a \in Symbols /\ a \in Nat /\ b \in Nat /\ a \div 2 \in Symbols /\ b \div 2 \in Symbols
    BY SymbolsFacts
  <2>4. a # 0
    BY <2>2, <2>3, PlusZero, PlusBits
  <2>5. (a \div 2) \oplus (b \div 2) = (b \div 2) \oplus (a \div 2)
    <3>1. ~ (a <= a \div 2)
      BY <2>3, <2>4
    <3> QED BY <2>1, <2>3, <3>1
  <2>6. (a + b) % 2 = (b + a) % 2
    BY <2>3
  <2> QED BY <2>2, <2>3, <2>5, <2>6, PlusBits
<1> QED BY <1>1

\* The last bit of three summands, whichever two come first.
LEMMA Parities ==
  ASSUME NEW a \in Nat, NEW b \in Nat, NEW c \in Nat, NEW u \in Nat, NEW v \in Nat,
         u % 2 = (a + b) % 2, v % 2 = (b + c) % 2
  PROVE  (u + c) % 2 = (a + v) % 2
<1> DEFINE i == (u \div 2) - ((a + b) \div 2)
           j == (v \div 2) - ((b + c) \div 2)
<1>1. i \in Int /\ u = a + b + 2 * i
  OBVIOUS
<1>2. j \in Int /\ v = b + c + 2 * j
  OBVIOUS
<1> HIDE DEF i, j
<1>3. a + v = u + c + 2 * (j - i)
  BY <1>1, <1>2
<1> QED BY <1>3

\* Nor does the order of three.
LEMMA PlusAssociates ==
  \A a, b, c \in Symbols : (a \oplus b) \oplus c = a \oplus (b \oplus c)
<1> DEFINE T == {a \in Symbols : \E b, c \in Symbols : (a \oplus b) \oplus c # a \oplus (b \oplus c)}
<1>1. ASSUME T # {} PROVE FALSE
  <2>1. PICK a \in T : \A y \in T : a <= y
    <3>1. T \in SUBSET Nat
      BY SymbolsFacts
    <3> HIDE DEF T
    <3> QED BY <1>1, <3>1, LeastSymbol
  <2>2. PICK b \in Symbols, c \in Symbols : (a \oplus b) \oplus c # a \oplus (b \oplus c)
    OBVIOUS
  <2>3. /\ a \in Symbols /\ a \in Nat /\ b \in Nat /\ c \in Nat
        /\ a \div 2 \in Symbols /\ b \div 2 \in Symbols /\ c \div 2 \in Symbols
        /\ a \oplus b \in Symbols /\ b \oplus c \in Symbols
        /\ a \oplus b \in Nat /\ b \oplus c \in Nat
    BY SymbolsFacts, PlusType
  <2>4. a # 0
    BY <2>2, <2>3, PlusBits
  <2>5. ((a \div 2) \oplus (b \div 2)) \oplus (c \div 2) = (a \div 2) \oplus ((b \div 2) \oplus (c \div 2))
    <3>1. ~ (a <= a \div 2)
      BY <2>3, <2>4
    <3>2. a \div 2 \notin T
      BY <2>1, <2>3, <3>1
    <3> QED BY <2>3, <3>2
  <2>6. (a \oplus b) \oplus c
          = 2 * (((a \div 2) \oplus (b \div 2)) \oplus (c \div 2)) + (((a \oplus b) + c) % 2)
    BY <2>3, PlusBits, PlusHalves
  <2>7. a \oplus (b \oplus c)
          = 2 * ((a \div 2) \oplus ((b \div 2) \oplus (c \div 2))) + ((a + (b \oplus c)) % 2)
    BY <2>3, PlusBits, PlusHalves
  <2>8. ((a \oplus b) + c) % 2 = (a + (b \oplus c)) % 2
    <3>1. (a \oplus b) % 2 = (a + b) % 2 /\ (b \oplus c) % 2 = (b + c) % 2
      BY <2>3, PlusHalves
    <3> DEFINE u == a \oplus b
               v == b \oplus c
    <3>2. a \in Nat /\ b \in Nat /\ c \in Nat /\ u \in Nat /\ v \in Nat
      BY <2>3
    <3>3. u % 2 = (a + b) % 2 /\ v % 2 = (b + c) % 2
      BY <3>1
    <3> HIDE DEF u, v, T
    <3>4. (u + c) % 2 = (a + v) % 2
      BY ONLY <3>2, <3>3, Parities
    <3> QED BY <3>4 DEF u, v
  <2> QED BY <2>2, <2>5, <2>6, <2>7, <2>8
<1> QED BY <1>1

\* A symbol is its own inverse.
LEMMA PlusCancels ==
  \A a \in Symbols : a \oplus a = 0
<1> DEFINE T == {a \in Symbols : a \oplus a # 0}
<1>1. ASSUME T # {} PROVE FALSE
  <2>1. PICK a \in T : \A y \in T : a <= y
    <3>1. T \in SUBSET Nat
      BY SymbolsFacts
    <3> HIDE DEF T
    <3> QED BY <1>1, <3>1, LeastSymbol
  <2>2. a \in Symbols /\ a \oplus a # 0 /\ a \in Nat /\ a \div 2 \in Symbols
    BY SymbolsFacts
  <2>3. a # 0
    BY <2>2, PlusBits
  <2>4. (a \div 2) \oplus (a \div 2) = 0
    <3>1. ~ (a <= a \div 2)
      BY <2>2, <2>3
    <3> QED BY <2>1, <2>2, <3>1
  <2>5. (a + a) % 2 = 0
    BY <2>2
  <2> QED BY <2>2, <2>4, <2>5, PlusBits
<1> QED BY <1>1

\* The laws of xor, together.
LEMMA PlusFacts ==
  /\ \A a, b \in Symbols : a \oplus b \in Symbols
  /\ \A a, b \in Symbols : a \oplus b = b \oplus a
  /\ \A a, b, c \in Symbols : (a \oplus b) \oplus c = a \oplus (b \oplus c)
  /\ \A a \in Symbols : a \oplus a = 0
  /\ \A a \in Symbols : a \oplus 0 = a /\ 0 \oplus a = a
  /\ 0 \in Symbols
BY PlusType, PlusCommutes, PlusAssociates, PlusCancels, PlusZero, PlusBits, SymbolsFacts

\* Four summands, the two in the middle exchanged.
LEMMA PlusMiddle ==
  ASSUME NEW a \in Symbols, NEW b \in Symbols, NEW c \in Symbols, NEW d \in Symbols
  PROVE  (a \oplus b) \oplus (c \oplus d) = (a \oplus c) \oplus (b \oplus d)
<1>1. (a \oplus b) \oplus (c \oplus d) = a \oplus (b \oplus (c \oplus d))
  BY PlusFacts
<1>2. b \oplus (c \oplus d) = (b \oplus c) \oplus d /\ (b \oplus c) \oplus d = (c \oplus b) \oplus d
  BY PlusFacts
<1>3. (c \oplus b) \oplus d = c \oplus (b \oplus d)
  BY PlusFacts
<1>4. a \oplus (c \oplus (b \oplus d)) = (a \oplus c) \oplus (b \oplus d)
  BY PlusFacts
<1> QED BY <1>1, <1>2, <1>3, <1>4

\* Only equal symbols cancel.
LEMMA PlusEqual ==
  ASSUME NEW a \in Symbols, NEW b \in Symbols
  PROVE  a \oplus b = 0 <=> a = b
<1>1. CASE a \oplus b = 0
  <2>1. a = a \oplus (b \oplus b)
    BY PlusFacts
  <2>2. a \oplus (b \oplus b) = (a \oplus b) \oplus b
    BY PlusFacts
  <2> QED BY <1>1, <2>1, <2>2, PlusFacts
<1> QED BY <1>1, PlusFacts

--------------------------------------------------------------------------------
(* Shifting is multiplication by 2                                          *)

\* Shifting by its definition.
LEMMA ShiftedValue ==
  /\ Shifted \in [Symbols -> Symbols]
  /\ \A a \in Symbols :
       Shifted[a] = IF a < HighBit THEN 2 * a ELSE (2 * (a - HighBit)) \oplus FieldPolyLow
<1> DEFINE F(a) == IF a < HighBit THEN 2 * a ELSE Plus[2 * (a - HighBit)][FieldPolyLow]
<1>1. Shifted = [a \in Symbols |-> F(a)]
  <2> HIDE DEF F
  <2> QED BY TabulatedFacts DEF Shifted, F
<1>2. ASSUME NEW a \in Symbols PROVE F(a) \in Symbols
  <2>1. a \in Nat /\ a < 2 * HighBit /\ HighBit \in Nat /\ FieldPolyLow \in Symbols
    BY SymbolsFacts
  <2>2. CASE a < HighBit
    BY <2>1, <2>2, SymbolsFacts
  <2>3. CASE ~ (a < HighBit)
    <3>1. 2 * (a - HighBit) \in Symbols
      BY <2>1, <2>3, SymbolsFacts
    <3>2. (2 * (a - HighBit)) \oplus FieldPolyLow \in Symbols
      BY <2>1, <3>1, PlusFacts
    <3> QED BY <2>3, <3>2 DEF \oplus
  <2> QED BY <2>2, <2>3
<1> QED BY <1>1, <1>2 DEF \oplus

\* The symbols without and with the highest bit.
LEMMA SymbolsSplit ==
  ASSUME NEW a \in Symbols
  PROVE  \/ /\ a \in 0 .. HighBit - 1 /\ 2 * a \in Symbols
            /\ Shifted[a] = 2 * a
         \/ /\ a - HighBit \in 0 .. HighBit - 1 /\ 2 * (a - HighBit) \in Symbols
            /\ a = (a - HighBit) \oplus HighBit
            /\ Shifted[a] = (2 * (a - HighBit)) \oplus FieldPolyLow
<1>1. a \in Nat /\ a < 2 * HighBit /\ HighBit \in Nat
  BY SymbolsFacts
<1>2. CASE a < HighBit
  BY <1>1, <1>2, ShiftedValue, SymbolsFacts
<1>3. CASE ~ (a < HighBit)
  <2>1. a - HighBit \in 0 .. HighBit - 1
    BY <1>1, <1>3
  <2>2. (a - HighBit) \oplus HighBit = (a - HighBit) + HighBit
    BY <2>1, HighBitIsPower, PlusBelow
  <2>3. 2 * (a - HighBit) \in Symbols
    BY <1>1, <2>1, SymbolsFacts
  <2> QED BY <1>1, <1>3, <2>1, <2>2, <2>3, ShiftedValue
<1> QED BY <1>2, <1>3

\* Below the highest bit: sums stay below, and doubling is additive.
LEMMA PlusLow ==
  ASSUME NEW a \in 0 .. HighBit - 1, NEW b \in 0 .. HighBit - 1
  PROVE  /\ a \in Symbols /\ b \in Symbols
         /\ a \oplus b \in 0 .. HighBit - 1
         /\ (2 * a) \oplus (2 * b) = 2 * (a \oplus b)
         /\ Shifted[a \oplus b] = (2 * a) \oplus (2 * b)
         /\ (a \oplus b) \oplus HighBit \in Symbols
         /\ Shifted[(a \oplus b) \oplus HighBit] = ((2 * a) \oplus (2 * b)) \oplus FieldPolyLow
<1>1. HighBit \in Nat /\ a \in Nat /\ b \in Nat
  BY SymbolsFacts
<1>2. a \in Symbols /\ b \in Symbols /\ 2 * a \in Symbols /\ 2 * b \in Symbols /\ HighBit \in Symbols
  BY <1>1, SymbolsFacts
<1>3. a \oplus b \in 0 .. HighBit - 1
  BY <1>1, <1>2, HighBitIsPower, PlusBelow, PlusBits
<1>4. (2 * a) \oplus (2 * b) = 2 * (a \oplus b)
  <2>1. /\ (2 * a) \oplus (2 * b) = 2 * (((2 * a) \div 2) \oplus ((2 * b) \div 2)) + ((2 * a + 2 * b) % 2)
        /\ a \oplus b \in Nat
    BY <1>2, PlusBits
  <2>2. (2 * a) \div 2 = a /\ (2 * b) \div 2 = b /\ (2 * a + 2 * b) % 2 = 0
    BY <1>1
  <2> QED BY <2>1, <2>2
<1> DEFINE c == a \oplus b
           t == c \oplus HighBit
<1>5. c \in Symbols /\ c < HighBit /\ c \in Nat
  BY <1>1, <1>2, <1>3, PlusFacts
<1>6. Shifted[c] = 2 * c
  <2> HIDE DEF c
  <2> QED BY <1>5, ShiftedValue
<1>7. t = c + HighBit /\ t \in Symbols
  BY <1>2, <1>3, <1>5, HighBitIsPower, PlusBelow, PlusFacts
<1>8. Shifted[t] = (2 * c) \oplus FieldPolyLow
  <2>1. ~ (t < HighBit) /\ 2 * (t - HighBit) = 2 * c
    <3> HIDE DEF c, t
    <3> QED BY <1>1, <1>5, <1>7
  <2> HIDE DEF c, t
  <2> QED BY <1>7, <2>1, ShiftedValue
<1> QED BY <1>2, <1>3, <1>4, <1>6, <1>7, <1>8

\* Shifting distributes over xor.
LEMMA ShiftedAdds ==
  \A a, b \in Symbols : Shifted[a \oplus b] = Shifted[a] \oplus Shifted[b]
<1> SUFFICES ASSUME NEW a \in Symbols, NEW b \in Symbols
             PROVE  Shifted[a \oplus b] = Shifted[a] \oplus Shifted[b]
  OBVIOUS
<1> DEFINE x == a - HighBit
           y == b - HighBit
           l == FieldPolyLow
           h == HighBit
<1>0. l \in Symbols /\ h \in Symbols /\ a \in Int /\ b \in Int
  BY SymbolsFacts
<1> HIDE DEF l
<1>1. CASE a \in 0 .. HighBit - 1 /\ b \in 0 .. HighBit - 1
  <2>1. Shifted[a] = 2 * a /\ Shifted[b] = 2 * b
    BY <1>1, ShiftedValue, SymbolsFacts
  <2> QED BY <1>1, <2>1, PlusLow
<1>2. ASSUME NEW u \in Symbols, NEW v \in Symbols,
             u \in 0 .. HighBit - 1, v - HighBit \in 0 .. HighBit - 1
      PROVE  Shifted[u \oplus v] = Shifted[u] \oplus Shifted[v]
  <2> DEFINE w == v - HighBit
  <2>1. /\ Shifted[u] = 2 * u /\ 2 * u \in Symbols /\ w \in Symbols
        /\ v = w \oplus h /\ 2 * w \in Symbols /\ Shifted[v] = (2 * w) \oplus l
    BY <1>2, SymbolsSplit, SymbolsFacts DEF l
  <2>2. Shifted[(u \oplus w) \oplus h] = ((2 * u) \oplus (2 * w)) \oplus l
    BY <1>2, PlusLow DEF l
  <2> HIDE DEF w, h
  <2>3. u \oplus v = (u \oplus w) \oplus h
    BY <1>0, <2>1, PlusFacts
  <2>4. ((2 * u) \oplus (2 * w)) \oplus l = (2 * u) \oplus ((2 * w) \oplus l)
    BY <1>0, <2>1, PlusFacts
  <2> QED BY <2>1, <2>2, <2>3, <2>4
<1>3. CASE a \in 0 .. HighBit - 1 /\ y \in 0 .. HighBit - 1
  BY <1>2, <1>3
<1>4. CASE x \in 0 .. HighBit - 1 /\ b \in 0 .. HighBit - 1
  <2>1. Shifted[b \oplus a] = Shifted[b] \oplus Shifted[a]
    BY <1>2, <1>4
  <2>2. Shifted[a] \in Symbols /\ Shifted[b] \in Symbols
    BY ShiftedValue
  <2> QED BY <2>1, <2>2, PlusFacts
<1>5. CASE x \in 0 .. HighBit - 1 /\ y \in 0 .. HighBit - 1
  <2>1. /\ a = x \oplus h /\ 2 * x \in Symbols /\ Shifted[a] = (2 * x) \oplus l
        /\ b = y \oplus h /\ 2 * y \in Symbols /\ Shifted[b] = (2 * y) \oplus l
        /\ x \in Symbols /\ y \in Symbols
    BY <1>5, SymbolsSplit, SymbolsFacts DEF l
  <2>2. Shifted[x \oplus y] = (2 * x) \oplus (2 * y)
    BY <1>5, PlusLow
  <2> DEFINE x2 == 2 * x
             y2 == 2 * y
  <2>3. /\ x2 \in Symbols /\ y2 \in Symbols
        /\ Shifted[a] = x2 \oplus l /\ Shifted[b] = y2 \oplus l /\ Shifted[x \oplus y] = x2 \oplus y2
    BY <2>1, <2>2
  <2> HIDE DEF x, y, h, x2, y2
  <2>4. a \oplus b = (x \oplus y) \oplus (h \oplus h) /\ h \oplus h = 0 /\ x \oplus y \in Symbols
    BY <1>0, <2>1, PlusMiddle, PlusFacts
  <2>5. a \oplus b = x \oplus y
    BY <2>4, PlusFacts
  <2>6. (x2 \oplus l) \oplus (y2 \oplus l) = (x2 \oplus y2) \oplus (l \oplus l) /\ l \oplus l = 0 /\ x2 \oplus y2 \in Symbols
    BY <1>0, <2>3, PlusMiddle, PlusFacts
  <2>7. (x2 \oplus y2) \oplus 0 = x2 \oplus y2
    BY <2>6, PlusFacts
  <2> QED BY <2>3, <2>5, <2>6, <2>7
<1>6. /\ a \in 0 .. HighBit - 1 \/ x \in 0 .. HighBit - 1
      /\ b \in 0 .. HighBit - 1 \/ y \in 0 .. HighBit - 1
  BY SymbolsSplit
<1> QED BY <1>1, <1>3, <1>4, <1>5, <1>6

--------------------------------------------------------------------------------
(* The field: what the reference tables make of multiplication              *)

\* A recursive definition over 0 .. N that goes from a number to the next.
LinearSolutions(N, X, x0, step) ==
  {f \in [0 .. N -> X] : f[0] = x0 /\ \A n \in 1 .. N : f[n] = step[n][f[n - 1]]}

\* A recursive definition over 0 .. N that goes one step back defines a function.
LEMMA LinearRecursion ==
  ASSUME NEW X, NEW N \in Nat, NEW x0 \in X, NEW step \in [1 .. N -> [X -> X]]
  PROVE  LinearSolutions(N, X, x0, step) # {}
<1>1. 1 \in Nat /\ 1 \in 1 .. 1
  OBVIOUS
<1>2. step \in Shared!Steps(N, X)
  BY DEF Shared!Steps
<1>3. Shared!Solutions(N, X, x0, step) # {}
  BY <1>1, <1>2, Shared!Recursion, Zenon
<1> QED BY <1>3 DEF Shared!Solutions, LinearSolutions

\* The logarithms of symbols.
Logs == 0 .. FieldOrder - 1

\* The table of powers has each symbol but zero once.
LEMMA ExpTabFacts ==
  /\ FieldOrder \in Nat /\ FieldOrder >= 3
  /\ ExpTab \in [Logs -> Symbols \ {0}]
  /\ ExpTab[0] = 1
  /\ \A n \in Logs : n # 0 => n - 1 \in Logs /\ ExpTab[n] = Shifted[ExpTab[n - 1]]
  /\ Shifted[ExpTab[FieldOrder - 1]] = 1
  /\ \A m, n \in Logs : ExpTab[m] = ExpTab[n] => m = n
  /\ \A s \in Symbols \ {0} : \E n \in Logs : ExpTab[n] = s
<1> DEFINE N == FieldOrder - 1
           F(f, n) == IF n = 0 THEN 1 ELSE Shifted[f[n - 1]]
           exp == CHOOSE f : f = [n \in 0 .. FieldOrder - 1 |-> F(f, n)]
           step == [n \in 1 .. N |-> [a \in Symbols |-> Shifted[a]]]
<1>1. FieldOrder \in Nat /\ FieldOrder >= 3 /\ N \in Nat /\ 0 \in Logs
  BY SymbolsFacts DEF FieldOrder, Logs
<1>2. PICK f \in [0 .. N -> Symbols] : f[0] = 1 /\ \A n \in 1 .. N : f[n] = step[n][f[n - 1]]
  <2>1. 1 \in Symbols /\ step \in [1 .. N -> [Symbols -> Symbols]]
    BY SymbolsFacts, ShiftedValue
  <2>2. LinearSolutions(N, Symbols, 1, step) # {}
    <3> HIDE DEF step, N
    <3> QED BY <1>1, <2>1, LinearRecursion, Zenon
  <2> HIDE DEF step, N
  <2> QED BY <2>2 DEF LinearSolutions
<1>3. f = [n \in 0 .. FieldOrder - 1 |-> F(f, n)]
  <2>1. ASSUME NEW n \in 0 .. FieldOrder - 1 PROVE f[n] = F(f, n)
    <3>1. CASE n = 0
      BY <1>2, <3>1
    <3>2. CASE n # 0
      <4>1. n \in 1 .. N /\ n - 1 \in 0 .. N
        BY <1>1, <3>2
      <4>2. f[n - 1] \in Symbols /\ f[n] = step[n][f[n - 1]]
        BY <1>2, <4>1
      <4> QED BY <3>2, <4>1, <4>2
    <3> QED BY <3>1, <3>2
  <2> HIDE DEF F
  <2> QED BY <1>2, <2>1
<1>4. exp = [n \in 0 .. FieldOrder - 1 |-> F(exp, n)]
  BY <1>3
<1>5. ExpTab = exp
  <2> HIDE DEF F
  <2> QED BY TabulatedFacts DEF ExpTab, F
<1>6. ExpTab = [n \in Logs |-> F(ExpTab, n)]
  <2> HIDE DEF exp, F
  <2> QED BY <1>4, <1>5 DEF Logs
<1> HIDE DEF exp
<1>7. /\ {ExpTab[n] : n \in Logs} = Symbols \ {0}
      /\ \A m, n \in Logs : ExpTab[m] = ExpTab[n] => m = n
      /\ Shifted[ExpTab[FieldOrder - 1]] = 1
  BY ReedSolomonAssumption DEF PrimitiveAssumption, Logs
<1>8. ExpTab \in [Logs -> Symbols \ {0}]
  <2> HIDE DEF F
  <2>1. \A n \in Logs : ExpTab[n] \in {ExpTab[m] : m \in Logs}
    OBVIOUS
  <2> QED BY <1>6, <1>7, <2>1
<1>9. ExpTab[0] = 1 /\ \A n \in Logs : n # 0 => ExpTab[n] = Shifted[ExpTab[n - 1]]
  BY <1>1, <1>6
<1>10. \A n \in Logs : n # 0 => n - 1 \in Logs
  BY <1>1 DEF Logs
<1> HIDE DEF F, N, step
<1> QED BY <1>1, <1>7, <1>8, <1>9, <1>10

\* The table of logarithms is its inverse.
LEMMA LogTabFacts ==
  /\ \A s \in Symbols \ {0} : LogTab[s] \in Logs /\ ExpTab[LogTab[s]] = s
  /\ \A n \in Logs : LogTab[ExpTab[n]] = n
<1>1. LogTab = [s \in Symbols \ {0} |-> CHOOSE n \in Logs : ExpTab[n] = s]
  BY TabulatedFacts, ExpTabFacts DEF LogTab
<1>2. ASSUME NEW s \in Symbols \ {0} PROVE LogTab[s] \in Logs /\ ExpTab[LogTab[s]] = s
  <2>1. \E n \in Logs : ExpTab[n] = s
    BY ExpTabFacts
  <2>2. LogTab[s] = CHOOSE n \in Logs : ExpTab[n] = s
    BY <1>1
  <2> QED BY <2>1, <2>2
<1>3. ASSUME NEW n \in Logs PROVE LogTab[ExpTab[n]] = n
  BY <1>2, ExpTabFacts
<1> QED BY <1>2, <1>3

a \otimes b == Mul(a, b)

\* The sum of two logarithms.
LogSum(m, n) == IF m + n < FieldOrder THEN m + n ELSE m + n - FieldOrder

\* The power of a sum of logarithms, which may exceed the table.
LEMMA LogSumFacts ==
  ASSUME NEW m \in Logs, NEW n \in Logs
  PROVE  /\ LogSum(m, n) \in Logs
         /\ Exp(m + n) = ExpTab[LogSum(m, n)]
<1>1. FieldOrder \in Nat \ {0} /\ m \in Nat /\ n \in Nat /\ m + n \in Nat /\ m + n < FieldOrder + FieldOrder
  BY ExpTabFacts DEF Logs
<1>2. (m + n) % FieldOrder = IF m + n < FieldOrder THEN m + n ELSE (m + n) - FieldOrder
  <2> DEFINE s == m + n
  <2>1. s \in Nat /\ s < FieldOrder + FieldOrder
    BY <1>1
  <2>2. 1 \in Nat /\ 1 \in 1 .. 1
    OBVIOUS
  <2> HIDE DEF s
  <2>3. s % FieldOrder = IF s < FieldOrder THEN s ELSE s - FieldOrder
    BY ONLY <1>1, <2>1, <2>2, Shared!RemainderOfSum, Zenon
  <2> QED BY <2>3 DEF s
<1>3. LogSum(m, n) \in Logs
  BY <1>1 DEF LogSum, Logs
<1> DEFINE s == (m + n) % FieldOrder
<1>4. s = LogSum(m, n)
  <2> HIDE DEF s
  <2>1. s = IF m + n < FieldOrder THEN m + n ELSE (m + n) - FieldOrder
    BY <1>2 DEF s
  <2> QED BY <1>1, <2>1 DEF LogSum
<1> QED BY <1>3, <1>4 DEF Exp

\* Sums of logarithms form a group.
LEMMA LogSumLaws ==
  ASSUME NEW i \in Logs, NEW j \in Logs, NEW k \in Logs
  PROVE  /\ LogSum(i, j) = LogSum(j, i)
         /\ LogSum(LogSum(i, j), k) = LogSum(i, LogSum(j, k))
         /\ LogSum(0, i) = i
<1>1. FieldOrder \in Nat /\ i \in 0 .. FieldOrder - 1 /\ j \in 0 .. FieldOrder - 1 /\ k \in 0 .. FieldOrder - 1
  BY ExpTabFacts DEF Logs
<1>2. LogSum(i, j) = LogSum(j, i) /\ LogSum(0, i) = i
  BY <1>1 DEF LogSum
<1>3. LogSum(LogSum(i, j), k) = LogSum(i, LogSum(j, k))
  <2>1. LogSum(LogSum(i, j), k) = CASE i + j + k < FieldOrder -> i + j + k
                                    [] i + j + k >= FieldOrder /\ i + j + k < 2 * FieldOrder -> i + j + k - FieldOrder
                                    [] OTHER -> i + j + k - 2 * FieldOrder
    BY <1>1 DEF LogSum
  <2>2. LogSum(i, LogSum(j, k)) = CASE i + j + k < FieldOrder -> i + j + k
                                    [] i + j + k >= FieldOrder /\ i + j + k < 2 * FieldOrder -> i + j + k - FieldOrder
                                    [] OTHER -> i + j + k - 2 * FieldOrder
    BY <1>1 DEF LogSum
  <2> QED BY <2>1, <2>2
<1> QED BY <1>2, <1>3

\* Products of powers are powers.
LEMMA MulPowers ==
  ASSUME NEW m \in Logs, NEW n \in Logs
  PROVE  /\ ExpTab[m] \in Symbols /\ ExpTab[m] # 0
         /\ ExpTab[m] \otimes ExpTab[n] = ExpTab[LogSum(m, n)]
<1>1. ExpTab[m] \in Symbols /\ ExpTab[m] # 0 /\ ExpTab[n] # 0
  BY ExpTabFacts
<1>2. LogTab[ExpTab[m]] = m /\ LogTab[ExpTab[n]] = n
  BY LogTabFacts
<1>3. ExpTab[m] \otimes ExpTab[n] = Exp(m + n)
  BY <1>1, <1>2 DEF \otimes, Mul
<1> QED BY <1>1, <1>3, LogSumFacts

\* Zero times a symbol.
LEMMA MulZero ==
  \A a \in Symbols : 0 \otimes a = 0 /\ a \otimes 0 = 0
BY DEF \otimes, Mul

\* Each symbol but zero is a power.
LEMMA PowerOf ==
  ASSUME NEW a \in Symbols, a # 0
  PROVE  \E n \in Logs : a = ExpTab[n]
BY ExpTabFacts

\* Products of symbols: zero only with a factor zero, in either order, and with 1.
LEMMA MulType ==
  \A a, b \in Symbols : /\ a \otimes b \in Symbols
                        /\ a \otimes b = 0 => a = 0 \/ b = 0
                        /\ a \otimes b = b \otimes a
                        /\ 1 \otimes b = b
<1> SUFFICES ASSUME NEW a \in Symbols, NEW b \in Symbols
             PROVE  /\ a \otimes b \in Symbols
                    /\ a \otimes b = 0 => a = 0 \/ b = 0
                    /\ a \otimes b = b \otimes a
                    /\ 1 \otimes b = b
  OBVIOUS
<1>1. 0 \in Symbols /\ 1 \in Symbols /\ 0 \in Logs /\ ExpTab[0] = 1
  BY SymbolsFacts, ExpTabFacts DEF Logs
<1>2. CASE a # 0 /\ b # 0
  <2>1. PICK m \in Logs : a = ExpTab[m]
    BY <1>2, PowerOf
  <2>2. PICK n \in Logs : b = ExpTab[n]
    BY <1>2, PowerOf
  <2>3. a \otimes b = ExpTab[LogSum(m, n)] /\ b \otimes a = ExpTab[LogSum(n, m)]
    BY <2>1, <2>2, MulPowers
  <2>4. LogSum(m, n) \in Logs /\ LogSum(m, n) = LogSum(n, m) /\ LogSum(0, n) = n
    BY LogSumFacts, LogSumLaws
  <2>5. 1 \otimes b = ExpTab[LogSum(0, n)]
    BY <1>1, <2>2, MulPowers
  <2> QED BY <2>2, <2>3, <2>4, <2>5, ExpTabFacts
<1>3. CASE a = 0 /\ b # 0
  <2>1. PICK n \in Logs : b = ExpTab[n]
    BY <1>3, PowerOf
  <2>2. 1 \otimes b = ExpTab[LogSum(0, n)] /\ LogSum(0, n) = n
    BY <1>1, <2>1, MulPowers, LogSumLaws
  <2> QED BY <1>1, <1>3, <2>1, <2>2, MulZero
<1>4. CASE b = 0
  BY <1>1, <1>4, MulZero
<1> QED BY <1>2, <1>3, <1>4

\* The order of three factors does not matter.
LEMMA MulAssociates ==
  \A a, b, c \in Symbols : (a \otimes b) \otimes c = a \otimes (b \otimes c)
<1> SUFFICES ASSUME NEW a \in Symbols, NEW b \in Symbols, NEW c \in Symbols
             PROVE  (a \otimes b) \otimes c = a \otimes (b \otimes c)
  OBVIOUS
<1>1. CASE a # 0 /\ b # 0 /\ c # 0
  <2>1. PICK i \in Logs : a = ExpTab[i]
    BY <1>1, PowerOf
  <2>2. PICK j \in Logs : b = ExpTab[j]
    BY <1>1, PowerOf
  <2>3. PICK k \in Logs : c = ExpTab[k]
    BY <1>1, PowerOf
  <2>4. LogSum(i, j) \in Logs /\ LogSum(j, k) \in Logs
    BY LogSumFacts
  <2>5. a \otimes b = ExpTab[LogSum(i, j)] /\ b \otimes c = ExpTab[LogSum(j, k)]
    BY <2>1, <2>2, <2>3, MulPowers
  <2>6. /\ (a \otimes b) \otimes c = ExpTab[LogSum(LogSum(i, j), k)]
        /\ a \otimes (b \otimes c) = ExpTab[LogSum(i, LogSum(j, k))]
    BY <2>1, <2>3, <2>4, <2>5, MulPowers
  <2> QED BY <2>6, LogSumLaws
<1>2. CASE a = 0 \/ b = 0 \/ c = 0
  <2>1. a \otimes b \in Symbols /\ b \otimes c \in Symbols
    BY MulType
  <2> QED BY <1>2, <2>1, MulZero
<1> QED BY <1>1, <1>2

\* Multiplying by 2, the first power, is shifting.
LEMMA MulTwo ==
  \A b \in Symbols : 2 \otimes b = Shifted[b]
<1> SUFFICES ASSUME NEW b \in Symbols PROVE 2 \otimes b = Shifted[b]
  OBVIOUS
<1>1. FieldOrder \in Nat /\ FieldOrder >= 3 /\ 0 \in Logs /\ 1 \in Logs
  BY ExpTabFacts DEF Logs
<1>2. ExpTab[1] = 2
  <2>1. ExpTab[1] = Shifted[ExpTab[1 - 1]] /\ 1 - 1 = 0 /\ ExpTab[0] = 1
    BY <1>1, ExpTabFacts
  <2>2. Shifted[1] = 2
    BY SymbolsFacts, ShiftedValue
  <2> QED BY <2>1, <2>2
<1>3. CASE b = 0
  <2>1. Shifted[0] = 0 /\ 2 \in Symbols
    BY SymbolsFacts, ShiftedValue
  <2> QED BY <1>3, <2>1, MulZero
<1>4. CASE b # 0
  <2>1. PICK n \in Logs : b = ExpTab[n]
    BY <1>4, PowerOf
  <2>2. 2 \otimes b = ExpTab[LogSum(1, n)]
    BY <1>1, <1>2, <2>1, MulPowers
  <2>3. CASE n = FieldOrder - 1
    <3>1. LogSum(1, n) = 0
      BY <1>1, <2>3 DEF LogSum
    <3> QED BY <2>1, <2>2, <2>3, <3>1, ExpTabFacts
  <2>4. CASE n # FieldOrder - 1
    <3>1. LogSum(1, n) = n + 1 /\ n + 1 \in Logs /\ n + 1 # 0 /\ (n + 1) - 1 = n
      BY <1>1, <2>4 DEF LogSum, Logs
    <3>2. ExpTab[n + 1] = Shifted[ExpTab[(n + 1) - 1]]
      BY <3>1, ExpTabFacts
    <3> QED BY <2>1, <2>2, <3>1, <3>2
  <2> QED BY <2>3, <2>4
<1> QED BY <1>3, <1>4

\* Multiplication distributes over xor: by induction over the first factor, a power
\* of 2.
LEMMA MulDistributes ==
  \A a, b, c \in Symbols : a \otimes (b \oplus c) = (a \otimes b) \oplus (a \otimes c)
<1> DEFINE T == {n \in Logs : \E b, c \in Symbols :
                   ExpTab[n] \otimes (b \oplus c) # (ExpTab[n] \otimes b) \oplus (ExpTab[n] \otimes c)}
<1>1. ASSUME T # {} PROVE FALSE
  <2>1. PICK n \in T : \A y \in T : n <= y
    <3>1. T \in SUBSET Nat
      BY ExpTabFacts DEF Logs
    <3> HIDE DEF T
    <3> QED BY <1>1, <3>1, LeastSymbol
  <2>2. PICK b \in Symbols, c \in Symbols :
          ExpTab[n] \otimes (b \oplus c) # (ExpTab[n] \otimes b) \oplus (ExpTab[n] \otimes c)
    OBVIOUS
  <2>3. n \in Logs /\ n \in Nat /\ b \oplus c \in Symbols
    BY ExpTabFacts, PlusFacts DEF Logs
  <2>4. n # 0
    BY <2>2, <2>3, MulType, ExpTabFacts
  <2> DEFINE e == ExpTab[n - 1]
  <2>5. n - 1 \in Logs /\ ExpTab[n] = Shifted[e] /\ e \in Symbols
    BY <2>3, <2>4, ExpTabFacts
  <2>6. e \otimes (b \oplus c) = (e \otimes b) \oplus (e \otimes c)
    <3>1. ~ (n <= n - 1)
      BY <2>3
    <3>2. n - 1 \notin T
      BY <2>1, <3>1
    <3> QED BY <2>5, <3>2
  <2>7. \A x \in Symbols : ExpTab[n] \otimes x = Shifted[e \otimes x] /\ e \otimes x \in Symbols
    <3> SUFFICES ASSUME NEW x \in Symbols
                 PROVE  ExpTab[n] \otimes x = Shifted[e \otimes x] /\ e \otimes x \in Symbols
      OBVIOUS
    <3> HIDE DEF e
    <3>1. ExpTab[n] = 2 \otimes e /\ e \otimes x \in Symbols /\ 2 \in Symbols
      BY <2>5, MulTwo, MulType, SymbolsFacts
    <3>2. (2 \otimes e) \otimes x = 2 \otimes (e \otimes x)
      BY <2>5, <3>1, MulAssociates
    <3> QED BY <3>1, <3>2, MulTwo
  <2> HIDE DEF e
  <2> QED BY <2>2, <2>3, <2>6, <2>7, ShiftedAdds
<1>2. ASSUME NEW a \in Symbols, NEW b \in Symbols, NEW c \in Symbols
      PROVE  a \otimes (b \oplus c) = (a \otimes b) \oplus (a \otimes c)
  <2>1. CASE a = 0
    BY <2>1, MulZero, PlusFacts
  <2>2. CASE a # 0
    <3>1. PICK n \in Logs : a = ExpTab[n]
      BY <2>2, PowerOf
    <3>2. n \notin T
      BY <1>1
    <3> QED BY <3>1, <3>2
  <2> QED BY <2>1, <2>2
<1> QED BY <1>2

\* The laws of multiplication, together.
LEMMA MulFacts ==
  /\ \A a, b \in Symbols : a \otimes b \in Symbols
  /\ \A a, b \in Symbols : a \otimes b = b \otimes a
  /\ \A a, b, c \in Symbols : (a \otimes b) \otimes c = a \otimes (b \otimes c)
  /\ \A a, b, c \in Symbols : a \otimes (b \oplus c) = (a \otimes b) \oplus (a \otimes c)
  /\ \A a, b, c \in Symbols : (a \oplus b) \otimes c = (a \otimes c) \oplus (b \otimes c)
  /\ \A a \in Symbols : a \otimes 0 = 0 /\ 0 \otimes a = 0 /\ a \otimes 1 = a /\ 1 \otimes a = a
  /\ \A a, b \in Symbols : a \otimes b = 0 => a = 0 \/ b = 0
  /\ 0 \in Symbols /\ 1 \in Symbols /\ 2 \in Symbols
<1>1. ASSUME NEW a \in Symbols, NEW b \in Symbols, NEW c \in Symbols
      PROVE  (a \oplus b) \otimes c = (a \otimes c) \oplus (b \otimes c)
  <2>1. /\ (a \oplus b) \otimes c = c \otimes (a \oplus b)
        /\ c \otimes a = a \otimes c /\ c \otimes b = b \otimes c
    BY MulType, PlusFacts
  <2> QED BY <2>1, MulDistributes
<1> QED BY <1>1, MulType, MulAssociates, MulDistributes, MulZero, SymbolsFacts

\* The table of gfMul satisfies its definition.
LEMMA GfMulTable ==
  /\ \A a, b \in Symbols : GfMul[a][b] \in Symbols
  /\ \A a, b \in Symbols :
       GfMul[a][b] = IF b = 0 THEN 0
                     ELSE (IF b % 2 = 1 THEN a ELSE 0) \oplus GfMul[Shifted[a]][b \div 2]
<1> DEFINE N == 2 * HighBit - 1
           X == [Symbols -> Symbols]
           F(f, b) == [a \in Symbols |->
             IF b = 0 THEN 0 ELSE Plus[IF b % 2 = 1 THEN a ELSE 0][f[b \div 2][Shifted[a]]]]
           step == [b \in 0 .. N |-> [g \in X |-> [a \in Symbols |->
             IF b = 0 THEN 0 ELSE Plus[IF b % 2 = 1 THEN a ELSE 0][g[Shifted[a]]]]]]
           x0 == [a \in Symbols |-> 0]
           mul == CHOOSE f : f = [b \in Symbols |-> F(f, b)]
<1>1. N \in Nat /\ Symbols = 0 .. N
  BY SymbolsFacts DEF Symbols
<1>2. step \in [0 .. N -> [X -> X]] /\ x0 \in X /\ \A x \in X : step[0][x] = x0
  <2>1. ASSUME NEW b \in 0 .. N, NEW g \in X, NEW a \in Symbols
        PROVE  (IF b = 0 THEN 0 ELSE Plus[IF b % 2 = 1 THEN a ELSE 0][g[Shifted[a]]]) \in Symbols
    <3> DEFINE c == IF b % 2 = 1 THEN a ELSE 0
               d == g[Shifted[a]]
    <3>1. c \in Symbols /\ d \in Symbols /\ 0 \in Symbols
      BY SymbolsFacts, ShiftedValue
    <3>2. c \oplus d \in Symbols
      <4> HIDE DEF c, d
      <4> QED BY <3>1, PlusFacts
    <3> QED BY <3>1, <3>2 DEF \oplus
  <2>2. x0 \in X
    BY SymbolsFacts
  <2>3. 0 \in 0 .. N
    BY <1>1
  <2>4. \A x \in X : step[0][x] = x0
    BY <2>3
  <2> QED BY <2>1, <2>2, <2>4
<1>3. PICK f \in [0 .. N -> X] : \A n \in 0 .. N : f[n] = step[n][f[n \div 2]]
  <2>1. HalvingSolutions(N, X, step) # {}
    <3> HIDE DEF step, N, X, x0
    <3> QED BY <1>1, <1>2, HalvingRecursion, Zenon
  <2> HIDE DEF step, N, X
  <2> QED BY <2>1 DEF HalvingSolutions
<1>4. f = [b \in Symbols |-> F(f, b)]
  <2>1. ASSUME NEW b \in Symbols PROVE f[b] = F(f, b)
    <3>1. b \in 0 .. N /\ b \div 2 \in 0 .. N
      BY <1>1, SymbolsFacts
    <3>2. f[b \div 2] \in X
      BY <3>1
    <3>3. f[b] = step[b][f[b \div 2]]
      BY <1>3, <3>1
    <3> QED BY <3>1, <3>2, <3>3
  <2>2. f \in [Symbols -> X]
    BY <1>1, <1>3
  <2> HIDE DEF F, X
  <2> QED BY <2>1, <2>2
<1>5. mul = [b \in Symbols |-> F(mul, b)]
  BY <1>4
<1>6. GfMul = [a \in Symbols |-> [b \in Symbols |-> mul[b][a]]]
  <2> HIDE DEF F
  <2> QED BY TabulatedFacts DEF GfMul, F
<1>7. ASSUME NEW a \in Symbols, NEW b \in Symbols
      PROVE  GfMul[a][b] = IF b = 0 THEN 0
                           ELSE (IF b % 2 = 1 THEN a ELSE 0) \oplus GfMul[Shifted[a]][b \div 2]
  <2>1. b \div 2 \in Symbols /\ Shifted[a] \in Symbols
    BY SymbolsFacts, ShiftedValue
  <2> HIDE DEF mul
  <2>2. GfMul[a][b] = mul[b][a] /\ GfMul[Shifted[a]][b \div 2] = mul[b \div 2][Shifted[a]]
    BY <1>6, <2>1
  <2>3. mul[b][a] = IF b = 0 THEN 0
                    ELSE Plus[IF b % 2 = 1 THEN a ELSE 0][mul[b \div 2][Shifted[a]]]
    <3>1. mul[b] = F(mul, b)
      <4> HIDE DEF F
      <4> QED BY <1>5
    <3> QED BY <3>1
  <2> QED BY <2>2, <2>3 DEF \oplus
<1> DEFINE T == {b \in Symbols : ~ \A a \in Symbols : GfMul[a][b] \in Symbols}
<1>8. ASSUME T # {} PROVE FALSE
  <2>1. PICK b \in T : \A y \in T : b <= y
    <3>1. T \in SUBSET Nat
      BY SymbolsFacts
    <3> HIDE DEF T
    <3> QED BY <1>8, <3>1, LeastSymbol
  <2>2. PICK a \in Symbols : GfMul[a][b] \notin Symbols
    OBVIOUS
  <2>3. b \in Symbols /\ b \in Nat /\ b \div 2 \in Symbols /\ 0 \in Symbols /\ Shifted[a] \in Symbols
    BY SymbolsFacts, ShiftedValue
  <2>4. b # 0
    BY <1>7, <2>2, <2>3
  <2>5. GfMul[Shifted[a]][b \div 2] \in Symbols
    <3>1. ~ (b <= b \div 2)
      BY <2>3, <2>4
    <3> QED BY <2>1, <2>3, <3>1
  <2>6. (IF b % 2 = 1 THEN a ELSE 0) \in Symbols
    BY <2>3
  <2> HIDE DEF mul, T
  <2>7. GfMul[a][b] = (IF b % 2 = 1 THEN a ELSE 0) \oplus GfMul[Shifted[a]][b \div 2]
    BY <1>7, <2>3, <2>4
  <2> QED BY <2>2, <2>5, <2>6, <2>7, PlusFacts
<1> HIDE DEF mul
<1> QED BY <1>7, <1>8

\* So the code and the reference multiply alike.
LEMMA GfMulIsMul ==
  \A a, b \in Symbols : GfMul[a][b] = a \otimes b
<1> DEFINE T == {b \in Symbols : ~ \A a \in Symbols : GfMul[a][b] = a \otimes b}
<1>1. ASSUME T # {} PROVE FALSE
  <2>1. PICK b \in T : \A y \in T : b <= y
    <3>1. T \in SUBSET Nat
      BY SymbolsFacts
    <3> HIDE DEF T
    <3> QED BY <1>1, <3>1, LeastSymbol
  <2>2. PICK a \in Symbols : GfMul[a][b] # a \otimes b
    OBVIOUS
  <2> DEFINE h == b \div 2
             bit == b % 2
  <2>3. /\ b \in Symbols /\ b \in Nat /\ h \in Symbols /\ h \in Nat /\ h < HighBit
        /\ Shifted[a] \in Symbols
    BY SymbolsFacts, ShiftedValue
  <2>4. b # 0
    BY <2>2, <2>3, GfMulTable, MulFacts
  <2>5. GfMul[Shifted[a]][h] = Shifted[a] \otimes h
    <3>1. ~ (b <= h)
      BY <2>3, <2>4
    <3> QED BY <2>1, <2>3, <3>1
  <2>6. GfMul[a][b] = (IF bit = 1 THEN a ELSE 0) \oplus (Shifted[a] \otimes h)
    BY <2>3, <2>4, <2>5, GfMulTable
  <2>7. Shifted[a] = 2 \otimes a /\ Shifted[h] = 2 \otimes h /\ Shifted[h] = 2 * h /\ 2 * h \in Symbols
    BY <2>3, MulTwo, ShiftedValue
  <2>8. bit \in Symbols /\ bit \in {0, 1}
    BY <2>3, SymbolsFacts
  <2>9. b = bit \oplus (2 * h)
    <3>1. bit \oplus (2 * h) = 2 * ((bit \div 2) \oplus ((2 * h) \div 2)) + ((bit + 2 * h) % 2)
      BY <2>7, <2>8, PlusBits
    <3>2. bit \div 2 = 0 /\ (2 * h) \div 2 = h /\ b = 2 * h + bit /\ (bit + 2 * h) % 2 = bit
      BY <2>3
    <3>3. 0 \oplus h = h
      BY <2>3, PlusFacts
    <3> QED BY <2>3, <3>1, <3>2, <3>3
  <2> HIDE DEF h, bit, T
  <2>10. (2 \otimes a) \otimes h = a \otimes (2 \otimes h)
    BY <2>3, MulFacts
  <2>11. (IF bit = 1 THEN a ELSE 0) = a \otimes bit
    BY <2>8, MulFacts
  <2> DEFINE d == 2 * h
  <2>12. d \in Symbols /\ 2 \otimes h = d /\ b = bit \oplus d
    BY <2>7, <2>9
  <2> HIDE DEF d
  <2>13. a \otimes (bit \oplus d) = (a \otimes bit) \oplus (a \otimes d)
    BY <2>8, <2>12, MulFacts
  <2>14. GfMul[a][b] = (a \otimes bit) \oplus (a \otimes d)
    BY <2>6, <2>7, <2>10, <2>11, <2>12
  <2> QED BY <2>2, <2>12, <2>13, <2>14
<1> QED BY <1>1

\* Powers of 2 as Exp has them.
LEMMA ExpFacts ==
  /\ Exp(0) = 1
  /\ \A n \in Logs : Exp(n) = ExpTab[n] /\ Exp(n) \in Symbols /\ Exp(n) # 0
  /\ \A n \in 0 .. FieldOrder : n # 0 => n - 1 \in Logs /\ Exp(n) = 2 \otimes Exp(n - 1)
  /\ \A n \in 0 .. FieldOrder : Exp(n) \in Symbols
  /\ \A m, n \in Logs : Exp(m) = Exp(n) => m = n
<1>1. FieldOrder \in Nat /\ FieldOrder >= 3
  BY ExpTabFacts
<1>2. ASSUME NEW n \in Logs PROVE Exp(n) = ExpTab[n] /\ Exp(n) \in Symbols /\ Exp(n) # 0
  <2>1. n + 0 = n /\ LogSum(n, 0) = n /\ 0 \in Logs
    BY <1>1 DEF LogSum, Logs
  <2>2. Exp(n) = ExpTab[n]
    <3>1. Exp(n + 0) = ExpTab[LogSum(n, 0)]
      BY <2>1, LogSumFacts
    <3> QED BY <2>1, <3>1
  <2> QED BY <2>2, ExpTabFacts
<1>3. ASSUME NEW n \in 0 .. FieldOrder, n # 0
      PROVE  n - 1 \in Logs /\ Exp(n) = 2 \otimes Exp(n - 1) /\ Exp(n) \in Symbols
  <2>1. n - 1 \in Logs /\ 1 \in Logs /\ n - 1 + 1 = n
    BY <1>1, <1>3 DEF Logs
  <2>2. ExpTab[1] = 2
    <3>1. ExpTab[1] = Shifted[ExpTab[1 - 1]] /\ 1 - 1 = 0 /\ ExpTab[0] = 1
      BY <2>1, ExpTabFacts
    <3>2. Shifted[1] = 2
      BY SymbolsFacts, ShiftedValue
    <3> QED BY <3>1, <3>2
  <2>3. Exp(n - 1 + 1) = ExpTab[LogSum(n - 1, 1)] /\ LogSum(n - 1, 1) = LogSum(1, n - 1)
    BY <2>1, LogSumFacts, LogSumLaws
  <2>4. ExpTab[1] \otimes ExpTab[n - 1] = ExpTab[LogSum(1, n - 1)]
    BY <2>1, MulPowers
  <2>5. Exp(n - 1) = ExpTab[n - 1] /\ Exp(n - 1) \in Symbols
    BY <1>2, <2>1
  <2>6. Exp(n) = Exp(n - 1 + 1)
    BY <2>1
  <2>7. Exp(n) = 2 \otimes Exp(n - 1)
    BY <2>2, <2>3, <2>4, <2>5, <2>6
  <2> QED BY <2>1, <2>5, <2>7, MulFacts
<1>4. Exp(0) = 1 /\ 0 \in Logs
  BY <1>1, <1>2, ExpTabFacts DEF Logs
<1>5. \A m, n \in Logs : Exp(m) = Exp(n) => m = n
  BY <1>2, ExpTabFacts
<1>6. ASSUME NEW n \in 0 .. FieldOrder PROVE Exp(n) \in Symbols
  BY <1>3, <1>4, MulFacts
<1> QED BY <1>2, <1>3, <1>4, <1>5, <1>6

\* A codeword is no longer than the powers of 2 are many.
LEMMA CodewordLenFacts ==
  /\ CodewordLen \in Nat /\ CodewordLen >= 2 /\ CodewordLen <= FieldOrder
  /\ \A n \in 0 .. CodewordLen - 1 : n \in Logs
BY ReedSolomonAssumption, FecConstantsAssumption, ExpTabFacts DEF InputsAssumption, Logs

\* The roots of the generator are the powers of 2.
LEMMA RootIsExp ==
  \A n \in 0 .. CodewordLen - 1 : Root[n] = Exp(n)
<1> DEFINE N == CodewordLen
           F(f, n) == IF n = 0 THEN 1 ELSE GfMul[f[n - 1]][2]
           root == CHOOSE f : f = [n \in 0 .. CodewordLen |-> F(f, n)]
           step == [n \in 1 .. N |-> [a \in Symbols |-> GfMul[a][2]]]
<1>1. N \in Nat
  BY CodewordLenFacts
<1>2. PICK f \in [0 .. N -> Symbols] : f[0] = 1 /\ \A n \in 1 .. N : f[n] = step[n][f[n - 1]]
  <2>1. 1 \in Symbols /\ step \in [1 .. N -> [Symbols -> Symbols]]
    BY SymbolsFacts, GfMulTable
  <2>2. LinearSolutions(N, Symbols, 1, step) # {}
    <3> HIDE DEF step, N
    <3> QED BY <1>1, <2>1, LinearRecursion, Zenon
  <2> HIDE DEF step, N
  <2> QED BY <2>2 DEF LinearSolutions
<1>3. f = [n \in 0 .. CodewordLen |-> F(f, n)]
  <2>1. ASSUME NEW n \in 0 .. CodewordLen PROVE f[n] = F(f, n)
    <3>1. CASE n = 0
      BY <1>2, <3>1
    <3>2. CASE n # 0
      <4>1. n \in 1 .. N /\ n - 1 \in 0 .. N
        BY <1>1, <3>2
      <4>2. f[n - 1] \in Symbols /\ f[n] = step[n][f[n - 1]]
        BY <1>2, <4>1
      <4> QED BY <3>2, <4>1, <4>2
    <3> QED BY <3>1, <3>2
  <2> HIDE DEF F
  <2> QED BY <1>2, <2>1
<1>4. root = [n \in 0 .. CodewordLen |-> F(root, n)]
  BY <1>3
<1>5. Root = root
  <2> HIDE DEF F
  <2> QED BY TabulatedFacts DEF Root, F
<1> HIDE DEF root
<1>6. \A n \in 0 .. CodewordLen : Root[n] = IF n = 0 THEN 1 ELSE GfMul[Root[n - 1]][2]
  BY <1>4, <1>5
<1> DEFINE T == {n \in 0 .. CodewordLen - 1 : Root[n] # Exp(n)}
<1>7. ASSUME T # {} PROVE FALSE
  <2>1. PICK n \in T : \A y \in T : n <= y
    <3>1. T \in SUBSET Nat
      BY CodewordLenFacts
    <3> HIDE DEF T
    <3> QED BY <1>7, <3>1, LeastSymbol
  <2>2. n \in 0 .. CodewordLen - 1 /\ Root[n] # Exp(n) /\ n \in 0 .. CodewordLen
    BY CodewordLenFacts
  <2>3. n # 0
    BY <1>6, <2>2, ExpFacts
  <2>4. n - 1 \in 0 .. CodewordLen - 1 /\ ~ (n <= n - 1) /\ n \in 0 .. FieldOrder
    BY <2>2, <2>3, CodewordLenFacts, ExpTabFacts
  <2>5. Root[n - 1] = Exp(n - 1)
    BY <2>1, <2>4
  <2>6. Exp(n - 1) \in Symbols /\ Exp(n) = 2 \otimes Exp(n - 1)
    BY <2>3, <2>4, CodewordLenFacts, ExpFacts
  <2>7. Root[n] = Exp(n - 1) \otimes 2
    <3>1. Root[n] = GfMul[Root[n - 1]][2]
      BY <1>6, <2>2, <2>3
    <3>2. 2 \in Symbols
      BY MulFacts
    <3> QED BY <2>5, <2>6, <3>1, <3>2, GfMulIsMul
  <2> QED BY <2>2, <2>6, <2>7, MulFacts
<1> QED BY <1>7

--------------------------------------------------------------------------------
(* Polynomials                                                              *)

\* Sequences of symbols by their length.
Words(n) == [1 .. n -> Symbols]

\* A word is a sequence of symbols.
LEMMA WordsFacts ==
  ASSUME NEW n \in Nat, NEW w \in Words(n)
  PROVE  /\ w \in Seq(Symbols) /\ Len(w) = n
         /\ \A k \in 1 .. n : w[k] \in Symbols
BY DEF Words

\* And a sequence of symbols is a word.
LEMMA SequencesAreWords ==
  ASSUME NEW w \in Seq(Symbols)
  PROVE  Len(w) \in Nat /\ w \in Words(Len(w))
BY DEF Words

\* Words with the same symbols are the same.
LEMMA SameWords ==
  ASSUME NEW n, NEW v \in Words(n), NEW w \in Words(n), \A k \in 1 .. n : v[k] = w[k]
  PROVE  v = w
<1>1. v = [k \in 1 .. n |-> v[k]] /\ w = [k \in 1 .. n |-> w[k]]
  BY DEF Words
<1>2. [k \in 1 .. n |-> v[k]] = [k \in 1 .. n |-> w[k]]
  OBVIOUS
<1> QED BY <1>1, <1>2

\* A word after a word.
LEMMA Joined ==
  ASSUME NEW m \in Nat, NEW n \in Nat, NEW v \in Words(m), NEW w \in Words(n)
  PROVE  /\ v \o w \in Words(m + n)
         /\ \A k \in 1 .. m : (v \o w)[k] = v[k]
         /\ \A k \in 1 .. n : (v \o w)[m + k] = w[k]
<1>1. v \in Seq(Symbols) /\ w \in Seq(Symbols) /\ Len(v) = m /\ Len(w) = n
  BY WordsFacts
<1>2. v \o w \in Seq(Symbols) /\ Len(v \o w) = m + n
  BY <1>1
<1> DEFINE c == v \o w
<1>3. \A k \in 1 .. m + n : c[k] = IF k <= m THEN v[k] ELSE w[k - m]
  BY <1>1
<1> HIDE DEF c
<1>4. ASSUME NEW k \in 1 .. m PROVE c[k] = v[k]
  <2>1. k \in 1 .. m + n /\ k <= m
    OBVIOUS
  <2> QED BY <1>3, <2>1
<1>5. ASSUME NEW k \in 1 .. n PROVE c[m + k] = w[k]
  <2>1. m + k \in 1 .. m + n /\ ~ (m + k <= m) /\ (m + k) - m = k
    OBVIOUS
  <2> QED BY <1>3, <2>1
<1>6. c \in Words(m + n)
  <2>1. c \in Seq(Symbols) /\ Len(c) = m + n
    BY <1>2 DEF c
  <2>2. c \in Words(Len(c))
    BY <2>1, SequencesAreWords
  <2> QED BY <2>1, <2>2
<1> QED BY <1>4, <1>5, <1>6 DEF c

\* A word between two symbols.
Between(a, w, b) == <<a>> \o w \o <<b>>

\* A word with a symbol on either side.
LEMMA Wrapped ==
  ASSUME NEW n \in Nat, NEW a \in Symbols, NEW b \in Symbols, NEW w \in Words(n)
  PROVE  /\ Between(a, w, b) \in Words(n + 2)
         /\ Between(a, w, b)[1] = a
         /\ Between(a, w, b)[n + 2] = b
         /\ \A k \in 1 .. n : Between(a, w, b)[k + 1] = w[k]
<1>1. <<a>> \in Words(1) /\ <<b>> \in Words(1)
  BY DEF Words
<1> DEFINE v == <<a>> \o w
           u == v \o <<b>>
<1>2. /\ 1 \in Nat /\ 1 + n \in Nat /\ n + 1 \in Nat /\ 1 \in 1 .. 1 /\ 1 \in 1 .. 1 + n
      /\ (1 + n) + 1 = n + 2 /\ <<a>>[1] = a /\ <<b>>[1] = b
  OBVIOUS
<1>3. /\ v \in Words(1 + n)
      /\ \A k \in 1 .. 1 : v[k] = <<a>>[k]
      /\ \A k \in 1 .. n : v[1 + k] = w[k]
  <2>1. 1 \in Nat /\ n \in Nat /\ <<a>> \in Words(1) /\ w \in Words(n)
    BY <1>1, <1>2, Zenon
  <2> QED BY ONLY <2>1, Joined, Zenon
<1>4. /\ u \in Words((1 + n) + 1)
      /\ \A k \in 1 .. 1 + n : u[k] = v[k]
      /\ \A k \in 1 .. 1 : u[(1 + n) + k] = <<b>>[k]
  <2> HIDE DEF v
  <2> QED BY <1>1, <1>2, <1>3, Joined, Zenon
<1>7. Between(a, w, b) = u
  BY DEF Between
<1> HIDE DEF u, v
<1>5. u \in Words(n + 2) /\ u[1] = a /\ u[n + 2] = b
  BY <1>2, <1>3, <1>4
<1>6. ASSUME NEW k \in 1 .. n PROVE u[k + 1] = w[k]
  <2>1. k + 1 = 1 + k /\ 1 + k \in 1 .. 1 + n
    OBVIOUS
  <2> QED BY <1>3, <1>4, <2>1
<1> QED BY <1>5, <1>6, <1>7

\* The values of Horner's rule, symbol after symbol.
Horner(h, f, n, x) ==
  /\ h[0] = 0
  /\ \A k \in 1 .. n : h[k] = (h[k - 1] \otimes x) \oplus f[k]

\* Each value of the scheme is a symbol.
LEMMA HornerType ==
  ASSUME NEW n \in Nat, NEW f \in Words(n), NEW x \in Symbols, NEW h, Horner(h, f, n, x)
  PROVE  \A k \in 0 .. n : h[k] \in Symbols
<1> DEFINE T == {k \in 0 .. n : h[k] \notin Symbols}
<1>1. ASSUME T # {} PROVE FALSE
  <2>1. PICK k \in T : \A y \in T : k <= y
    <3>1. T \in SUBSET Nat
      OBVIOUS
    <3> HIDE DEF T
    <3> QED BY <1>1, <3>1, LeastSymbol
  <2>2. k \in 0 .. n /\ h[k] \notin Symbols /\ k # 0
    BY MulFacts DEF Horner
  <2>3. k \in 1 .. n /\ k - 1 \in 0 .. n /\ ~ (k <= k - 1)
    BY <2>2
  <2>4. h[k - 1] \in Symbols /\ h[k] = (h[k - 1] \otimes x) \oplus f[k] /\ f[k] \in Symbols
    BY <2>1, <2>3, WordsFacts DEF Horner
  <2>5. h[k - 1] \otimes x \in Symbols
    BY <2>4, MulFacts
  <2>6. h[k] \in Symbols
    <3> HIDE DEF T
    <3> QED BY <2>4, <2>5, PlusFacts
  <2> QED BY <2>2, <2>6
<1> QED BY <1>1

\* A word and a point have one scheme.
LEMMA HornerUnique ==
  ASSUME NEW n \in Nat, NEW f, NEW x, NEW g, NEW h, Horner(g, f, n, x), Horner(h, f, n, x)
  PROVE  \A k \in 0 .. n : g[k] = h[k]
<1> DEFINE T == {k \in 0 .. n : g[k] # h[k]}
<1>1. ASSUME T # {} PROVE FALSE
  <2>1. PICK k \in T : \A y \in T : k <= y
    <3>1. T \in SUBSET Nat
      OBVIOUS
    <3> HIDE DEF T
    <3> QED BY <1>1, <3>1, LeastSymbol
  <2>2. k \in 0 .. n /\ g[k] # h[k] /\ k # 0
    BY DEF Horner
  <2>3. k \in 1 .. n /\ k - 1 \in 0 .. n /\ ~ (k <= k - 1)
    BY <2>2
  <2>4. g[k - 1] = h[k - 1]
    BY <2>1, <2>3
  <2> QED BY <2>2, <2>3, <2>4 DEF Horner
<1> QED BY <1>1

\* The value of a polynomial is the last of them.
LEMMA EvalHorner ==
  ASSUME NEW n \in Nat, NEW f \in Words(n), NEW x \in Symbols
  PROVE  \E h : Horner(h, f, n, x) /\ Eval(f, x) = h[n]
<1> DEFINE F(h, k) == IF k = 0 THEN 0 ELSE Plus[Mul(h[k - 1], x)][f[k]]
           acc == CHOOSE h : h = [k \in 0 .. Len(f) |-> F(h, k)]
           step == [k \in 1 .. n |-> [a \in Symbols |-> (a \otimes x) \oplus f[k]]]
<1>1. Len(f) = n /\ \A k \in 1 .. n : f[k] \in Symbols
  BY WordsFacts
<1>2. PICK h \in [0 .. n -> Symbols] : h[0] = 0 /\ \A k \in 1 .. n : h[k] = step[k][h[k - 1]]
  <2>1. 0 \in Symbols /\ step \in [1 .. n -> [Symbols -> Symbols]]
    BY <1>1, MulFacts, PlusFacts
  <2>2. LinearSolutions(n, Symbols, 0, step) # {}
    <3> HIDE DEF step
    <3> QED BY <1>1, <2>1, LinearRecursion, Zenon
  <2> HIDE DEF step
  <2> QED BY <2>2 DEF LinearSolutions
<1>3. h = [k \in 0 .. Len(f) |-> F(h, k)]
  <2>1. ASSUME NEW k \in 0 .. n PROVE h[k] = F(h, k)
    <3>1. CASE k = 0
      BY <1>2, <3>1
    <3>2. CASE k # 0
      <4>1. k \in 1 .. n /\ k - 1 \in 0 .. n
        BY <3>2
      <4>2. h[k - 1] \in Symbols /\ h[k] = step[k][h[k - 1]]
        BY <1>2, <4>1
      <4>3. h[k] = (h[k - 1] \otimes x) \oplus f[k]
        BY <4>1, <4>2
      <4> QED BY <3>2, <4>3 DEF \oplus, \otimes
    <3> QED BY <3>1, <3>2
  <2> HIDE DEF F
  <2> QED BY <1>1, <1>2, <2>1
<1>4. acc = [k \in 0 .. Len(f) |-> F(acc, k)]
  <2> HIDE DEF F
  <2> QED BY <1>3
<1>5. Eval(f, x) = acc[n]
  BY <1>1 DEF Eval
<1> HIDE DEF acc
<1>6. \A k \in 0 .. n : acc[k] = F(acc, k)
  <2> HIDE DEF F
  <2> QED BY <1>1, <1>4
<1>7. Horner(acc, f, n, x)
  <2>1. acc[0] = 0
    BY <1>6
  <2>2. ASSUME NEW k \in 1 .. n PROVE acc[k] = (acc[k - 1] \otimes x) \oplus f[k]
    <3>1. k \in 0 .. n /\ k # 0
      OBVIOUS
    <3> QED BY <1>6, <3>1 DEF \oplus, \otimes
  <2> QED BY <2>1, <2>2 DEF Horner
<1> QED BY <1>5, <1>7

\* So any scheme gives the value.
LEMMA EvalIs ==
  ASSUME NEW n \in Nat, NEW f \in Words(n), NEW x \in Symbols, NEW h, Horner(h, f, n, x)
  PROVE  Eval(f, x) = h[n]
<1>1. PICK g : Horner(g, f, n, x) /\ Eval(f, x) = g[n]
  BY EvalHorner
<1>2. n \in 0 .. n
  OBVIOUS
<1> QED BY <1>1, <1>2, HornerUnique

--------------------------------------------------------------------------------
(* The generator                                                            *)

\* The multiplication by a factor x - root that the reference does.
Times(g, root) ==
  <<g[1]>> \o [k \in 1 .. Len(g) - 1 |-> Plus[g[k + 1]][Mul(g[k], root)]]
    \o <<Mul(g[Len(g)], root)>>

\* The symbols of that product.
LEMMA TimesWord ==
  ASSUME NEW n \in Nat, n >= 1, NEW g \in Words(n), NEW root \in Symbols
  PROVE  LET t == Times(g, root)
         IN  /\ t \in Words(n + 1) /\ t[1] = g[1]
             /\ \A k \in 1 .. n - 1 : t[k + 1] = g[k + 1] \oplus (g[k] \otimes root)
             /\ t[n + 1] = g[n] \otimes root
<1> DEFINE w == [k \in 1 .. n - 1 |-> g[k + 1] \oplus (g[k] \otimes root)]
           a == g[1]
           b == g[n] \otimes root
           t == Between(a, w, b)
<1>1. Len(g) = n /\ \A k \in 1 .. n : g[k] \in Symbols /\ g[k] \otimes root \in Symbols
  BY WordsFacts, MulFacts
<1>2. n - 1 \in Nat /\ (n - 1) + 2 = n + 1 /\ 1 \in 1 .. n /\ n \in 1 .. n
  OBVIOUS
<1>3. w \in Words(n - 1)
  <2>1. ASSUME NEW k \in 1 .. n - 1 PROVE g[k + 1] \oplus (g[k] \otimes root) \in Symbols
    <3>1. k \in 1 .. n /\ k + 1 \in 1 .. n
      OBVIOUS
    <3> QED BY <1>1, <3>1, PlusFacts
  <2> QED BY <2>1 DEF Words
<1>4. a \in Symbols /\ b \in Symbols
  BY <1>1, <1>2
<1>5. /\ t \in Words((n - 1) + 2) /\ t[1] = a
      /\ \A k \in 1 .. n - 1 : t[k + 1] = w[k]
      /\ t[(n - 1) + 2] = b
  <2> DEFINE m == n - 1
  <2>1. m \in Nat /\ w \in Words(m)
    BY <1>2, <1>3
  <2> HIDE DEF a, b, w, m
  <2>2. /\ t \in Words(m + 2) /\ t[1] = a /\ t[m + 2] = b
        /\ \A k \in 1 .. m : t[k + 1] = w[k]
    BY <1>4, <2>1, Wrapped
  <2> QED BY <2>2 DEF m
<1>6. Times(g, root) = t
  BY <1>1 DEF Times, \oplus, \otimes, Between
<1>7. \A k \in 1 .. n - 1 : w[k] = g[k + 1] \oplus (g[k] \otimes root)
  OBVIOUS
<1> HIDE DEF t, w
<1>8. t \in Words(n + 1) /\ t[n + 1] = b
  BY <1>2, <1>5
<1>9. \A k \in 1 .. n - 1 : t[k + 1] = g[k + 1] \oplus (g[k] \otimes root)
  BY <1>5, <1>7
<1> QED BY <1>5, <1>6, <1>8, <1>9

\* The symbols of the product of NewEncoder, the lowest coefficient first.
LEMMA TimesFactorWord ==
  ASSUME NEW n \in Nat, n >= 1, NEW g \in Words(n), NEW root \in Symbols
  PROVE  LET t == TimesFactor(g, root)
         IN  /\ t \in Words(n + 1) /\ t[1] = g[1] \otimes root
             /\ \A k \in 1 .. n - 1 : t[k + 1] = g[k] \oplus (g[k + 1] \otimes root)
             /\ t[n + 1] = g[n]
<1> DEFINE w == [k \in 1 .. n - 1 |-> g[k] \oplus (g[k + 1] \otimes root)]
           a == g[1] \otimes root
           b == g[n]
           t == Between(a, w, b)
<1>1. /\ Len(g) = n
      /\ \A k \in 1 .. n : /\ g[k] \in Symbols /\ g[k] \otimes root \in Symbols
                           /\ GfMul[g[k]][root] = g[k] \otimes root
  BY WordsFacts, MulFacts, GfMulIsMul
<1>2. n - 1 \in Nat /\ (n - 1) + 2 = n + 1 /\ 1 \in 1 .. n /\ n \in 1 .. n
  OBVIOUS
<1>3. w \in Words(n - 1)
  <2>1. ASSUME NEW k \in 1 .. n - 1 PROVE g[k] \oplus (g[k + 1] \otimes root) \in Symbols
    <3>1. k \in 1 .. n /\ k + 1 \in 1 .. n
      OBVIOUS
    <3> QED BY <1>1, <3>1, PlusFacts
  <2> QED BY <2>1 DEF Words
<1>4. a \in Symbols /\ b \in Symbols
  BY <1>1, <1>2
<1>5. /\ t \in Words((n - 1) + 2) /\ t[1] = a
      /\ \A k \in 1 .. n - 1 : t[k + 1] = w[k]
      /\ t[(n - 1) + 2] = b
  <2> DEFINE m == n - 1
  <2>1. m \in Nat /\ w \in Words(m)
    BY <1>2, <1>3
  <2> HIDE DEF a, b, w, m
  <2>2. /\ t \in Words(m + 2) /\ t[1] = a /\ t[m + 2] = b
        /\ \A k \in 1 .. m : t[k + 1] = w[k]
    BY <1>4, <2>1, Wrapped
  <2> QED BY <2>2 DEF m
<1>6. TimesFactor(g, root) = t
  <2>1. [k \in 1 .. n - 1 |-> Plus[g[k]][GfMul[g[k + 1]][root]]] = w
    <3>1. ASSUME NEW k \in 1 .. n - 1
          PROVE  Plus[g[k]][GfMul[g[k + 1]][root]] = g[k] \oplus (g[k + 1] \otimes root)
      <4>1. k + 1 \in 1 .. n
        OBVIOUS
      <4> QED BY <1>1, <4>1 DEF \oplus
    <3> QED BY <3>1
  <2>2. GfMul[g[1]][root] = a
    BY <1>1, <1>2
  <2> HIDE DEF w, a
  <2> QED BY <1>1, <2>1, <2>2 DEF TimesFactor, Between
<1>7. \A k \in 1 .. n - 1 : w[k] = g[k] \oplus (g[k + 1] \otimes root)
  OBVIOUS
<1> HIDE DEF t, w
<1>8. t \in Words(n + 1) /\ t[n + 1] = b
  BY <1>2, <1>5
<1>9. \A k \in 1 .. n - 1 : t[k + 1] = g[k] \oplus (g[k + 1] \otimes root)
  BY <1>5, <1>7
<1> QED BY <1>5, <1>6, <1>8, <1>9

\* Horner's rule for a product, in the middle and at the end.
LEMMA TimesStep ==
  ASSUME NEW q \in Symbols, NEW g1 \in Symbols, NEW g2 \in Symbols, NEW x \in Symbols,
         NEW root \in Symbols, NEW h \in Symbols, h = (q \otimes x) \oplus g1
  PROVE  /\ ((h \otimes x) \oplus g2) \oplus (h \otimes root)
              = ((h \oplus (q \otimes root)) \otimes x) \oplus (g2 \oplus (g1 \otimes root))
         /\ h \otimes (x \oplus root)
              = ((h \oplus (q \otimes root)) \otimes x) \oplus (g1 \otimes root)
<1> DEFINE a == h \otimes x
           b == (q \otimes root) \otimes x
           c == g1 \otimes root
<1>1. /\ q \otimes x \in Symbols /\ q \otimes root \in Symbols
      /\ a \in Symbols /\ b \in Symbols /\ c \in Symbols
  BY MulFacts
<1>2. (h \oplus (q \otimes root)) \otimes x = a \oplus b
  BY <1>1, MulFacts
<1>3. h \otimes root = b \oplus c
  <2>1. h \otimes root = ((q \otimes x) \otimes root) \oplus (g1 \otimes root)
    BY <1>1, MulFacts
  <2>2. (q \otimes x) \otimes root = q \otimes (x \otimes root) /\ x \otimes root = root \otimes x
    BY MulFacts
  <2>3. q \otimes (root \otimes x) = (q \otimes root) \otimes x
    BY MulFacts
  <2> QED BY <2>1, <2>2, <2>3
<1>4. h \otimes (x \oplus root) = a \oplus (h \otimes root)
  BY MulFacts
<1> HIDE DEF a, b, c
<1>5. (a \oplus g2) \oplus (b \oplus c) = (a \oplus b) \oplus (g2 \oplus c)
  BY <1>1, PlusMiddle
<1>6. a \oplus (b \oplus c) = (a \oplus b) \oplus c
  BY <1>1, PlusFacts
<1> QED BY <1>2, <1>3, <1>4, <1>5, <1>6 DEF a, c

\* The value of a product is the product of the values.
LEMMA TimesEval ==
  ASSUME NEW n \in Nat, n >= 1, NEW g \in Words(n), NEW root \in Symbols, NEW x \in Symbols
  PROVE  Eval(Times(g, root), x) = Eval(g, x) \otimes (x \oplus root)
<1> DEFINE t == Times(g, root)
           m == n + 1
<1>1. /\ t \in Words(m) /\ t[1] = g[1]
      /\ \A k \in 1 .. n - 1 : t[k + 1] = g[k + 1] \oplus (g[k] \otimes root)
      /\ t[m] = g[n] \otimes root
  BY TimesWord
<1>2. PICK h : Horner(h, g, n, x) /\ Eval(g, x) = h[n]
  BY EvalHorner
<1>3. /\ \A k \in 0 .. n : h[k] \in Symbols
      /\ h[0] = 0 /\ \A k \in 1 .. n : h[k] = (h[k - 1] \otimes x) \oplus g[k]
      /\ \A k \in 1 .. n : g[k] \in Symbols
  BY <1>2, HornerType, WordsFacts DEF Horner
<1> DEFINE u == [k \in 0 .. m |->
                   IF k = 0 THEN 0
                   ELSE IF k = m THEN h[n] \otimes (x \oplus root)
                   ELSE h[k] \oplus (h[k - 1] \otimes root)]
<1>4. m \in Nat /\ n \in 0 .. n /\ n \in 1 .. n /\ n - 1 \in 0 .. n /\ 0 \in Symbols
  BY MulFacts
<1>5. Horner(u, t, m, x)
  <2> HIDE DEF t
  <2>1. u[0] = 0
    OBVIOUS
  <2>2. ASSUME NEW k \in 1 .. m PROVE u[k] = (u[k - 1] \otimes x) \oplus t[k]
    <3>1. CASE k = 1
      <4>1. u[1] = h[1] \oplus (h[0] \otimes root) /\ u[0] = 0
        BY <1>4
      <4>2. h[1] = (0 \otimes x) \oplus g[1] /\ h[1] \in Symbols /\ g[1] \in Symbols /\ 1 - 1 = 0
        BY <1>3, <1>4
      <4> QED BY <1>1, <1>3, <1>4, <3>1, <4>1, <4>2, PlusFacts, MulFacts
    <3>2. CASE k = m
      <4>1. u[m] = h[n] \otimes (x \oplus root)
        BY <1>4
      <4>2. u[n] = h[n] \oplus (h[n - 1] \otimes root)
        <5>1. n \in 0 .. m /\ n # 0 /\ n # m
          OBVIOUS
        <5> HIDE DEF m
        <5> QED BY <5>1
      <4>3. /\ h[n] = (h[n - 1] \otimes x) \oplus g[n]
            /\ h[n] \in Symbols /\ h[n - 1] \in Symbols /\ g[n] \in Symbols
        BY <1>3, <1>4
      <4>4. h[n] \otimes (x \oplus root)
              = ((h[n] \oplus (h[n - 1] \otimes root)) \otimes x) \oplus (g[n] \otimes root)
        BY <4>3, TimesStep
      <4>5. k - 1 = n
        BY <3>2
      <4> HIDE DEF u, m
      <4> QED BY <1>1, <3>2, <4>1, <4>2, <4>4, <4>5
    <3>3. CASE k # 1 /\ k # m
      <4> DEFINE j == k - 1
      <4>1. j \in 1 .. n - 1 /\ j \in 1 .. n /\ k \in 1 .. n /\ j + 1 = k /\ j - 1 \in 0 .. n /\ j \in Nat
        BY <3>3
      <4>2. u[k] = h[k] \oplus (h[j] \otimes root) /\ u[j] = h[j] \oplus (h[j - 1] \otimes root)
        <5>1. k \in 0 .. m /\ j \in 0 .. m /\ k # 0 /\ k # m /\ j # 0 /\ j # m
          BY <3>3, <4>1
        <5> HIDE DEF m
        <5> QED BY <5>1
      <4>3. t[k] = g[k] \oplus (g[j] \otimes root)
        <5> HIDE DEF j
        <5> QED BY <1>1, <4>1
      <4>4. /\ h[k] = (h[j] \otimes x) \oplus g[k] /\ h[j] = (h[j - 1] \otimes x) \oplus g[j]
            /\ h[j] \in Symbols /\ h[j - 1] \in Symbols /\ g[j] \in Symbols /\ g[k] \in Symbols
        <5>1. h[k] = (h[k - 1] \otimes x) \oplus g[k]
          BY <1>3, <4>1
        <5> HIDE DEF u, m
        <5>2. h[j] = (h[j - 1] \otimes x) \oplus g[j] /\ h[j] \in Symbols
          <6> HIDE DEF j
          <6> QED BY <1>3, <4>1
        <5> QED BY <1>3, <4>1, <5>1, <5>2
      <4> HIDE DEF u, m
      <4>5. u[k - 1] = u[j]
        OBVIOUS
      <4> HIDE DEF j
      <4>6. ((h[j] \otimes x) \oplus g[k]) \oplus (h[j] \otimes root)
             = ((h[j] \oplus (h[j - 1] \otimes root)) \otimes x) \oplus (g[k] \oplus (g[j] \otimes root))
        BY <4>4, TimesStep, SMTT(40)
      <4> QED BY <4>2, <4>3, <4>4, <4>5, <4>6
    <3> QED BY <3>1, <3>2, <3>3
  <2> QED BY <2>1, <2>2 DEF Horner
<1>6. u[m] = h[n] \otimes (x \oplus root)
  BY <1>4
<1>7. Eval(t, x) = u[m]
  <2> HIDE DEF t, u, m
  <2> QED BY <1>1, <1>4, <1>5, EvalIs
<1> HIDE DEF u, m
<1> QED BY <1>2, <1>6, <1>7

\* The numbers of roots in use.
RootCounts == {i.p.roots : i \in Inputs}

\* Validate bounds them.
LEMMA RootCountsFacts ==
  \A r \in RootCounts : r \in Nat /\ r \in 1 .. CodewordLen - 1
<1> SUFFICES ASSUME NEW i \in Inputs PROVE i.p.roots \in Nat /\ i.p.roots \in 1 .. CodewordLen - 1
  BY DEF RootCounts
<1>1. Valid(i.p)
  BY ReedSolomonAssumption DEF InputsAssumption
<1> QED BY <1>1, CodewordLenFacts DEF Valid

\* The reference's generator, factor after factor.
LEMMA GenFactors ==
  \E G : /\ \A n \in 0 .. CodewordLen : G[n] \in Words(n + 1)
         /\ G[0] = <<1>>
         /\ \A n \in 1 .. CodewordLen : G[n] = Times(G[n - 1], Exp(n - 1))
         /\ \A r \in RootCounts : Gen[r] = G[r]
<1> DEFINE N == CodewordLen
           X == {w \in Seq(Symbols) : Len(w) >= 1}
           F(f, n) == IF n = 0 THEN <<1>> ELSE Times(f[n - 1], Exp(n - 1))
           gen == CHOOSE f : f = [n \in 0 .. CodewordLen |-> F(f, n)]
           step == [n \in 1 .. N |-> [g \in X |-> Times(g, Exp(n - 1))]]
           one == <<1>>
<1>1. N \in Nat /\ one \in X
  BY CodewordLenFacts, MulFacts
<1>2. \A n \in 1 .. N : Exp(n - 1) \in Symbols /\ n - 1 \in 0 .. N /\ n \in Nat /\ n # 0
  <2>1. ASSUME NEW n \in 1 .. N PROVE Exp(n - 1) \in Symbols
    <3>1. n - 1 \in Logs
      BY CodewordLenFacts
    <3> QED BY <3>1, ExpFacts
  <2> QED BY <1>1, <2>1
<1>3. step \in [1 .. N -> [X -> X]]
  <2>1. ASSUME NEW n \in 1 .. N, NEW g \in X PROVE Times(g, Exp(n - 1)) \in X
    <3>1. g \in Words(Len(g)) /\ Len(g) \in Nat /\ Len(g) >= 1
      BY SequencesAreWords
    <3>2. Times(g, Exp(n - 1)) \in Words(Len(g) + 1)
      BY <1>2, <3>1, TimesWord
    <3>3. Len(g) + 1 \in Nat /\ Len(g) + 1 >= 1
      BY <3>1
    <3> QED BY <3>2, <3>3, WordsFacts
  <2> HIDE DEF X
  <2> QED BY <2>1
<1>4. PICK f \in [0 .. N -> X] : f[0] = one /\ \A n \in 1 .. N : f[n] = step[n][f[n - 1]]
  <2>1. LinearSolutions(N, X, one, step) # {}
    <3> HIDE DEF step, N, X, one
    <3> QED BY <1>1, <1>3, LinearRecursion, Zenon
  <2> HIDE DEF step, N, X, one
  <2> QED BY <2>1 DEF LinearSolutions
<1>5. f = [n \in 0 .. CodewordLen |-> F(f, n)]
  <2>1. ASSUME NEW n \in 0 .. CodewordLen PROVE f[n] = F(f, n)
    <3>1. CASE n = 0
      BY <1>4, <3>1
    <3>2. CASE n # 0
      <4>1. n \in 1 .. N /\ n - 1 \in 0 .. N
        BY <1>1, <3>2
      <4>2. f[n - 1] \in X /\ f[n] = step[n][f[n - 1]]
        BY <1>4, <4>1
      <4> HIDE DEF X
      <4> QED BY <3>2, <4>1, <4>2
    <3> QED BY <3>1, <3>2
  <2> HIDE DEF F, X
  <2> QED BY <1>4, <2>1
<1>6. gen = [n \in 0 .. CodewordLen |-> F(gen, n)]
  <2> HIDE DEF F
  <2> QED BY <1>5
<1>7. Gen = [r \in RootCounts |-> gen[r]]
  BY TabulatedFacts DEF Gen, RootCounts, Times
<1> HIDE DEF gen
<1>8. \A n \in 0 .. CodewordLen : gen[n] = F(gen, n)
  <2> HIDE DEF F
  <2> QED BY <1>6
<1> DEFINE T == {n \in 0 .. CodewordLen : gen[n] \notin Words(n + 1)}
<1>9. ASSUME T # {} PROVE FALSE
  <2>1. PICK n \in T : \A y \in T : n <= y
    <3>1. T \in SUBSET Nat
      OBVIOUS
    <3> HIDE DEF T
    <3> QED BY <1>9, <3>1, LeastSymbol
  <2>2. n \in 0 .. N /\ gen[n] \notin Words(n + 1)
    OBVIOUS
  <2>3. n # 0
    <3>1. one \in Words(1)
      BY MulFacts DEF Words
    <3>2. gen[0] = one /\ 0 + 1 = 1
      BY <1>1, <1>8
    <3> HIDE DEF one
    <3> QED BY <2>2, <3>1, <3>2
  <2>4. n \in 1 .. N /\ n - 1 \in 0 .. N /\ ~ (n <= n - 1) /\ (n - 1) + 1 = n /\ n \in Nat /\ n >= 1
    BY <1>1, <2>2, <2>3
  <2>5. gen[n - 1] \in Words(n)
    BY <2>1, <2>4
  <2>6. gen[n] = Times(gen[n - 1], Exp(n - 1))
    BY <1>8, <2>2, <2>3
  <2> QED BY <1>2, <2>2, <2>4, <2>5, <2>6, TimesWord
<1>10. /\ \A n \in 0 .. CodewordLen : gen[n] \in Words(n + 1)
       /\ gen[0] = <<1>>
       /\ \A n \in 1 .. CodewordLen : gen[n] = Times(gen[n - 1], Exp(n - 1))
       /\ \A r \in RootCounts : Gen[r] = gen[r]
  <2>1. \A n \in 1 .. CodewordLen : n \in 0 .. CodewordLen /\ n # 0 /\ 0 \in 0 .. CodewordLen
    BY <1>1
  <2>2. 0 \in 0 .. CodewordLen
    BY <1>1
  <2> QED BY <1>7, <1>8, <1>9, <2>1, <2>2
<1> QED BY <1>10

\* The code's generator, factor after factor.
LEMMA GeneratorFactors ==
  \E G : /\ \A n \in 0 .. CodewordLen : G[n] \in Words(n + 1)
         /\ G[0] = <<1>>
         /\ \A n \in 1 .. CodewordLen : G[n] = TimesFactor(G[n - 1], Root[n - 1])
         /\ \A r \in RootCounts : GeneratorPoly[r] = G[r]
<1> DEFINE N == CodewordLen
           X == {w \in Seq(Symbols) : Len(w) >= 1}
           F(f, n) == IF n = 0 THEN <<1>> ELSE TimesFactor(f[n - 1], Root[n - 1])
           gen == CHOOSE f : f = [n \in 0 .. CodewordLen |-> F(f, n)]
           step == [n \in 1 .. N |-> [g \in X |-> TimesFactor(g, Root[n - 1])]]
           one == <<1>>
<1>1. N \in Nat /\ one \in X
  BY CodewordLenFacts, MulFacts
<1>2. \A n \in 1 .. N : Root[n - 1] \in Symbols /\ n - 1 \in 0 .. N /\ n \in Nat /\ n # 0
  <2>1. ASSUME NEW n \in 1 .. N PROVE Root[n - 1] \in Symbols
    <3>1. n - 1 \in Logs /\ n - 1 \in 0 .. CodewordLen - 1
      BY CodewordLenFacts
    <3> QED BY <3>1, ExpFacts, RootIsExp
  <2> QED BY <1>1, <2>1
<1>3. step \in [1 .. N -> [X -> X]]
  <2>1. ASSUME NEW n \in 1 .. N, NEW g \in X PROVE TimesFactor(g, Root[n - 1]) \in X
    <3>1. g \in Words(Len(g)) /\ Len(g) \in Nat /\ Len(g) >= 1
      BY SequencesAreWords
    <3>2. TimesFactor(g, Root[n - 1]) \in Words(Len(g) + 1)
      BY <1>2, <3>1, TimesFactorWord
    <3>3. Len(g) + 1 \in Nat /\ Len(g) + 1 >= 1
      BY <3>1
    <3> QED BY <3>2, <3>3, WordsFacts
  <2> HIDE DEF X
  <2> QED BY <2>1
<1>4. PICK f \in [0 .. N -> X] : f[0] = one /\ \A n \in 1 .. N : f[n] = step[n][f[n - 1]]
  <2>1. LinearSolutions(N, X, one, step) # {}
    <3> HIDE DEF step, N, X, one
    <3> QED BY <1>1, <1>3, LinearRecursion, Zenon
  <2> HIDE DEF step, N, X, one
  <2> QED BY <2>1 DEF LinearSolutions
<1>5. f = [n \in 0 .. CodewordLen |-> F(f, n)]
  <2>1. ASSUME NEW n \in 0 .. CodewordLen PROVE f[n] = F(f, n)
    <3>1. CASE n = 0
      BY <1>4, <3>1
    <3>2. CASE n # 0
      <4>1. n \in 1 .. N /\ n - 1 \in 0 .. N
        BY <1>1, <3>2
      <4>2. f[n - 1] \in X /\ f[n] = step[n][f[n - 1]]
        BY <1>4, <4>1
      <4> HIDE DEF X
      <4> QED BY <3>2, <4>1, <4>2
    <3> QED BY <3>1, <3>2
  <2> HIDE DEF F, X
  <2> QED BY <1>4, <2>1
<1>6. gen = [n \in 0 .. CodewordLen |-> F(gen, n)]
  <2> HIDE DEF F
  <2> QED BY <1>5
<1>7. GeneratorPoly = [r \in RootCounts |-> gen[r]]
  BY TabulatedFacts DEF GeneratorPoly, RootCounts
<1> HIDE DEF gen
<1>8. \A n \in 0 .. CodewordLen : gen[n] = F(gen, n)
  <2> HIDE DEF F
  <2> QED BY <1>6
<1> DEFINE T == {n \in 0 .. CodewordLen : gen[n] \notin Words(n + 1)}
<1>9. ASSUME T # {} PROVE FALSE
  <2>1. PICK n \in T : \A y \in T : n <= y
    <3>1. T \in SUBSET Nat
      OBVIOUS
    <3> HIDE DEF T
    <3> QED BY <1>9, <3>1, LeastSymbol
  <2>2. n \in 0 .. N /\ gen[n] \notin Words(n + 1)
    OBVIOUS
  <2>3. n # 0
    <3>1. one \in Words(1)
      BY MulFacts DEF Words
    <3>2. gen[0] = one /\ 0 + 1 = 1
      BY <1>1, <1>8
    <3> HIDE DEF one
    <3> QED BY <2>2, <3>1, <3>2
  <2>4. n \in 1 .. N /\ n - 1 \in 0 .. N /\ ~ (n <= n - 1) /\ (n - 1) + 1 = n /\ n \in Nat /\ n >= 1
    BY <1>1, <2>2, <2>3
  <2>5. gen[n - 1] \in Words(n)
    BY <2>1, <2>4
  <2>6. gen[n] = TimesFactor(gen[n - 1], Root[n - 1])
    BY <1>8, <2>2, <2>3
  <2> QED BY <1>2, <2>2, <2>4, <2>5, <2>6, TimesFactorWord
<1>10. /\ \A n \in 0 .. CodewordLen : gen[n] \in Words(n + 1)
       /\ gen[0] = <<1>>
       /\ \A n \in 1 .. CodewordLen : gen[n] = TimesFactor(gen[n - 1], Root[n - 1])
       /\ \A r \in RootCounts : GeneratorPoly[r] = gen[r]
  <2>1. \A n \in 1 .. CodewordLen : n \in 0 .. CodewordLen /\ n # 0 /\ 0 \in 0 .. CodewordLen
    BY <1>1
  <2>2. 0 \in 0 .. CodewordLen
    BY <1>1
  <2> QED BY <1>7, <1>8, <1>9, <2>1, <2>2
<1> QED BY <1>10

\* The code's generator is the reference's, in the other order.
LEMMA GeneratorIsGen ==
  \A r \in RootCounts :
    /\ Gen[r] \in Words(r + 1) /\ Gen[r][1] = 1
    /\ \A j \in 1 .. r : Tap(r, j) = Gen[r][j + 1]
<1>1. PICK G : /\ \A n \in 0 .. CodewordLen : G[n] \in Words(n + 1)
               /\ G[0] = <<1>>
               /\ \A n \in 1 .. CodewordLen : G[n] = Times(G[n - 1], Exp(n - 1))
               /\ \A r \in RootCounts : Gen[r] = G[r]
  BY GenFactors
<1>2. PICK P : /\ \A n \in 0 .. CodewordLen : P[n] \in Words(n + 1)
               /\ P[0] = <<1>>
               /\ \A n \in 1 .. CodewordLen : P[n] = TimesFactor(P[n - 1], Root[n - 1])
               /\ \A r \in RootCounts : GeneratorPoly[r] = P[r]
  BY GeneratorFactors
<1>3. CodewordLen \in Nat
  BY CodewordLenFacts
<1> DEFINE Good(n) == G[n][1] = 1 /\ \A k \in 1 .. n + 1 : P[n][k] = G[n][n + 2 - k]
           T == {n \in 0 .. CodewordLen : ~ Good(n)}
<1>4. ASSUME T # {} PROVE FALSE
  <2>1. PICK n \in T : \A y \in T : n <= y
    <3>1. T \in SUBSET Nat
      OBVIOUS
    <3> HIDE DEF T
    <3> QED BY <1>4, <3>1, LeastSymbol
  <2>2. n \in 0 .. CodewordLen /\ ~ Good(n)
    OBVIOUS
  <2>3. n # 0
    <3>1. Good(0)
      <4>1. ASSUME NEW k \in 1 .. 0 + 1 PROVE P[0][k] = G[0][0 + 2 - k]
        BY <1>1, <1>2
      <4>2. G[0][1] = 1
        BY <1>1
      <4> QED BY <4>1, <4>2
    <3> QED BY <2>2, <3>1
  <2> DEFINE g == G[n - 1]
             q == P[n - 1]
             root == Exp(n - 1)
  <2>4. /\ n \in 1 .. CodewordLen /\ n \in Nat /\ n >= 1 /\ n - 1 \in 0 .. CodewordLen
        /\ ~ (n <= n - 1) /\ (n - 1) + 1 = n /\ n - 1 \in 0 .. CodewordLen - 1
    BY <1>3, <2>2, <2>3
  <2>5. /\ g \in Words(n) /\ q \in Words(n) /\ root \in Symbols
        /\ G[n] = Times(g, root) /\ P[n] = TimesFactor(q, root)
    <3>1. Root[n - 1] = root /\ root \in Symbols
      BY <2>4, RootIsExp, CodewordLenFacts, ExpFacts
    <3> QED BY <1>1, <1>2, <2>4, <3>1
  <2>6. Good(n - 1)
    BY <2>1, <2>4
  <2>7. g[1] = 1 /\ \A k \in 1 .. n : q[k] = g[n + 1 - k]
    <3>1. \A k \in 1 .. n : k \in 1 .. (n - 1) + 1 /\ (n - 1) + 2 - k = n + 1 - k
      BY <2>4
    <3> QED BY <2>6, <3>1
  <2> DEFINE t == G[n]
             u == P[n]
  <2>8. /\ t[1] = g[1] /\ t[n + 1] = g[n] \otimes root
        /\ \A k \in 1 .. n - 1 : t[k + 1] = g[k + 1] \oplus (g[k] \otimes root)
    <3>1. t = Times(g, root)
      BY <2>5
    <3> HIDE DEF g, root, t
    <3>2. LET s == Times(g, root)
          IN  /\ s \in Words(n + 1) /\ s[1] = g[1]
              /\ \A k \in 1 .. n - 1 : s[k + 1] = g[k + 1] \oplus (g[k] \otimes root)
              /\ s[n + 1] = g[n] \otimes root
      BY <2>4, <2>5, TimesWord, Zenon
    <3> QED BY <3>1, <3>2, Zenon
  <2>9. /\ u[1] = q[1] \otimes root /\ u[n + 1] = q[n]
        /\ \A k \in 1 .. n - 1 : u[k + 1] = q[k] \oplus (q[k + 1] \otimes root)
    <3> HIDE DEF q, root
    <3> QED BY <2>4, <2>5, TimesFactorWord
  <2> HIDE DEF g, q, root, t, u
  <2>10. ASSUME NEW k \in 1 .. n + 1 PROVE u[k] = t[n + 2 - k]
    <3>1. CASE k = 1
      <4>1. n + 2 - k = n + 1 /\ q[1] = g[n + 1 - 1] /\ n + 1 - 1 = n
        BY <2>4, <2>7, <3>1
      <4> QED BY <2>8, <2>9, <3>1, <4>1
    <3>2. CASE k = n + 1
      <4>1. n + 2 - k = 1 /\ q[n] = g[n + 1 - n] /\ n + 1 - n = 1
        BY <2>4, <2>7, <3>2
      <4> QED BY <2>8, <2>9, <3>2, <4>1
    <3>3. CASE k # 1 /\ k # n + 1
      <4> DEFINE i == k - 1
                 j == n + 1 - k
      <4>1. /\ i \in 1 .. n - 1 /\ i + 1 = k /\ j \in 1 .. n - 1 /\ j + 1 = n + 2 - k
            /\ i \in 1 .. n /\ i + 1 \in 1 .. n /\ n + 1 - i = j + 1 /\ n + 1 - (i + 1) = j
            /\ j + 1 \in 1 .. n
        BY <2>4, <3>3
      <4> HIDE DEF i, j
      <4>2. u[i + 1] = q[i] \oplus (q[i + 1] \otimes root)
        BY <2>9, <4>1
      <4>3. t[j + 1] = g[j + 1] \oplus (g[j] \otimes root)
        BY <2>8, <4>1
      <4>4. q[i] = g[j + 1] /\ q[i + 1] = g[j]
        <5>1. q[i] = g[n + 1 - i] /\ q[i + 1] = g[n + 1 - (i + 1)]
          BY <2>7, <4>1
        <5> QED BY <4>1, <5>1
      <4> QED BY <4>1, <4>2, <4>3, <4>4
    <3> QED BY <3>1, <3>2, <3>3
  <2>11. Good(n)
    BY <2>7, <2>8, <2>10 DEF t, u
  <2> QED BY <2>2, <2>11
<1> SUFFICES ASSUME NEW r \in RootCounts
             PROVE  /\ Gen[r] \in Words(r + 1) /\ Gen[r][1] = 1
                    /\ \A j \in 1 .. r : Tap(r, j) = Gen[r][j + 1]
  OBVIOUS
<1>5. r \in Nat /\ r \in 0 .. CodewordLen
  BY <1>3, RootCountsFacts
<1>6. Good(r)
  BY <1>4, <1>5
<1>7. Gen[r] = G[r] /\ GeneratorPoly[r] = P[r] /\ Gen[r] \in Words(r + 1)
  BY <1>1, <1>2, <1>5
<1>8. ASSUME NEW j \in 1 .. r PROVE Tap(r, j) = Gen[r][j + 1]
  <2>1. r + 1 - j \in 1 .. r + 1 /\ r + 2 - (r + 1 - j) = j + 1
    BY <1>5
  <2>2. P[r][r + 1 - j] = G[r][r + 2 - (r + 1 - j)]
    BY <1>6, <2>1
  <2> QED BY <1>7, <2>1, <2>2 DEF Tap
<1> QED BY <1>6, <1>7, <1>8

\* And vanishes at as many powers of 2 as it has roots.
LEMMA GenVanishes ==
  \A r \in RootCounts : \A i \in 0 .. r - 1 : Eval(Gen[r], Exp(i)) = 0
<1>1. PICK G : /\ \A n \in 0 .. CodewordLen : G[n] \in Words(n + 1)
               /\ \A n \in 1 .. CodewordLen : G[n] = Times(G[n - 1], Exp(n - 1))
               /\ \A r \in RootCounts : Gen[r] = G[r]
  BY GenFactors
<1>2. CodewordLen \in Nat
  BY CodewordLenFacts
<1> DEFINE Good(n) == \A i \in 0 .. n - 1 : Eval(G[n], Exp(i)) = 0
           T == {n \in 0 .. CodewordLen : ~ Good(n)}
<1>3. ASSUME T # {} PROVE FALSE
  <2>1. PICK n \in T : \A y \in T : n <= y
    <3>1. T \in SUBSET Nat
      OBVIOUS
    <3> HIDE DEF T
    <3> QED BY <1>3, <3>1, LeastSymbol
  <2>2. PICK i \in 0 .. n - 1 : Eval(G[n], Exp(i)) # 0
    OBVIOUS
  <2>3. n \in 0 .. CodewordLen
    OBVIOUS
  <2>4. /\ n \in 1 .. CodewordLen /\ n \in Nat /\ n >= 1 /\ n - 1 \in 0 .. CodewordLen
        /\ ~ (n <= n - 1) /\ (n - 1) + 1 = n
        /\ i \in 0 .. CodewordLen - 1 /\ n - 1 \in 0 .. CodewordLen - 1
    BY <1>2, <2>2, <2>3
  <2> DEFINE g == G[n - 1]
             root == Exp(n - 1)
             x == Exp(i)
  <2>5. g \in Words(n) /\ root \in Symbols /\ x \in Symbols /\ G[n] = Times(g, root)
    <3>1. root \in Symbols /\ x \in Symbols
      BY <2>4, CodewordLenFacts, ExpFacts
    <3> QED BY <1>1, <2>4, <3>1
  <2>6. Good(n - 1)
    BY <2>1, <2>4
  <2>7. i = n - 1 \/ Eval(g, x) = 0
    <3>1. i = n - 1 \/ i \in 0 .. (n - 1) - 1
      BY <2>2, <2>4
    <3> QED BY <2>6, <3>1
  <2>8. i = n - 1 => x = root
    OBVIOUS
  <2> HIDE DEF g, root, x
  <2>9. Eval(Times(g, root), x) = Eval(g, x) \otimes (x \oplus root)
    BY <2>4, <2>5, TimesEval
  <2>10. Eval(g, x) \in Symbols /\ x \oplus root \in Symbols
    <3>1. PICK h : Horner(h, g, n, x) /\ Eval(g, x) = h[n]
      BY <2>4, <2>5, EvalHorner
    <3>2. n \in 0 .. n
      BY <2>4
    <3> QED BY <2>4, <2>5, <3>1, <3>2, HornerType, PlusFacts
  <2>11. x = root => x \oplus root = 0
    BY <2>5, PlusFacts
  <2>12. Eval(g, x) \otimes (x \oplus root) = 0
    BY <2>7, <2>8, <2>10, <2>11, MulFacts
  <2> QED BY <2>2, <2>5, <2>9, <2>12 DEF x
<1> SUFFICES ASSUME NEW r \in RootCounts, NEW i \in 0 .. r - 1 PROVE Eval(Gen[r], Exp(i)) = 0
  OBVIOUS
<1>4. r \in 0 .. CodewordLen
  BY <1>2, RootCountsFacts
<1>5. Good(r)
  BY <1>3, <1>4
<1> QED BY <1>1, <1>5

--------------------------------------------------------------------------------
(* The register                                                             *)

\* A cleared register.
LEMMA ClearedWord ==
  ASSUME NEW r \in Nat
  PROVE  Cleared(r) \in Words(r) /\ \A k \in 1 .. r : Cleared(r)[k] = 0
BY MulFacts DEF Cleared, Words

\* What a symbol does to the register, in terms of the generator.
LEMMA SteppedWord ==
  ASSUME NEW r \in RootCounts, NEW reg \in Words(r), NEW s \in Symbols
  PROVE  LET f == s \oplus reg[1]
             t == Stepped(reg, s)
         IN  /\ f \in Symbols /\ t \in Words(r)
             /\ \A j \in 1 .. r - 1 : t[j] = reg[j + 1] \oplus (Gen[r][j + 1] \otimes f)
             /\ t[r] = Gen[r][r + 1] \otimes f
<1> DEFINE f == s \oplus reg[1]
           G == Gen[r]
           w == [j \in 1 .. r - 1 |-> reg[j + 1] \oplus (G[j + 1] \otimes f)]
           b == G[r + 1] \otimes f
           last == <<b>>
           t == w \o last
<1>1. r \in Nat /\ r >= 1 /\ r - 1 \in Nat /\ (r - 1) + 1 = r /\ 1 \in 1 .. r /\ r \in 1 .. r
  BY RootCountsFacts
<1>2. /\ G \in Words(r + 1) /\ \A j \in 1 .. r : Tap(r, j) = G[j + 1]
      /\ \A j \in 1 .. r : G[j + 1] \in Symbols
  <2>1. G \in Words(r + 1) /\ \A j \in 1 .. r : Tap(r, j) = G[j + 1]
    BY GeneratorIsGen
  <2>2. ASSUME NEW j \in 1 .. r PROVE G[j + 1] \in Symbols
    <3>1. j + 1 \in 1 .. r + 1 /\ r + 1 \in Nat
      BY <1>1
    <3> HIDE DEF G
    <3> QED BY <2>1, <3>1, WordsFacts
  <2> QED BY <2>1, <2>2
<1>3. Len(reg) = r /\ \A j \in 1 .. r : reg[j] \in Symbols
  BY <1>1, WordsFacts
<1>4. f \in Symbols
  BY <1>1, <1>3, PlusFacts
<1> HIDE DEF G
<1>5. w \in Words(r - 1)
  <2> HIDE DEF f
  <2>1. ASSUME NEW j \in 1 .. r - 1 PROVE reg[j + 1] \oplus (G[j + 1] \otimes f) \in Symbols
    <3>1. j \in 1 .. r /\ j + 1 \in 1 .. r
      BY <1>1
    <3>2. G[j + 1] \otimes f \in Symbols /\ reg[j + 1] \in Symbols
      BY <1>2, <1>3, <1>4, <3>1, MulFacts
    <3> QED BY <3>2, PlusFacts
  <2> QED BY <2>1 DEF Words
<1>6. b \in Symbols /\ last \in Words(1) /\ last[1] = b
  <2> HIDE DEF f
  <2>1. b \in Symbols
    BY <1>1, <1>2, <1>4, MulFacts
  <2> HIDE DEF b
  <2> QED BY <2>1 DEF Words
<1>7. Stepped(reg, s) = t
  <2>1. [j \in 1 .. r - 1 |-> Plus[reg[j + 1]][GfMul[Tap(r, j)][f]]] = w
    <3>1. ASSUME NEW j \in 1 .. r - 1
          PROVE  Plus[reg[j + 1]][GfMul[Tap(r, j)][f]] = reg[j + 1] \oplus (G[j + 1] \otimes f)
      <4>1. j \in 1 .. r
        BY <1>1
      <4> HIDE DEF f
      <4>2. GfMul[Tap(r, j)][f] = G[j + 1] \otimes f
        BY <1>2, <1>4, <4>1, GfMulIsMul
      <4> QED BY <4>2 DEF \oplus
    <3> HIDE DEF f
    <3> QED BY <3>1
  <2>2. GfMul[Tap(r, r)][f] = b
    <3> HIDE DEF f
    <3> QED BY <1>1, <1>2, <1>4, GfMulIsMul
  <2>3. Plus[s][reg[1]] = f
    BY DEF \oplus
  <2> HIDE DEF f, w, b
  <2> QED BY <1>3, <2>1, <2>2, <2>3 DEF Stepped
<1>8. /\ t \in Words((r - 1) + 1)
      /\ \A k \in 1 .. r - 1 : t[k] = w[k]
      /\ \A k \in 1 .. 1 : t[(r - 1) + k] = last[k]
  <2> DEFINE q == r - 1
  <2>1. q \in Nat /\ 1 \in Nat /\ w \in Words(q)
    BY <1>1, <1>5
  <2> HIDE DEF w, last, q
  <2>2. /\ t \in Words(q + 1)
        /\ \A k \in 1 .. q : t[k] = w[k]
        /\ \A k \in 1 .. 1 : t[q + k] = last[k]
    BY <1>6, <2>1, Joined
  <2> QED BY <2>2 DEF q
<1>9. \A j \in 1 .. r - 1 : w[j] = reg[j + 1] \oplus (G[j + 1] \otimes f)
  <2> HIDE DEF f
  <2> QED OBVIOUS
<1>10. t[r] = b
  <2> HIDE DEF t, b, last, w
  <2>1. t[(r - 1) + 1] = last[1]
    BY <1>8
  <2> QED BY <1>1, <1>6, <2>1
<1>11. t \in Words(r)
  <2> HIDE DEF t
  <2> QED BY <1>1, <1>8
<1>12. \A j \in 1 .. r - 1 : t[j] = reg[j + 1] \oplus (G[j + 1] \otimes f)
  <2> HIDE DEF t, w, f
  <2> QED BY <1>8, <1>9
<1> HIDE DEF t
<1> QED BY <1>4, <1>7, <1>10, <1>11, <1>12 DEF G

\* One term of Horner's rule while f times the generator is added.
TermKept(a, c, f, g, y, x) ==
  ((a \otimes x) \oplus c) \oplus (f \otimes ((y \otimes x) \oplus g))
    = ((a \oplus (f \otimes y)) \otimes x) \oplus (c \oplus (g \otimes f))

\* And for the last symbol of the register.
LastTermKept(f, g, y, x) ==
  f \otimes ((y \otimes x) \oplus g) = ((0 \oplus (f \otimes y)) \otimes x) \oplus (g \otimes f)

\* Both hold for all symbols.
LEMMA RemainderStep ==
  \A a, c, f, g, y, x \in Symbols :
    TermKept(a, c, f, g, y, x) /\ LastTermKept(f, g, y, x)
<1> TAKE a, c, f, g, y, x \in Symbols
<1> DEFINE u == a \otimes x
           v == (f \otimes y) \otimes x
           w == g \otimes f
<1>1. u \in Symbols /\ v \in Symbols /\ w \in Symbols /\ f \otimes y \in Symbols /\ y \otimes x \in Symbols
  BY MulFacts
<1>2. f \otimes ((y \otimes x) \oplus g) = v \oplus w
  <2>1. f \otimes ((y \otimes x) \oplus g) = (f \otimes (y \otimes x)) \oplus (f \otimes g)
    BY <1>1, MulFacts
  <2>2. f \otimes (y \otimes x) = (f \otimes y) \otimes x /\ f \otimes g = g \otimes f
    BY MulFacts
  <2> QED BY <2>1, <2>2
<1>3. (a \oplus (f \otimes y)) \otimes x = u \oplus v
  BY <1>1, MulFacts
<1>4. 0 \oplus (f \otimes y) = f \otimes y
  BY <1>1, PlusFacts
<1>5. (u \oplus c) \oplus (v \oplus w) = (u \oplus v) \oplus (c \oplus w)
  BY <1>1, PlusMiddle
<1> QED BY <1>2, <1>3, <1>4, <1>5 DEF TermKept, LastTermKept

\* A symbol more: the register is still the remainder.
LEMMA RemainderKept ==
  ASSUME NEW r \in RootCounts, NEW n \in Nat, NEW w \in Words(n), NEW v \in Words(n + 1),
         \A k \in 1 .. n : v[k] = w[k],
         NEW reg \in Words(r), NEW x \in Symbols,
         Eval(w \o reg, x) = 0, Eval(Gen[r], x) = 0
  PROVE  Eval(v \o Stepped(reg, v[n + 1]), x) = 0
<1> DEFINE s == v[n + 1]
           f == s \oplus reg[1]
           G == Gen[r]
           t == Stepped(reg, s)
           c == w \o reg
           d == v \o t
           m == n + r
<1>0. x \in Symbols /\ 0 \in Symbols
  BY MulFacts
<1>1. r \in Nat /\ r >= 1 /\ m \in Nat /\ m + 1 \in Nat /\ n + 1 + r = m + 1 /\ r \in 1 .. r /\ 1 \in 1 .. r
  BY RootCountsFacts
<1>2. s \in Symbols
  <2>1. n + 1 \in 1 .. n + 1 /\ n + 1 \in Nat
    OBVIOUS
  <2> QED BY <2>1, WordsFacts
<1>3. /\ f \in Symbols /\ t \in Words(r)
      /\ \A j \in 1 .. r - 1 : t[j] = reg[j + 1] \oplus (G[j + 1] \otimes f)
      /\ t[r] = G[r + 1] \otimes f
  <2> HIDE DEF s
  <2> QED BY <1>2, SteppedWord
<1>4. G \in Words(r + 1) /\ G[1] = 1 /\ Eval(G, x) = 0 /\ r + 1 \in Nat
  BY <1>1, GeneratorIsGen
<1> HIDE DEF G
<1>5. /\ c \in Words(m)
      /\ \A k \in 1 .. n : c[k] = w[k]
      /\ \A k \in 1 .. r : c[n + k] = reg[k]
  BY <1>1, Joined
<1>6. /\ d \in Words(m + 1) /\ \A k \in 1 .. n + 1 : d[k] = v[k]
      /\ \A k \in 1 .. r : d[n + 1 + k] = t[k]
  <2>1. /\ d \in Words(n + 1 + r) /\ \A k \in 1 .. n + 1 : d[k] = v[k]
        /\ \A k \in 1 .. r : d[n + 1 + k] = t[k]
    <3> DEFINE q == n + 1
    <3>1. q \in Nat /\ v \in Words(q)
      OBVIOUS
    <3>3. r \in Nat /\ t \in Words(r)
      BY <1>1, <1>3
    <3> HIDE DEF t, q
    <3>2. /\ d \in Words(q + r) /\ \A k \in 1 .. q : d[k] = v[k]
          /\ \A k \in 1 .. r : d[q + k] = t[k]
      BY ONLY <3>3, <3>1, Joined, ZenonT(40)
    <3> QED BY <3>2 DEF q
  <2> HIDE DEF d, m, t
  <2> QED BY <1>1, <2>1
<1>7. PICK h : Horner(h, c, m, x) /\ Eval(c, x) = h[m]
  <2> HIDE DEF c, m
  <2> QED BY <1>1, <1>5, EvalHorner
<1>8. PICK y : Horner(y, G, r + 1, x) /\ Eval(G, x) = y[r + 1]
  BY <1>4, EvalHorner
<1>9. /\ \A k \in 0 .. m : h[k] \in Symbols
      /\ h[0] = 0 /\ \A k \in 1 .. m : h[k] = (h[k - 1] \otimes x) \oplus c[k]
      /\ h[m] = 0
  <2> HIDE DEF c, m
  <2> QED BY <1>1, <1>5, <1>7, HornerType DEF Horner, c
<1>10. /\ \A k \in 0 .. r + 1 : y[k] \in Symbols
       /\ y[0] = 0 /\ \A k \in 1 .. r + 1 : y[k] = (y[k - 1] \otimes x) \oplus G[k]
       /\ y[r + 1] = 0
       /\ \A k \in 1 .. r + 1 : G[k] \in Symbols
  BY <1>4, <1>8, HornerType, WordsFacts DEF Horner
<1>11. \A k \in 1 .. r : reg[k] \in Symbols
  BY <1>1, WordsFacts
<1> DEFINE u == [k \in 0 .. m + 1 |->
                   IF k <= n THEN h[k]
                   ELSE IF k <= m THEN h[k] \oplus (f \otimes y[k - n])
                   ELSE f \otimes y[r + 1]]
<1> HIDE DEF c, d, f, s, t, m
<1>12. /\ \A k \in 0 .. n : u[k] = h[k]
       /\ \A j \in 1 .. r : u[n + j] = h[n + j] \oplus (f \otimes y[j])
       /\ u[m + 1] = f \otimes y[r + 1]
       /\ n + r = m
  <2>1. m = n + r
    BY DEF m
  <2>2. ASSUME NEW k \in 0 .. n PROVE u[k] = h[k]
    BY <1>1, <2>1
  <2>3. ASSUME NEW j \in 1 .. r PROVE u[n + j] = h[n + j] \oplus (f \otimes y[j])
    <3>1. n + j \in 0 .. m + 1 /\ ~ (n + j <= n) /\ n + j <= m /\ (n + j) - n = j
      BY <1>1, <2>1
    <3> QED BY <3>1
  <2>4. u[m + 1] = f \otimes y[r + 1]
    BY <1>1, <2>1
  <2> QED BY <2>1, <2>2, <2>3, <2>4
<1> HIDE DEF u
<1>13. ASSUME NEW k \in 1 .. m + 1 PROVE u[k] = (u[k - 1] \otimes x) \oplus d[k]
  <2>1. CASE k \in 1 .. n
    <3>1. k \in 0 .. n /\ k - 1 \in 0 .. n /\ k \in 1 .. n + 1 /\ k \in 1 .. m
      BY <1>1, <1>12, <2>1
    <3>2. d[k] = c[k]
      BY <1>5, <1>6, <2>1, <3>1
    <3> QED BY <1>9, <1>12, <3>1, <3>2
  <2>2. CASE k = n + 1
    <3>1. n \in 0 .. n /\ k - 1 = n /\ k \in 1 .. m /\ n \in 0 .. m /\ k \in 1 .. n + 1
      BY <1>1, <1>12, <2>2
    <3>2. u[k] = h[k] \oplus (f \otimes y[1]) /\ u[k - 1] = h[n]
      BY <1>1, <1>12, <2>2, <3>1
    <3>3. h[k] = (h[n] \otimes x) \oplus reg[1] /\ h[n] \in Symbols /\ reg[1] \in Symbols
      <4>1. h[k] = (h[k - 1] \otimes x) \oplus c[k] /\ h[n] \in Symbols
        BY <1>9, <3>1
      <4>2. c[k] = reg[1]
        <5>1. c[n + 1] = reg[1]
          BY <1>1, <1>5, Zenon
        <5> QED BY <2>2, <5>1
      <4> QED BY <1>1, <1>11, <3>1, <4>1, <4>2
    <3>4. y[1] = 1
      <4>1. 1 \in 1 .. r + 1 /\ 1 - 1 = 0
        BY <1>1
      <4>2. y[1] = (0 \otimes x) \oplus 1
        BY <1>4, <1>10, <4>1
      <4> QED BY <4>2, MulFacts, PlusFacts
    <3>5. d[k] = s
      BY <1>6, <2>2, <3>1 DEF s
    <3> DEFINE a == h[n] \otimes x
               b == reg[1]
    <3>6. a \in Symbols /\ b \in Symbols /\ f = s \oplus b
      BY <3>3, MulFacts DEF f
    <3> HIDE DEF a, b
    <3>7. (a \oplus b) \oplus (s \oplus b) = (a \oplus s) \oplus (b \oplus b) /\ b \oplus b = 0 /\ a \oplus s \in Symbols
      BY <1>2, <3>6, PlusMiddle, PlusFacts
    <3>8. (a \oplus b) \oplus f = a \oplus s
      BY <3>6, <3>7, PlusFacts
    <3>9. f \otimes y[1] = f
      BY <1>3, <3>4, MulFacts
    <3> QED BY <3>2, <3>3, <3>5, <3>8, <3>9 DEF a, b
  <2>3. CASE k \in n + 2 .. m
    <3> DEFINE j == k - n - 1
    <3>1. /\ j \in 1 .. r - 1 /\ j \in 1 .. r /\ j + 1 \in 1 .. r /\ j + 1 \in 1 .. r + 1 /\ j \in 0 .. r + 1
          /\ k = n + (j + 1) /\ k - 1 = n + j /\ k = n + 1 + j /\ k \in 1 .. m /\ n + j \in 0 .. m
          /\ (j + 1) - 1 = j
      BY <1>1, <1>12, <2>3
    <3> HIDE DEF j
    <3>2. u[k] = h[k] \oplus (f \otimes y[j + 1]) /\ u[k - 1] = h[n + j] \oplus (f \otimes y[j])
      BY <1>12, <3>1
    <3>3. h[k] = (h[n + j] \otimes x) \oplus reg[j + 1]
      <4>1. h[k] = (h[k - 1] \otimes x) \oplus c[k]
        BY <1>9, <3>1
      <4>2. c[k] = reg[j + 1]
        <5>1. c[n + (j + 1)] = reg[j + 1]
          BY <1>5, <3>1, Zenon
        <5> QED BY <3>1, <5>1
      <4> QED BY <3>1, <4>1, <4>2
    <3>4. y[j + 1] = (y[j] \otimes x) \oplus G[j + 1]
      BY <1>10, <3>1
    <3>5. d[k] = reg[j + 1] \oplus (G[j + 1] \otimes f)
      BY <1>3, <1>6, <3>1
    <3>6. /\ h[n + j] \in Symbols /\ reg[j + 1] \in Symbols /\ f \in Symbols /\ G[j + 1] \in Symbols
          /\ y[j] \in Symbols
      BY <1>3, <1>9, <1>10, <1>11, <3>1
    <3>7. ((h[n + j] \otimes x) \oplus reg[j + 1]) \oplus (f \otimes ((y[j] \otimes x) \oplus G[j + 1]))
            = ((h[n + j] \oplus (f \otimes y[j])) \otimes x) \oplus (reg[j + 1] \oplus (G[j + 1] \otimes f))
      <4>1. TermKept(h[n + j], reg[j + 1], f, G[j + 1], y[j], x)
        BY <1>0, <3>6, RemainderStep
      <4> QED BY <4>1 DEF TermKept
    <3> QED BY <3>2, <3>3, <3>4, <3>5, <3>7
  <2>4. CASE k = m + 1
    <3>1. k - 1 = n + r /\ r + 1 \in 1 .. r + 1 /\ r \in 0 .. r + 1 /\ (r + 1) - 1 = r /\ k = n + 1 + r
      BY <1>1, <1>12, <2>4
    <3>2. u[k] = f \otimes y[r + 1] /\ u[k - 1] = 0 \oplus (f \otimes y[r])
      BY <1>1, <1>9, <1>12, <2>4, <3>1
    <3>3. y[r + 1] = (y[r] \otimes x) \oplus G[r + 1] /\ G[r + 1] \in Symbols /\ y[r] \in Symbols
      BY <1>10, <3>1
    <3>4. d[k] = G[r + 1] \otimes f
      BY <1>1, <1>3, <1>6, <3>1
    <3>5. f \in Symbols /\ 0 \in Symbols
      BY <1>3, MulFacts
    <3>6. f \otimes ((y[r] \otimes x) \oplus G[r + 1])
            = ((0 \oplus (f \otimes y[r])) \otimes x) \oplus (G[r + 1] \otimes f)
      <4>1. LastTermKept(f, G[r + 1], y[r], x)
        BY <1>0, <3>3, <3>5, RemainderStep
      <4> QED BY <4>1 DEF LastTermKept
    <3> QED BY <3>2, <3>3, <3>4, <3>6
  <2> QED BY <1>1, <1>12, <2>1, <2>2, <2>3, <2>4
<1>14. Horner(u, d, m + 1, x)
  <2>1. u[0] = 0
    BY <1>9, <1>12
  <2> QED BY <1>13, <2>1 DEF Horner
<1>15. Eval(d, x) = u[m + 1]
  BY <1>1, <1>6, <1>14, EvalIs
<1>16. u[m + 1] = 0
  BY <1>3, <1>10, <1>12, MulFacts
<1> QED BY <1>15, <1>16 DEF d, t, s

--------------------------------------------------------------------------------
(* Encode                                                                   *)

\* The registers Encode goes through.
Runs(reg, w, n, r) ==
  /\ reg[0] = Cleared(r)
  /\ \A k \in 1 .. n : reg[k] = Stepped(reg[k - 1], w[k])

\* Encode is the end of such a run.
LEMMA EncodeRuns ==
  ASSUME NEW r \in RootCounts, NEW n \in Nat, NEW w \in Words(n)
  PROVE  \E reg : /\ Runs(reg, w, n, r) /\ Encode(w, r) = reg[n]
                  /\ \A k \in 0 .. n : reg[k] \in Words(r)
<1> DEFINE F(f, k) == IF k = 0 THEN Cleared(r) ELSE Stepped(f[k - 1], w[k])
           reg == CHOOSE f : f = [k \in 0 .. Len(w) |-> F(f, k)]
           X == Words(r)
           x0 == Cleared(r)
           step == [k \in 1 .. n |-> [a \in X |-> Stepped(a, w[k])]]
<1>1. /\ Len(w) = n /\ \A k \in 1 .. n : w[k] \in Symbols
      /\ r \in Nat /\ x0 \in X
  BY WordsFacts, RootCountsFacts, ClearedWord
<1>2. step \in [1 .. n -> [X -> X]]
  <2>1. ASSUME NEW k \in 1 .. n, NEW a \in X PROVE Stepped(a, w[k]) \in X
    BY <1>1, SteppedWord
  <2> HIDE DEF X
  <2> QED BY <2>1
<1>3. PICK f \in [0 .. n -> X] : f[0] = x0 /\ \A k \in 1 .. n : f[k] = step[k][f[k - 1]]
  <2>1. LinearSolutions(n, X, x0, step) # {}
    <3> HIDE DEF step, X, x0
    <3> QED BY <1>1, <1>2, LinearRecursion, Zenon
  <2> HIDE DEF step, X, x0
  <2> QED BY <2>1 DEF LinearSolutions
<1>4. f = [k \in 0 .. Len(w) |-> F(f, k)]
  <2>1. ASSUME NEW k \in 0 .. n PROVE f[k] = F(f, k)
    <3>1. CASE k = 0
      BY <1>3, <3>1
    <3>2. CASE k # 0
      <4>1. k \in 1 .. n /\ k - 1 \in 0 .. n
        BY <3>2
      <4>2. f[k - 1] \in X /\ f[k] = step[k][f[k - 1]]
        <5> HIDE DEF step, X
        <5> QED BY <1>3, <4>1
      <4> HIDE DEF X
      <4>3. f[k] = Stepped(f[k - 1], w[k])
        BY <4>1, <4>2
      <4> QED BY <3>2, <4>3
    <3> QED BY <3>1, <3>2
  <2> HIDE DEF F, X
  <2> QED BY <1>1, <1>3, <2>1
<1>5. reg = [k \in 0 .. Len(w) |-> F(reg, k)]
  <2> HIDE DEF F
  <2> QED BY <1>4
<1>6. Encode(w, r) = reg[n]
  BY <1>1 DEF Encode
<1> HIDE DEF reg
<1>7. \A k \in 0 .. n : reg[k] = F(reg, k)
  <2> HIDE DEF F
  <2> QED BY <1>1, <1>5
<1>8. Runs(reg, w, n, r)
  <2>1. reg[0] = Cleared(r)
    BY <1>7
  <2>2. ASSUME NEW k \in 1 .. n PROVE reg[k] = Stepped(reg[k - 1], w[k])
    <3>1. k \in 0 .. n /\ k # 0
      OBVIOUS
    <3> QED BY <1>7, <3>1
  <2> QED BY <2>1, <2>2 DEF Runs
<1> DEFINE T == {k \in 0 .. n : reg[k] \notin X}
<1>9. ASSUME T # {} PROVE FALSE
  <2>1. PICK k \in T : \A y \in T : k <= y
    <3>1. T \in SUBSET Nat
      OBVIOUS
    <3> HIDE DEF T
    <3> QED BY <1>9, <3>1, LeastSymbol
  <2> HIDE DEF X
  <2>2. k \in 0 .. n /\ reg[k] \notin X
    OBVIOUS
  <2>3. k # 0
    BY <1>1, <1>8, <2>2 DEF Runs
  <2>4. k \in 1 .. n /\ k - 1 \in 0 .. n /\ ~ (k <= k - 1)
    BY <2>2, <2>3
  <2>5. reg[k - 1] \in X
    BY <2>1, <2>4
  <2>6. reg[k] = Stepped(reg[k - 1], w[k]) /\ w[k] \in Symbols
    BY <1>1, <1>8, <2>4 DEF Runs
  <2>7. Stepped(reg[k - 1], w[k]) \in X
    BY <2>5, <2>6, SteppedWord DEF X
  <2> QED BY <2>2, <2>6, <2>7
<1> QED BY <1>6, <1>8, <1>9

\* A symbol more is one step more.
LEMMA EncodeStep ==
  ASSUME NEW r \in RootCounts, NEW n \in Nat, NEW w \in Words(n), NEW v \in Words(n + 1),
         \A k \in 1 .. n : v[k] = w[k]
  PROVE  Encode(v, r) = Stepped(Encode(w, r), v[n + 1])
<1> DEFINE m == n + 1
<1>1. m \in Nat /\ v \in Words(m)
  OBVIOUS
<1>2. PICK a : Runs(a, w, n, r) /\ Encode(w, r) = a[n]
  BY EncodeRuns
<1>3. PICK b : Runs(b, v, m, r) /\ Encode(v, r) = b[m]
  <2> HIDE DEF m
  <2> QED BY <1>1, EncodeRuns
<1> DEFINE T == {k \in 0 .. n : a[k] # b[k]}
<1>4. ASSUME T # {} PROVE FALSE
  <2>1. PICK k \in T : \A y \in T : k <= y
    <3>1. T \in SUBSET Nat
      OBVIOUS
    <3> HIDE DEF T
    <3> QED BY <1>4, <3>1, LeastSymbol
  <2>2. k \in 0 .. n /\ a[k] # b[k]
    OBVIOUS
  <2>3. k # 0
    BY <1>2, <1>3, <2>2 DEF Runs
  <2>4. k \in 1 .. n /\ k \in 1 .. m /\ k - 1 \in 0 .. n /\ ~ (k <= k - 1)
    BY <2>2, <2>3
  <2>5. a[k - 1] = b[k - 1] /\ v[k] = w[k]
    BY <2>1, <2>4
  <2>6. a[k] = Stepped(a[k - 1], w[k]) /\ b[k] = Stepped(b[k - 1], v[k])
    BY <1>2, <1>3, <2>4 DEF Runs
  <2> QED BY <2>2, <2>5, <2>6
<1>5. n \in 0 .. n /\ m \in 1 .. m /\ m - 1 = n
  OBVIOUS
<1>6. a[n] = b[n]
  BY <1>4, <1>5
<1>7. b[m] = Stepped(b[m - 1], v[m])
  <2> HIDE DEF m
  <2> QED BY <1>3, <1>5 DEF Runs
<1> QED BY <1>2, <1>3, <1>5, <1>6, <1>7

\* The register before the first symbol.
LEMMA EncodeEmpty ==
  ASSUME NEW r \in RootCounts, NEW w \in Words(0)
  PROVE  Encode(w, r) = Cleared(r)
<1>1. 0 \in Nat
  OBVIOUS
<1>2. PICK reg : Runs(reg, w, 0, r) /\ Encode(w, r) = reg[0]
  BY <1>1, EncodeRuns
<1> QED BY <1>2 DEF Runs

\* The register is a word.
LEMMA EncodeWord ==
  ASSUME NEW r \in RootCounts, NEW n \in Nat, NEW w \in Words(n)
  PROVE  Encode(w, r) \in Words(r)
<1>1. PICK reg : Encode(w, r) = reg[n] /\ \A k \in 0 .. n : reg[k] \in Words(r)
  BY EncodeRuns
<1>2. n \in 0 .. n
  OBVIOUS
<1> QED BY <1>1, <1>2

\* Symbols and the register that they leave vanish at the roots.
LEMMA EncodeVanishes ==
  ASSUME NEW r \in RootCounts, NEW i \in 0 .. r - 1
  PROVE  \A n \in Nat : \A w \in Words(n) : Eval(w \o Encode(w, r), Exp(i)) = 0
<1> DEFINE x == Exp(i)
<1>1. r \in Nat /\ r \in 1 .. CodewordLen - 1 /\ i \in 0 .. CodewordLen - 1
  BY RootCountsFacts, CodewordLenFacts
<1>2. x \in Symbols
  BY <1>1, CodewordLenFacts, ExpFacts
<1>3. Eval(Gen[r], x) = 0
  BY GenVanishes
<1> HIDE DEF x
<1> DEFINE T == {n \in Nat : \E w \in Words(n) : Eval(w \o Encode(w, r), x) # 0}
<1>4. ASSUME T # {} PROVE FALSE
  <2>1. PICK n \in T : \A y \in T : n <= y
    <3>1. T \in SUBSET Nat
      OBVIOUS
    <3> HIDE DEF T
    <3> QED BY <1>4, <3>1, LeastSymbol
  <2>2. PICK v \in Words(n) : Eval(v \o Encode(v, r), x) # 0
    OBVIOUS
  <2>3. n \in Nat
    OBVIOUS
  <2>4. CASE n = 0
    <3> DEFINE c == v \o Encode(v, r)
               u == [k \in 0 .. r |-> 0]
    <3>1. Encode(v, r) = Cleared(r) /\ Cleared(r) \in Words(r) /\ v \in Words(0)
      BY <1>1, <2>4, EncodeEmpty, ClearedWord
    <3> DEFINE z == 0
               w == Encode(v, r)
    <3>2. /\ c \in Words(0 + r)
          /\ \A k \in 1 .. r : c[0 + k] = Cleared(r)[k]
      <4>1. z \in Nat /\ v \in Words(z) /\ w \in Words(r) /\ c = v \o w
        BY <3>1
      <4> HIDE DEF z, w, c
      <4>2. /\ v \o w \in Words(z + r)
            /\ \A k \in 1 .. r : (v \o w)[z + k] = w[k]
        BY <1>1, <4>1, Joined
      <4> QED BY <3>1, <4>1, <4>2 DEF z, w
    <3>3. c \in Words(r) /\ \A k \in 1 .. r : c[k] = 0
      <4> HIDE DEF c
      <4>1. 0 + r = r /\ \A k \in 1 .. r : 0 + k = k
        BY <1>1
      <4> QED BY <1>1, <3>2, <4>1, ClearedWord
    <3> HIDE DEF c
    <3>4. Horner(u, c, r, x)
      <4>1. u[0] = 0
        BY <1>1
      <4>2. ASSUME NEW k \in 1 .. r PROVE u[k] = (u[k - 1] \otimes x) \oplus c[k]
        <5>1. u[k] = 0 /\ u[k - 1] = 0 /\ c[k] = 0
          BY <1>1, <3>3
        <5>2. (0 \otimes x) \oplus 0 = 0
          BY <1>2, MulFacts, PlusFacts
        <5> QED BY <5>1, <5>2
      <4> QED BY <4>1, <4>2 DEF Horner
    <3>5. u[r] = 0
      BY <1>1
    <3> HIDE DEF u
    <3>6. Eval(c, x) = u[r]
      BY <1>1, <1>2, <3>3, <3>4, EvalIs
    <3> QED BY <2>2, <3>5, <3>6 DEF c
  <2>5. CASE n # 0
    <3> DEFINE m == n - 1
               w == [k \in 1 .. m |-> v[k]]
    <3>1. m \in Nat /\ m + 1 = n /\ ~ (n <= m)
      BY <2>3, <2>5
    <3>2. w \in Words(m) /\ \A k \in 1 .. m : v[k] = w[k]
      <4>1. ASSUME NEW k \in 1 .. m PROVE v[k] \in Symbols
        <5>1. k \in 1 .. n
          BY <2>3
        <5> QED BY <2>3, <5>1, WordsFacts
      <4> QED BY <4>1 DEF Words
    <3> HIDE DEF w
    <3>3. v \in Words(m + 1)
      BY <3>1
    <3> HIDE DEF m
    <3>4. Eval(w \o Encode(w, r), x) = 0
      <4>1. m \notin T
        <5> HIDE DEF T
        <5> QED BY <2>1, <3>1
      <4> QED BY <3>1, <3>2, <4>1
    <3>5. Encode(w, r) \in Words(r) /\ Encode(v, r) = Stepped(Encode(w, r), v[m + 1])
      BY <3>1, <3>2, <3>3, EncodeWord, EncodeStep
    <3> DEFINE reg == Encode(w, r)
    <3> HIDE DEF reg
    <3>6. Eval(v \o Stepped(reg, v[m + 1]), x) = 0
      BY <1>2, <1>3, <3>1, <3>2, <3>3, <3>4, <3>5, RemainderKept DEF reg
    <3> QED BY <2>2, <3>5, <3>6 DEF reg
  <2> QED BY <2>4, <2>5
<1> QED BY <1>4 DEF x

--------------------------------------------------------------------------------
(* Long division                                                            *)

\* What the reference is left with, from the register of the code: the register is
\* added to the symbols that are still to come.
LEMMA DividedIsEncode ==
  ASSUME NEW r \in RootCounts, NEW N \in Nat, NEW m \in Words(N)
  PROVE  Divided(m, r) = Encode(m, r)
<1> DEFINE Z == Cleared(r)
           M == m \o Z
           G == Gen[r]
           F(f, n) == IF n = 0 THEN m \o Cleared(r)
                      ELSE LET last == f[n - 1]
                           IN  [k \in 1 .. r |-> Plus[last[k + 1]][Mul(Gen[r][k + 1], last[1])]]
                                 \o SubSeq(last, r + 2, Len(last))
           rest == CHOOSE f : f = [n \in 0 .. Len(m) |-> F(f, n)]
<1>1. /\ Len(m) = N /\ r \in Nat /\ r >= 1 /\ Z \in Words(r)
      /\ \A k \in 1 .. N : m[k] \in Symbols
      /\ \A k \in 1 .. r : Z[k] = 0
  <2>1. Len(m) = N /\ \A k \in 1 .. N : m[k] \in Symbols
    BY WordsFacts
  <2>2. r \in Nat /\ r >= 1
    BY RootCountsFacts
  <2> QED BY <2>1, <2>2, ClearedWord
<1>2. PICK reg : /\ Runs(reg, m, N, r) /\ Encode(m, r) = reg[N]
                 /\ \A k \in 0 .. N : reg[k] \in Words(r)
  BY EncodeRuns
<1>3. /\ M \in Words(N + r)
      /\ \A k \in 1 .. N : M[k] = m[k]
      /\ \A k \in 1 .. r : M[N + k] = 0
  <2>1. /\ M \in Words(N + r)
        /\ \A k \in 1 .. N : M[k] = m[k]
        /\ \A k \in 1 .. r : M[N + k] = Z[k]
    <3> HIDE DEF Z
    <3> QED BY <1>1, Joined
  <2> HIDE DEF M, Z
  <2> QED BY <1>1, <2>1
<1> HIDE DEF M, Z, G
<1>4. \A k \in 1 .. N + r : M[k] \in Symbols
  <2> DEFINE q == N + r
  <2>1. q \in Nat /\ M \in Words(q)
    BY <1>1, <1>3
  <2> HIDE DEF q
  <2>2. \A k \in 1 .. q : M[k] \in Symbols
    BY <2>1, WordsFacts
  <2> QED BY <2>2 DEF q
<1>5. /\ \A n \in 0 .. N : \A k \in 1 .. r : reg[n][k] \in Symbols
      /\ reg[0] = Z
      /\ \A n \in 1 .. N : reg[n] = Stepped(reg[n - 1], m[n])
  BY <1>1, <1>2, WordsFacts DEF Runs, Z
\* Symbol k of what is left after n turns.
<1> DEFINE Left(n, k) == IF k <= r THEN reg[n][k] \oplus M[n + k] ELSE M[n + k]
           g == [n \in 0 .. N |-> [k \in 1 .. N + r - n |-> Left(n, k)]]
<1>6. ASSUME NEW n \in 0 .. N
      PROVE  /\ g[n] \in Seq(Symbols) /\ Len(g[n]) = N + r - n
             /\ \A k \in 1 .. N + r - n : g[n][k] = Left(n, k)
  <2>1. ASSUME NEW k \in 1 .. N + r - n PROVE Left(n, k) \in Symbols
    <3>1. n + k \in 1 .. N + r /\ (k <= r => k \in 1 .. r)
      BY <1>1
    <3>2. M[n + k] \in Symbols
      BY <1>4, <3>1
    <3> QED BY <1>5, <3>1, <3>2, PlusFacts
  <2> DEFINE q == N + r - n
             w == [k \in 1 .. q |-> Left(n, k)]
  <2>2. q \in Nat
    BY <1>1
  <2> HIDE DEF Left
  <2>3. w \in Words(q) /\ \A k \in 1 .. q : w[k] = Left(n, k)
    BY <2>1 DEF Words
  <2>4. g[n] = w
    OBVIOUS
  <2> HIDE DEF w, q, g
  <2>5. w \in Seq(Symbols) /\ Len(w) = q
    BY <2>2, <2>3, WordsFacts
  <2> QED BY <2>3, <2>4, <2>5 DEF q
<1> HIDE DEF g
<1>7. g \in [0 .. N -> Seq(Symbols)]
  <2>1. g = [n \in 0 .. N |-> g[n]]
    BY DEF g
  <2> QED BY <1>6, <2>1
<1>8. ASSUME NEW n \in 0 .. N PROVE g[n] = F(g, n)
  <2>1. CASE n = 0
    <3>1. g[0] \in Words(N + r) /\ \A k \in 1 .. N + r : g[0][k] = Left(0, k)
      <4>1. g[0] \in Seq(Symbols) /\ Len(g[0]) = N + r /\ 0 \in 0 .. N /\ N + r - 0 = N + r
        BY <1>1, <1>6
      <4> HIDE DEF Left
      <4>2. \A k \in 1 .. N + r : g[0][k] = Left(0, k)
        BY <1>6, <4>1
      <4> QED BY <4>1, <4>2, SequencesAreWords
    <3>2. ASSUME NEW k \in 1 .. N + r PROVE Left(0, k) = M[k]
      <4>1. 0 + k = k /\ M[k] \in Symbols
        BY <1>4
      <4>2. CASE k <= r
        <5>1. k \in 1 .. r
          BY <1>1, <4>2
        <5>2. reg[0][k] = 0
          BY <1>1, <1>5, <5>1
        <5> QED BY <4>1, <4>2, <5>2, PlusFacts
      <4>3. CASE ~ (k <= r)
        BY <4>1, <4>3
      <4> QED BY <4>2, <4>3
    <3> HIDE DEF Left
    <3>3. g[0] = M
      <4>1. g[0] \in Words(N + r) /\ M \in Words(N + r) /\ \A k \in 1 .. N + r : g[0][k] = M[k]
        BY <1>3, <3>1, <3>2
      <4> QED BY <4>1, SameWords
    <3> QED BY <2>1, <3>3 DEF M, Z
  <2>2. CASE n # 0
    <3> DEFINE last == g[n - 1]
               q == N + r - n
               f == m[n] \oplus reg[n - 1][1]
               A == [k \in 1 .. r |-> last[k + 1] \oplus (G[k + 1] \otimes last[1])]
               B == SubSeq(last, r + 2, Len(last))
    <3>1. /\ n \in Nat /\ n \in 1 .. N /\ n - 1 \in 0 .. N /\ q \in Nat /\ q >= r
          /\ N + r - (n - 1) = q + 1 /\ n <= N + r
      BY <1>1, <2>2
    <3>2. last \in Words(q + 1) /\ \A k \in 1 .. q + 1 : last[k] = Left(n - 1, k)
      <4>1. last \in Seq(Symbols) /\ Len(last) = q + 1
        <5> HIDE DEF Left
        <5> QED BY <1>6, <3>1
      <4>2. \A k \in 1 .. q + 1 : last[k] = Left(n - 1, k)
        <5> HIDE DEF Left
        <5> QED BY <1>6, <3>1
      <4> HIDE DEF Left, last, q
      <4> QED BY <4>1, <4>2, SequencesAreWords
    <3>3. q + 1 \in Nat /\ Len(last) = q + 1 /\ last \in Seq(Symbols)
      <4> HIDE DEF last, q, Left
      <4>1. q + 1 \in Nat
        BY <3>1
      <4> QED BY <3>2, <4>1, WordsFacts
    <3> HIDE DEF last, f, q
    <3>4. last[1] = f /\ f \in Symbols
      <4>1. 1 \in 1 .. q + 1 /\ 1 \in 1 .. r /\ (n - 1) + 1 = n /\ n \in 1 .. N + r /\ 1 <= r
        BY <1>1, <3>1
      <4>2. last[1] = reg[n - 1][1] \oplus M[n]
        <5>1. last[1] = Left(n - 1, 1)
          BY <3>2, <4>1
        <5> QED BY <4>1, <5>1
      <4>3. M[n] = m[n] /\ M[n] \in Symbols /\ reg[n - 1][1] \in Symbols
        BY <1>3, <1>4, <1>5, <3>1, <4>1
      <4> QED BY <4>2, <4>3, PlusFacts DEF f
    <3>5. /\ reg[n] \in Words(r)
          /\ \A j \in 1 .. r - 1 : reg[n][j] = reg[n - 1][j + 1] \oplus (G[j + 1] \otimes f)
          /\ reg[n][r] = G[r + 1] \otimes f
          /\ \A j \in 1 .. r : G[j + 1] \otimes f \in Symbols
      <4> DEFINE w == reg[n - 1]
                 s == m[n]
      <4>1. w \in Words(r) /\ s \in Symbols /\ reg[n] = Stepped(w, s)
        BY <1>1, <1>2, <1>5, <3>1
      <4> HIDE DEF w, s
      <4>2. /\ Stepped(w, s) \in Words(r)
            /\ \A j \in 1 .. r - 1 : Stepped(w, s)[j] = w[j + 1] \oplus (Gen[r][j + 1] \otimes (s \oplus w[1]))
            /\ Stepped(w, s)[r] = Gen[r][r + 1] \otimes (s \oplus w[1])
        BY <4>1, SteppedWord
      <4>3. G \in Words(r + 1) /\ r + 1 \in Nat
        BY <1>1, GeneratorIsGen DEF G
      <4>4. ASSUME NEW j \in 1 .. r PROVE G[j + 1] \otimes f \in Symbols
        <5>1. j + 1 \in 1 .. r + 1
          BY <1>1
        <5> QED BY <3>4, <4>3, <5>1, WordsFacts, MulFacts
      <4>5. s \oplus w[1] = f
        BY DEF s, w, f
      <4> QED BY <4>1, <4>2, <4>4, <4>5 DEF G, w
    <3>6. ASSUME NEW k \in 1 .. r PROVE A[k] = Left(n, k) /\ A[k] \in Symbols
      <4>1. /\ k + 1 \in 1 .. q + 1 /\ (n - 1) + (k + 1) = n + k /\ n + k \in 1 .. N + r
            /\ k <= r
        BY <1>1, <3>1
      <4>2. A[k] = last[k + 1] \oplus (G[k + 1] \otimes f)
        BY <3>4
      <4>3. last[k + 1] = Left(n - 1, k + 1)
        <5> HIDE DEF Left
        <5> QED BY <3>2, <4>1
      <4> DEFINE c == G[k + 1] \otimes f
                 d == M[n + k]
      <4>4. c \in Symbols /\ d \in Symbols
        BY <1>4, <3>5, <4>1
      <4>5. Left(n, k) = reg[n][k] \oplus d
        BY <4>1
      <4>6. CASE k = r
        <5>1. last[k + 1] = d
          BY <1>1, <4>1, <4>3, <4>6
        <5>2. reg[n][k] = c
          BY <3>5, <4>6
        <5> HIDE DEF Left, c, d, A
        <5>3. A[k] = d \oplus c
          BY <4>2, <5>1 DEF c
        <5> QED BY <4>4, <4>5, <5>2, <5>3, PlusFacts
      <4>7. CASE k # r
        <5> DEFINE e == reg[n - 1][k + 1]
        <5>1. k \in 1 .. r - 1 /\ k + 1 \in 1 .. r /\ k + 1 <= r
          BY <1>1, <4>7
        <5>2. last[k + 1] = e \oplus d /\ e \in Symbols
          BY <1>5, <3>1, <4>1, <4>3, <5>1
        <5>3. reg[n][k] = e \oplus c
          BY <3>5, <5>1
        <5> HIDE DEF Left, c, d, A, e
        <5>4. A[k] = (e \oplus d) \oplus c
          BY <4>2, <5>2 DEF c
        <5>5. (e \oplus d) \oplus c = e \oplus (d \oplus c) /\ d \oplus c = c \oplus d
          BY <4>4, <5>2, PlusFacts
        <5>6. e \oplus (c \oplus d) = (e \oplus c) \oplus d
          BY <4>4, <5>2, PlusFacts
        <5>7. A[k] = reg[n][k] \oplus d /\ A[k] \in Symbols
          BY <4>4, <5>2, <5>3, <5>4, <5>5, <5>6, PlusFacts
        <5> QED BY <4>5, <5>7
      <4> QED BY <4>6, <4>7
    <3>7. A \in Words(r)
      BY <3>6 DEF Words
    <3>8. /\ q - r \in Nat /\ r + (q - r) = q
          /\ B \in Words(q - r)
          /\ \A k \in 1 .. q - r : B[k] = last[r + 1 + k]
      <4>1. q - r \in Nat /\ r + (q - r) = q
        BY <1>1, <3>1
      <4>2. r + 2 \in 1 .. Len(last) + 1 /\ Len(last) \in Nat /\ Len(last) - (r + 2) + 1 = q - r
        BY <1>1, <3>1, <3>3
      <4>3. B = [k \in 1 .. q - r |-> last[(r + 2) + k - 1]]
        BY <1>1, <3>3, <4>2
      <4>4. ASSUME NEW k \in 1 .. q - r PROVE B[k] = last[r + 1 + k] /\ B[k] \in Symbols
        <5>1. (r + 2) + k - 1 = r + 1 + k /\ r + 1 + k \in 1 .. q + 1
          BY <1>1, <3>1
        <5>2. last[r + 1 + k] \in Symbols
          BY <3>2, <3>3, <5>1, WordsFacts
        <5> QED BY <4>3, <5>1, <5>2
      <4> QED BY <4>1, <4>3, <4>4 DEF Words
    <3> DEFINE C == A \o B
    <3>9. /\ C \in Words(q)
          /\ \A k \in 1 .. r : C[k] = A[k]
          /\ \A k \in 1 .. q - r : C[r + k] = B[k]
      <4> DEFINE j == q - r
      <4>1. r \in Nat /\ j \in Nat /\ B \in Words(j)
        BY <1>1, <3>8
      <4> HIDE DEF A, B, j
      <4>2. /\ C \in Words(r + j)
            /\ \A k \in 1 .. r : C[k] = A[k]
            /\ \A k \in 1 .. j : C[r + k] = B[k]
        BY <3>7, <4>1, Joined
      <4> QED BY <3>8, <4>2 DEF j
    <3> HIDE DEF A, B, C, Left
    <3>10. ASSUME NEW k \in 1 .. q PROVE C[k] = Left(n, k)
      <4>1. CASE k \in 1 .. r
        BY <3>6, <3>9, <4>1
      <4>2. CASE ~ (k \in 1 .. r)
        <5> DEFINE j == k - r
        <5>1. /\ j \in 1 .. q - r /\ r + j = k /\ r + 1 + j = k + 1 /\ k + 1 \in 1 .. q + 1
              /\ (n - 1) + (k + 1) = n + k /\ ~ (k <= r) /\ ~ (k + 1 <= r)
          BY <1>1, <3>1, <4>2
        <5> HIDE DEF j
        <5>2. C[k] = last[k + 1]
          BY <3>8, <3>9, <5>1
        <5>3. last[k + 1] = Left(n - 1, k + 1)
          BY <3>2, <5>1
        <5>4. Left(n - 1, k + 1) = M[n + k] /\ Left(n, k) = M[n + k]
          BY <5>1 DEF Left
        <5> QED BY <5>2, <5>3, <5>4
      <4> QED BY <4>1, <4>2
    <3>11. g[n] \in Words(q) /\ \A k \in 1 .. q : g[n][k] = Left(n, k)
      <4>1. g[n] \in Seq(Symbols) /\ Len(g[n]) = q /\ \A k \in 1 .. q : g[n][k] = Left(n, k)
        BY <1>6 DEF q
      <4> QED BY <4>1, SequencesAreWords
    <3>12. g[n] = C
      <4>1. g[n] \in Words(q) /\ C \in Words(q) /\ \A k \in 1 .. q : g[n][k] = C[k]
        BY <3>9, <3>10, <3>11
      <4> QED BY <4>1, SameWords
    <3>13. F(g, n) = C
      <4>1. [k \in 1 .. r |-> Plus[last[k + 1]][Mul(Gen[r][k + 1], last[1])]] = A
        BY DEF A, G, \oplus, \otimes
      <4>2. F(g, n) = [k \in 1 .. r |-> Plus[last[k + 1]][Mul(Gen[r][k + 1], last[1])]]
                        \o SubSeq(last, r + 2, Len(last))
        BY <2>2 DEF last
      <4> HIDE DEF F
      <4> QED BY <4>1, <4>2 DEF C, B
    <3> QED BY <3>12, <3>13
  <2> QED BY <2>1, <2>2
<1>9. g = [n \in 0 .. Len(m) |-> F(g, n)]
  <2>1. g = [n \in 0 .. N |-> g[n]]
    BY DEF g
  <2> HIDE DEF F
  <2> QED BY <1>1, <1>8, <2>1
<1>10. rest = [n \in 0 .. Len(m) |-> F(rest, n)]
  <2> HIDE DEF F
  <2> QED BY <1>9
<1>11. Divided(m, r) = rest[N]
  BY <1>1 DEF Divided
<1> HIDE DEF rest
<1>12. \A n \in 0 .. N : rest[n] = F(rest, n)
  <2> HIDE DEF F
  <2> QED BY <1>1, <1>10
<1> DEFINE T == {n \in 0 .. N : rest[n] # g[n]}
<1>13. ASSUME T # {} PROVE FALSE
  <2>1. PICK n \in T : \A y \in T : n <= y
    <3>1. T \in SUBSET Nat
      OBVIOUS
    <3> HIDE DEF T
    <3> QED BY <1>13, <3>1, LeastSymbol
  <2>2. n \in 0 .. N /\ rest[n] # g[n]
    OBVIOUS
  <2>3. rest[n] = F(rest, n) /\ g[n] = F(g, n)
    <3> HIDE DEF F
    <3> QED BY <1>8, <1>12, <2>2
  <2>4. CASE n = 0
    BY <2>2, <2>3, <2>4
  <2>5. CASE n # 0
    <3>1. n - 1 \in 0 .. N /\ ~ (n <= n - 1)
      BY <2>2, <2>5
    <3>2. rest[n - 1] = g[n - 1]
      BY <2>1, <3>1
    <3> QED BY <2>2, <2>3, <2>5, <3>2
  <2> QED BY <2>4, <2>5
<1>14. N \in 0 .. N /\ N + r - N = r
  BY <1>1
<1>15. rest[N] = g[N]
  BY <1>13, <1>14
<1>16. g[N] \in Words(r) /\ \A k \in 1 .. r : g[N][k] = Left(N, k)
  <2> HIDE DEF Left
  <2>1. g[N] \in Seq(Symbols) /\ Len(g[N]) = r /\ \A k \in 1 .. r : g[N][k] = Left(N, k)
    BY <1>6, <1>14
  <2> QED BY <2>1, SequencesAreWords
<1>17. ASSUME NEW k \in 1 .. r PROVE Left(N, k) = reg[N][k]
  <2>1. k <= r /\ M[N + k] = 0 /\ reg[N][k] \in Symbols
    BY <1>1, <1>3, <1>5, <1>14
  <2> QED BY <2>1, PlusFacts
<1>18. reg[N] \in Words(r)
  BY <1>2, <1>14
<1> HIDE DEF Left
<1>19. g[N] = reg[N]
  <2>1. g[N] \in Words(r) /\ reg[N] \in Words(r) /\ \A k \in 1 .. r : g[N][k] = reg[N][k]
    BY <1>16, <1>17, <1>18
  <2> QED BY <2>1, SameWords
<1> QED BY <1>2, <1>11, <1>15, <1>19

--------------------------------------------------------------------------------
(* Distance                                                                 *)

\* Where a word is not zero.
Support(e) == {k \in 1 .. CodewordLen : e[k] # 0}

\* A single symbol cannot vanish at 1.
LEMMA SingleSymbol ==
  ASSUME NEW e \in Words(CodewordLen), NEW a \in 1 .. CodewordLen,
         \A k \in 1 .. CodewordLen : k # a => e[k] = 0,
         Eval(e, 1) = 0
  PROVE  e[a] = 0
<1> DEFINE N == CodewordLen
           u == [k \in 0 .. N |-> IF k < a THEN 0 ELSE e[a]]
<1>1. N \in Nat /\ a \in 1 .. N /\ e \in Words(N) /\ 1 \in Symbols /\ 0 \in Symbols
  BY CodewordLenFacts, MulFacts
<1>2. e[a] \in Symbols
  BY <1>1, WordsFacts
<1>3. Horner(u, e, N, 1)
  <2>1. u[0] = 0
    BY <1>1
  <2>2. ASSUME NEW k \in 1 .. N PROVE u[k] = (u[k - 1] \otimes 1) \oplus e[k]
    <3> DEFINE q == k - 1
               s == e[a]
    <3>1. k \in 0 .. N /\ q \in 0 .. N /\ a \in Nat
      BY <1>1
    <3>2. \/ u[k] = 0 /\ u[q] = 0 /\ e[k] = 0
          \/ u[k] = s /\ u[q] = 0 /\ e[k] = s
          \/ u[k] = s /\ u[q] = s /\ e[k] = 0
      <4>1. CASE k < a
        BY <1>1, <3>1, <4>1
      <4>2. CASE k = a
        BY <1>1, <3>1, <4>2
      <4>3. CASE k > a
        BY <1>1, <3>1, <4>3
      <4> QED BY <3>1, <4>1, <4>2, <4>3
    <3>3. /\ s \in Symbols /\ 0 \otimes 1 = 0 /\ s \otimes 1 = s
          /\ 0 \oplus 0 = 0 /\ 0 \oplus s = s /\ s \oplus 0 = s
      BY <1>1, <1>2, MulFacts, PlusFacts
    <3> HIDE DEF u, s, q
    <3>4. u[k] = (u[q] \otimes 1) \oplus e[k]
      BY <3>2, <3>3
    <3> QED BY <3>4 DEF q
  <2> QED BY <2>1, <2>2 DEF Horner
<1>4. u[N] = e[a]
  BY <1>1
<1> HIDE DEF u
<1>5. Eval(e, 1) = u[N]
  BY <1>1, <1>3, EvalIs
<1> QED BY <1>4, <1>5

\* Each symbol times a factor that depends on its place.
Twisted(e, c) == [k \in 1 .. CodewordLen |-> e[k] \otimes (Exp(CodewordLen - k) \oplus c)]

\* One step of the scheme of a twisted word, from those of the word at two roots.
LEMMA TwistedTerm ==
  \A E, v, h, x, c, e \in Symbols :
    (E \otimes ((v \otimes (2 \otimes x)) \oplus e)) \oplus (c \otimes ((h \otimes x) \oplus e))
      = ((((2 \otimes E) \otimes v) \oplus (c \otimes h)) \otimes x) \oplus (e \otimes (E \oplus c))
<1> TAKE E, v, h, x, c, e \in Symbols
<1> DEFINE a == ((2 \otimes E) \otimes v) \otimes x
           b == (c \otimes h) \otimes x
           p1 == e \otimes E
           p2 == e \otimes c
<1>1. /\ 2 \in Symbols /\ a \in Symbols /\ b \in Symbols /\ p1 \in Symbols /\ p2 \in Symbols
      /\ 2 \otimes x \in Symbols /\ v \otimes (2 \otimes x) \in Symbols /\ h \otimes x \in Symbols
      /\ 2 \otimes E \in Symbols /\ (2 \otimes E) \otimes v \in Symbols /\ c \otimes h \in Symbols
  BY MulFacts
<1>2. E \otimes (v \otimes (2 \otimes x)) = a
  <2>1. v \otimes (2 \otimes x) = (v \otimes 2) \otimes x /\ v \otimes 2 = 2 \otimes v /\ 2 \otimes v \in Symbols
    BY <1>1, MulFacts
  <2>2. E \otimes ((2 \otimes v) \otimes x) = (E \otimes (2 \otimes v)) \otimes x
    BY <2>1, MulFacts
  <2>3. E \otimes (2 \otimes v) = (E \otimes 2) \otimes v /\ E \otimes 2 = 2 \otimes E
    BY <1>1, MulFacts
  <2> QED BY <2>1, <2>2, <2>3
<1>3. E \otimes ((v \otimes (2 \otimes x)) \oplus e) = a \oplus p1
  <2>1. E \otimes ((v \otimes (2 \otimes x)) \oplus e) = (E \otimes (v \otimes (2 \otimes x))) \oplus (E \otimes e)
    BY <1>1, MulFacts
  <2>2. E \otimes e = p1
    BY MulFacts
  <2> HIDE DEF a, p1
  <2> QED BY <1>2, <2>1, <2>2
<1>4. c \otimes ((h \otimes x) \oplus e) = b \oplus p2
  <2>1. c \otimes ((h \otimes x) \oplus e) = (c \otimes (h \otimes x)) \oplus (c \otimes e)
    BY <1>1, MulFacts
  <2>2. c \otimes (h \otimes x) = b /\ c \otimes e = p2
    BY MulFacts
  <2> HIDE DEF b, p2
  <2> QED BY <2>1, <2>2
<1>5. (((2 \otimes E) \otimes v) \oplus (c \otimes h)) \otimes x = a \oplus b
  BY <1>1, MulFacts
<1>6. e \otimes (E \oplus c) = p1 \oplus p2
  BY MulFacts
<1> HIDE DEF a, b, p1, p2
<1>7. (a \oplus p1) \oplus (b \oplus p2) = (a \oplus b) \oplus (p1 \oplus p2)
  BY <1>1, PlusMiddle
<1> QED BY <1>3, <1>4, <1>5, <1>6, <1>7

\* A twisted word vanishes at one root less.
LEMMA TwistedVanishes ==
  ASSUME NEW e \in Words(CodewordLen), NEW c \in Symbols, NEW x \in Symbols,
         Eval(e, x) = 0, Eval(e, 2 \otimes x) = 0
  PROVE  Twisted(e, c) \in Words(CodewordLen) /\ Eval(Twisted(e, c), x) = 0
<1> DEFINE N == CodewordLen
           t == Twisted(e, c)
           z == 2 \otimes x
<1>1. N \in Nat /\ N <= FieldOrder /\ e \in Words(N) /\ 0 \in Symbols /\ FieldOrder \in Nat
  BY CodewordLenFacts, MulFacts, ExpTabFacts
<1>2. z \in Symbols
  BY MulFacts
<1>3. \A k \in 1 .. N : e[k] \in Symbols
  BY <1>1, WordsFacts
<1>4. /\ \A k \in 0 .. N : Exp(N - k) \in Symbols
      /\ \A k \in 1 .. N : Exp(N - (k - 1)) = 2 \otimes Exp(N - k)
  <2>1. ASSUME NEW k \in 0 .. N PROVE Exp(N - k) \in Symbols
    <3>1. N - k \in 0 .. FieldOrder
      BY <1>1
    <3> QED BY <3>1, ExpFacts
  <2>2. ASSUME NEW k \in 1 .. N PROVE Exp(N - (k - 1)) = 2 \otimes Exp(N - k)
    <3> DEFINE n == N - (k - 1)
    <3>1. n \in 0 .. FieldOrder /\ n # 0 /\ n - 1 = N - k
      BY <1>1
    <3> HIDE DEF n
    <3>2. Exp(n) = 2 \otimes Exp(n - 1)
      BY <3>1, ExpFacts
    <3> QED BY <3>1, <3>2 DEF n
  <2> QED BY <2>1, <2>2
<1>5. t \in Words(N) /\ \A k \in 1 .. N : t[k] = e[k] \otimes (Exp(N - k) \oplus c)
  <2>1. ASSUME NEW k \in 1 .. N PROVE e[k] \otimes (Exp(N - k) \oplus c) \in Symbols
    <3>1. Exp(N - k) \oplus c \in Symbols
      BY <1>4, PlusFacts
    <3> QED BY <1>3, <3>1, MulFacts
  <2> QED BY <2>1 DEF Words, Twisted
<1>6. PICK h : Horner(h, e, N, x) /\ Eval(e, x) = h[N]
  BY <1>1, EvalHorner
<1>7. PICK v : Horner(v, e, N, z) /\ Eval(e, z) = v[N]
  <2> HIDE DEF z
  <2> QED BY <1>1, <1>2, EvalHorner
<1>8. \A k \in 0 .. N : h[k] \in Symbols /\ v[k] \in Symbols
  <2> HIDE DEF z
  <2>1. \A k \in 0 .. N : h[k] \in Symbols
    BY <1>1, <1>6, HornerType
  <2>2. \A k \in 0 .. N : v[k] \in Symbols
    BY <1>1, <1>2, <1>7, HornerType
  <2> QED BY <2>1, <2>2
<1> HIDE DEF t
<1> DEFINE u == [k \in 0 .. N |-> (Exp(N - k) \otimes v[k]) \oplus (c \otimes h[k])]
<1>9. \A k \in 0 .. N : u[k] = (Exp(N - k) \otimes v[k]) \oplus (c \otimes h[k])
  OBVIOUS
<1> HIDE DEF u
<1>10. Horner(u, t, N, x)
  <2>1. u[0] = 0
    <3>1. h[0] = 0 /\ v[0] = 0 /\ 0 \in 0 .. N
      BY <1>1, <1>6, <1>7 DEF Horner
    <3>2. Exp(N - 0) \otimes 0 = 0 /\ c \otimes 0 = 0
      BY <1>4, <3>1, MulFacts
    <3> QED BY <1>1, <1>9, <3>1, <3>2, PlusFacts
  <2>2. ASSUME NEW k \in 1 .. N PROVE u[k] = (u[k - 1] \otimes x) \oplus t[k]
    <3> DEFINE E == Exp(N - k)
               hk == h[k - 1]
               vk == v[k - 1]
               ek == e[k]
    <3>1. k \in 0 .. N /\ k - 1 \in 0 .. N
      BY <1>1
    <3>2. E \in Symbols /\ hk \in Symbols /\ vk \in Symbols /\ ek \in Symbols
      BY <1>3, <1>4, <1>8, <3>1
    <3>3. h[k] = (hk \otimes x) \oplus ek /\ v[k] = (vk \otimes (2 \otimes x)) \oplus ek
      BY <1>6, <1>7 DEF Horner
    <3>4. u[k] = (E \otimes v[k]) \oplus (c \otimes h[k])
      BY <1>9, <3>1
    <3>5. u[k - 1] = ((2 \otimes E) \otimes vk) \oplus (c \otimes hk)
      <4>1. u[k - 1] = (Exp(N - (k - 1)) \otimes v[k - 1]) \oplus (c \otimes h[k - 1])
        BY <1>9, <3>1
      <4>2. Exp(N - (k - 1)) = 2 \otimes E
        BY <1>4
      <4> QED BY <4>1, <4>2
    <3>6. t[k] = ek \otimes (E \oplus c)
      BY <1>5
    <3> HIDE DEF E, hk, vk, ek
    <3>7. (E \otimes ((vk \otimes (2 \otimes x)) \oplus ek)) \oplus (c \otimes ((hk \otimes x) \oplus ek))
            = ((((2 \otimes E) \otimes vk) \oplus (c \otimes hk)) \otimes x) \oplus (ek \otimes (E \oplus c))
      BY <3>2, TwistedTerm
    <3> QED BY <3>3, <3>4, <3>5, <3>6, <3>7
  <2> QED BY <2>1, <2>2 DEF Horner
<1>11. u[N] = 0
  <2>1. N \in 0 .. N /\ h[N] = 0 /\ v[N] = 0
    BY <1>1, <1>6, <1>7
  <2>2. Exp(N - N) \otimes 0 = 0 /\ c \otimes 0 = 0
    BY <1>4, <2>1, MulFacts
  <2> QED BY <1>1, <1>9, <2>1, <2>2, PlusFacts
<1>12. Eval(t, x) = u[N]
  BY <1>1, <1>5, <1>10, EvalIs
<1> QED BY <1>5, <1>11, <1>12 DEF t

\* A word with few symbols that vanishes at as many powers of 2 has none.
LEMMA FewSymbolsVanish ==
  \A n \in 0 .. CodewordLen - 1 : \A e \in Words(CodewordLen) :
    /\ Cardinality(Support(e)) <= n
    /\ \A i \in 0 .. n - 1 : Eval(e, Exp(i)) = 0
    => Support(e) = {}
<1> DEFINE Few(e, n) == /\ Cardinality(Support(e)) <= n
                        /\ \A i \in 0 .. n - 1 : Eval(e, Exp(i)) = 0
           T == {n \in 0 .. CodewordLen - 1 : \E e \in Words(CodewordLen) : Few(e, n) /\ Support(e) # {}}
           N == CodewordLen
<1>1. N \in Nat /\ N >= 2 /\ N <= FieldOrder
  BY CodewordLenFacts
<1>2. \A e : IsFiniteSet(Support(e)) /\ Cardinality(Support(e)) \in Nat
  <2> SUFFICES ASSUME NEW e PROVE IsFiniteSet(Support(e)) /\ Cardinality(Support(e)) \in Nat
    OBVIOUS
  <2>1. IsFiniteSet(1 .. CodewordLen)
    BY <1>1, FS_Interval
  <2>2. Support(e) \subseteq 1 .. CodewordLen
    BY DEF Support
  <2>3. IsFiniteSet(Support(e))
    BY <2>1, <2>2, FS_Subset
  <2> QED BY <2>3, FS_CardinalityType
<1>3. ASSUME T # {} PROVE FALSE
  <2>1. PICK n \in T : \A y \in T : n <= y
    <3>1. T \in SUBSET Nat
      BY <1>1
    <3> HIDE DEF T
    <3> QED BY <1>3, <3>1, LeastSymbol
  <2>2. PICK e \in Words(CodewordLen) : Few(e, n) /\ Support(e) # {}
    OBVIOUS
  <2>3. n \in 0 .. N - 1 /\ n \in Nat
    BY <1>1
  <2>4. PICK a \in 1 .. N : e[a] # 0
    BY <2>2 DEF Support
  <2>5. \A k \in 1 .. N : e[k] \in Symbols
    BY <1>1, WordsFacts
  <2> DEFINE c == Exp(N - a)
             t == Twisted(e, c)
  <2>6. n # 0
    <3>1. Cardinality(Support(e)) # 0
      BY <1>2, <2>2, FS_EmptySet
    <3> QED BY <1>2, <2>2, <2>3, <3>1
  <2>7. \A k \in 1 .. N : N - k \in Logs /\ Exp(N - k) \in Symbols
    <3> SUFFICES ASSUME NEW k \in 1 .. N PROVE N - k \in Logs /\ Exp(N - k) \in Symbols
      OBVIOUS
    <3>1. N - k \in 0 .. N - 1
      BY <1>1
    <3> QED BY <3>1, CodewordLenFacts, ExpFacts
  <2>8. c \in Symbols
    BY <2>7
  <2>9. \A k \in 1 .. N : t[k] = e[k] \otimes (Exp(N - k) \oplus c)
    BY DEF Twisted
  <2>10. \A k \in 1 .. N : k # a => (e[k] # 0 <=> t[k] # 0)
    <3> SUFFICES ASSUME NEW k \in 1 .. N, k # a PROVE e[k] # 0 <=> t[k] # 0
      OBVIOUS
    <3> DEFINE E == Exp(N - k)
    <3>1. N - k \in Logs /\ N - a \in Logs /\ N - k # N - a /\ E \in Symbols
      BY <1>1, <2>7
    <3>2. E # c
      BY <3>1, ExpFacts
    <3>3. t[k] = e[k] \otimes (E \oplus c)
      BY <2>9
    <3> HIDE DEF E, c, t
    <3>4. E \oplus c # 0 /\ E \oplus c \in Symbols
      BY <2>8, <3>1, <3>2, PlusEqual, PlusFacts
    <3>5. e[k] \in Symbols
      BY <2>5
    <3>6. CASE e[k] = 0
      <4>1. 0 \otimes (E \oplus c) = 0
        BY <3>4, MulFacts
      <4> QED BY <3>3, <3>6, <4>1
    <3>7. CASE e[k] # 0
      <4>1. e[k] \otimes (E \oplus c) # 0
        BY <3>4, <3>5, <3>7, MulFacts
      <4> QED BY <3>3, <3>7, <4>1
    <3> QED BY <3>6, <3>7
  <2>11. t[a] = 0
    <3>1. c \oplus c = 0
      BY <2>8, PlusFacts
    <3> HIDE DEF t
    <3>2. t[a] = e[a] \otimes (c \oplus c)
      BY <2>9
    <3> QED BY <2>5, <3>1, <3>2, MulFacts
  <2> HIDE DEF c, t
  <2>12. Support(t) = Support(e) \ {a} /\ a \in Support(e)
    BY <2>4, <2>10, <2>11 DEF Support
  <2>13. Cardinality(Support(t)) <= n - 1
    <3>1. Cardinality(Support(e) \ {a}) = Cardinality(Support(e)) - 1
      BY <1>2, <2>12, FS_RemoveElement
    <3> QED BY <1>2, <2>2, <2>3, <2>12, <3>1
  <2>14. n - 1 \in 0 .. N - 1 /\ ~ (n <= n - 1) /\ n - 1 \in Nat
    BY <1>1, <2>3, <2>6
  <2>15. ASSUME NEW i \in 0 .. (n - 1) - 1
         PROVE  t \in Words(CodewordLen) /\ Eval(t, Exp(i)) = 0
    <3> DEFINE x == Exp(i)
    <3>1. /\ i \in 0 .. n - 1 /\ i + 1 \in 0 .. n - 1 /\ i \in 0 .. N - 1
          /\ i + 1 \in 0 .. FieldOrder /\ i + 1 # 0 /\ (i + 1) - 1 = i
      BY <1>1, <2>3, ExpTabFacts
    <3>2. x \in Symbols /\ Exp(i + 1) = 2 \otimes x
      <4>1. Exp(i + 1) = 2 \otimes Exp((i + 1) - 1)
        BY <3>1, ExpFacts
      <4> QED BY <3>1, <4>1, CodewordLenFacts, ExpFacts
    <3>3. Eval(e, x) = 0 /\ Eval(e, 2 \otimes x) = 0
      BY <2>2, <3>1, <3>2
    <3> HIDE DEF x
    <3>4. t \in Words(CodewordLen) /\ Eval(t, x) = 0
      BY <2>8, <3>2, <3>3, TwistedVanishes DEF t
    <3> QED BY <3>4 DEF x
  <2>16. t \in Words(CodewordLen)
    <3>1. ASSUME NEW k \in 1 .. N PROVE e[k] \otimes (Exp(N - k) \oplus c) \in Symbols
      BY <2>5, <2>7, <2>8, PlusFacts, MulFacts
    <3> QED BY <3>1 DEF t, Twisted, Words
  <2>17. Support(t) = {}
    <3>1. n - 1 \notin T
      <4> HIDE DEF T
      <4> QED BY <2>1, <2>14
    <3>2. Few(t, n - 1)
      BY <2>13, <2>15
    <3> HIDE DEF Few
    <3> QED BY <2>14, <2>16, <3>1, <3>2
  <2>18. \A k \in 1 .. CodewordLen : k # a => e[k] = 0
    BY <2>12, <2>17 DEF Support
  <2>19. Eval(e, 1) = 0
    <3>1. 0 \in 0 .. n - 1 /\ Exp(0) = 1
      BY <2>3, <2>6, ExpFacts
    <3> QED BY <2>2, <3>1
  <2>20. e[a] = 0
    BY <2>18, <2>19, SingleSymbol
  <2> QED BY <2>4, <2>20
<1> QED BY <1>3

\* Two words that vanish at the same roots and differ, differ in more symbols.
LEMMA VanishingWordsFarApart ==
  ASSUME NEW r \in RootCounts, NEW c \in Words(CodewordLen), NEW d \in Words(CodewordLen), c # d,
         \A i \in 0 .. r - 1 : Eval(c, Exp(i)) = 0 /\ Eval(d, Exp(i)) = 0
  PROVE  Cardinality(Differences(c, d)) > r
<1> DEFINE N == CodewordLen
           e == [k \in 1 .. N |-> c[k] \oplus d[k]]
           D == Differences(c, d)
<1>1. N \in Nat /\ r \in 1 .. N - 1 /\ r \in Nat
  BY CodewordLenFacts, RootCountsFacts
<1>2. \A k \in 1 .. N : c[k] \in Symbols /\ d[k] \in Symbols
  BY <1>1, WordsFacts
<1>3. e \in Words(N) /\ \A k \in 1 .. N : e[k] = c[k] \oplus d[k]
  <2>1. \A k \in 1 .. N : c[k] \oplus d[k] \in Symbols
    BY <1>2, PlusFacts
  <2> QED BY <2>1 DEF Words
<1> HIDE DEF e
<1>4. Support(e) = D
  BY <1>2, <1>3, PlusEqual DEF Support, Differences
<1>5. D # {}
  <2>1. PICK k \in 1 .. N : c[k] # d[k]
    BY SameWords
  <2> QED BY <2>1 DEF Differences
<1>6. IsFiniteSet(D) /\ Cardinality(D) \in Nat
  <2>1. IsFiniteSet(1 .. CodewordLen)
    BY <1>1, FS_Interval
  <2>2. D \subseteq 1 .. CodewordLen
    BY DEF Differences
  <2>3. IsFiniteSet(D)
    BY <2>1, <2>2, FS_Subset
  <2> HIDE DEF D
  <2> QED BY <2>3, FS_CardinalityType
<1> HIDE DEF D
<1>7. ASSUME NEW i \in 0 .. r - 1 PROVE Eval(e, Exp(i)) = 0
  <2> DEFINE x == Exp(i)
  <2>1. x \in Symbols
    <3>1. i \in 0 .. CodewordLen - 1
      BY <1>1
    <3> QED BY <3>1, CodewordLenFacts, ExpFacts
  <2>2. Eval(c, x) = 0 /\ Eval(d, x) = 0
    OBVIOUS
  <2> HIDE DEF x
  <2>3. PICK a : Horner(a, c, N, x) /\ Eval(c, x) = a[N]
    BY <1>1, <2>1, EvalHorner
  <2>4. PICK b : Horner(b, d, N, x) /\ Eval(d, x) = b[N]
    BY <1>1, <2>1, EvalHorner
  <2>5. \A k \in 0 .. N : a[k] \in Symbols /\ b[k] \in Symbols
    <3>1. \A k \in 0 .. N : a[k] \in Symbols
      BY <1>1, <2>1, <2>3, HornerType
    <3>2. \A k \in 0 .. N : b[k] \in Symbols
      BY <1>1, <2>1, <2>4, HornerType
    <3> QED BY <3>1, <3>2
  <2> DEFINE u == [k \in 0 .. N |-> a[k] \oplus b[k]]
  <2>6. \A k \in 0 .. N : u[k] = a[k] \oplus b[k]
    OBVIOUS
  <2> HIDE DEF u
  <2>7. Horner(u, e, N, x)
    <3>1. u[0] = 0
      <4>1. 0 \in 0 .. N /\ a[0] = 0 /\ b[0] = 0 /\ 0 \in Symbols
        BY <1>1, <2>3, <2>4, MulFacts DEF Horner
      <4> QED BY <2>6, <4>1, PlusFacts
    <3>2. ASSUME NEW k \in 1 .. N PROVE u[k] = (u[k - 1] \otimes x) \oplus e[k]
      <4> DEFINE p1 == a[k - 1]
                 p2 == b[k - 1]
                 q1 == c[k]
                 q2 == d[k]
      <4>1. k \in 0 .. N /\ k - 1 \in 0 .. N
        BY <1>1
      <4>2. p1 \in Symbols /\ p2 \in Symbols /\ q1 \in Symbols /\ q2 \in Symbols
        BY <1>2, <2>5, <4>1
      <4>3. a[k] = (p1 \otimes x) \oplus q1 /\ b[k] = (p2 \otimes x) \oplus q2
        BY <2>3, <2>4 DEF Horner
      <4>4. u[k] = a[k] \oplus b[k] /\ u[k - 1] = p1 \oplus p2 /\ e[k] = q1 \oplus q2
        BY <1>3, <2>6, <4>1
      <4> HIDE DEF p1, p2, q1, q2
      <4>5. (p1 \oplus p2) \otimes x = (p1 \otimes x) \oplus (p2 \otimes x)
        BY <2>1, <4>2, MulFacts
      <4>6. p1 \otimes x \in Symbols /\ p2 \otimes x \in Symbols
        BY <2>1, <4>2, MulFacts
      <4>7. ((p1 \otimes x) \oplus q1) \oplus ((p2 \otimes x) \oplus q2)
              = ((p1 \otimes x) \oplus (p2 \otimes x)) \oplus (q1 \oplus q2)
        BY <4>2, <4>6, PlusMiddle
      <4> QED BY <4>3, <4>4, <4>5, <4>7
    <3> QED BY <3>1, <3>2 DEF Horner
  <2>8. Eval(e, x) = u[N] /\ u[N] = 0
    <3>1. N \in 0 .. N /\ a[N] = 0 /\ b[N] = 0 /\ 0 \oplus 0 = 0
      BY <1>1, <2>2, <2>3, <2>4, PlusFacts
    <3>2. Eval(e, x) = u[N]
      BY <1>1, <1>3, <2>1, <2>7, EvalIs
    <3> QED BY <2>6, <3>1, <3>2
  <2> QED BY <2>8 DEF x
<1>8. ~ (Cardinality(D) <= r)
  <2>1. r \in 0 .. CodewordLen - 1 /\ e \in Words(CodewordLen)
    BY <1>1, <1>3
  <2> QED BY <1>4, <1>5, <1>7, <2>1, FewSymbolsVanish
<1> QED BY <1>1, <1>6, <1>8 DEF D

--------------------------------------------------------------------------------
(* Where the bytes of codewords are                                         *)

\* Products under a name of their own, for the solvers.
Prod(a, b) == a * b

\* What the proofs below need of products.
LEMMA ProdFacts ==
  /\ \A a, b \in Nat : Prod(a, b) \in Nat /\ Prod(a, b) = Prod(b, a) /\ Prod(a, b) = a * b
  /\ \A a, b, c \in Nat : a < b => Prod(a, c) + c <= Prod(b, c)
  /\ \A a, b, c \in Nat : a <= b => Prod(a, c) <= Prod(b, c)
  /\ \A a, b, c \in Nat : Prod(a + b, c) = Prod(a, c) + Prod(b, c)
  /\ \A a, b, c \in Nat : Prod(Prod(a, b), c) = Prod(a, Prod(b, c))
  /\ \A a \in Nat : Prod(1, a) = a /\ Prod(0, a) = 0
BY DEF Prod

\* Euclidean division.
LEMMA QuotientFacts ==
  ASSUME NEW a \in Nat, NEW m \in Nat \ {0}
  PROVE  a \div m \in Nat /\ a % m \in 0 .. m - 1 /\ a = Prod(a \div m, m) + (a % m)
<1> DEFINE q == a \div m
<1>1. q \in Nat /\ a % m \in 0 .. m - 1 /\ a = m * q + (a % m)
  OBVIOUS
<1> HIDE DEF q
<1>2. Prod(q, m) = m * q
  BY <1>1 DEF Prod
<1> QED BY <1>1, <1>2 DEF q

\* Two quotients of a number that both leave a remainder are the same.
LEMMA SameQuotient ==
  ASSUME NEW m \in Nat \ {0}, NEW q \in Nat, NEW d \in Nat, NEW r \in 0 .. m - 1,
         NEW e \in 0 .. m - 1, Prod(q, m) + r = Prod(d, m) + e
  PROVE  q = d /\ r = e
<1>1. Prod(q, m) \in Nat /\ Prod(d, m) \in Nat
  BY ProdFacts
<1>2. q < d => Prod(q, m) + m <= Prod(d, m)
  BY ProdFacts
<1>3. d < q => Prod(d, m) + m <= Prod(q, m)
  BY ProdFacts
<1>4. q = d
  BY <1>1, <1>2, <1>3
<1> QED BY <1>1, <1>4

\* So a quotient and a remainder that fit are the quotient and the remainder.
LEMMA QuotientIs ==
  ASSUME NEW a \in Nat, NEW m \in Nat \ {0}, NEW q \in Nat, NEW r \in 0 .. m - 1,
         a = Prod(q, m) + r
  PROVE  a \div m = q /\ a % m = r
<1> DEFINE d == a \div m
           e == a % m
<1>1. d \in Nat /\ e \in 0 .. m - 1 /\ a = Prod(d, m) + e
  BY QuotientFacts
<1> HIDE DEF d, e
<1>2. d = q /\ e = r
  BY <1>1, SameQuotient
<1> QED BY <1>2 DEF d, e

\* Rounding up: the result covers a, and nothing smaller does.
LEMMA CeilDivBounds ==
  ASSUME NEW a \in Nat \ {0}, NEW m \in Nat \ {0}
  PROVE  /\ CeilDiv(a, m) \in Nat \ {0} /\ a <= Prod(CeilDiv(a, m), m)
         /\ \A b \in Nat : b < CeilDiv(a, m) => Prod(b, m) < a
<1> DEFINE q == a \div m
           e == a % m
           c == CeilDiv(a, m)
           s == q + 1
<1>1. q \in Nat /\ e \in 0 .. m - 1 /\ a = Prod(q, m) + e
  BY QuotientFacts
<1>2. c = IF e = 0 THEN q ELSE s
  BY DEF CeilDiv
<1>3. s \in Nat /\ q < s
  BY <1>1
<1>4. Prod(q, m) \in Nat /\ Prod(s, m) \in Nat /\ Prod(q, m) + m <= Prod(s, m) /\ Prod(0, m) = 0
  BY <1>1, <1>3, ProdFacts
<1>5. \A b \in Nat : b < s => b <= q
  BY <1>1
<1> HIDE DEF q, e, c, s
<1>6. c \in Nat \ {0} /\ a <= Prod(c, m)
  <2>1. CASE e = 0
    <3>1. a = Prod(q, m) /\ q # 0
      BY <1>1, <1>4, <2>1
    <3> QED BY <1>1, <1>2, <2>1, <3>1
  <2>2. CASE e # 0
    <3>1. a <= Prod(s, m) /\ s # 0
      BY <1>1, <1>3, <1>4
    <3> QED BY <1>2, <1>3, <2>2, <3>1
  <2> QED BY <2>1, <2>2
<1>7. ASSUME NEW b \in Nat, b < c PROVE Prod(b, m) < a
  <2>1. Prod(b, m) \in Nat
    BY ProdFacts
  <2>2. CASE e = 0
    <3>1. Prod(b, m) + m <= Prod(q, m)
      BY <1>1, <1>2, <1>7, <2>2, ProdFacts
    <3> QED BY <1>1, <1>4, <2>1, <3>1
  <2>3. CASE e # 0
    <3>1. b <= q
      BY <1>2, <1>5, <1>7, <2>3
    <3>2. Prod(b, m) <= Prod(q, m)
      BY <1>1, <3>1, ProdFacts
    <3> QED BY <1>1, <1>4, <2>1, <2>3, <3>2
  <2> QED BY <2>2, <2>3
<1> QED BY <1>6, <1>7 DEF c

\* The sizes of a partition with parameters that Validate accepts.
LEMMA Sizes ==
  ASSUME NEW q \in ParamsType, Valid(q)
  PROVE  /\ RsN(q) \in Nat \ {0} /\ Rounds(q) \in Nat \ {0} /\ BatchRounds(q) \in Nat \ {0}
         /\ Batches(q) \in Nat \ {0} /\ q.roots \in Nat \ {0} /\ q.blockSize \in Nat \ {0}
         /\ q.dataBlocks \in Nat /\ RsN(q) + q.roots = CodewordLen
         /\ Rounds(q) <= Prod(Batches(q), BatchRounds(q))
         /\ \A b \in Nat : b < Batches(q) => Prod(b, BatchRounds(q)) < Rounds(q)
<1>1. /\ q.dataBlocks \in Nat \ {0} /\ q.roots \in Nat \ {0} /\ RsN(q) \in Nat \ {0}
      /\ q.blockSize \in Nat \ {0} /\ RsN(q) + q.roots = CodewordLen
  BY FecConstantsAssumption DEF Valid, ParamsType, RsN
<1>2. BatchRounds(q) \in Nat \ {0}
  BY FecConstantsAssumption DEF BatchRounds, ParamsType
<1>3. Rounds(q) \in Nat \ {0}
  BY <1>1, CeilDivBounds DEF Rounds
<1>4. /\ Batches(q) \in Nat \ {0}
      /\ Rounds(q) <= Prod(Batches(q), BatchRounds(q))
      /\ \A b \in Nat : b < Batches(q) => Prod(b, BatchRounds(q)) < Rounds(q)
  BY <1>2, <1>3, CeilDivBounds DEF Batches
<1> QED BY <1>1, <1>2, <1>3, <1>4

\* A batch lies within the rounds and the buffers, and the next one follows it.
LEMMA BatchFacts ==
  ASSUME NEW q \in ParamsType, Valid(q), NEW b \in Nat, b < Batches(q)
  PROVE  /\ BatchStart(q, b) \in Nat /\ BatchWidth(q, b) \in Nat \ {0}
         /\ BatchStart(q, b) + BatchWidth(q, b) <= Rounds(q)
         /\ BufferRounds(q) \in Nat /\ BatchWidth(q, b) <= BufferRounds(q)
         /\ \A r \in Nat : r < Rounds(q) /\ r < BatchStart(q, b + 1)
                             => r < BatchStart(q, b) + BatchWidth(q, b)
<1> DEFINE s == BatchStart(q, b)
           w == BatchWidth(q, b)
           n == Rounds(q)
           k == BatchRounds(q)
<1>1. n \in Nat \ {0} /\ k \in Nat \ {0} /\ Prod(b, k) < n /\ Prod(b, k) \in Nat
  BY Sizes, ProdFacts
<1>2. s = Prod(b, k)
  BY DEF BatchStart, Prod
<1>3. BatchStart(q, b + 1) = s + k
  BY <1>1 DEF BatchStart
<1>4. w = IF n - s < k THEN n - s ELSE k
  BY DEF BatchWidth
<1>5. BufferRounds(q) = IF k < n THEN k ELSE n
  BY DEF BufferRounds
<1> HIDE DEF s, w, n, k
<1>6. s \in Nat /\ w \in Nat \ {0} /\ s + w <= n /\ w <= k /\ w <= n
  BY <1>1, <1>2, <1>4
<1>7. \A r \in Nat : r < n /\ r < s + k => r < s + w
  BY <1>1, <1>4, <1>6
<1> QED BY <1>1, <1>3, <1>5, <1>6, <1>7 DEF s, w, n

\* Byte k of a block j out of w.
LEMMA WithinBlocks ==
  ASSUME NEW i \in Nat, NEW bs \in Nat \ {0}, NEW w \in Nat
  PROVE  i < Prod(w, bs) <=> i \div bs < w
<1> DEFINE j == i \div bs
           k == i % bs
<1>1. j \in Nat /\ k \in 0 .. bs - 1 /\ i = Prod(j, bs) + k
  BY QuotientFacts
<1> HIDE DEF j, k
<1>2. Prod(j, bs) \in Nat /\ Prod(w, bs) \in Nat
  BY <1>1, ProdFacts
<1>3. j < w => Prod(j, bs) + bs <= Prod(w, bs)
  BY <1>1, ProdFacts
<1>4. w <= j => Prod(w, bs) <= Prod(j, bs)
  BY <1>1, ProdFacts
<1>5. i < Prod(w, bs) <=> j < w
  BY <1>1, <1>2, <1>3, <1>4
<1> QED BY <1>5 DEF j

--------------------------------------------------------------------------------
(* The inductive invariant                                                  *)

\* The range of each variable, and what the buffers and the extent are indexed by.
TypeOK ==
  /\ input \in Inputs
  /\ batch \in 0 .. Batches(p)
  /\ pos \in 0 .. RsN(p)
  /\ pc \in {"take", "symbol", "write", "done"}
  /\ DOMAIN syms = 0 .. Prod(BufferRounds(p), p.blockSize) - 1
  /\ DOMAIN st = 0 .. Prod(BufferRounds(p), p.blockSize) - 1
  /\ DOMAIN dst = 0 .. ParityBytes(p) - 1

\* What each label of the worker says of the batch and of the symbols consumed.
Control ==
  /\ pc \in {"symbol", "write"} => batch < Batches(p)
  /\ pc = "symbol" => pos < RsN(p)
  /\ pc = "write" => pos = RsN(p)
  /\ pc = "done" => batch = Batches(p)

\* The symbols that codeword i of the batch has had in the image.
Consumed(i) ==
  SubSeq(ReferenceMessage(BatchStart(p, batch) + i \div p.blockSize, i % p.blockSize), 1, pos)

\* Each register is that of its codeword.
Registers == pc \in {"symbol", "write"} => \A i \in Span : st[i] = Encode(Consumed(i), p.roots)

\* The parity of codeword k of round r, and where it is in the extent.
Parity(r, k) == Encode(ReferenceMessage(r, k), p.roots)

\* Where the parity of codeword k of round r starts in the extent.
Place(r, k) == (r * p.blockSize + k) * p.roots

\* The batches before this one are in the extent.
Written ==
  \A r \in RoundSet(p), k \in 0 .. p.blockSize - 1 :
    r < BatchStart(p, batch) => \A n \in 1 .. p.roots : dst[Place(r, k) + n - 1] = Parity(r, k)[n]

\* The inductive invariant.
IInv == TypeOK /\ Control /\ Registers /\ Written

\* What the assumptions say of the partition.
LEMMA InputFacts ==
  ASSUME input \in Inputs
  PROVE  /\ p \in ParamsType /\ Valid(p) /\ p.roots \in RootCounts
         /\ input.data \in [0 .. Prod(p.dataBlocks, p.blockSize) - 1 -> Symbols]
         /\ RsN(p) \in Nat \ {0} /\ Rounds(p) \in Nat \ {0} /\ Batches(p) \in Nat \ {0}
         /\ p.roots \in Nat \ {0} /\ p.blockSize \in Nat \ {0} /\ p.dataBlocks \in Nat
         /\ RsN(p) + p.roots = CodewordLen
<1>1. p \in ParamsType /\ Valid(p) /\ p.roots \in RootCounts
  BY ReedSolomonAssumption DEF InputsAssumption, p, RootCounts
<1>2. input.data \in [0 .. p.dataBlocks * p.blockSize - 1 -> Symbols]
  BY ReedSolomonAssumption DEF InputsAssumption, p
<1> QED BY <1>1, <1>2, Sizes DEF Prod

\* The symbol of a codeword is a byte of the data, or zero behind its end.
LEMMA ReferenceSymbolIs ==
  ASSUME input \in Inputs, NEW r \in RoundSet(p), NEW k \in 0 .. p.blockSize - 1,
         NEW j \in 0 .. RsN(p) - 1
  PROVE  LET b == BlockOf(p, r, j)
         IN  /\ b \in Nat /\ b = Prod(j, Rounds(p)) + r
             /\ ReferenceSymbol(r, k, j) \in Symbols
             /\ b < p.dataBlocks => ReferenceSymbol(r, k, j) = input.data[Prod(b, p.blockSize) + k]
             /\ ~ (b < p.dataBlocks) => ReferenceSymbol(r, k, j) = 0
<1> DEFINE rs == RsN(p)
           n == Rounds(p)
           bs == p.blockSize
           b == BlockOf(p, r, j)
           o == r * rs * bs + j
           rb == Prod(r, bs)
           jn == Prod(j, n)
<1>1. /\ rs \in Nat \ {0} /\ n \in Nat \ {0} /\ bs \in Nat \ {0} /\ r \in Nat /\ j \in Nat /\ k \in Nat
      /\ p.dataBlocks \in Nat /\ j \in 0 .. rs - 1 /\ k \in 0 .. bs - 1
      /\ input.data \in [0 .. Prod(p.dataBlocks, bs) - 1 -> Symbols]
  BY InputFacts DEF RoundSet
<1>2. b = jn + r
  BY DEF BlockOf, Prod
<1>3. o = Prod(rb, rs) + j
  <2> HIDE DEF rs, bs
  <2>1. r * rs * bs = (r * bs) * rs
    BY <1>1
  <2> QED BY <2>1 DEF Prod
<1>4. ReferenceSymbol(r, k, j) =
        LET at == (o \div rs + (o % rs) * n * bs) + k
        IN  IF at \in DOMAIN input.data THEN input.data[at] ELSE 0
  BY DEF ReferenceSymbol, Interleave
<1>5. \A x : x * n * bs = Prod(Prod(x, n), bs)
  BY DEF Prod
<1> HIDE DEF rs, n, bs, b, o
<1>6. rb \in Nat /\ jn \in Nat /\ b \in Nat /\ Prod(rb, rs) \in Nat /\ o \in Nat
  <2>1. rb \in Nat /\ jn \in Nat
    BY <1>1, ProdFacts
  <2> HIDE DEF rb, jn
  <2>2. Prod(rb, rs) \in Nat
    BY <1>1, <2>1, ProdFacts
  <2> QED BY <1>1, <1>2, <1>3, <2>1, <2>2
<1>7. o \div rs = rb /\ o % rs = j
  <2> HIDE DEF rb
  <2> QED BY <1>1, <1>3, <1>6, QuotientIs
<1>8. Prod(b, bs) = Prod(jn, bs) + rb
  <2> HIDE DEF jn
  <2> QED BY <1>1, <1>2, <1>6, ProdFacts
<1> DEFINE at == Prod(b, bs) + k
<1>9. (o \div rs + (o % rs) * n * bs) + k = at
  <2>1. Prod(jn, bs) \in Nat
    BY <1>1, <1>6, ProdFacts
  <2>2. (o % rs) * n * bs = Prod(jn, bs)
    BY <1>5, <1>7
  <2> HIDE DEF jn, rb
  <2> QED BY <1>1, <1>6, <1>7, <1>8, <2>1, <2>2
<1>10. at \in DOMAIN input.data <=> b < p.dataBlocks
  <2> DEFINE d == p.dataBlocks
  <2>1. Prod(b, bs) \in Nat /\ Prod(d, bs) \in Nat
    BY <1>1, <1>6, ProdFacts
  <2>2. at \in Nat /\ at = Prod(b, bs) + k
    BY <1>1, <2>1
  <2> HIDE DEF at, d
  <2>5. at \div bs = b
    BY <1>1, <1>6, <2>2, QuotientIs
  <2>3. at < Prod(d, bs) <=> b < d
    BY <1>1, <2>2, <2>5, WithinBlocks DEF d
  <2>4. DOMAIN input.data = 0 .. Prod(d, bs) - 1
    BY <1>1 DEF d
  <2> QED BY <2>1, <2>2, <2>3, <2>4 DEF d
<1> HIDE DEF at
<1>11. ReferenceSymbol(r, k, j) = IF b < p.dataBlocks THEN input.data[at] ELSE 0
  BY <1>4, <1>9, <1>10
<1>12. ReferenceSymbol(r, k, j) \in Symbols
  BY <1>1, <1>10, <1>11, SymbolsFacts
<1> QED BY <1>2, <1>6, <1>11, <1>12 DEF at, b, bs, n

\* The symbols of a codeword in the image are a word.
LEMMA MessageWord ==
  ASSUME input \in Inputs, NEW r \in RoundSet(p), NEW k \in 0 .. p.blockSize - 1
  PROVE  /\ ReferenceMessage(r, k) \in Words(RsN(p))
         /\ \A j \in 1 .. RsN(p) : ReferenceMessage(r, k)[j] = ReferenceSymbol(r, k, j - 1)
<1>1. ASSUME NEW j \in 1 .. RsN(p) PROVE ReferenceSymbol(r, k, j - 1) \in Symbols
  <2> DEFINE i == j - 1
  <2>1. i \in 0 .. RsN(p) - 1
    BY InputFacts
  <2> HIDE DEF i
  <2>2. ReferenceSymbol(r, k, i) \in Symbols
    BY <2>1, ReferenceSymbolIs
  <2> QED BY <2>2 DEF i
<1> QED BY <1>1 DEF ReferenceMessage, Words

--------------------------------------------------------------------------------
(* The three steps of a batch                                               *)

\* The codewords of the batch: their rounds, and their places in the buffers.
LEMMA SpanFacts ==
  ASSUME TypeOK, batch < Batches(p)
  PROVE  /\ BatchStart(p, batch) \in Nat
         /\ \A i \in Span :
              LET r == BatchStart(p, batch) + i \div p.blockSize
              IN  /\ i \in Nat /\ i \in DOMAIN st /\ i \in DOMAIN syms
                  /\ r \in RoundSet(p) /\ i % p.blockSize \in 0 .. p.blockSize - 1
                  /\ i \div p.blockSize \in Nat /\ i \div p.blockSize < BatchWidth(p, batch)
                  /\ i = Prod(i \div p.blockSize, p.blockSize) + (i % p.blockSize)
         /\ \A j \in 0 .. BatchWidth(p, batch) - 1, k \in 0 .. p.blockSize - 1 :
              /\ Prod(j, p.blockSize) + k \in Span
              /\ (Prod(j, p.blockSize) + k) \div p.blockSize = j
              /\ (Prod(j, p.blockSize) + k) % p.blockSize = k
<1> DEFINE s == BatchStart(p, batch)
           w == BatchWidth(p, batch)
           bs == p.blockSize
           n == Rounds(p)
           br == BufferRounds(p)
<1>1. /\ s \in Nat /\ w \in Nat \ {0} /\ s + w <= n /\ br \in Nat /\ w <= br /\ bs \in Nat \ {0}
      /\ n \in Nat /\ RoundSet(p) = 0 .. n - 1
  BY InputFacts, BatchFacts DEF TypeOK, RoundSet
<1>2. Span = 0 .. Prod(w, bs) - 1
  BY DEF Span, Prod
<1>3. DOMAIN st = 0 .. Prod(br, bs) - 1 /\ DOMAIN syms = 0 .. Prod(br, bs) - 1
  BY DEF TypeOK
<1> HIDE DEF s, w, bs, n, br
<1>4. Prod(w, bs) \in Nat /\ Prod(br, bs) \in Nat /\ Prod(w, bs) <= Prod(br, bs)
  BY <1>1, ProdFacts
<1>5. ASSUME NEW i \in Span
      PROVE  /\ i \in Nat /\ i \in DOMAIN st /\ i \in DOMAIN syms
             /\ s + i \div bs \in RoundSet(p) /\ i % bs \in 0 .. bs - 1
             /\ i \div bs \in Nat /\ i \div bs < w
             /\ i = Prod(i \div bs, bs) + (i % bs)
  <2>1. i \in Nat /\ i < Prod(w, bs) /\ i \in DOMAIN st /\ i \in DOMAIN syms
    BY <1>2, <1>3, <1>4
  <2>2. i \div bs \in Nat /\ i % bs \in 0 .. bs - 1 /\ i = Prod(i \div bs, bs) + (i % bs)
    BY <1>1, <2>1, QuotientFacts
  <2>3. i \div bs < w
    BY <1>1, <2>1, WithinBlocks
  <2> DEFINE j == i \div bs
  <2> HIDE DEF j
  <2>4. s + j \in RoundSet(p)
    <3>1. j \in Nat /\ j < w
      BY <2>2, <2>3 DEF j
    <3> QED BY <1>1, <3>1
  <2> QED BY <2>1, <2>2, <2>3, <2>4 DEF j
<1>6. ASSUME NEW j \in 0 .. w - 1, NEW k \in 0 .. bs - 1
      PROVE  /\ Prod(j, bs) + k \in Span
             /\ (Prod(j, bs) + k) \div bs = j
             /\ (Prod(j, bs) + k) % bs = k
  <2> DEFINE i == Prod(j, bs) + k
  <2>1. j \in Nat /\ j < w /\ k \in Nat
    BY <1>1
  <2>2. Prod(j, bs) \in Nat
    BY <1>1, <2>1, ProdFacts
  <2>3. i \in Nat /\ i = Prod(j, bs) + k
    BY <2>1, <2>2
  <2> HIDE DEF i
  <2>4. i \div bs = j /\ i % bs = k
    BY <1>1, <2>1, <2>3, QuotientIs
  <2>5. i < Prod(w, bs)
    BY <1>1, <2>1, <2>3, <2>4, WithinBlocks
  <2>6. i \in Span
    BY <1>2, <1>4, <2>3, <2>5
  <2> QED BY <2>4, <2>6 DEF i
<1> QED BY <1>1, <1>5, <1>6 DEF s, w, bs

\* What the worker gathers are the symbols of its codewords.
LEMMA GatheredIs ==
  ASSUME TypeOK, batch < Batches(p), pos < RsN(p), NEW i \in Span
  PROVE  Gathered[i] = ReferenceSymbol(BatchStart(p, batch) + i \div p.blockSize,
                                       i % p.blockSize, pos)
<1> DEFINE s == BatchStart(p, batch)
           w == BatchWidth(p, batch)
           bs == p.blockSize
           j == i \div bs
           k == i % bs
           r == s + j
           first == BlockOf(p, s, pos)
           have == Have(p, batch, pos)
           b == BlockOf(p, r, pos)
           d == p.dataBlocks
           pn == Prod(pos, Rounds(p))
<1>1. /\ i \in Nat /\ i \in DOMAIN syms /\ r \in RoundSet(p) /\ k \in 0 .. bs - 1 /\ j \in Nat
      /\ j < w /\ i = Prod(j, bs) + k /\ s \in Nat
  BY SpanFacts
<1>2. /\ pos \in 0 .. RsN(p) - 1 /\ pos \in Nat /\ d \in Nat /\ bs \in Nat \ {0} /\ w \in Nat \ {0}
      /\ input \in Inputs /\ pn \in Nat
  <2>1. /\ input \in Inputs /\ batch \in Nat /\ pos \in 0 .. RsN(p)
        /\ RsN(p) \in Nat /\ Rounds(p) \in Nat /\ p \in ParamsType /\ Valid(p)
        /\ d \in Nat /\ bs \in Nat \ {0}
    BY InputFacts DEF TypeOK
  <2>2. w \in Nat \ {0}
    BY <2>1, BatchFacts
  <2>3. pos \in Nat /\ pos \in 0 .. RsN(p) - 1
    BY <2>1
  <2>4. pn \in Nat
    BY <2>1, <2>3, ProdFacts
  <2> QED BY <2>1, <2>2, <2>3, <2>4
<1>3. first = pn + s /\ b = pn + r
  BY DEF BlockOf, Prod
<1>4. have = CASE first >= d -> 0
               [] d - first \in 1 .. w -> d - first
               [] OTHER -> w
  BY DEF Have
<1>5. Gathered[i] = CASE i < have * bs -> input.data[first * bs + i]
                      [] i \in Span /\ i >= have * bs -> 0
                      [] OTHER -> syms[i]
  BY <1>1 DEF Gathered
<1>6. /\ b < d => ReferenceSymbol(r, k, pos) = input.data[Prod(b, bs) + k]
      /\ ~ (b < d) => ReferenceSymbol(r, k, pos) = 0
  BY <1>1, <1>2, ReferenceSymbolIs
<1>7. first * bs = Prod(first, bs) /\ have * bs = Prod(have, bs)
  BY DEF Prod
<1> HIDE DEF s, w, bs, j, first, have, b, d, pn, k
<1>8. have \in Nat /\ (j < have <=> first + j < d) /\ first \in Nat /\ b = first + j /\ b \in Nat
  BY <1>1, <1>2, <1>3, <1>4
<1>9. i < have * bs <=> b < d
  <2>1. i < Prod(have, bs) <=> i \div bs < have
    BY <1>1, <1>2, <1>8, WithinBlocks
  <2> QED BY <1>7, <1>8, <2>1 DEF j
<1>10. first * bs + i = Prod(b, bs) + k
  <2>1. Prod(b, bs) = Prod(first, bs) + Prod(j, bs)
    BY <1>1, <1>2, <1>8, ProdFacts
  <2>2. Prod(first, bs) \in Nat /\ Prod(j, bs) \in Nat
    BY <1>1, <1>2, <1>8, ProdFacts
  <2> QED BY <1>1, <1>2, <1>7, <2>1, <2>2
<1>11. have * bs \in Nat
  BY <1>2, <1>7, <1>8, ProdFacts
<1>12. Gathered[i] = ReferenceSymbol(r, k, pos)
  <2> DEFINE hb == have * bs
             x == first * bs + i
  <2>3. Gathered[i] = CASE i < hb -> input.data[x] [] i \in Span /\ i >= hb -> 0 [] OTHER -> syms[i]
    BY <1>5
  <2>4. hb \in Nat /\ (i < hb <=> b < d) /\ x = Prod(b, bs) + k
    BY <1>9, <1>10, <1>11
  <2> HIDE DEF hb, x
  <2>1. CASE b < d
    <3>1. i < hb /\ ~ (i >= hb)
      BY <1>1, <2>1, <2>4
    <3>2. Gathered[i] = input.data[x]
      BY <2>3, <3>1
    <3> QED BY <1>6, <2>1, <2>4, <3>2
  <2>2. CASE ~ (b < d)
    <3>1. i >= hb /\ ~ (i < hb)
      BY <1>1, <2>2, <2>4
    <3>2. Gathered[i] = 0
      BY <2>3, <3>1
    <3> QED BY <1>6, <2>2, <3>2
  <2> QED BY <2>1, <2>2
<1> QED BY <1>12 DEF s, j, k, bs

--------------------------------------------------------------------------------
(* The worker                                                               *)

\* The first symbols of a word.
LEMMA Prefix ==
  ASSUME NEW n \in Nat, NEW w \in Words(n), NEW m \in 0 .. n
  PROVE  /\ SubSeq(w, 1, m) \in Words(m)
         /\ \A k \in 1 .. m : SubSeq(w, 1, m)[k] = w[k]
<1>1. m \in Nat /\ m <= n
  OBVIOUS
<1>2. SubSeq(w, 1, m) = [k \in 1 .. m |-> w[k]]
  <2>1. w \in Seq(Symbols) /\ Len(w) = n
    BY WordsFacts
  <2> QED BY <1>1, <2>1
<1>3. \A k \in 1 .. m : w[k] \in Symbols
  BY <1>1, WordsFacts
<1> QED BY <1>2, <1>3 DEF Words

\* All of them.
LEMMA WholePrefix ==
  ASSUME NEW n \in Nat, NEW w \in Words(n)
  PROVE  SubSeq(w, 1, n) = w
<1>1. n \in 0 .. n
  OBVIOUS
<1>2. SubSeq(w, 1, n) \in Words(n) /\ \A k \in 1 .. n : SubSeq(w, 1, n)[k] = w[k]
  BY <1>1, Prefix
<1> QED BY <1>2, SameWords

\* A step that keeps the partition keeps what depends on it alone.
LEMMA InputKept ==
  ASSUME input' = input
  PROVE  /\ p' = p
         /\ \A r, k : ReferenceMessage(r, k)' = ReferenceMessage(r, k)
         /\ \A r, k : Parity(r, k)' = Parity(r, k)
         /\ \A r, k : Place(r, k)' = Place(r, k)
<1>1. p' = p
  BY DEF p
<1>2. \A r, k : ReferenceMessage(r, k)' = ReferenceMessage(r, k)
  BY <1>1 DEF ReferenceMessage, ReferenceSymbol
<1> QED BY <1>1, <1>2 DEF Parity, Place

\* The invariant holds at first.
LEMMA InitInv == Init => IInv
<1> SUFFICES ASSUME Init PROVE IInv
  OBVIOUS
<1>1. /\ input \in Inputs /\ batch = 0 /\ pos = 0 /\ pc = "take"
      /\ DOMAIN syms = 0 .. BufferRounds(p) * p.blockSize - 1
      /\ DOMAIN st = 0 .. BufferRounds(p) * p.blockSize - 1
      /\ DOMAIN dst = 0 .. ParityBytes(p) - 1
  BY DEF Init, p
<1>2. RsN(p) \in Nat /\ Batches(p) \in Nat /\ RoundSet(p) \subseteq Nat
  BY <1>1, InputFacts DEF RoundSet
<1>3. BatchStart(p, 0) = 0
  <2>1. BatchRounds(p) \in Nat
    BY <1>1, InputFacts, Sizes
  <2> QED BY <2>1 DEF BatchStart
<1>4. TypeOK
  BY <1>1, <1>2 DEF TypeOK, Prod
<1>5. Written
  BY <1>1, <1>2, <1>3 DEF Written
<1> QED BY <1>1, <1>4, <1>5 DEF IInv, Control, Registers

\* A cleared register is that of no symbols.
LEMMA TakeKeeps ==
  ASSUME IInv, Take
  PROVE  IInv'
<1>1. /\ pc = "take" /\ pc' = (IF batch < Batches(p) THEN "symbol" ELSE "done") /\ pos' = 0
      /\ st' = [i \in DOMAIN st |->
                  IF batch < Batches(p) /\ i \in Span THEN Cleared(p.roots) ELSE st[i]]
      /\ input' = input /\ batch' = batch /\ syms' = syms /\ dst' = dst
  BY DEF Take
<1>2. TypeOK /\ Written
  BY DEF IInv
<1>3. p' = p /\ Span' = Span
  BY <1>1, InputKept DEF Span
<1>4. RsN(p) \in Nat \ {0} /\ Batches(p) \in Nat /\ batch \in 0 .. Batches(p) /\ input \in Inputs
  BY <1>2, InputFacts DEF TypeOK
<1>5. TypeOK'
  BY <1>1, <1>2, <1>3, <1>4 DEF TypeOK
<1>6. Control'
  BY <1>1, <1>3, <1>4 DEF Control
<1>7. Registers'
  <2> SUFFICES ASSUME batch < Batches(p), NEW i \in Span
               PROVE  st'[i] = Encode(Consumed(i)', p.roots)
    BY <1>1, <1>3 DEF Registers
  <2> DEFINE r == BatchStart(p, batch) + i \div p.blockSize
             k == i % p.blockSize
             m == ReferenceMessage(r, k)
  <2>1. i \in DOMAIN st /\ r \in RoundSet(p) /\ k \in 0 .. p.blockSize - 1
    BY <1>2, SpanFacts
  <2>2. st'[i] = Cleared(p.roots)
    BY <1>1, <2>1
  <2>3. Consumed(i)' = SubSeq(m, 1, 0)
    BY <1>1, <1>3, InputKept DEF Consumed
  <2> HIDE DEF r, k
  <2>4. m \in Words(RsN(p))
    BY <1>4, <2>1, MessageWord
  <2> HIDE DEF m
  <2>5. SubSeq(m, 1, 0) \in Words(0)
    <3>1. 0 \in 0 .. RsN(p) /\ RsN(p) \in Nat
      BY <1>4
    <3> QED BY <2>4, <3>1, Prefix
  <2>6. Encode(SubSeq(m, 1, 0), p.roots) = Cleared(p.roots)
    <3> DEFINE w == SubSeq(m, 1, 0)
    <3>1. p.roots \in RootCounts
      BY <1>4, InputFacts
    <3> HIDE DEF w
    <3>2. w \in Words(0)
      BY <2>5 DEF w
    <3>3. Encode(w, p.roots) = Cleared(p.roots)
      BY <3>1, <3>2, EncodeEmpty
    <3> QED BY <3>3 DEF w
  <2> QED BY <2>2, <2>3, <2>6
<1>8. Written'
  BY <1>1, <1>2, <1>3, InputKept DEF Written
<1> QED BY <1>5, <1>6, <1>7, <1>8 DEF IInv

\* A symbol through the register of each codeword.
LEMMA SymbolKeeps ==
  ASSUME IInv, Symbol
  PROVE  IInv'
<1>1. /\ pc = "symbol" /\ syms' = Gathered /\ pos' = pos + 1
      /\ st' = [i \in DOMAIN st |-> IF i \in Span THEN Stepped(st[i], syms'[i]) ELSE st[i]]
      /\ pc' = (IF pos + 1 = RsN(p) THEN "write" ELSE "symbol")
      /\ input' = input /\ batch' = batch /\ dst' = dst
  BY DEF Symbol
<1>2. TypeOK /\ Written /\ batch < Batches(p) /\ pos < RsN(p)
      /\ \A i \in Span : st[i] = Encode(Consumed(i), p.roots)
  BY <1>1 DEF IInv, Control, Registers
<1>3. p' = p /\ Span' = Span
  BY <1>1, InputKept DEF Span
<1>4. /\ RsN(p) \in Nat \ {0} /\ Batches(p) \in Nat /\ batch \in 0 .. Batches(p) /\ input \in Inputs
      /\ pos \in 0 .. RsN(p) - 1 /\ p.roots \in RootCounts
  BY <1>2, InputFacts DEF TypeOK
<1>5. TypeOK'
  <2>1. DOMAIN syms' = DOMAIN syms
    BY <1>1 DEF Gathered
  <2>2. pos' \in 0 .. RsN(p)
    BY <1>1, <1>4
  <2> QED BY <1>1, <1>2, <1>3, <1>4, <2>1, <2>2 DEF TypeOK
<1>6. Control'
  BY <1>1, <1>2, <1>3, <1>4 DEF Control
<1>7. Registers'
  <2> SUFFICES ASSUME NEW i \in Span
               PROVE  st'[i] = Encode(Consumed(i)', p.roots)
    BY <1>1, <1>3 DEF Registers
  <2> DEFINE r == BatchStart(p, batch) + i \div p.blockSize
             k == i % p.blockSize
             m == ReferenceMessage(r, k)
             q == pos + 1
             w == SubSeq(m, 1, pos)
             v == SubSeq(m, 1, q)
  <2>1. i \in DOMAIN st /\ r \in RoundSet(p) /\ k \in 0 .. p.blockSize - 1
    BY <1>2, SpanFacts
  <2>2. st'[i] = Stepped(Encode(w, p.roots), Gathered[i])
    BY <1>1, <1>2, <2>1 DEF Consumed
  <2>3. Consumed(i)' = v
    BY <1>1, <1>3, InputKept DEF Consumed
  <2>4. Gathered[i] = ReferenceSymbol(r, k, pos)
    BY <1>2, GatheredIs
  <2> HIDE DEF r, k
  <2>5. /\ m \in Words(RsN(p))
        /\ \A j \in 1 .. RsN(p) : m[j] = ReferenceSymbol(r, k, j - 1)
    BY <1>4, <2>1, MessageWord
  <2> HIDE DEF m
  <2>6. /\ pos \in Nat /\ pos \in 0 .. RsN(p) /\ q \in 0 .. RsN(p) /\ q \in 1 .. RsN(p)
        /\ q - 1 = pos /\ RsN(p) \in Nat /\ q \in 1 .. q /\ \A j \in 1 .. pos : j \in 1 .. q
    BY <1>4
  <2>7. Gathered[i] = m[q]
    <3>1. m[q] = ReferenceSymbol(r, k, q - 1)
      BY <2>5, <2>6
    <3> QED BY <2>4, <2>6, <3>1
  <2>8. w \in Words(pos) /\ \A j \in 1 .. pos : w[j] = m[j]
    BY <2>5, <2>6, Prefix
  <2>9. v \in Words(q) /\ \A j \in 1 .. q : v[j] = m[j]
    <3> HIDE DEF q
    <3> QED BY <2>5, <2>6, Prefix
  <2> HIDE DEF v, w
  <2>10. \A j \in 1 .. pos : v[j] = w[j]
    BY <2>6, <2>8, <2>9
  <2>11. v[pos + 1] = m[q]
    BY <2>6, <2>9
  <2>12. Encode(v, p.roots) = Stepped(Encode(w, p.roots), v[pos + 1])
    BY <1>4, <2>6, <2>8, <2>9, <2>10, EncodeStep
  <2> QED BY <2>2, <2>3, <2>7, <2>11, <2>12
<1>8. Written'
  BY <1>1, <1>2, <1>3, InputKept DEF Written
<1> QED BY <1>5, <1>6, <1>7, <1>8 DEF IInv

\* The parity of earlier rounds is below that of round s,
LEMMA BelowRound ==
  ASSUME NEW r \in Nat, NEW s \in Nat, r < s, NEW bs \in Nat \ {0}, NEW t \in Nat \ {0},
         NEW k \in 0 .. bs - 1, NEW n \in 1 .. t
  PROVE  /\ Prod(Prod(r, bs) + k, t) + n - 1 \in Nat
         /\ Prod(Prod(r, bs) + k, t) + n - 1 < Prod(Prod(s, bs), t)
<1> DEFINE c == Prod(r, bs) + k
           d == Prod(s, bs)
<1>1. Prod(r, bs) \in Nat /\ d \in Nat /\ Prod(r, bs) + bs <= d
  BY ProdFacts
<1>2. c \in Nat /\ c < d
  BY <1>1
<1> HIDE DEF c, d
<1>3. Prod(c, t) \in Nat /\ Prod(d, t) \in Nat /\ Prod(c, t) + t <= Prod(d, t)
  BY <1>1, <1>2, ProdFacts
<1>4. Prod(c, t) + n - 1 \in Nat /\ Prod(c, t) + n - 1 < Prod(d, t)
  BY <1>3
<1> QED BY <1>4 DEF c, d

\* How far the parity of round s + j is behind the start of round s,
Behind(s, j, bs, t, k, n) == Prod(Prod(s + j, bs) + k, t) + n - 1 - Prod(Prod(s, bs), t)

\* which is j rounds.
LEMMA FromRound ==
  ASSUME NEW s \in Nat, NEW j \in Nat, NEW bs \in Nat \ {0}, NEW t \in Nat \ {0},
         NEW k \in 0 .. bs - 1, NEW n \in 1 .. t
  PROVE  LET m == Behind(s, j, bs, t, k, n)
         IN  m >= 0 /\ m \div t = Prod(j, bs) + k /\ m % t = n - 1
<1> DEFINE m == Behind(s, j, bs, t, k, n)
           r == s + j
           sb == Prod(s, bs)
           jb == Prod(j, bs)
           c == jb + k
           e == sb + c
           x == n - 1
<1>1. sb \in Nat /\ jb \in Nat /\ Prod(r, bs) = sb + jb
  <2>1. Prod(s + j, bs) = Prod(s, bs) + Prod(j, bs)
    BY ProdFacts
  <2> QED BY <2>1, ProdFacts
<1>2. m = Prod(Prod(r, bs) + k, t) + n - 1 - Prod(sb, t)
  BY DEF Behind
<1> HIDE DEF m, r, sb, jb
<1>3. c \in Nat /\ x \in 0 .. t - 1 /\ Prod(r, bs) + k = e
  BY <1>1
<1> HIDE DEF c
<1>4. Prod(sb, t) \in Nat /\ Prod(c, t) \in Nat
  BY <1>1, <1>3, ProdFacts
<1>5. Prod(e, t) = Prod(sb, t) + Prod(c, t)
  BY <1>1, <1>3, ProdFacts
<1> HIDE DEF e
<1>6. m = Prod(c, t) + x /\ m \in Nat
  BY <1>2, <1>3, <1>4, <1>5
<1> HIDE DEF x
<1>7. m \div t = c /\ m % t = x
  BY <1>3, <1>6, QuotientIs
<1> QED BY <1>6, <1>7 DEF c, jb, m, x

\* The registers of a batch become the parity of its rounds, and no other byte
\* changes.
LEMMA WriteKeeps ==
  ASSUME IInv, WriteBatch
  PROVE  IInv'
<1>1. /\ pc = "write" /\ batch' = batch + 1 /\ pc' = "take"
      /\ dst' = [x \in DOMAIN dst |->
                   LET m == x - ParityOffset
                   IN  IF m >= 0 /\ m \div p.roots \in Span
                       THEN st[m \div p.roots][1 + (m % p.roots)] ELSE dst[x]]
      /\ input' = input /\ pos' = pos /\ syms' = syms /\ st' = st
  BY DEF WriteBatch
<1>2. /\ TypeOK /\ Written /\ batch < Batches(p) /\ pos = RsN(p)
      /\ \A i \in Span : st[i] = Encode(Consumed(i), p.roots)
  BY <1>1 DEF IInv, Control, Registers
<1>3. p' = p
  BY <1>1, InputKept
<1> DEFINE bs == p.blockSize
           t == p.roots
           s == BatchStart(p, batch)
           w == BatchWidth(p, batch)
           next == batch + 1
<1>4. /\ RsN(p) \in Nat \ {0} /\ Batches(p) \in Nat /\ batch \in 0 .. Batches(p) /\ input \in Inputs
      /\ bs \in Nat \ {0} /\ t \in Nat \ {0} /\ t \in RootCounts /\ batch \in Nat
      /\ p \in ParamsType /\ Valid(p) /\ Rounds(p) \in Nat /\ next \in 0 .. Batches(p)
  BY <1>2, InputFacts DEF TypeOK
<1>5. TypeOK'
  BY <1>1, <1>2, <1>3, <1>4 DEF TypeOK
<1>6. Control'
  BY <1>1 DEF Control
<1>7. Registers'
  BY <1>1 DEF Registers
<1>8. /\ s \in Nat /\ w \in Nat
      /\ \A r \in Nat : r < Rounds(p) /\ r < BatchStart(p, next) => r < s + w
  BY <1>2, <1>4, BatchFacts
<1>9. Written'
  <2> SUFFICES ASSUME NEW r \in RoundSet(p), NEW k \in 0 .. bs - 1, r < BatchStart(p, next),
                      NEW n \in 1 .. t
               PROVE  dst'[Place(r, k) + n - 1] = Parity(r, k)[n]
    BY <1>1, <1>3, InputKept DEF Written
  <2> DEFINE x == Place(r, k) + n - 1
             m == x - ParityOffset
             off == Prod(Prod(s, bs), t)
  <2>1. r \in Nat /\ r < Rounds(p) /\ r < s + w
    BY <1>4, <1>8 DEF RoundSet
  <2>2. /\ x = Prod(Prod(r, bs) + k, t) + n - 1
        /\ m = x - ParityOffset
        /\ DOMAIN dst = 0 .. Prod(Prod(Rounds(p), bs), t) - 1
        /\ ParityOffset = off
    <3>1. /\ Rounds(p) * t * bs = (Rounds(p) * bs) * t
          /\ s * t * bs = (s * bs) * t
      <4> HIDE DEF s, t, bs
      <4> QED BY <1>4, <1>8
    <3> QED BY <1>2, <3>1 DEF TypeOK, ParityBytes, ParityOffset, Place, Prod
  <2>3. x \in DOMAIN dst
    <3> DEFINE R == Rounds(p)
    <3> HIDE DEF R, bs, t, s
    <3>1. x \in Nat /\ x < Prod(Prod(R, bs), t)
      BY <1>4, <2>1, <2>2, BelowRound DEF R
    <3>2. Prod(Prod(R, bs), t) \in Nat
      BY <1>4, ProdFacts DEF R
    <3> HIDE DEF x
    <3> QED BY <2>2, <3>1, <3>2 DEF R
  <2>4. dst'[x] = IF m >= 0 /\ m \div t \in Span THEN st[m \div t][1 + (m % t)] ELSE dst[x]
    BY <1>1, <2>3
  <2>5. off \in Nat
    <3> HIDE DEF s, bs, t
    <3>1. Prod(s, bs) \in Nat
      BY <1>4, <1>8, ProdFacts
    <3> QED BY <1>4, <3>1, ProdFacts
  <2>6. CASE r < s
    <3>1. x \in Nat /\ x < off
      <4> HIDE DEF s, bs, t
      <4> QED BY <1>4, <1>8, <2>1, <2>2, <2>6, BelowRound
    <3> HIDE DEF x, off
    <3>2. ~ (m >= 0)
      BY <2>2, <2>5, <3>1
    <3>3. dst'[x] = dst[x]
      BY <2>4, <3>2
    <3>4. dst[x] = Parity(r, k)[n]
      BY <1>2, <2>6 DEF Written, x
    <3> QED BY <3>3, <3>4 DEF x
  <2>7. CASE r >= s
    <3> DEFINE j == r - s
               i == Prod(j, bs) + k
               msg == ReferenceMessage(r, k)
    <3>1. j \in Nat /\ j \in 0 .. w - 1 /\ s + j = r
      BY <1>8, <2>1, <2>7
    <3>2. m >= 0 /\ m \div t = i /\ m % t = n - 1
      <4> DEFINE a == Prod(Prod(r, bs) + k, t)
                 b == Prod(Prod(s, bs), t)
                 c == Prod(r, bs) + k
      <4>3. a \in Nat
        <5> HIDE DEF bs, t
        <5>1. c \in Nat
          <6>1. Prod(r, bs) \in Nat
            BY <1>4, <2>1, ProdFacts
          <6> QED BY <1>4, <6>1
        <5> HIDE DEF c
        <5>2. Prod(c, t) \in Nat
          BY <1>4, <5>1, ProdFacts
        <5> QED BY <5>2 DEF c
      <4> HIDE DEF a, off, x
      <4>1. m = a + n - 1 - b
        <5>1. m = x - ParityOffset
          OBVIOUS
        <5>2. x = a + n - 1 /\ ParityOffset = b
          BY <2>2 DEF a, off
        <5> HIDE DEF b, m
        <5> QED BY <1>4, <2>5, <4>3, <5>1, <5>2 DEF off, b
      <4> HIDE DEF m, s, bs, t, j
      <4>2. m >= 0 /\ m \div t = Prod(j, bs) + k /\ m % t = n - 1
        <5>1. m = Behind(s, j, bs, t, k, n)
          BY <3>1, <4>1 DEF a, Behind
        <5>2. /\ s \in Nat /\ j \in Nat /\ bs \in Nat \ {0} /\ t \in Nat \ {0}
              /\ k \in 0 .. bs - 1 /\ n \in 1 .. t
          BY <1>4, <1>8, <3>1
        <5> QED BY ONLY <5>1, <5>2, FromRound
      <4> QED BY <4>2
    <3>3. i \in Span /\ i \div bs = j /\ i % bs = k
      <4> HIDE DEF j
      <4> QED BY <1>2, <3>1, SpanFacts
    <3>4. st[i] = Encode(SubSeq(msg, 1, RsN(p)), t)
      <4> HIDE DEF i
      <4> QED BY <1>2, <3>1, <3>3 DEF Consumed
    <3>5. SubSeq(msg, 1, RsN(p)) = msg
      <4>1. msg \in Words(RsN(p))
        BY <1>4, MessageWord
      <4> HIDE DEF msg
      <4> QED BY <1>4, <4>1, WholePrefix
    <3>6. 1 + (m % t) = n
      BY <3>2
    <3> HIDE DEF m, i, x
    <3>7. dst'[x] = st[i][n]
      BY <2>4, <3>2, <3>3, <3>6
    <3> QED BY <3>4, <3>5, <3>7 DEF Parity, x
  <2> QED BY <1>8, <2>1, <2>6, <2>7
<1> QED BY <1>5, <1>6, <1>7, <1>9 DEF IInv

\* What a worker of generateBatch has in its buffers and in the extent, at every
\* step: each register is that of the symbols its codeword has had, and the batches
\* written are parity of their codewords.
THEOREM BuffersAreExact == Spec => []IInv
<1>1. Init => IInv
  BY InitInv
<1>2. IInv /\ [Next]_vars => IInv'
  <2> SUFFICES ASSUME IInv, [Next]_vars PROVE IInv'
    OBVIOUS
  <2>1. CASE Take
    BY <2>1, TakeKeeps
  <2>2. CASE Symbol
    BY <2>2, SymbolKeeps
  <2>3. CASE WriteBatch
    BY <2>3, WriteKeeps
  <2>4. CASE UNCHANGED vars
    <3>1. input' = input /\ p' = p /\ Span' = Span
      BY <2>4, InputKept DEF vars, Span
    <3>2. \A i : Consumed(i)' = Consumed(i)
      BY <2>4, <3>1, InputKept DEF vars, Consumed
    <3> QED BY <2>4, <3>1, <3>2, InputKept DEF vars, IInv, TypeOK, Control, Registers, Written
  <2> QED BY <2>1, <2>2, <2>3, <2>4 DEF Next
<1> QED BY <1>1, <1>2, PTL DEF Spec

\* The register of a codeword is at every moment the remainder of the symbols it has
\* had (rs.go:12-18), for every field, generator and partition.
THEOREM RemaindersInRegisters == Spec => []RegistersAreRemainders
<1>1. IInv => RegistersAreRemainders
  <2> SUFFICES ASSUME IInv, pc \in {"symbol", "write"}, NEW i \in Span, NEW n \in 0 .. p.roots - 1
               PROVE  Eval(Consumed(i) \o st[i], Exp(n)) = 0
    BY DEF RegistersAreRemainders, Consumed
  <2>1. /\ TypeOK /\ batch < Batches(p) /\ st[i] = Encode(Consumed(i), p.roots)
    BY DEF IInv, Control, Registers
  <2> DEFINE r == BatchStart(p, batch) + i \div p.blockSize
             k == i % p.blockSize
             m == ReferenceMessage(r, k)
             w == Consumed(i)
  <2>2. r \in RoundSet(p) /\ k \in 0 .. p.blockSize - 1
    BY <2>1, SpanFacts
  <2>3. /\ input \in Inputs /\ RsN(p) \in Nat /\ p.roots \in RootCounts /\ pos \in Nat
        /\ pos \in 0 .. RsN(p)
    BY <2>1, InputFacts DEF TypeOK
  <2>4. w = SubSeq(m, 1, pos)
    BY DEF Consumed
  <2> HIDE DEF r, k, w
  <2>5. m \in Words(RsN(p))
    BY <2>2, <2>3, MessageWord
  <2> HIDE DEF m
  <2>6. w \in Words(pos)
    BY <2>3, <2>4, <2>5, Prefix
  <2>7. Eval(w \o Encode(w, p.roots), Exp(n)) = 0
    BY <2>3, <2>6, EncodeVanishes
  <2> QED BY <2>1, <2>7 DEF w
<1> QED BY <1>1, BuffersAreExact, PTL

\* The parity of a codeword, as the extent has it.
LEMMA ParityInExtent ==
  ASSUME IInv, pc = "done", NEW r \in RoundSet(p), NEW k \in 0 .. p.blockSize - 1
  PROVE  LET w == [n \in 1 .. p.roots |-> dst[Place(r, k) + n - 1]]
         IN  w = Parity(r, k) /\ w \in Words(p.roots)
<1>1. TypeOK /\ Written /\ batch = Batches(p)
  BY DEF IInv, Control
<1>2. /\ input \in Inputs /\ RsN(p) \in Nat /\ p.roots \in RootCounts /\ p \in ParamsType /\ Valid(p)
      /\ Rounds(p) \in Nat
  BY <1>1, InputFacts DEF TypeOK
<1>3. r < BatchStart(p, batch)
  <2> DEFINE b == BatchStart(p, batch)
  <2>1. Rounds(p) <= b /\ b \in Nat
    <3>1. Rounds(p) <= Prod(Batches(p), BatchRounds(p)) /\ Batches(p) \in Nat /\ BatchRounds(p) \in Nat
      BY <1>2, Sizes
    <3>2. b = Prod(Batches(p), BatchRounds(p)) /\ Prod(Batches(p), BatchRounds(p)) \in Nat
      BY <1>1, <3>1, ProdFacts DEF BatchStart, Prod
    <3> QED BY <3>1, <3>2
  <2> HIDE DEF b
  <2>2. r \in Nat /\ r < Rounds(p)
    BY <1>2 DEF RoundSet
  <2>3. r < b
    BY <1>2, <2>1, <2>2
  <2> QED BY <2>3 DEF b
<1>4. \A n \in 1 .. p.roots : dst[Place(r, k) + n - 1] = Parity(r, k)[n]
  BY <1>1, <1>3 DEF Written
<1>5. Parity(r, k) \in Words(p.roots)
  <2> DEFINE m == ReferenceMessage(r, k)
  <2>1. m \in Words(RsN(p))
    BY <1>2, MessageWord
  <2> HIDE DEF m
  <2>2. Encode(m, p.roots) \in Words(p.roots)
    BY <1>2, <2>1, EncodeWord
  <2> QED BY <2>2 DEF Parity, m
<1> DEFINE w == [n \in 1 .. p.roots |-> dst[Place(r, k) + n - 1]]
<1>6. w \in Words(p.roots) /\ \A n \in 1 .. p.roots : w[n] = Parity(r, k)[n]
  <2>1. \A n \in 1 .. p.roots : Parity(r, k)[n] \in Symbols
    BY <1>5 DEF Words
  <2> QED BY <1>4, <2>1 DEF Words
<1> HIDE DEF w
<1>7. w = Parity(r, k)
  BY <1>5, <1>6, SameWords
<1> QED BY <1>6, <1>7 DEF w

\* When Generate has returned, the extent is byte for byte what the reference encoder
\* of the tests computes by long division, and what Encode computes.
THEOREM ExtentIsTheReference == Spec => []ParityIsTheReference
<1>1. IInv => ParityIsTheReference
  <2> SUFFICES ASSUME IInv, pc = "done", NEW i \in RoundSet(p), NEW k \in 0 .. p.blockSize - 1
               PROVE  LET parity == [n \in 1 .. p.roots |-> dst[Place(i, k) + n - 1]]
                      IN  /\ parity = Divided(ReferenceMessage(i, k), p.roots)
                          /\ parity = Encode(ReferenceMessage(i, k), p.roots)
    BY DEF ParityIsTheReference, Place
  <2> DEFINE m == ReferenceMessage(i, k)
             w == [n \in 1 .. p.roots |-> dst[Place(i, k) + n - 1]]
  <2>1. w = Encode(m, p.roots)
    BY ParityInExtent DEF Parity
  <2>2. m \in Words(RsN(p)) /\ RsN(p) \in Nat /\ p.roots \in RootCounts
    BY InputFacts, MessageWord DEF IInv, TypeOK
  <2> HIDE DEF m, w
  <2>3. Divided(m, p.roots) = Encode(m, p.roots)
    BY <2>2, DividedIsEncode
  <2> QED BY <2>1, <2>3 DEF m, w
<1> QED BY <1>1, BuffersAreExact, PTL

\* Two codewords of a finished extent that differ at all differ in more symbols than
\* there are roots.
THEOREM CodewordsFarApart == Spec => []CodewordsAreFarApart
<1>1. IInv => CodewordsAreFarApart
  <2> DEFINE Good(c) == /\ c \in Words(CodewordLen)
                        /\ \A n \in 0 .. p.roots - 1 : Eval(c, Exp(n)) = 0
  <2> SUFFICES ASSUME IInv, pc = "done", NEW c \in Codewords, NEW d \in Codewords, c # d
               PROVE  Cardinality(Differences(c, d)) > p.roots
    BY DEF CodewordsAreFarApart
  <2>1. p.roots \in RootCounts /\ RsN(p) \in Nat /\ p.roots \in Nat /\ RsN(p) + p.roots = CodewordLen
    BY InputFacts DEF IInv, TypeOK
  <2>2. ASSUME NEW e \in Codewords PROVE Good(e)
    <3>1. PICK i \in RoundSet(p), k \in 0 .. p.blockSize - 1 : e = Codeword(i, k)
      BY DEF Codewords
    <3> DEFINE m == ReferenceMessage(i, k)
               w == [n \in 1 .. p.roots |-> dst[Place(i, k) + n - 1]]
    <3>2. w = Encode(m, p.roots) /\ w \in Words(p.roots)
      BY ParityInExtent DEF Parity
    <3>3. m \in Words(RsN(p))
      BY InputFacts, MessageWord DEF IInv, TypeOK
    <3>4. e = m \o w
      BY <3>1 DEF Codeword, Place
    <3> HIDE DEF m, w
    <3>5. m \o w \in Words(CodewordLen)
      BY <2>1, <3>2, <3>3, Joined
    <3>6. \A n \in 0 .. p.roots - 1 : Eval(m \o w, Exp(n)) = 0
      BY <2>1, <3>2, <3>3, EncodeVanishes
    <3> QED BY <3>4, <3>5, <3>6
  <2>3. Good(c) /\ Good(d)
    <3> HIDE DEF Good
    <3> QED BY <2>2
  <2>4. Cardinality(Differences(c, d)) > p.roots
    BY <2>1, <2>3, VanishingWordsFarApart
  <2> QED BY <2>4
<1> QED BY <1>1, BuffersAreExact, PTL
================================================================================
