---------------------------- MODULE InstallOpsProofs ----------------------------
(***************************************************************************)
(* Proofs about InstallOps, for every partition and its operations, every  *)
(* block and word size, every buffer, with and without faults.             *)
(***************************************************************************)
EXTENDS InstallOps, ExtentsProofs

--------------------------------------------------------------------------------
(* Types                                                                    *)

Cursor == [idx : Nat \ {0}, done : Nat]

Byte == {Zero, Hole} \cup {<<"src", o>> : o \in Int} \cup {<<"data", j, k>> : j, k \in Nat}

\* The blocks of the new image.
Total == (job.newSize + BlockSize - 1) \div BlockSize

TypeInv ==
  /\ job \in Jobs
  /\ phase \in {"find", "gaps", "begin", "copy", "load", "patched"}
  /\ gaps \in Seq(GapType(Total))
  /\ cur \in 1 .. Len(job.ops) + 1
  /\ rd \in Cursor /\ wr \in Cursor
  /\ pending \in Seq(Byte)
  /\ made \in Nat /\ moved \in Nat /\ want \in Int
  /\ result \in {"running", "ok", "error", "panic"}

LEMMA ByteFacts ==
  /\ Zero \in Byte
  /\ \A o \in Int : <<"src", o>> \in Byte
  /\ \A j, k \in Nat : <<"data", j, k>> \in Byte
BY DEF Byte

LEMMA IntFacts ==
  /\ MaxInt \in Nat /\ BlockSize \in Nat \ {0}
  /\ \A n \in Nat : Wrap(n) \in Nat /\ Int64(n) \in Int /\ Bytes(n) \in Int
<1>1. MaxInt \in Nat /\ BlockSize \in Nat \ {0}
  BY ExtentsAssumption
<1>2. ASSUME NEW n \in Nat PROVE Wrap(n) \in Nat /\ Int64(n) \in Int
  <2>1. Wrap(n) \in Nat
    BY <1>1 DEF Wrap
  <2> QED BY <1>1, <2>1 DEF Int64
<1>3. ASSUME NEW n \in Nat PROVE Bytes(n) \in Int
  <2>1. n * BlockSize \in Nat
    BY <1>1
  <2> QED BY <1>2, <2>1 DEF Bytes
<1> QED BY <1>1, <1>2, <1>3

LEMMA SizeFacts ==
  ASSUME NEW extents \in Seq(AnyExtent)
  PROVE  Size(extents) \in Int
<1>1. Len(extents) \in 0 .. Len(extents)
  OBVIOUS
<1>2. Blocks(extents)[Len(extents)] \in Nat
  BY <1>1, BlocksFacts
<1> QED BY <1>2, IntFacts DEF Size, TotalBlocks

\* The partition at work is one, and the operation at work is one of its operations.
LEMMA JobFacts ==
  ASSUME job \in Jobs
  PROVE  /\ job \in JobType
         /\ job.ops \in Seq(OpType) /\ job.hasSrc \in BOOLEAN /\ job.skipVerify \in BOOLEAN
         /\ job.srcSize \in 0 .. MaxInt /\ job.newSize \in 0 .. MaxInt
         /\ \A j \in 1 .. Len(job.ops) : job.ops[j] \in OpType
<1>1. job \in JobType
  BY InstallOpsAssumption
<1> QED BY <1>1 DEF JobType

LEMMA OpFacts ==
  ASSUME NEW op \in OpType
  PROVE  /\ op.kind \in {"replace", "zero", "copy", "bsdiff"}
         /\ op.src \in Seq(AnyExtent) /\ op.dst \in Seq(AnyExtent)
         /\ op.yields \in Nat /\ op.length \in Nat
         /\ Size(op.src) \in Int /\ Size(op.dst) \in Int
<1>1. /\ op.kind \in {"replace", "zero", "copy", "bsdiff"}
      /\ op.src \in Seq(AnyExtent) /\ op.dst \in Seq(AnyExtent)
      /\ op.yields \in Nat /\ op.length \in Word
  BY DEF OpType
<1> QED BY <1>1, SizeFacts, ExtentsAssumption DEF Word

\* What fits the extent a cursor is in, and where it lands.
LEMMA RoomFacts ==
  ASSUME NEW extents \in Seq(AnyExtent), NEW c \in Cursor, NEW n \in Nat,
         ~ AtEnd(c, extents), ~ Exhausted(c, extents)
  PROVE  /\ Room(c, extents, n) \in 0 .. n /\ (n > 0 => Room(c, extents, n) > 0)
         /\ Offset(c, extents) \in Int
<1>1. c.idx \in Nat \ {0} /\ c.done \in Nat
  BY DEF Cursor
<1>2. c.idx \in 1 .. Len(extents)
  BY <1>1 DEF AtEnd
<1>3. ExtentBytes(extents[c.idx]) \in Int /\ Bytes(extents[c.idx].start) \in Int
  BY <1>2, ExtentFacts, IntFacts DEF ExtentBytes
<1>4. c.done < ExtentBytes(extents[c.idx])
  BY <1>1, <1>3 DEF Exhausted
<1> QED BY <1>1, <1>3, <1>4 DEF Room, Offset

LEMMA CursorFacts ==
  /\ Start \in Cursor
  /\ \A c \in Cursor : NextExtent(c) \in Cursor
  /\ \A c \in Cursor, n \in Nat : /\ Moved(c, n) \in Cursor
                                  /\ Moved(c, n).idx = c.idx /\ Moved(c, n).done = c.done + n
BY DEF Cursor, Start, NextExtent, Moved

LEMMA FiniteRow ==
  ASSUME NEW k, NEW m \in Nat
  PROVE  IsFiniteSet({k} \X (1 .. m))
<1> DEFINE row == {k} \X (1 .. m)
           S == 1 .. m
           f == [i \in S |-> <<k, i>>]
<1>1. f \in Surjection(S, row)
  <2>1. f \in [S -> row]
    OBVIOUS
  <2>2. ASSUME NEW t \in row PROVE \E i \in S : f[i] = t
    <3>1. PICK i \in S : t = <<k, i>>
      OBVIOUS
    <3>2. f[i] = t
      BY <3>1
    <3> QED BY <3>2
  <2> HIDE DEF f, row, S
  <2> QED BY <2>1, <2>2 DEF Surjection
<1>2. IsFiniteSet(S)
  BY FS_Interval
<1> HIDE DEF f, row, S
<1>3. IsFiniteSet(row)
  BY <1>1, <1>2, FS_Surjection
<1> QED BY <1>3 DEF row

\* The destinations of all operations are a finite family of extents.
LEMMA AllDstFacts ==
  ASSUME job \in JobType
  PROVE  /\ AllDst \in [DOMAIN AllDst -> AnyExtent] /\ IsFiniteSet(DOMAIN AllDst)
         /\ \A j \in 1 .. Len(job.ops) : \A i \in 1 .. Len(job.ops[j].dst) :
              <<j, i>> \in DOMAIN AllDst /\ AllDst[<<j, i>>] = job.ops[j].dst[i]
         /\ \A x \in DOMAIN AllDst : \E j \in 1 .. Len(job.ops) :
              \E i \in 1 .. Len(job.ops[j].dst) : x = <<j, i>> /\ AllDst[x] = job.ops[j].dst[i]
<1> DEFINE n == Len(job.ops)
           places(k) == UNION {{j} \X DOMAIN job.ops[j].dst : j \in 1 .. k}
           T == {k \in 0 .. n : ~ IsFiniteSet(places(k))}
<1>1. n \in Nat /\ DOMAIN job.ops = 1 .. n
  BY DEF JobType
<1>2. \A j \in 1 .. n : /\ job.ops[j].dst \in Seq(AnyExtent)
                        /\ DOMAIN job.ops[j].dst = 1 .. Len(job.ops[j].dst)
  <2>1. ASSUME NEW j \in 1 .. n PROVE job.ops[j].dst \in Seq(AnyExtent)
    <3>1. job.ops[j] \in OpType
      BY DEF JobType
    <3> QED BY <3>1, OpFacts
  <2> QED BY <2>1
<1>3. AllDst = [x \in places(n) |-> job.ops[x[1]].dst[x[2]]]
  BY <1>1 DEF AllDst
<1>4. ASSUME NEW x, NEW k
      PROVE  x \in places(k) <=> \E j \in 1 .. k : \E i \in DOMAIN job.ops[j].dst : x = <<j, i>>
  OBVIOUS
<1>5. ASSUME T # {} PROVE FALSE
  <2>1. PICK k \in T : \A m \in T : k <= m
    <3>1. T \in SUBSET Nat
      OBVIOUS
    <3> HIDE DEF T
    <3> QED BY <1>5, <3>1, Least
  <2>2. k \in 0 .. n /\ ~ IsFiniteSet(places(k))
    OBVIOUS
  <2>3. CASE k = 0
    <3>1. places(k) = {}
      BY <2>3
    <3> QED BY <2>2, <3>1, FS_EmptySet
  <2>4. CASE k # 0
    <3> DEFINE row == {k} \X DOMAIN job.ops[k].dst
    <3>1. k \in 1 .. n /\ k - 1 \in 0 .. n /\ ~ (k <= k - 1)
      BY <1>1, <2>2, <2>4
    <3>2. IsFiniteSet(places(k - 1))
      BY <2>1, <3>1
    <3>5. IsFiniteSet(row)
      <4>1. DOMAIN job.ops[k].dst = 1 .. Len(job.ops[k].dst) /\ Len(job.ops[k].dst) \in Nat
        BY <1>2, <3>1
      <4> QED BY <4>1, FiniteRow
    <3>6. places(k) = places(k - 1) \cup row
      <4>1. 1 .. k = 1 .. k - 1 \cup {k}
        BY <3>1
      <4> QED BY <4>1
    <3> HIDE DEF places, row, T
    <3>7. IsFiniteSet(places(k - 1) \cup row)
      BY ONLY <3>2, <3>5, FS_Union, Zenon
    <3> QED BY <2>2, <3>6, <3>7
  <2> QED BY <2>3, <2>4
<1>6. IsFiniteSet(places(n))
  <2>1. n \in 0 .. n
    BY <1>1
  <2> HIDE DEF places
  <2> QED BY <1>5, <2>1
<1> HIDE DEF places
<1>7. DOMAIN AllDst = places(n)
  BY <1>3
<1>8. ASSUME NEW j \in 1 .. n, NEW i \in 1 .. Len(job.ops[j].dst)
      PROVE  <<j, i>> \in DOMAIN AllDst /\ AllDst[<<j, i>>] = job.ops[j].dst[i]
  <2>1. <<j, i>> \in places(n)
    BY <1>2, <1>4
  <2> QED BY <1>3, <2>1
<1>9. ASSUME NEW x \in DOMAIN AllDst
      PROVE  /\ \E j \in 1 .. n : \E i \in 1 .. Len(job.ops[j].dst) :
                  x = <<j, i>> /\ AllDst[x] = job.ops[j].dst[i]
             /\ AllDst[x] \in AnyExtent
  <2>1. PICK j \in 1 .. n : \E i \in DOMAIN job.ops[j].dst : x = <<j, i>>
    BY <1>4, <1>7
  <2>2. PICK i \in 1 .. Len(job.ops[j].dst) : x = <<j, i>>
    BY <1>2, <2>1
  <2>3. job.ops[j].dst[i] \in AnyExtent
    BY <1>2
  <2> QED BY <1>8, <2>2, <2>3
<1>10. AllDst \in [DOMAIN AllDst -> AnyExtent]
  BY <1>3, <1>9
<1> QED BY <1>6, <1>7, <1>8, <1>9, <1>10

\* The quotient by the block size is the block of a byte.
LEMMA BlockOf ==
  ASSUME NEW o \in Nat
  PROVE  /\ o \div BlockSize \in Nat
         /\ Times(o \div BlockSize, BlockSize) <= o
         /\ o < Times(o \div BlockSize + 1, BlockSize)
<1> DEFINE q == o \div BlockSize
           r == o % BlockSize
<1>1. BlockSize \in Nat \ {0}
  BY IntFacts
<1>2. q \in Nat /\ r \in 0 .. BlockSize - 1 /\ o = BlockSize * q + r
  BY <1>1
<1> HIDE DEF q, r
<1>3. BlockSize * q = Times(q, BlockSize) /\ Times(1, BlockSize) = BlockSize
  BY <1>1, <1>2 DEF Times
<1>4. Times(q, BlockSize) \in Nat /\ Times(q + 1, BlockSize) = Times(q, BlockSize) + BlockSize
  BY <1>1, <1>2, <1>3, TimesFacts
<1> QED BY <1>1, <1>2, <1>3, <1>4 DEF q

LEMMA TotalFacts ==
  ASSUME job \in JobType
  PROVE  Total \in Nat
<1>1. job.newSize \in 0 .. MaxInt
  BY DEF JobType
<1>2. job.newSize + BlockSize - 1 \in Nat
  BY <1>1, IntFacts
<1> QED BY <1>2, BlockOf DEF Total

--------------------------------------------------------------------------------
(* Each action keeps the types                                              *)

\* What TypeInv says of the operation at work while there is one.
LEMMA AtWork ==
  ASSUME TypeInv, cur <= Len(job.ops)
  PROVE  /\ Op \in OpType /\ cur \in 1 .. Len(job.ops) /\ cur + 1 \in 1 .. Len(job.ops) + 1
         /\ Op.kind \in {"replace", "zero", "copy", "bsdiff"}
         /\ Op.src \in Seq(AnyExtent) /\ Op.dst \in Seq(AnyExtent)
         /\ Op.yields \in Nat /\ Op.length \in Nat
         /\ Size(Op.src) \in Int /\ Size(Op.dst) \in Int
<1>1. Len(job.ops) \in Nat
  BY JobFacts DEF TypeInv
<1>2. cur \in 1 .. Len(job.ops) /\ cur + 1 \in 1 .. Len(job.ops) + 1
  BY <1>1 DEF TypeInv
<1>3. Op \in OpType
  BY <1>2, JobFacts DEF TypeInv, Op
<1> QED BY <1>2, <1>3, OpFacts

\* An operation streams in the phases after "begin"; Total is that of the job.
Working ==
  /\ phase \in {"copy", "load", "patched"} => cur <= Len(job.ops)
  /\ phase = "copy" => Op.kind # "bsdiff"
  /\ phase \in {"load", "patched"} => Op.kind = "bsdiff"
  /\ phase \notin {"copy", "patched"} => pending = <<>>

LEMMA TotalKept ==
  ASSUME UNCHANGED job
  PROVE  Total' = Total
BY DEF Total

LEMMA PieceFacts ==
  ASSUME TypeInv, Working, SourceReady, phase \in {"copy", "load"}, NEW n \in Nat
  PROVE  /\ Available(n) \in 0 .. n
         /\ \A m \in 0 .. Available(n) : Got(m) \in Seq(Byte) /\ Len(Got(m)) = m /\ Moved(rd, m) \in Cursor
<1>1. rd \in Cursor /\ Op.src \in Seq(AnyExtent) /\ job.srcSize \in Nat
  <2>1. Op.src \in Seq(AnyExtent)
    <3>1. cur <= Len(job.ops)
      BY DEF Working
    <3> QED BY <3>1, AtWork
  <2>2. job.srcSize \in 0 .. MaxInt
    BY JobFacts DEF TypeInv
  <2>3. job.srcSize \in Nat
    BY <2>2, IntFacts
  <2> QED BY <2>1, <2>3 DEF TypeInv
<1>2. Room(rd, Op.src, n) \in 0 .. n /\ Offset(rd, Op.src) \in Int
  BY <1>1, RoomFacts DEF SourceReady
<1>3. Available(n) \in 0 .. n
  BY <1>1, <1>2 DEF Available, Smaller
<1>4. ASSUME NEW m \in 0 .. Available(n)
      PROVE  Got(m) \in Seq(Byte) /\ Len(Got(m)) = m /\ Moved(rd, m) \in Cursor
  <2>1. m \in Nat /\ \A k \in 1 .. m : Offset(rd, Op.src) + k - 1 \in Int
    BY <1>2, <1>3
  <2>2. Got(m) \in [1 .. m -> Byte]
    BY <2>1, ByteFacts DEF Got
  <2> QED BY <1>1, <2>1, <2>2, CursorFacts
<1> QED BY <1>3, <1>4

LEMMA DecodedFacts ==
  ASSUME TypeInv, NEW n \in Nat
  PROVE  /\ Decoded(n) \in Seq(Byte) /\ Len(Decoded(n)) = n
         /\ [k \in 1 .. n |-> Zero] \in Seq(Byte) /\ Len([k \in 1 .. n |-> Zero]) = n
         /\ [k \in 1 .. n |-> <<"data", cur, k>>] \in Seq(Byte)
         /\ Len([k \in 1 .. n |-> <<"data", cur, k>>]) = n
<1>1. cur \in Nat /\ \A k \in 1 .. n : k \in Nat /\ made + k \in Nat
  BY JobFacts DEF TypeInv
<1>2. /\ Decoded(n) \in [1 .. n -> Byte] /\ [k \in 1 .. n |-> Zero] \in [1 .. n -> Byte]
      /\ [k \in 1 .. n |-> <<"data", cur, k>>] \in [1 .. n -> Byte]
  BY <1>1, ByteFacts DEF Decoded
<1> QED BY <1>2

LEMMA TailFacts ==
  ASSUME NEW X, NEW s \in Seq(X), NEW n \in 0 .. Len(s)
  PROVE  /\ Len(s) \in Nat /\ SubSeq(s, n + 1, Len(s)) \in Seq(X)
         /\ Len(SubSeq(s, n + 1, Len(s))) = Len(s) - n
         /\ \A k \in 1 .. Len(s) - n : SubSeq(s, n + 1, Len(s))[k] = s[n + k]
         /\ s # <<>> <=> Len(s) > 0
OBVIOUS

LEMMA TypeInit == Init => TypeInv /\ Working
<1> SUFFICES ASSUME Init PROVE TypeInv /\ Working
  OBVIOUS
<1>1. job \in Jobs /\ Len(job.ops) \in Nat
  BY JobFacts DEF Init
<1>2. <<>> \in Seq(GapType(Total)) /\ <<>> \in Seq(Byte)
  OBVIOUS
<1>3. phase \in {"find", "begin"}
  BY DEF Init
<1>4. Start \in Cursor
  BY CursorFacts
<1> QED BY <1>1, <1>2, <1>3, <1>4 DEF Init, TypeInv, Working

LEMMA TypeStep ==
  ASSUME TypeInv, Working, [Next]_vars
  PROVE  TypeInv' /\ Working'
<1> DEFINE room == Room(wr, Op.dst, Len(pending))
<1>1. ASSUME UNCHANGED job PROVE Total' = Total
  BY <1>1, TotalKept
<1>2. <<>> \in Seq(Byte) /\ Start \in Cursor
  BY CursorFacts
<1>3. /\ job \in Jobs /\ cur \in Nat /\ Len(job.ops) \in Nat
      /\ gaps \in Seq(GapType(Total)) /\ rd \in Cursor /\ wr \in Cursor
      /\ pending \in Seq(Byte) /\ Len(pending) \in Nat /\ made \in Nat /\ moved \in Nat
  <2>1. job \in Jobs /\ Len(job.ops) \in Nat
    BY JobFacts DEF TypeInv
  <2> QED BY <2>1 DEF TypeInv
<1>4. ASSUME phase \in {"copy", "load", "patched"} PROVE cur <= Len(job.ops)
  BY <1>4 DEF Working
<1>5. ASSUME pending # <<>>
      PROVE  phase \in {"copy", "patched"} /\ cur <= Len(job.ops) /\ Op.dst \in Seq(AnyExtent)
  <2>1. phase \in {"copy", "patched"} /\ cur <= Len(job.ops)
    BY <1>5 DEF Working, TypeInv
  <2> QED BY <2>1, AtWork
<1>6. ASSUME CanWrite PROVE room \in 0 .. Len(pending)
  <2>1. Op.dst \in Seq(AnyExtent) /\ ~ AtEnd(wr, Op.dst) /\ ~ Exhausted(wr, Op.dst)
    BY <1>5, <1>6 DEF CanWrite, Writing
  <2> QED BY <1>3, <2>1, RoomFacts
<1>7. ASSUME NEW label \in {"copy", "load"}, NEW kind, AtOp(kind), Stream(label),
             label = "load" <=> kind = "bsdiff"
      PROVE  TypeInv' /\ Working'
  <2>1. cur <= Len(job.ops)
    BY <1>7 DEF AtOp
  <2>2. Size(Op.dst) \in Int
    BY <2>1, AtWork
  <2>3. pending = <<>>
    BY <1>7 DEF AtOp, At, Working
  <2> QED BY <1>1, <1>7, <2>1, <2>2, <2>3 DEF Stream, AtOp, TypeInv, Working, Op
<1>8. ASSUME Fail \/ Panic PROVE TypeInv' /\ Working'
  BY <1>1, <1>8 DEF Fail, Panic, TypeInv, Working, Op, opVars
<1>9. ASSUME Finish, cur <= Len(job.ops) PROVE TypeInv' /\ Working'
  <2>1. cur + 1 \in 1 .. Len(job.ops) + 1
    BY <1>3, <1>9
  <2>2. 0 \in Nat /\ 0 \in Int
    OBVIOUS
  <2> QED BY <1>1, <1>2, <1>9, <2>1, <2>2 DEF Finish, Fresh, TypeInv, Working
<1>10. CASE FindGaps
  <2>1. gaps' \in Seq(GapType(Total))
    <3>1. Total \in Nat /\ job \in JobType
      BY <1>3, TotalFacts, JobFacts
    <3>2. gaps' \in UncoveredRanges(AllDst, Total)
      BY <1>10 DEF FindGaps, Total
    <3> QED BY <3>1, <3>2, AllDstFacts, UncoveredIsComplement
  <2> QED BY <1>1, <1>10, <2>1 DEF FindGaps, At, TypeInv, Working, opVars
<1>11. CASE CopyGap
  <2>1. Tail(gaps) \in Seq(GapType(Total))
    BY <1>3, <1>11 DEF CopyGap
  <2> QED BY <1>1, <1>11, <2>1 DEF CopyGap, At, TypeInv, Working, opVars
<1>12. CASE CopyGapFails
  BY <1>1, <1>12 DEF CopyGapFails, At, TypeInv, Working, opVars
<1>13. CASE GapsCopied
  BY <1>1, <1>13 DEF GapsCopied, At, TypeInv, Working, opVars
<1>14. CASE BeginReplace \/ BeginZero \/ BeginCopy \/ BeginBsdiff
  BY <1>7, <1>8, <1>14 DEF BeginReplace, BeginZero, BeginCopy, BeginBsdiff
<1>15. CASE SkipSource
  <2>1. NextExtent(rd) \in Cursor
    BY <1>3, CursorFacts
  <2> QED BY <1>1, <1>15, <2>1 DEF SkipSource, Reading, TypeInv, Working, Op
<1>16. CASE ReadSource
  <2> DEFINE n == Available(Buffer)
  <2>1. Buffer \in Nat /\ SourceReady /\ phase = "copy" /\ cur <= Len(job.ops)
    BY <1>4, <1>16, InstallOpsAssumption DEF ReadSource, At
  <2>2. n \in Nat /\ n \in 0 .. n
    <3>1. n \in 0 .. Buffer
      BY <2>1, PieceFacts
    <3> QED BY <2>1, <3>1
  <2>3. Got(n) \in Seq(Byte) /\ Moved(rd, n) \in Cursor
    BY <2>1, <2>2, PieceFacts
  <2>4. made + n \in Nat
    BY <1>3, <2>2
  <2> HIDE DEF n
  <2>5. CASE n = 0
    BY <1>8, <1>16, <2>5 DEF ReadSource, n
  <2>6. CASE n # 0
    BY <1>1, <1>16, <2>1, <2>3, <2>4, <2>6 DEF ReadSource, n, TypeInv, Working, Op
  <2> QED BY <2>5, <2>6
<1>17. CASE LoadSource
  <2> DEFINE left == Size(Op.src) - made
             n == Available(left)
  <2>1. SourceReady /\ phase = "load" /\ made < Size(Op.src) /\ cur <= Len(job.ops)
    BY <1>4, <1>17 DEF LoadSource, At, Reading
  <2>2. left \in Nat
    <3>1. Size(Op.src) \in Int
      BY <2>1, AtWork
    <3> QED BY <1>3, <2>1, <3>1
  <2> HIDE DEF left
  <2>3. n \in Nat /\ n \in 0 .. n
    <3>1. n \in 0 .. left
      BY <2>1, <2>2, PieceFacts
    <3> QED BY <2>2, <3>1
  <2>4. Moved(rd, n) \in Cursor
    BY <2>1, <2>2, <2>3, PieceFacts
  <2>5. made + n \in Nat
    BY <1>3, <2>3
  <2> HIDE DEF n
  <2>6. CASE n = 0
    BY <1>8, <1>17, <2>6 DEF LoadSource, n, left
  <2>7. CASE n # 0
    BY <1>1, <1>17, <2>1, <2>4, <2>5, <2>7 DEF LoadSource, n, left, TypeInv, Working, Op
  <2> QED BY <2>6, <2>7
<1>18. CASE Decode
  <2>1. PICK n \in 1 .. Buffer :
          made' = made + n /\ (pending' = Decoded(n) \/ pending' = [k \in 1 .. n |-> Zero])
    BY <1>18 DEF Decode
  <2>2. n \in Nat /\ made + n \in Nat
    BY <1>3, InstallOpsAssumption
  <2>3. pending' \in Seq(Byte)
    BY <2>1, <2>2, DecodedFacts
  <2>4. made' \in Nat /\ phase = "copy"
    BY <1>18, <2>1, <2>2 DEF Decode, At
  <2> QED BY <1>1, <1>18, <2>3, <2>4 DEF Decode, TypeInv, Working, Op
<1>19. CASE ReadFails
  <2>1. phase \in {"copy", "load"} /\ pending = <<>>
    BY <1>19 DEF ReadFails, Reading, At
  <2>2. PICK n \in 0 .. Buffer :
          /\ made' = made + n
          /\ \/ pending' = Decoded(n) /\ Op.kind = "replace"
             \/ SourceReady /\ n <= Available(Buffer) /\ pending' = Got(n) /\ Op.kind = "copy"
             \/ pending' = <<>>
    BY <1>19 DEF ReadFails
  <2>3. n \in Nat /\ made + n \in Nat /\ Buffer \in Nat
    BY <1>3, InstallOpsAssumption
  <2>4. pending' \in Seq(Byte)
    <3>1. CASE SourceReady /\ n <= Available(Buffer) /\ pending' = Got(n)
      <4>1. Available(Buffer) \in 0 .. Buffer
        BY <2>1, <2>3, <3>1, PieceFacts
      <4>2. n \in 0 .. Available(Buffer)
        BY <2>3, <3>1, <4>1
      <4> QED BY <2>1, <2>3, <3>1, <4>2, PieceFacts
    <3>2. CASE pending' = Decoded(n)
      BY <2>3, <3>2, DecodedFacts
    <3> QED BY <1>2, <2>2, <3>1, <3>2
  <2>5. phase = "load" => pending' = <<>>
    BY <2>2 DEF Working
  <2>6. made' \in Nat
    BY <2>2, <2>3
  <2> QED BY <1>1, <1>19, <2>1, <2>4, <2>5, <2>6 DEF ReadFails, TypeInv, Working, Op
<1>20. CASE Broken \/ WritePast \/ PatchFails
  BY <1>8, <1>20 DEF Broken, WritePast, PatchFails
<1>21. CASE SkipTarget
  <2>1. NextExtent(wr) \in Cursor
    BY <1>3, CursorFacts
  <2> QED BY <1>1, <1>21, <2>1 DEF SkipTarget, TypeInv, Working, Op
<1>22. CASE WriteChunk
  <2>1. pending # <<>> /\ room \in 0 .. Len(pending) /\ room \in Nat
    BY <1>3, <1>6, <1>22 DEF WriteChunk, CanWrite, Writing
  <2> HIDE DEF room
  <2>2. SubSeq(pending, room + 1, Len(pending)) \in Seq(Byte)
    BY <1>3, <2>1, TailFacts
  <2>3. Moved(wr, room) \in Cursor /\ moved + room \in Nat
    BY <1>3, <2>1, CursorFacts
  <2>4. phase \in {"copy", "patched"}
    BY <1>5, <2>1
  <2> QED BY <1>1, <1>22, <2>2, <2>3, <2>4 DEF WriteChunk, Put, TypeInv, Working, Op, room
<1>23. CASE WriteFails
  <2>1. pending # <<>> /\ room \in 0 .. Len(pending)
    BY <1>6, <1>23 DEF WriteFails, CanWrite, Writing
  <2>2. PICK n \in 0 .. room - 1 : Put(n)
    BY <1>23 DEF WriteFails
  <2>3. n \in Nat
    BY <1>3, <2>1
  <2>4. Moved(wr, n) \in Cursor /\ moved + n \in Nat
    BY <1>3, <2>3, CursorFacts
  <2> QED BY <1>1, <1>23, <2>2, <2>4 DEF WriteFails, Put, TypeInv, Working, Op
<1>24. CASE EndReplace \/ EndZero \/ EndCopy \/ EndBsdiff
  <2>1. cur <= Len(job.ops)
    BY <1>4, <1>24 DEF EndReplace, EndZero, EndCopy, EndBsdiff, At
  <2> QED BY <1>8, <1>9, <1>24, <2>1 DEF EndReplace, EndZero, EndCopy, EndBsdiff
<1>25. CASE Patch
  <2>1. cur <= Len(job.ops) /\ phase = "load"
    BY <1>4, <1>25 DEF Patch, At
  <2>2. CASE Fail \/ Panic
    BY <1>8, <2>2
  <2>3. CASE /\ pending' = [k \in 1 .. Op.yields |-> <<"data", cur, k>>] /\ phase' = "patched"
             /\ UNCHANGED <<job, gaps, cur, rd, wr, broken, made, moved, want, image, result>>
    <3>1. pending' \in Seq(Byte)
      BY <2>1, <2>3, AtWork, DecodedFacts
    <3> QED BY <1>1, <2>1, <2>3, <3>1 DEF TypeInv, Working, Op
  <2> QED BY <1>25, <2>2, <2>3 DEF Patch
<1>26. CASE AllDone
  BY <1>1, <1>26 DEF AllDone, TypeInv, Working, Op, opVars
<1>27. CASE UNCHANGED vars
  BY <1>1, <1>27 DEF vars, TypeInv, Working, Op, opVars
<1> QED BY <1>10, <1>11, <1>12, <1>13, <1>14, <1>15, <1>16, <1>17, <1>18, <1>19, <1>20, <1>21,
           <1>22, <1>23, <1>24, <1>25, <1>26, <1>27 DEF Next

--------------------------------------------------------------------------------
(* What an operation has passed when runOp goes to the next one             *)

Rejected(op) ==
  \/ op.kind \in {"replace", "bsdiff"} /\ op.dataHash = "wrong"
  \/ op.kind \in {"copy", "bsdiff"} /\ op.srcHash = "wrong" /\ ~ job.skipVerify

Filled(op) ==
  /\ op.dst # <<>> /\ ValidExtents(op.dst)
  /\ Exact(op) => /\ op.kind = "replace" => op.yields = Span(op.dst)
                  /\ op.kind = "copy" => Span(op.src) = Span(op.dst)
                  /\ op.kind = "bsdiff" => op.yields <= Span(op.dst)

Passed == \A j \in 1 .. cur - 1 : ~ Rejected(job.ops[j]) /\ Filled(job.ops[j])

Counted ==
  /\ phase \in {"find", "gaps", "begin"} => made = 0 /\ moved = 0
  /\ phase \in {"copy", "load", "patched"} => Op.dst # <<>> /\ want = Size(Op.dst)
  /\ phase \in {"copy", "patched"} => ValidExtents(Op.dst)
  /\ phase = "copy" /\ Op.kind = "copy" => CopyAccepted
  /\ phase = "copy" /\ Op.kind = "zero" => made <= want \/ made = 0
  /\ phase = "copy" /\ result = "running" => made = moved + Len(pending)
  /\ phase = "load" => moved = 0
  /\ phase = "patched" => ~ Rejected(Op) /\ Op.yields <= want
  /\ phase = "patched" /\ result = "running" => moved + Len(pending) = Op.yields
  /\ result = "ok" => cur > Len(job.ops)

LEMMA CountedStep ==
  ASSUME TypeInv, Working, Counted, [Next]_vars
  PROVE  Counted'
<1> DEFINE room == Room(wr, Op.dst, Len(pending))
<1>1. /\ pending \in Seq(Byte) /\ Len(pending) \in Nat /\ made \in Nat /\ moved \in Nat
      /\ (pending = <<>> <=> Len(pending) = 0) /\ Len(<<>>) = 0
  BY DEF TypeInv
<1>2. ASSUME pending # <<>>
      PROVE  phase \in {"copy", "patched"} /\ cur <= Len(job.ops) /\ Op.dst \in Seq(AnyExtent)
  <2>1. phase \in {"copy", "patched"} /\ cur <= Len(job.ops)
    BY <1>2 DEF Working, TypeInv
  <2> QED BY <2>1, AtWork
<1>3. ASSUME CanWrite PROVE room \in 0 .. Len(pending)
  <2>1. Op.dst \in Seq(AnyExtent) /\ ~ AtEnd(wr, Op.dst) /\ ~ Exhausted(wr, Op.dst) /\ wr \in Cursor
    BY <1>2, <1>3 DEF CanWrite, Writing, TypeInv
  <2> QED BY <1>1, <2>1, RoomFacts
<1> USE DEF Counted, Op
<1>4. CASE FindGaps \/ CopyGap \/ CopyGapFails \/ GapsCopied
  <2>1. /\ phase \in {"find", "gaps"} /\ phase' \in {"gaps", "begin"} /\ result = "running"
        /\ result' # "ok" /\ made' = made /\ moved' = moved
    BY <1>4 DEF FindGaps, CopyGap, CopyGapFails, GapsCopied, At, opVars
  <2> QED BY <2>1
<1>5. ASSUME Fail \/ Panic PROVE Counted'
  BY <1>5 DEF Fail, Panic, opVars, Rejected, CopyAccepted
<1>6. ASSUME Finish, result = "running" PROVE Counted'
  BY <1>6 DEF Finish, Fresh
<1>7. CASE BeginReplace \/ BeginZero \/ BeginCopy \/ BeginBsdiff
  <2>1. CASE Fail \/ Panic
    BY <1>5, <2>1
  <2>2. CASE \E label \in {"copy", "load"} :
               /\ Stream(label) /\ Op.dst # <<>> /\ (label = "copy" => ValidExtents(Op.dst))
               /\ Op.kind = "copy" => CopyAccepted
    <3>1. made = 0 /\ moved = 0 /\ pending = <<>>
      BY <1>7 DEF BeginReplace, BeginZero, BeginCopy, BeginBsdiff, AtOp, At, Working
    <3> QED BY <1>1, <1>7, <2>2, <3>1 DEF Stream, CopyAccepted, BeginReplace, BeginZero, BeginCopy, BeginBsdiff, AtOp, At
  <2> QED BY <1>7, <2>1, <2>2 DEF BeginReplace, BeginZero, BeginCopy, BeginBsdiff, CopyAccepted, BsdiffAccepted, AtOp
<1>8. CASE SkipSource
  BY <1>8 DEF SkipSource, Rejected, CopyAccepted
<1>9. CASE ReadSource
  <2> DEFINE n == Available(Buffer)
  <2>1. SourceReady /\ phase = "copy" /\ pending = <<>> /\ Op.kind = "copy"
    BY <1>9 DEF ReadSource, At, Reading, SourceReady, Working
  <2>2. n \in Nat /\ n \in 0 .. n
    <3>1. Buffer \in Nat
      BY InstallOpsAssumption
    <3>2. n \in 0 .. Buffer
      BY <2>1, <3>1, PieceFacts
    <3> QED BY <3>1, <3>2
  <2>3. Len(Got(n)) = n
    <3>1. Buffer \in Nat
      BY InstallOpsAssumption
    <3> QED BY <2>1, <2>2, <3>1, PieceFacts
  <2> HIDE DEF n
  <2>4. CASE n = 0
    BY <1>5, <1>9, <2>4 DEF ReadSource, n
  <2>5. CASE n # 0
    <3>1. /\ pending' = Got(n) /\ made' = made + n
          /\ UNCHANGED <<job, phase, gaps, cur, wr, broken, moved, want, image, result>>
      BY <1>9, <2>5 DEF ReadSource, n
    <3>2. made' = moved' + Len(pending')
      BY <1>1, <1>9, <2>1, <2>2, <2>3, <3>1 DEF ReadSource, At
    <3> QED BY <2>1, <3>1, <3>2 DEF CopyAccepted
  <2> QED BY <2>4, <2>5
<1>10. CASE LoadSource
  <2>1. phase = "load"
    BY <1>10 DEF LoadSource, At
  <2>2. CASE Fail
    BY <1>5, <2>2
  <2>3. CASE UNCHANGED <<job, phase, gaps, cur, wr, pending, broken, moved, want, image, result>>
    BY <2>1, <2>3 DEF Rejected
  <2> QED BY <1>10, <2>2, <2>3 DEF LoadSource
<1>11. CASE Decode
  <2>1. PICK n \in 1 .. Buffer :
          /\ made' = made + n
          /\ \/ pending' = Decoded(n) /\ Op.kind = "replace"
             \/ pending' = [k \in 1 .. n |-> Zero] /\ Op.kind = "zero" /\ n = Smaller(Buffer, want - made)
    BY <1>11 DEF Decode
  <2>2. n \in Nat /\ n > 0 /\ Buffer \in Nat
    BY InstallOpsAssumption
  <2>3. Len(pending') = n
    BY <2>1, <2>2, DecodedFacts
  <2>4. phase = "copy" /\ result = "running" /\ pending = <<>>
    BY <1>11 DEF Decode, At, Reading
  <2>5. made' = moved + Len(pending')
    BY <1>1, <2>1, <2>2, <2>3, <2>4
  <2>6. Op.kind = "zero" => made' <= want
    <3>1. want \in Int
      BY DEF TypeInv
    <3> QED BY <1>1, <2>1, <2>2, <3>1 DEF Smaller
  <2>7. UNCHANGED <<job, phase, gaps, cur, rd, wr, broken, moved, want, image, result>>
    BY <1>11 DEF Decode
  <2> QED BY <2>1, <2>4, <2>5, <2>6, <2>7
<1>12. CASE ReadFails
  <2>1. phase \in {"copy", "load"} /\ pending = <<>> /\ result = "running"
    BY <1>12 DEF ReadFails, Reading, At
  <2>2. PICK n \in 0 .. Buffer :
          /\ made' = made + n
          /\ \/ pending' = Decoded(n) /\ Op.kind = "replace"
             \/ SourceReady /\ n <= Available(Buffer) /\ pending' = Got(n) /\ Op.kind = "copy"
             \/ pending' = <<>> /\ Op.kind = "bsdiff"
    BY <1>12 DEF ReadFails
  <2>3. n \in Nat /\ Buffer \in Nat
    BY InstallOpsAssumption
  <2>4. Op.kind # "bsdiff" => Len(pending') = n
    <3>1. CASE SourceReady /\ n <= Available(Buffer) /\ pending' = Got(n)
      <4>1. Available(Buffer) \in 0 .. Buffer
        BY <2>1, <2>3, <3>1, PieceFacts
      <4>2. n \in 0 .. Available(Buffer)
        BY <2>3, <3>1, <4>1
      <4> QED BY <2>1, <2>3, <3>1, <4>2, PieceFacts
    <3>2. CASE pending' = Decoded(n)
      BY <2>3, <3>2, DecodedFacts
    <3> QED BY <2>2, <3>1, <3>2
  <2>5. phase = "copy" => made' = moved + Len(pending') /\ Op.kind # "zero"
    BY <1>1, <2>1, <2>2, <2>3, <2>4 DEF Working
  <2>6. UNCHANGED <<job, phase, gaps, cur, rd, wr, moved, want, image, result>>
    BY <1>12 DEF ReadFails
  <2> QED BY <2>1, <2>5, <2>6 DEF CopyAccepted
<1>13. CASE Broken \/ WritePast \/ PatchFails
  BY <1>5, <1>13 DEF Broken, WritePast, PatchFails
<1>14. CASE SkipTarget
  BY <1>14 DEF SkipTarget, Rejected, CopyAccepted
<1>15. CASE WriteChunk
  <2>1. pending # <<>> /\ room \in 0 .. Len(pending)
    BY <1>3, <1>15 DEF WriteChunk, CanWrite, Writing
  <2>2. /\ moved' = moved + room /\ pending' = SubSeq(pending, room + 1, Len(pending))
        /\ UNCHANGED <<job, phase, gaps, cur, rd, broken, made, want, result>>
    BY <1>15 DEF WriteChunk, Put
  <2> HIDE DEF room
  <2>3. Len(pending') = Len(pending) - room
    BY <1>1, <2>1, <2>2, TailFacts
  <2>4. moved' + Len(pending') = moved + Len(pending) /\ phase \in {"copy", "patched"}
    BY <1>1, <1>2, <2>1, <2>2, <2>3
  <2> QED BY <2>2, <2>4 DEF Rejected, CopyAccepted
<1>16. CASE WriteFails
  <2>1. pending # <<>>
    BY <1>16 DEF WriteFails, CanWrite, Writing
  <2>2. phase \in {"copy", "patched"}
    BY <1>2, <2>1
  <2>3. result' = "error" /\ UNCHANGED <<job, phase, gaps, cur, rd, pending, broken, made, want>>
    BY <1>16 DEF WriteFails
  <2> QED BY <2>2, <2>3 DEF Rejected, CopyAccepted
<1>17. CASE EndReplace \/ EndZero \/ EndCopy \/ EndBsdiff
  BY <1>5, <1>6, <1>17 DEF EndReplace, EndZero, EndCopy, EndBsdiff, At
<1>18. CASE Patch
  <2>1. phase = "load" /\ result = "running" /\ cur <= Len(job.ops) /\ Op.kind = "bsdiff"
    BY <1>18 DEF Patch, At, Working
  <2>2. CASE Fail \/ Panic
    BY <1>5, <2>2
  <2>3. CASE /\ ~ SourceRejected /\ ~ BlobRejected /\ ~ (Op.yields > want) /\ ValidExtents(Op.dst)
             /\ pending' = [k \in 1 .. Op.yields |-> <<"data", cur, k>>] /\ phase' = "patched"
             /\ UNCHANGED <<job, gaps, cur, rd, wr, broken, made, moved, want, image, result>>
    <3>1. Op.yields \in Nat /\ want \in Int
      BY <2>1, AtWork DEF TypeInv
    <3>2. Len(pending') = Op.yields
      BY <2>3, <3>1, DecodedFacts
    <3>3. moved' + Len(pending') = Op.yields /\ Op.yields <= want
      BY <2>1, <2>3, <3>1, <3>2
    <3>4. ~ Rejected(Op)
      BY <2>1, <2>3 DEF Rejected, SourceRejected, BlobRejected
    <3> QED BY <2>1, <2>3, <3>3, <3>4 DEF Rejected
  <2> QED BY <1>18, <2>2, <2>3 DEF Patch
<1>19. CASE AllDone
  BY <1>19 DEF AllDone, At, opVars
<1>20. CASE UNCHANGED vars
  BY <1>20 DEF vars, opVars, Rejected, CopyAccepted
<1> QED BY <1>4, <1>7, <1>8, <1>9, <1>10, <1>11, <1>12, <1>13, <1>14, <1>15, <1>16, <1>17,
           <1>18, <1>19, <1>20 DEF Next

\* The size of extents whose span fits an int64 is their span.
LEMMA SpanIsSize ==
  ASSUME NEW extents \in Seq(AnyExtent), Span(extents) <= MaxInt
  PROVE  Size(extents) = Span(extents) /\ Span(extents) \in Nat
<1> DEFINE n == Blocks(extents)[Len(extents)]
<1>1. n \in Nat /\ Len(extents) \in Nat
  <2>1. Len(extents) \in 0 .. Len(extents)
    OBVIOUS
  <2> QED BY <2>1, BlocksFacts
<1>2. Span(extents) = n * BlockSize
  <2>1. Len(extents) + 1 - 1 = Len(extents)
    BY <1>1
  <2> QED BY <2>1 DEF Span, Before
<1> HIDE DEF n
<1>3. MaxInt \in Nat /\ BlockSize \in Nat \ {0}
  BY IntFacts
<1>4. n * BlockSize = Times(n, BlockSize) /\ Times(n, BlockSize) \in Nat /\ n <= Times(n, BlockSize)
  BY <1>1, <1>3, TimesFacts DEF Times
<1>5. n \in 0 .. MaxInt /\ n * BlockSize \in 0 .. MaxInt
  BY <1>1, <1>2, <1>3, <1>4
<1>6. Wrap(n) = n /\ Int64(n * BlockSize) = n * BlockSize
  BY <1>5, Int64Exact
<1>7. Size(extents) = n * BlockSize
  BY <1>6 DEF Size, TotalBlocks, Bytes, n
<1> QED BY <1>2, <1>5, <1>7

LEMMA PassedStep ==
  ASSUME TypeInv, Working, Counted, Passed, [Next]_vars
  PROVE  Passed'
<1>1. ASSUME UNCHANGED <<job, cur>> PROVE Passed'
  BY <1>1 DEF Passed, Rejected, Filled
<1>2. ASSUME Finish, cur <= Len(job.ops), ~ Rejected(Op), Filled(Op) PROVE Passed'
  <2>1. cur \in Nat \ {0} /\ job' = job /\ cur' = cur + 1
    BY <1>2, AtWork DEF Finish
  <2>2. \A j \in 1 .. cur' - 1 : j = cur \/ j \in 1 .. cur - 1
    BY <2>1
  <2> QED BY <1>2, <2>1, <2>2 DEF Passed, Rejected, Filled, Op
<1>3. ASSUME ~ UNCHANGED <<job, cur>>
      PROVE  /\ Finish /\ Idle /\ result = "running"
             /\ \/ EndReplace /\ moved = want /\ ~ BlobRejected
                \/ EndZero
                \/ EndCopy /\ moved = want /\ ~ SourceRejected
                \/ EndBsdiff
  <2>1. ~ UNCHANGED vars
    BY <1>3 DEF vars
  <2>2. ~ Fail /\ ~ Panic
    BY <1>3 DEF Fail, Panic
  <2> QED BY <1>3, <2>1, <2>2 DEF Next, FindGaps, CopyGap, CopyGapFails, GapsCopied,
        BeginReplace, BeginZero, BeginCopy, BeginBsdiff, Stream, SkipSource, ReadSource,
        LoadSource, Decode, ReadFails, Broken, WritePast, SkipTarget, WriteChunk, WriteFails,
        EndReplace, EndZero, EndCopy, Patch, PatchFails, EndBsdiff, AllDone, At
<1>4. ASSUME ~ UNCHANGED <<job, cur>> PROVE cur <= Len(job.ops) /\ ~ Rejected(Op) /\ Filled(Op)
  <2>1. phase \in {"copy", "patched"}
    BY <1>3, <1>4 DEF EndReplace, EndZero, EndCopy, EndBsdiff, At
  <2>2. cur <= Len(job.ops)
    BY <2>1 DEF Working
  <2>3. ~ Rejected(Op)
    BY <1>3, <1>4, <2>1 DEF EndReplace, EndZero, EndCopy, EndBsdiff, At, Rejected, BlobRejected,
        SourceRejected, Counted, Working
  <2>4. Op.dst # <<>> /\ ValidExtents(Op.dst) /\ want = Size(Op.dst)
    BY <2>1 DEF Counted
  <2>5. Op.src \in Seq(AnyExtent) /\ Op.dst \in Seq(AnyExtent) /\ Op.yields \in Nat
    BY <2>2, AtWork
  <2>6. ASSUME Exact(Op)
        PROVE  /\ Op.kind = "replace" => Op.yields = Span(Op.dst)
               /\ Op.kind = "copy" => Span(Op.src) = Span(Op.dst)
               /\ Op.kind = "bsdiff" => Op.yields <= Span(Op.dst)
    <3>1. Size(Op.src) = Span(Op.src) /\ Size(Op.dst) = Span(Op.dst)
      BY <2>5, <2>6, SpanIsSize DEF Exact
    <3>2. moved \in Nat /\ made \in Nat /\ (pending = <<>> => Len(pending) = 0)
      BY DEF TypeInv
    <3>3. Op.kind = "replace" => Op.yields = want
      BY <1>3, <1>4, <3>2 DEF EndReplace, EndZero, EndCopy, EndBsdiff, At, Idle, Counted, Working
    <3>4. Op.kind = "copy" => Size(Op.src) = Size(Op.dst)
      BY <2>1 DEF Counted, Working, CopyAccepted
    <3>5. Op.kind = "bsdiff" => Op.yields <= want
      BY <2>1 DEF Counted, Working
    <3> QED BY <2>4, <3>1, <3>3, <3>4, <3>5
  <2> QED BY <2>2, <2>3, <2>4, <2>6 DEF Filled
<1> QED BY <1>1, <1>2, <1>3, <1>4

\* The inductive invariant: types, the operation at work, what it has counted, and
\* what those before it have passed.
OpsInv == TypeInv /\ Working /\ Counted /\ Passed

LEMMA OpsInvariant == Spec => []OpsInv
<1>1. Init => OpsInv
  <2> SUFFICES ASSUME Init PROVE OpsInv
    OBVIOUS
  <2>1. Counted
    BY DEF Init, Counted
  <2>2. Passed
    BY DEF Init, Passed
  <2> QED BY <2>1, <2>2, TypeInit DEF OpsInv
<1>2. OpsInv /\ [Next]_vars => OpsInv'
  BY TypeStep, CountedStep, PassedStep DEF OpsInv
<1> QED BY <1>1, <1>2, PTL DEF Spec

\* No operation is passed with data or a source it was to refuse, and a patch
\* writes nothing before source and blob have been accepted (operation.go:192-199).
THEOREM HashesGuard == Spec => []HashesGuardTheImage
<1>1. OpsInv => HashesGuardTheImage
  <2> SUFFICES ASSUME OpsInv, NEW j \in 1 .. Smaller(cur, Len(job.ops)), Rejected(job.ops[j])
               PROVE  j = cur /\ result # "ok" /\ (job.ops[j].kind = "bsdiff" => moved = 0)
    BY DEF HashesGuardTheImage, Rejected
  <2>1. cur \in Nat /\ Len(job.ops) \in Nat
    BY JobFacts DEF OpsInv, TypeInv
  <2>2. j \in 1 .. cur /\ j <= Len(job.ops)
    BY <2>1 DEF Smaller
  <2>3. j = cur
    <3>1. j \notin 1 .. cur - 1
      BY DEF OpsInv, Passed
    <3> QED BY <2>1, <2>2, <3>1
  <2>4. result # "ok"
    BY <2>1, <2>2, <2>3 DEF OpsInv, Counted
  <2>5. Op.kind = "bsdiff" => moved = 0
    BY <2>3 DEF OpsInv, Counted, Working, TypeInv, Op
  <2> QED BY <2>3, <2>4, <2>5 DEF Op
<1> QED BY <1>1, OpsInvariant, PTL

\* Success means that every operation had destinations it could write to, filled
\* them (a patch: its own length) and, when it copies, read as much as it wrote
\* (operation.go:98, 160, 187).
THEOREM SuccessFills == Spec => []SuccessFillsDestinations
<1>1. OpsInv => SuccessFillsDestinations
  <2> SUFFICES ASSUME OpsInv, result = "ok", NEW j \in DOMAIN job.ops PROVE Filled(job.ops[j])
    BY DEF SuccessFillsDestinations, Filled
  <2>1. cur \in Nat /\ Len(job.ops) \in Nat /\ DOMAIN job.ops = 1 .. Len(job.ops)
    BY JobFacts DEF OpsInv, TypeInv
  <2>2. cur > Len(job.ops)
    BY DEF OpsInv, Counted
  <2>3. j \in 1 .. cur - 1
    BY <2>1, <2>2
  <2> QED BY <2>3 DEF OpsInv, Passed
<1> QED BY <1>1, OpsInvariant, PTL

--------------------------------------------------------------------------------
(* Bytes and blocks                                                         *)

LEMMA BlockBelow ==
  ASSUME NEW s \in Nat, NEW o \in Nat
  PROVE  Times(s, BlockSize) <= o <=> s <= o \div BlockSize
<1> DEFINE b == o \div BlockSize
<1>1. BlockSize \in Nat \ {0}
  BY IntFacts
<1>2. b \in Nat /\ Times(b, BlockSize) <= o /\ o < Times(b + 1, BlockSize)
  BY BlockOf
<1> HIDE DEF b
<1>3. Times(s, BlockSize) \in Nat /\ Times(b, BlockSize) \in Nat /\ Times(b + 1, BlockSize) \in Nat
  <2>1. b + 1 \in Nat
    BY <1>2
  <2> QED BY <1>1, <1>2, <2>1, TimesFacts
<1>4. s <= b => Times(s, BlockSize) <= Times(b, BlockSize)
  BY <1>1, <1>2, TimesFacts
<1>5. b + 1 <= s => Times(b + 1, BlockSize) <= Times(s, BlockSize)
  BY <1>1, <1>2, TimesFacts
<1>6. Times(s, BlockSize) <= o <=> s <= b
  BY <1>2, <1>3, <1>4, <1>5
<1> QED BY <1>6 DEF b

\* A byte is within an extent when its block is.
LEMMA WithinBlock ==
  ASSUME NEW e \in AnyExtent, NEW o \in Nat
  PROVE  Within(o, e) <=> e.start <= o \div BlockSize /\ o \div BlockSize < e.start + e.num
<1> DEFINE b == o \div BlockSize
           end == e.start + e.num
<1>1. BlockSize \in Nat \ {0} /\ b \in Nat
  BY IntFacts, BlockOf
<1>2. e.start \in Nat /\ e.num \in Nat /\ end \in Nat
  BY ExtentsAssumption DEF AnyExtent, Word
<1>3. Within(o, e) <=> Times(e.start, BlockSize) <= o /\ o < Times(end, BlockSize)
  BY DEF Within, Times
<1> HIDE DEF b, end
<1>4. Times(e.start, BlockSize) <= o <=> e.start <= b
  BY <1>2, BlockBelow DEF b
<1>5. Times(end, BlockSize) <= o <=> end <= b
  BY <1>2, BlockBelow DEF b
<1>6. Times(end, BlockSize) \in Nat
  BY <1>1, <1>2, TimesFacts
<1>7. Within(o, e) <=> e.start <= b /\ b < end
  BY <1>1, <1>2, <1>3, <1>4, <1>5, <1>6
<1> QED BY <1>7 DEF b, end

LEMMA UntouchedBlock ==
  ASSUME job \in JobType, NEW o \in Nat
  PROVE  Untouched(o) <=> ~ InExtent(AllDst, o \div BlockSize)
<1>1. \A x \in DOMAIN AllDst : AllDst[x] \in AnyExtent
  BY AllDstFacts
<1> QED BY <1>1, WithinBlock DEF Untouched, InExtent

\* The signed reading of a product never exceeds it.
LEMMA Int64Below ==
  ASSUME NEW n \in Nat
  PROVE  Int64(n) <= n
<1> DEFINE m == 2 * (MaxInt + 1)
           q == n \div m
           r == n % m
<1>1. MaxInt \in Nat /\ m \in Nat \ {0}
  BY ExtentsAssumption
<1>2. q \in Int /\ r \in 0 .. m - 1 /\ n = m * q + r
  <2> HIDE DEF m
  <2> QED BY <1>1
<1>3. r <= n
  <2>1. m * q \in Int /\ (q < 0 => m * q <= -m) /\ (q = 0 => m * q = 0) /\ (q > 0 => m * q >= m)
    <3> HIDE DEF m, q
    <3> QED BY <1>1, <1>2, SmallQuotient
  <2> DEFINE p == m * q
  <2>2. p \in Int /\ (q < 0 => p <= -m) /\ (q = 0 => p = 0) /\ (q > 0 => p >= m) /\ n = p + r
    BY <1>2, <2>1
  <2> HIDE DEF m, q, r, p
  <2> QED BY <1>1, <1>2, <2>2
<1>4. Wrap(n) = r
  BY DEF Wrap
<1>5. Int64(n) = IF r > MaxInt THEN r - m ELSE r
  BY <1>4 DEF Int64
<1> HIDE DEF m, r, q
<1> QED BY <1>1, <1>2, <1>3, <1>5

\* Where the bytes of a gap begin and end.
LEMMA GapBytes ==
  ASSUME job \in JobType, NEW g \in GapType(Total)
  PROVE  /\ Bytes(g.start) = Times(g.start, BlockSize) /\ Bytes(g.start) \in Nat
         /\ Bytes(g.end) \in Int /\ Bytes(g.end) <= Times(g.end, BlockSize)
         /\ Times(g.end, BlockSize) \in Nat
         /\ SizeFits => Bytes(g.end) = Times(g.end, BlockSize)
<1> DEFINE n == job.newSize + BlockSize - 1
           first == Times(g.start, BlockSize)
           last == Times(g.end, BlockSize)
           T == Total
<1>1. MaxInt \in Nat /\ BlockSize \in Nat \ {0}
  BY IntFacts
<1>2. job.newSize \in 0 .. MaxInt
  BY DEF JobType
<1>3. n \in Nat
  BY <1>1, <1>2
<1>4. T \in Nat /\ Times(T, BlockSize) <= n
  <2> HIDE DEF n
  <2>1. T = n \div BlockSize
    BY DEF Total, n
  <2> QED BY <1>3, <2>1, BlockOf
<1>5. g.start \in Nat /\ g.end \in Nat /\ g.start < g.end /\ g.end <= T
  BY DEF GapType, RangeType
<1> HIDE DEF T
<1>6. first + BlockSize = Times(g.start + 1, BlockSize) /\ first \in Nat
  <2> DEFINE a == g.start
  <2>1. Times(1, BlockSize) = BlockSize
    BY <1>1 DEF Times
  <2>2. a \in Nat /\ 1 \in Nat
    BY <1>5
  <2> HIDE DEF a
  <2>3. Times(a + 1, BlockSize) = Times(a, BlockSize) + Times(1, BlockSize) /\ Times(a, BlockSize) \in Nat
    BY <1>1, <2>2, TimesFacts
  <2> QED BY <2>1, <2>3 DEF a
<1>7. Times(g.start + 1, BlockSize) <= Times(T, BlockSize)
  <2>1. g.start + 1 \in Nat /\ g.start + 1 <= T
    BY <1>4, <1>5
  <2> QED BY <1>1, <1>4, <2>1, TimesFacts
<1>8. last <= Times(T, BlockSize) /\ last \in Nat /\ Times(T, BlockSize) \in Nat
  BY <1>1, <1>4, <1>5, TimesFacts
<1>9. Bytes(g.start) = Int64(first) /\ Bytes(g.end) = Int64(last)
  BY DEF Bytes, Times
<1> HIDE DEF first, last
<1>10. first \in 0 .. MaxInt
  BY <1>1, <1>2, <1>4, <1>6, <1>7, <1>8
<1>11. Bytes(g.start) = first
  BY <1>9, <1>10, Int64Exact
<1>12. Bytes(g.end) \in Int /\ Bytes(g.end) <= last
  BY <1>8, <1>9, IntFacts, Int64Below
<1>13. SizeFits => Bytes(g.end) = last
  <2>1. SizeFits => last \in 0 .. MaxInt
    BY <1>1, <1>2, <1>4, <1>8 DEF SizeFits
  <2> QED BY <1>9, <2>1, Int64Exact
<1> QED BY <1>6, <1>8, <1>11, <1>12, <1>13 DEF first, last

--------------------------------------------------------------------------------
(* copySourceFallthrough                                                    *)

\* What is written while gaps are copied.
Fallthrough ==
  \A o \in OutOffsets : image[o] # Hole =>
    /\ image[o] = <<"src", o>>
    /\ o < job.newSize /\ o < job.srcSize
    /\ ValidExtents(AllDst) => Untouched(o)

\* No gap left to copy holds a block of an extent, and no byte is missing that lies
\* in none of them.
GapsLeft ==
  /\ \A b \in Nat : InGap(gaps, b) => ~ InExtent(AllDst, b)
  /\ SizeFits => \A o \in OutOffsets :
       o < job.newSize /\ o < job.srcSize /\ Untouched(o) /\ image[o] = Hole
         => InGap(gaps, o \div BlockSize)

Falling ==
  /\ phase \in {"find", "gaps"} => job.hasSrc /\ Fallthrough /\ pending = <<>> /\ cur = 1
  /\ phase = "find" => \A o \in OutOffsets : image[o] = Hole
  /\ phase = "gaps" /\ ValidExtents(AllDst) => GapsLeft

LEMMA AllDstKept ==
  ASSUME UNCHANGED job
  PROVE  AllDst' = AllDst /\ SizeFits' = SizeFits
BY DEF AllDst, SizeFits

LEMMA HeadGap ==
  ASSUME NEW X, NEW s \in Seq(X), s # <<>>, NEW b
  PROVE  /\ Head(s) \in X /\ Tail(s) \in Seq(X)
         /\ InGap(s, b) <=> (Head(s).start <= b /\ b < Head(s).end) \/ InGap(Tail(s), b)
<1> DEFINE n == Len(s)
           t == Tail(s)
<1>1. /\ n \in Nat \ {0} /\ DOMAIN s = 1 .. n /\ Head(s) \in X /\ Head(s) = s[1] /\ t \in Seq(X)
      /\ DOMAIN t = 1 .. n - 1 /\ \A i \in 1 .. n - 1 : t[i] = s[i + 1]
  OBVIOUS
<1> HIDE DEF n, t
<1>2. ASSUME InGap(s, b) PROVE (Head(s).start <= b /\ b < Head(s).end) \/ InGap(t, b)
  <2>1. PICK k \in 1 .. n : s[k].start <= b /\ b < s[k].end
    BY <1>1, <1>2 DEF InGap
  <2>2. CASE k = 1
    BY <1>1, <2>1, <2>2
  <2>3. CASE k # 1
    <3>1. k - 1 \in 1 .. n - 1 /\ k - 1 + 1 = k
      BY <1>1, <2>1, <2>3
    <3>2. t[k - 1] = s[k]
      BY <1>1, <3>1
    <3> QED BY <1>1, <2>1, <3>1, <3>2 DEF InGap
  <2> QED BY <2>2, <2>3
<1>3. ASSUME InGap(t, b) PROVE InGap(s, b)
  <2>1. PICK k \in 1 .. n - 1 : t[k].start <= b /\ b < t[k].end
    BY <1>1, <1>3 DEF InGap
  <2>2. k + 1 \in 1 .. n /\ t[k] = s[k + 1]
    BY <1>1
  <2> QED BY <1>1, <2>1, <2>2 DEF InGap
<1>4. Head(s).start <= b /\ b < Head(s).end => InGap(s, b)
  <2>1. 1 \in 1 .. n
    BY <1>1
  <2> QED BY <1>1, <2>1 DEF InGap
<1> QED BY <1>1, <1>2, <1>3, <1>4 DEF t

\* The bytes copied for a gap are those of its blocks, inside the image and the source.
LEMMA GapCopied ==
  ASSUME TypeInv, gaps # <<>>, NEW o \in Nat
  PROVE  LET b == o \div BlockSize
             inGap == Head(gaps).start <= b /\ b < Head(gaps).end
         IN  /\ GapStart \in Nat /\ GapEnd \in Int
             /\ GapStart <= o /\ o < GapEnd => inGap /\ o < job.newSize /\ o < job.srcSize
             /\ SizeFits /\ inGap /\ o < job.newSize /\ o < job.srcSize => GapStart <= o /\ o < GapEnd
<1> DEFINE b == o \div BlockSize
           g == Head(gaps)
           first == Times(g.start, BlockSize)
           last == Times(g.end, BlockSize)
<1>1. job \in JobType /\ job.newSize \in Nat /\ job.srcSize \in Nat
  <2>1. job \in JobType /\ job.newSize \in 0 .. MaxInt /\ job.srcSize \in 0 .. MaxInt
    BY JobFacts DEF TypeInv
  <2> QED BY <2>1, ExtentsAssumption
<1>2. g \in GapType(Total)
  <2>1. gaps \in Seq(GapType(Total))
    BY DEF TypeInv
  <2> QED BY <2>1, HeadGap
<1>3. g.start \in Nat /\ g.end \in Nat /\ b \in Nat
  BY <1>2, BlockOf DEF GapType, RangeType
<1>4. /\ Bytes(g.start) = first /\ first \in Nat
      /\ Bytes(g.end) \in Int /\ Bytes(g.end) <= last /\ last \in Nat
      /\ SizeFits => Bytes(g.end) = last
  BY <1>1, <1>2, GapBytes
<1>5. GapStart = first /\ GapEnd = Smaller(Smaller(Bytes(g.end), job.newSize), job.srcSize)
  BY <1>4 DEF GapStart, GapEnd
<1>6. (first <= o <=> g.start <= b) /\ (last <= o <=> g.end <= b)
  BY <1>3, BlockBelow
<1> HIDE DEF first, last, b, g
<1>7. GapEnd \in Int
  BY <1>1, <1>4, <1>5 DEF Smaller
<1>8. o < GapEnd <=> o < Bytes(g.end) /\ o < job.newSize /\ o < job.srcSize
  BY <1>1, <1>4, <1>5 DEF Smaller
<1>9. GapStart <= o /\ o < GapEnd
        => g.start <= b /\ b < g.end /\ o < job.newSize /\ o < job.srcSize
  BY <1>3, <1>4, <1>5, <1>6, <1>8
<1>10. SizeFits /\ g.start <= b /\ b < g.end /\ o < job.newSize /\ o < job.srcSize
         => GapStart <= o /\ o < GapEnd
  BY <1>3, <1>4, <1>5, <1>6, <1>8
<1> QED BY <1>4, <1>5, <1>7, <1>9, <1>10 DEF b, g

LEMMA OffsetFacts == OutOffsets \subseteq Nat
BY IntFacts DEF OutOffsets

LEMMA SrcIsNoHole ==
  ASSUME NEW o
  PROVE  <<"src", o>> # Hole /\ <<"src", o>> # Zero
BY DEF Hole, Zero

LEMMA FallingStep ==
  ASSUME TypeInv, Falling, [Next]_vars
  PROVE  Falling'
<1>1. job \in JobType /\ gaps \in Seq(GapType(Total)) /\ Total \in Nat
  <2>1. job \in JobType
    BY JobFacts DEF TypeInv
  <2> QED BY <2>1, TotalFacts DEF TypeInv
<1>2. ASSUME UNCHANGED job
      PROVE  /\ AllDst' = AllDst /\ SizeFits' = SizeFits
             /\ \A o : Untouched(o)' = Untouched(o)
  BY <1>2, AllDstKept DEF Untouched
<1>3. CASE FindGaps
  <2>1. gaps' \in UncoveredRanges(AllDst, Total)
    BY <1>3 DEF FindGaps, Total
  <2>2. ASSUME ValidExtents(AllDst), NEW b \in Nat
        PROVE  InGap(gaps', b) <=> b < Total /\ ~ InExtent(AllDst, b)
    BY <1>1, <2>1, <2>2, AllDstFacts, UncoveredIsComplement
  <2>3. /\ UNCHANGED job /\ image' = image /\ phase = "find" /\ phase' = "gaps"
        /\ pending' = pending /\ cur' = cur
    BY <1>3 DEF FindGaps, At, opVars
  <2>4. ASSUME SizeFits, NEW o \in OutOffsets, o < job.newSize
        PROVE  o \div BlockSize < Total
    <3> DEFINE b == o \div BlockSize
               n == job.newSize + BlockSize - 1
    <3>1. MaxInt \in Nat /\ BlockSize \in Nat \ {0} /\ o \in Nat
      BY IntFacts, OffsetFacts
    <3>2. job.newSize \in 0 .. MaxInt
      BY <1>1 DEF JobType
    <3>3. n \in Nat /\ b \in Nat /\ Times(b, BlockSize) <= o
      BY <3>1, <3>2, BlockOf
    <3>4. Times(1, BlockSize) = BlockSize
      BY <3>1 DEF Times
    <3> HIDE DEF b
    <3>5. Times(b + 1, BlockSize) = Times(b, BlockSize) + Times(1, BlockSize) /\ Times(b, BlockSize) \in Nat
      BY <3>1, <3>3, TimesFacts
    <3>6. Times(b + 1, BlockSize) <= n
      BY <2>4, <3>1, <3>2, <3>3, <3>4, <3>5
    <3>7. b + 1 <= n \div BlockSize
      <4>1. b + 1 \in Nat
        BY <3>3
      <4> HIDE DEF n
      <4> QED BY <3>3, <3>6, <4>1, BlockBelow
    <3> QED BY <1>1, <3>3, <3>7 DEF Total, b
  <2>5. ValidExtents(AllDst) => GapsLeft'
    <3> SUFFICES ASSUME ValidExtents(AllDst) PROVE GapsLeft'
      OBVIOUS
    <3>1. \A b \in Nat : InGap(gaps', b) => ~ InExtent(AllDst, b)
      BY <2>2
    <3>2. ASSUME SizeFits, NEW o \in OutOffsets, o < job.newSize, Untouched(o)
          PROVE  InGap(gaps', o \div BlockSize)
      <4>1. o \in Nat /\ o \div BlockSize \in Nat
        BY OffsetFacts, BlockOf
      <4>2. o \div BlockSize < Total
        BY <2>4, <3>2
      <4>3. ~ InExtent(AllDst, o \div BlockSize)
        BY <1>1, <3>2, <4>1, UntouchedBlock
      <4> QED BY <2>2, <4>1, <4>2, <4>3
    <3> QED BY <1>2, <2>3, <3>1, <3>2 DEF GapsLeft
  <2>6. job.hasSrc /\ Fallthrough /\ pending = <<>> /\ cur = 1
    BY <2>3 DEF Falling
  <2>7. Fallthrough'
    BY <1>2, <2>3, <2>6 DEF Fallthrough
  <2> QED BY <1>2, <2>3, <2>5, <2>6, <2>7 DEF Falling
<1>4. ASSUME NEW end, gaps # <<>>, phase = "gaps", UNCHANGED <<job, phase, cur, pending>>,
             image' = FromSource(GapStart, end),
             \A o \in Nat : o < end => o < GapEnd,
             \/ gaps' = gaps
             \/ gaps' = Tail(gaps) /\ end = GapEnd
      PROVE  Falling'
  <2> DEFINE g == Head(gaps)
             InHead(o) == g.start <= o \div BlockSize /\ o \div BlockSize < g.end
             Copied(o) == GapStart <= o /\ o < end
  <2>1. ASSUME NEW o \in OutOffsets
        PROVE  /\ o \in Nat /\ o \div BlockSize \in Nat
               /\ image'[o] = IF Copied(o) THEN <<"src", o>> ELSE image[o]
               /\ Copied(o) => InHead(o) /\ o < job.newSize /\ o < job.srcSize
               /\ SizeFits /\ InHead(o) /\ o < job.newSize /\ o < job.srcSize /\ end = GapEnd => Copied(o)
    <3>1. o \in Nat /\ o \div BlockSize \in Nat
      BY OffsetFacts, BlockOf
    <3>2. image'[o] = IF Copied(o) THEN <<"src", o>> ELSE image[o]
      BY <1>4 DEF FromSource
    <3>3. Copied(o) => GapStart <= o /\ o < GapEnd
      BY <1>4, <3>1
    <3>4. /\ GapStart <= o /\ o < GapEnd => InHead(o) /\ o < job.newSize /\ o < job.srcSize
          /\ SizeFits /\ InHead(o) /\ o < job.newSize /\ o < job.srcSize => GapStart <= o /\ o < GapEnd
      BY <1>4, <3>1, GapCopied
    <3> QED BY <3>1, <3>2, <3>3, <3>4
  <2> HIDE DEF Copied
  <2>2. \A b : InGap(gaps, b) <=> (g.start <= b /\ b < g.end) \/ InGap(Tail(gaps), b)
    BY <1>1, <1>4, HeadGap
  <2>3. Fallthrough /\ job.hasSrc /\ pending = <<>> /\ cur = 1 /\ (ValidExtents(AllDst) => GapsLeft)
    BY <1>4 DEF Falling
  <2>4. ASSUME NEW o \in OutOffsets, image'[o] # Hole
        PROVE  /\ image'[o] = <<"src", o>> /\ o < job.newSize /\ o < job.srcSize
               /\ ValidExtents(AllDst) => Untouched(o)
    <3>1. CASE Copied(o)
      <4>1. ASSUME ValidExtents(AllDst) PROVE Untouched(o)
        <5>1. ~ InExtent(AllDst, o \div BlockSize)
          BY <2>1, <2>2, <2>3, <3>1, <4>1 DEF GapsLeft
        <5> QED BY <1>1, <2>1, <5>1, UntouchedBlock
      <4> QED BY <2>1, <3>1, <4>1
    <3>2. CASE ~ Copied(o)
      BY <2>1, <2>3, <2>4, <3>2 DEF Fallthrough
    <3> QED BY <3>1, <3>2
  <2>5. ASSUME ValidExtents(AllDst), NEW b \in Nat, InGap(gaps', b) PROVE ~ InExtent(AllDst, b)
    BY <1>4, <2>2, <2>3, <2>5 DEF GapsLeft
  <2>6. ASSUME ValidExtents(AllDst), SizeFits, NEW o \in OutOffsets,
               o < job.newSize, o < job.srcSize, Untouched(o), image'[o] = Hole
        PROVE  InGap(gaps', o \div BlockSize)
    <3>1. ~ Copied(o) /\ image[o] = Hole
      BY <2>1, <2>6, SrcIsNoHole
    <3>2. InGap(gaps, o \div BlockSize)
      BY <2>3, <2>6, <3>1 DEF GapsLeft
    <3>3. CASE gaps' = gaps
      BY <3>2, <3>3
    <3>4. CASE gaps' = Tail(gaps) /\ end = GapEnd
      BY <2>1, <2>2, <2>6, <3>1, <3>2, <3>4
    <3> QED BY <1>4, <3>3, <3>4
  <2>7. Fallthrough'
    BY <1>2, <1>4, <2>4 DEF Fallthrough
  <2>8. ValidExtents(AllDst) => GapsLeft'
    BY <1>2, <1>4, <2>5, <2>6 DEF GapsLeft
  <2> QED BY <1>2, <1>4, <2>3, <2>7, <2>8 DEF Falling
<1>5. CASE CopyGap
  BY <1>4, <1>5 DEF CopyGap, At, opVars
<1>6. CASE CopyGapFails
  <2>1. PICK end \in GapStart .. GapEnd : image' = FromSource(GapStart, end)
    BY <1>6 DEF CopyGapFails
  <2>2. GapStart \in Nat /\ GapEnd \in Int
    <3>1. gaps # <<>> /\ 0 \in Nat
      BY <1>6 DEF CopyGapFails
    <3> QED BY <3>1, GapCopied
  <2>3. \A o \in Nat : o < end => o < GapEnd
    BY <2>1, <2>2
  <2> QED BY <1>4, <1>6, <2>1, <2>3 DEF CopyGapFails, At, opVars
<1>7. ASSUME phase' \notin {"find", "gaps"} PROVE Falling'
  BY <1>7 DEF Falling
<1>8. ASSUME UNCHANGED <<job, phase, gaps, cur, pending, image>> PROVE Falling'
  BY <1>2, <1>8 DEF Falling, Fallthrough, GapsLeft
<1>9. CASE ~ (FindGaps \/ CopyGap \/ CopyGapFails)
  <2>1. phase' \notin {"find", "gaps"} \/ UNCHANGED <<job, phase, gaps, cur, pending, image>>
    <3>1. UNCHANGED vars => UNCHANGED <<job, phase, gaps, cur, pending, image>>
      BY DEF vars, opVars
    <3>2. Fail \/ Panic => UNCHANGED <<job, phase, gaps, cur, pending, image>>
      BY DEF Fail, Panic, opVars
    <3>3. GapsCopied \/ AllDone => phase' \notin {"find", "gaps"}
      BY DEF GapsCopied, AllDone, At
    <3>4. Finish \/ Stream("copy") \/ Stream("load") \/ Patch
            => phase' \notin {"find", "gaps"} \/ UNCHANGED <<job, phase, gaps, cur, pending, image>>
      BY <3>2 DEF Finish, Stream, Patch
    <3>5. SkipSource \/ ReadSource \/ LoadSource \/ Decode \/ ReadFails
            => phase' \notin {"find", "gaps"} \/ UNCHANGED <<job, phase, gaps, cur, pending, image>>
      BY <3>2 DEF SkipSource, ReadSource, LoadSource, Decode, ReadFails, Reading, At
    <3>6. SkipTarget \/ WriteChunk \/ WriteFails
            => phase' \notin {"find", "gaps"} \/ UNCHANGED <<job, phase, gaps, cur, pending, image>>
      <4>1. phase \in {"find", "gaps"} => pending = <<>>
        BY DEF Falling
      <4> QED BY <4>1 DEF SkipTarget, WriteChunk, WriteFails, CanWrite, Writing
    <3> QED BY <1>9, <3>1, <3>2, <3>3, <3>4, <3>5, <3>6 DEF Next, BeginReplace, BeginZero, BeginCopy,
            BeginBsdiff, Broken, WritePast, PatchFails, EndReplace, EndZero, EndCopy, EndBsdiff
  <2> QED BY <1>7, <1>8, <2>1
<1> QED BY <1>3, <1>5, <1>6, <1>9

\* While gaps are copied, from extents nothing has validated and whose ends may
\* have wrapped, a byte comes from the same offset of the source and lies inside
\* the new image; with valid extents it is not one an operation writes.
THEOREM GapsStay == Spec => []GapsStayInTheImage
<1>1. Init => Falling
  <2> SUFFICES ASSUME Init PROVE Falling
    OBVIOUS
  <2>1. /\ \A o \in OutOffsets : image[o] = Hole
        /\ phase = "find" => job.hasSrc
        /\ phase # "gaps" /\ pending = <<>> /\ cur = 1
    BY DEF Init
  <2> QED BY <2>1 DEF Falling, Fallthrough
<1>2. TypeInv /\ Falling /\ [Next]_vars => Falling'
  BY FallingStep
<1>3. Falling => GapsStayInTheImage
  BY DEF Falling, Fallthrough, GapsStayInTheImage
<1>4. OpsInv => TypeInv
  BY DEF OpsInv
<1> QED BY <1>1, <1>2, <1>3, <1>4, OpsInvariant, PTL DEF Spec

--------------------------------------------------------------------------------
(* Cursors and positions in a stream                                        *)

LEMMA BeforeFacts ==
  ASSUME NEW extents \in Seq(AnyExtent)
  PROVE  /\ Before(extents, 1) = 0
         /\ \A i \in 1 .. Len(extents) + 1 : Before(extents, i) \in Nat
         /\ \A i \in 1 .. Len(extents) :
              /\ Times(extents[i].num, BlockSize) \in Nat
              /\ Before(extents, i + 1) = Before(extents, i) + Times(extents[i].num, BlockSize)
         /\ \A i, j \in 1 .. Len(extents) + 1 : i <= j => Before(extents, i) <= Before(extents, j)
<1> DEFINE sum == Blocks(extents)
           N == Len(extents)
<1>1. N \in Nat /\ BlockSize \in Nat \ {0}
  BY IntFacts
<1>2. \A n \in 0 .. N : sum[n] \in Nat
  BY BlocksFacts
<1>3. \A i : Before(extents, i) = Times(sum[i - 1], BlockSize)
  BY DEF Before, Times
<1>4. \A i \in 1 .. N : sum[i] = sum[i - 1] + extents[i].num /\ extents[i].num \in Nat
  BY BlocksFacts, ExtentFacts
<1>5. sum[0] = 0
  BY BlocksFacts
<1>6. \A i \in 0 .. N : \A j \in i .. N : sum[i] <= sum[j]
  BY BlocksGrow
<1> HIDE DEF sum
<1>7. Before(extents, 1) = 0
  <2>1. 1 - 1 = 0
    OBVIOUS
  <2> QED BY <1>1, <1>3, <1>5, <2>1 DEF Times
<1>8. ASSUME NEW i \in 1 .. N + 1 PROVE i - 1 \in 0 .. N /\ sum[i - 1] \in Nat /\ Before(extents, i) \in Nat
  <2>1. i - 1 \in 0 .. N
    BY <1>1
  <2>2. sum[i - 1] \in Nat
    BY <1>2, <2>1
  <2>3. Times(sum[i - 1], BlockSize) \in Nat
    BY <1>1, <2>2, TimesFacts
  <2> QED BY <1>3, <2>1, <2>2, <2>3
<1>9. ASSUME NEW i \in 1 .. N
      PROVE  /\ Times(extents[i].num, BlockSize) \in Nat
             /\ Before(extents, i + 1) = Before(extents, i) + Times(extents[i].num, BlockSize)
  <2> DEFINE a == sum[i - 1]
             b == extents[i].num
  <2>1. i + 1 - 1 = i /\ i \in 1 .. N + 1
    BY <1>1
  <2>2. a \in Nat /\ b \in Nat /\ sum[i] = a + b
    BY <1>4, <1>8, <2>1
  <2>3. Before(extents, i + 1) = Times(sum[i], BlockSize) /\ Before(extents, i) = Times(a, BlockSize)
    <3>1. Before(extents, i + 1) = Times(sum[i + 1 - 1], BlockSize)
      BY <1>3
    <3> QED BY <1>3, <2>1, <3>1
  <2> HIDE DEF a, b
  <2>4. a \in Nat /\ b \in Nat
    BY <2>2
  <2>5. Times(b, BlockSize) \in Nat
    BY <1>1, <2>4, TimesFacts
  <2>6. Times(a + b, BlockSize) = Times(a, BlockSize) + Times(b, BlockSize)
    BY <1>1, <2>4, TimesFacts
  <2> QED BY <2>2, <2>3, <2>5, <2>6 DEF b
<1>10. ASSUME NEW i \in 1 .. N + 1, NEW j \in 1 .. N + 1, i <= j
       PROVE  Before(extents, i) <= Before(extents, j)
  <2>1. i - 1 \in 0 .. N /\ j - 1 \in i - 1 .. N
    BY <1>1, <1>10
  <2>2. sum[i - 1] <= sum[j - 1] /\ sum[i - 1] \in Nat /\ sum[j - 1] \in Nat
    BY <1>6, <1>8, <2>1
  <2>3. Times(sum[i - 1], BlockSize) <= Times(sum[j - 1], BlockSize)
    BY <1>1, <2>2, TimesFacts
  <2> QED BY <1>3, <2>3
<1> QED BY <1>7, <1>8, <1>9, <1>10

\* A position lies in one extent only.
LEMMA OnePlace ==
  ASSUME NEW extents \in Seq(AnyExtent), NEW i \in 1 .. Len(extents), NEW j \in 1 .. Len(extents),
         NEW k \in Int,
         Before(extents, i) < k, k <= Before(extents, i + 1),
         Before(extents, j) < k, k <= Before(extents, j + 1)
  PROVE  i = j
<1>1. /\ i \in 1 .. Len(extents) + 1 /\ i + 1 \in 1 .. Len(extents) + 1
      /\ j \in 1 .. Len(extents) + 1 /\ j + 1 \in 1 .. Len(extents) + 1
  OBVIOUS
<1>2. /\ Before(extents, i) \in Nat /\ Before(extents, i + 1) \in Nat
      /\ Before(extents, j) \in Nat /\ Before(extents, j + 1) \in Nat
      /\ i + 1 <= j => Before(extents, i + 1) <= Before(extents, j)
      /\ j + 1 <= i => Before(extents, j + 1) <= Before(extents, i)
  BY <1>1, BeforeFacts
<1>3. ~ (i + 1 <= j) /\ ~ (j + 1 <= i)
  BY <1>2
<1> QED BY <1>3

\* n bytes have gone through cursor c.
CursorAt(extents, c, n) ==
  /\ c.idx \in 1 .. Len(extents) + 1
  /\ n = Before(extents, c.idx) + c.done
  /\ c.idx <= Len(extents) => c.done <= Times(extents[c.idx].num, BlockSize)
  /\ c.idx > Len(extents) => c.done = 0

LEMMA StartsAtNothing ==
  ASSUME NEW extents \in Seq(AnyExtent)
  PROVE  CursorAt(extents, Start, 0)
<1>1. Len(extents) \in Nat /\ 1 \in 1 .. Len(extents) + 1 /\ Before(extents, 1) = 0
  BY BeforeFacts
<1>2. 1 <= Len(extents) => 0 <= Times(extents[1].num, BlockSize)
  <2>1. 1 <= Len(extents) => 1 \in 1 .. Len(extents)
    BY <1>1
  <2>2. 1 <= Len(extents) => Times(extents[1].num, BlockSize) \in Nat
    BY <2>1, BeforeFacts
  <2> QED BY <2>2
<1> QED BY <1>1, <1>2 DEF CursorAt, Start

LEMMA ExtentBytesExact ==
  ASSUME NEW e \in AnyExtent, ValidExtent(e)
  PROVE  ExtentBytes(e) = Times(e.num, BlockSize)
<1>1. CASE e.num # 0
  BY <1>1, ValidExtentIsExact DEF ExtentBytes
<1>2. CASE e.num = 0
  <2>1. 0 \in 0 .. MaxInt /\ e.num * BlockSize = 0
    BY <1>2, IntFacts
  <2> QED BY <2>1, Int64Exact DEF ExtentBytes, Bytes, Times
<1> QED BY <1>1, <1>2

\* What a cursor that has something left to move is at.
LEMMA AtCursor ==
  ASSUME NEW extents \in Seq(AnyExtent), ValidExtents(extents), NEW c \in Cursor, NEW n,
         CursorAt(extents, c, n), ~ AtEnd(c, extents)
  PROVE  /\ c.idx \in 1 .. Len(extents) /\ c.idx + 1 \in 1 .. Len(extents) + 1
         /\ c.idx \in 1 .. Len(extents) + 1 /\ c.done \in Nat /\ n \in Nat
         /\ Before(extents, c.idx) \in Nat
         /\ n = Before(extents, c.idx) + c.done
         /\ ExtentBytes(extents[c.idx]) = Times(extents[c.idx].num, BlockSize)
         /\ Times(extents[c.idx].num, BlockSize) \in Nat
         /\ c.done <= Times(extents[c.idx].num, BlockSize)
         /\ Before(extents, c.idx + 1) = Before(extents, c.idx) + Times(extents[c.idx].num, BlockSize)
<1>1. c.idx \in Nat \ {0} /\ c.done \in Nat /\ Len(extents) \in Nat
  BY DEF Cursor
<1>2. /\ c.idx \in 1 .. Len(extents) /\ c.idx + 1 \in 1 .. Len(extents) + 1
      /\ c.idx \in 1 .. Len(extents) + 1
  BY <1>1 DEF AtEnd
<1>3. extents[c.idx] \in AnyExtent /\ ValidExtent(extents[c.idx])
  BY <1>2 DEF ValidExtents
<1>4. /\ Before(extents, c.idx) \in Nat /\ Times(extents[c.idx].num, BlockSize) \in Nat
      /\ Before(extents, c.idx + 1) = Before(extents, c.idx) + Times(extents[c.idx].num, BlockSize)
  BY <1>2, BeforeFacts
<1>5. ExtentBytes(extents[c.idx]) = Times(extents[c.idx].num, BlockSize)
  BY <1>3, ExtentBytesExact
<1>6. n = Before(extents, c.idx) + c.done /\ c.done <= Times(extents[c.idx].num, BlockSize)
  BY <1>1, <1>2 DEF CursorAt
<1> QED BY <1>1, <1>2, <1>4, <1>5, <1>6

LEMMA SkipKeepsCursor ==
  ASSUME NEW extents \in Seq(AnyExtent), ValidExtents(extents), NEW c \in Cursor, NEW n,
         CursorAt(extents, c, n), Exhausted(c, extents)
  PROVE  CursorAt(extents, NextExtent(c), n)
<1> DEFINE size == Times(extents[c.idx].num, BlockSize)
<1>1. /\ c.idx \in 1 .. Len(extents) /\ c.idx + 1 \in 1 .. Len(extents) + 1
      /\ c.done \in Nat /\ Before(extents, c.idx) \in Nat
      /\ n = Before(extents, c.idx) + c.done /\ size \in Nat /\ c.done <= size
      /\ Before(extents, c.idx + 1) = Before(extents, c.idx) + size
      /\ ExtentBytes(extents[c.idx]) = size
  BY AtCursor DEF Exhausted
<1>2. c.done >= size
  BY <1>1 DEF Exhausted
<1> HIDE DEF size
<1>3. n = Before(extents, c.idx + 1) + 0
  BY <1>1, <1>2
<1>4. c.idx + 1 <= Len(extents) => 0 <= Times(extents[c.idx + 1].num, BlockSize)
  <2>1. c.idx + 1 <= Len(extents) => c.idx + 1 \in 1 .. Len(extents)
    BY <1>1
  <2>2. c.idx + 1 <= Len(extents) => Times(extents[c.idx + 1].num, BlockSize) \in Nat
    BY <2>1, BeforeFacts
  <2> QED BY <2>2
<1>5. NextExtent(c).idx = c.idx + 1 /\ NextExtent(c).done = 0
  BY DEF NextExtent
<1> QED BY <1>1, <1>3, <1>4, <1>5 DEF CursorAt

LEMMA MoveKeepsCursor ==
  ASSUME NEW extents \in Seq(AnyExtent), ValidExtents(extents), NEW c \in Cursor, NEW n,
         CursorAt(extents, c, n), ~ AtEnd(c, extents), ~ Exhausted(c, extents),
         NEW len \in Nat, NEW m \in 0 .. Room(c, extents, len)
  PROVE  /\ CursorAt(extents, Moved(c, m), n + m)
         /\ n + m <= Before(extents, c.idx + 1)
<1> DEFINE size == Times(extents[c.idx].num, BlockSize)
<1>1. /\ c.idx \in 1 .. Len(extents) /\ c.idx \in 1 .. Len(extents) + 1
      /\ c.done \in Nat /\ n \in Nat /\ Before(extents, c.idx) \in Nat
      /\ n = Before(extents, c.idx) + c.done /\ size \in Nat /\ c.done <= size
      /\ Before(extents, c.idx + 1) = Before(extents, c.idx) + size
      /\ ExtentBytes(extents[c.idx]) = size
  BY AtCursor
<1>2. Room(c, extents, len) = IF len > size - c.done THEN size - c.done ELSE len
  BY <1>1 DEF Room
<1> HIDE DEF size
<1>3. m \in Nat /\ c.done + m <= size
  BY <1>1, <1>2
<1>4. Moved(c, m).idx = c.idx /\ Moved(c, m).done = c.done + m
  BY <1>3, CursorFacts
<1>5. n + m = Before(extents, c.idx) + (c.done + m) /\ n + m <= Before(extents, c.idx + 1)
  BY <1>1, <1>3
<1>6. ~ (c.idx > Len(extents))
  BY <1>1
<1> QED BY <1>1, <1>3, <1>4, <1>5, <1>6 DEF CursorAt, size

\* The byte at each position the cursor moves over is at the offset it moves over.
LEMMA ByteAtCursor ==
  ASSUME NEW extents \in Seq(AnyExtent), ValidExtents(extents), NEW c \in Cursor, NEW n,
         CursorAt(extents, c, n), ~ AtEnd(c, extents), ~ Exhausted(c, extents),
         NEW len \in Nat, NEW k \in Nat \ {0}, k <= Room(c, extents, len)
  PROVE  ByteAt(extents, n + k) = Offset(c, extents) + k - 1
<1> DEFINE e == extents[c.idx]
           p == n + k
           Holds(j) == Before(extents, j) < p /\ p <= Before(extents, j + 1)
           i == CHOOSE j \in DOMAIN extents : Holds(j)
<1>1. /\ c.idx \in 1 .. Len(extents) /\ c.done \in Nat /\ n \in Nat
      /\ Before(extents, c.idx) \in Nat /\ n = Before(extents, c.idx) + c.done
  BY AtCursor
<1>2. k \in Nat \ {0} /\ k \in 0 .. Room(c, extents, len) /\ p \in Int
  <2>1. Room(c, extents, len) \in 0 .. len
    BY RoomFacts
  <2> QED BY <1>1, <2>1
<1>3. p <= Before(extents, c.idx + 1)
  BY <1>2, MoveKeepsCursor
<1>4. Holds(c.idx)
  BY <1>1, <1>2, <1>3
<1>5. DOMAIN extents = 1 .. Len(extents)
  OBVIOUS
<1> HIDE DEF p
<1>6. i \in 1 .. Len(extents) /\ Holds(i)
  BY <1>1, <1>4, <1>5
<1>7. i = c.idx
  <2> HIDE DEF i
  <2> QED BY <1>1, <1>2, <1>4, <1>6, OnePlace
<1>8. ByteAt(extents, p) = extents[i].start * BlockSize + p - 1 - Before(extents, i)
  BY DEF ByteAt
<1>9. Bytes(e.start) = e.start * BlockSize /\ e.start * BlockSize \in Nat
  <2>1. e \in AnyExtent /\ ValidExtent(e) /\ e.start \in Nat
    BY <1>1, ExtentFacts DEF ValidExtents
  <2>2. e.num # 0
    <3>1. Times(e.num, BlockSize) = ExtentBytes(e) /\ c.done < ExtentBytes(e)
      <4>1. Times(e.num, BlockSize) = ExtentBytes(e) /\ Times(e.num, BlockSize) \in Nat
        BY AtCursor
      <4>2. ~ (c.done >= ExtentBytes(e))
        BY DEF Exhausted
      <4> HIDE DEF e
      <4> QED BY <1>1, <4>1, <4>2
    <3>2. BlockSize \in Nat
      BY IntFacts
    <3> HIDE DEF e
    <3> QED BY <1>1, <3>1, <3>2 DEF Times
  <2>3. Bytes(e.start) = Times(e.start, BlockSize)
    BY <2>1, <2>2, ValidExtentIsExact
  <2>4. Times(e.start, BlockSize) \in Nat
    BY <2>1, IntFacts, TimesFacts
  <2> QED BY <2>3, <2>4 DEF Times
<1>10. Offset(c, extents) = e.start * BlockSize + c.done
  BY <1>9 DEF Offset
<1> DEFINE first == e.start * BlockSize
<1>11. ByteAt(extents, p) = first + p - 1 - Before(extents, c.idx) /\ first \in Nat
  BY <1>7, <1>8, <1>9
<1> HIDE DEF first, i, e
<1>12. ByteAt(extents, p) = first + c.done + k - 1
  <2> DEFINE before == Before(extents, c.idx)
             done == c.done
  <2>1. /\ before \in Nat /\ done \in Nat /\ first \in Nat /\ k \in Nat /\ p = before + done + k
        /\ ByteAt(extents, p) = first + p - 1 - before
    BY <1>1, <1>2, <1>11 DEF p
  <2> HIDE DEF before, done
  <2>2. first + p - 1 - before = first + done + k - 1
    BY ONLY <2>1
  <2> QED BY <2>1, <2>2 DEF done
<1> QED BY <1>10, <1>12 DEF p, first

\* The positions that land on an offset, extent by extent.
LEMMA HitsFacts ==
  ASSUME NEW extents \in Seq(AnyExtent), NEW o \in Nat, NEW k
  PROVE  k \in Hits(extents, o) <=>
           \E i \in 1 .. Len(extents) :
             /\ Within(o, extents[i])
             /\ k = Before(extents, i) + o - extents[i].start * BlockSize + 1
             /\ k \in Nat /\ Before(extents, i) < k /\ k <= Before(extents, i + 1)
<1>1. DOMAIN extents = 1 .. Len(extents) /\ Len(extents) \in Nat
  OBVIOUS
<1>2. ASSUME NEW i \in 1 .. Len(extents), Within(o, extents[i]),
             k = Before(extents, i) + o - extents[i].start * BlockSize + 1
      PROVE  k \in Nat /\ Before(extents, i) < k /\ k <= Before(extents, i + 1)
  <2> DEFINE a == extents[i].start
             b == extents[i].num
             x == Times(a, BlockSize)
             y == Times(b, BlockSize)
             before == Before(extents, i)
  <2>1. BlockSize \in Nat \ {0} /\ a \in Nat /\ b \in Nat
    BY IntFacts, ExtentFacts
  <2>2. before \in Nat /\ Before(extents, i + 1) = before + y /\ y \in Nat
    <3>1. i \in 1 .. Len(extents) + 1
      BY <1>1
    <3> QED BY <3>1, BeforeFacts
  <2>3. x <= o /\ o < Times(a + b, BlockSize) /\ k = before + o - x + 1
    BY <1>2 DEF Within, Times
  <2> HIDE DEF a, b, before
  <2>4. x \in Nat /\ Times(a + b, BlockSize) = x + y
    <3>1. x \in Nat
      BY <2>1, TimesFacts
    <3>2. Times(a + b, BlockSize) = x + y
      BY <2>1, TimesFacts
    <3> QED BY <3>1, <3>2
  <2> HIDE DEF x, y
  <2>5. k \in Nat /\ before < k /\ k <= before + y
    BY <2>2, <2>3, <2>4
  <2> QED BY <2>2, <2>5 DEF before
<1>3. k \in Hits(extents, o) <=>
        \E i \in 1 .. Len(extents) : /\ Within(o, extents[i])
                                     /\ k = Before(extents, i) + o - extents[i].start * BlockSize + 1
  BY <1>1 DEF Hits
<1> QED BY <1>2, <1>3

\* Among the positions a cursor moves over, an offset is hit by the one that falls
\* on it and by no other.
LEMMA HitsAtCursor ==
  ASSUME NEW extents \in Seq(AnyExtent), ValidExtents(extents), NEW c \in Cursor, NEW n,
         CursorAt(extents, c, n), ~ AtEnd(c, extents), ~ Exhausted(c, extents),
         NEW len \in Nat, NEW k \in Nat \ {0}, k <= Room(c, extents, len), NEW o \in Nat
  PROVE  n + k \in Hits(extents, o) <=> o = Offset(c, extents) + k - 1
<1> DEFINE e == extents[c.idx]
           p == n + k
           first == e.start * BlockSize
           end == (e.start + e.num) * BlockSize
           size == Times(e.num, BlockSize)
<1>1. /\ c.idx \in 1 .. Len(extents) /\ c.done \in Nat /\ n \in Nat
      /\ Before(extents, c.idx) \in Nat /\ n = Before(extents, c.idx) + c.done
      /\ size \in Nat /\ ExtentBytes(e) = size
      /\ Before(extents, c.idx + 1) = Before(extents, c.idx) + size
  BY AtCursor
<1>2. k \in Nat \ {0} /\ k \in 0 .. Room(c, extents, len) /\ p \in Nat
  <2>1. Room(c, extents, len) \in 0 .. len
    BY RoomFacts
  <2> QED BY <1>1, <2>1
<1>3. p <= Before(extents, c.idx + 1)
  BY <1>2, MoveKeepsCursor
<1>4. c.done < size
  <2>1. ~ (c.done >= ExtentBytes(e))
    BY DEF Exhausted
  <2> HIDE DEF e, size
  <2> QED BY <1>1, <2>1
<1>5. /\ first \in Nat /\ end = first + size /\ Bytes(e.start) = first
  <2>1. e \in AnyExtent /\ ValidExtent(e) /\ e.start \in Nat /\ e.num \in Nat
    BY <1>1, ExtentFacts DEF ValidExtents
  <2>2. BlockSize \in Nat \ {0}
    BY IntFacts
  <2>3. e.num # 0
    <3> HIDE DEF e
    <3>1. 0 * BlockSize = 0 /\ ~ (c.done < 0)
      BY <1>1, <2>2
    <3> QED BY <1>4, <3>1 DEF Times
  <2>4. Bytes(e.start) = Times(e.start, BlockSize)
    BY <2>1, <2>3, ValidExtentIsExact
  <2> DEFINE a == e.start
             b == e.num
  <2>5. a \in Nat /\ b \in Nat
    BY <2>1
  <2> HIDE DEF a, b
  <2>6. Times(a, BlockSize) \in Nat
    BY <2>2, <2>5, TimesFacts
  <2>7. Times(a + b, BlockSize) = Times(a, BlockSize) + Times(b, BlockSize)
    BY <2>2, <2>5, TimesFacts
  <2> QED BY <2>4, <2>6, <2>7 DEF a, b, Times
<1>6. Offset(c, extents) = first + c.done
  BY <1>5 DEF Offset
<1>7. Within(o, e) <=> first <= o /\ o < end
  BY DEF Within
<1>8. /\ o = Offset(c, extents) + k - 1 <=> p = Before(extents, c.idx) + o - first + 1
      /\ o = Offset(c, extents) + k - 1 => first <= o /\ o < end
      /\ Before(extents, c.idx) < p
  <2> DEFINE before == Before(extents, c.idx)
             next == Before(extents, c.idx + 1)
             done == c.done
             off == Offset(c, extents)
  <2>1. /\ before \in Nat /\ done \in Nat /\ first \in Nat /\ k \in Nat \ {0} /\ o \in Nat
        /\ size \in Nat /\ p = before + done + k /\ off = first + done /\ end = first + size
        /\ next = before + size /\ p <= next
    BY <1>1, <1>2, <1>3, <1>5, <1>6
  <2> HIDE DEF before, next, done, off, first, end, size, p
  <2>2. /\ o = off + k - 1 <=> p = before + o - first + 1
        /\ o = off + k - 1 => first <= o /\ o < end
        /\ before < p
    BY ONLY <2>1
  <2> QED BY <2>2 DEF before, off
<1>9. ASSUME p \in Hits(extents, o) PROVE o = Offset(c, extents) + k - 1
  <2>1. PICK i \in 1 .. Len(extents) :
          /\ p = Before(extents, i) + o - extents[i].start * BlockSize + 1
          /\ Before(extents, i) < p /\ p <= Before(extents, i + 1)
    BY <1>9, HitsFacts
  <2>2. Before(extents, c.idx) < p
    BY <1>1, <1>2
  <2> HIDE DEF p
  <2>3. i = c.idx
    <3>1. p \in Int
      BY <1>2
    <3> QED BY <1>1, <1>3, <2>1, <2>2, <3>1, OnePlace
  <2>4. p = Before(extents, c.idx) + o - first + 1
    BY <2>1, <2>3
  <2> QED BY <1>8, <2>4
<1>10. ASSUME o = Offset(c, extents) + k - 1 PROVE p \in Hits(extents, o)
  <2>1. first <= o /\ o < end /\ p = Before(extents, c.idx) + o - first + 1 /\ Before(extents, c.idx) < p
    BY <1>10, <1>8
  <2>3. Within(o, e)
    BY <1>7, <2>1
  <2> QED BY <1>1, <1>2, <1>3, <2>1, <2>3, HitsFacts DEF first, e
<1> QED BY <1>9, <1>10

--------------------------------------------------------------------------------
(* The image                                                                *)

\* The offsets an operation writes, and what, with the partition, the operation at
\* work and what it has written as parameters.
StreamByte(op, j, k) ==
  CASE op.kind = "zero" -> Zero
    [] op.kind = "copy" -> <<"src", ByteAt(op.src, k)>>
    [] OTHER -> <<"data", j, k>>

Done(jb, c, m, j) ==
  IF j = c THEN m
  ELSE IF jb.ops[j].kind = "bsdiff" THEN jb.ops[j].yields
  ELSE Span(jb.ops[j].dst)

Wrote(jb, c, m, o, j) == {k \in Hits(jb.ops[j].dst, o) : k <= Done(jb, c, m, j)}

Writers(jb, c, m, o) == {j \in 1 .. Smaller(c, Len(jb.ops)) : Wrote(jb, c, m, o, j) # {}}

DstOf(jb) ==
  [x \in UNION {{j} \X DOMAIN jb.ops[j].dst : j \in DOMAIN jb.ops} |-> jb.ops[x[1]].dst[x[2]]]

Fallen(jb, o) ==
  IF jb.hasSrc /\ o < Smaller(jb.newSize, jb.srcSize) /\ (\A x \in DOMAIN DstOf(jb) : ~ Within(o, DstOf(jb)[x]))
  THEN <<"src", o>> ELSE Hole

OrderedBy(jb, c, m, o) ==
  LET w == Writers(jb, c, m, o)
      j == Max(w)
  IN  IF w # {} THEN StreamByte(jb.ops[j], j, Max(Wrote(jb, c, m, o, j))) ELSE Fallen(jb, o)

LEMMA OrderedIs ==
  ASSUME NEW o
  PROVE  /\ Ordered(o) = OrderedBy(job, cur, moved, o)
         /\ Ordered(o)' = OrderedBy(job', cur', moved', o)
<1>1. Ordered(o) = OrderedBy(job, cur, moved, o)
  BY DEF Ordered, OrderedBy, Writers, Wrote, Done, Progress, DstOf, AllDst, Fallen, Untouched, StreamByte, Streamed
<1>2. Ordered(o)' = OrderedBy(job', cur', moved', o)
  BY DEF Ordered, OrderedBy, Writers, Wrote, Done, Progress, DstOf, AllDst, Fallen, Untouched, StreamByte, Streamed
<1> QED BY <1>1, <1>2

\* What Max is of a set of numbers with a greatest one, and that bounded sets have one.
LEMMA MaxIs ==
  ASSUME NEW S \in SUBSET Nat, NEW m \in S, \A x \in S : x <= m
  PROVE  Max(S) = m
<1>1. \A y \in S : m >= y
  OBVIOUS
<1> DEFINE x == CHOOSE z \in S : \A y \in S : z >= y
<1>2. x \in S /\ \A y \in S : x >= y
  BY <1>1
<1>3. x = m
  <2> HIDE DEF x
  <2>1. x \in Nat /\ m \in Nat /\ x >= m /\ m >= x
    BY <1>1, <1>2
  <2> QED BY <2>1
<1> QED BY <1>3 DEF Max

LEMMA MaxIn ==
  ASSUME NEW N \in Nat, NEW S \in SUBSET (0 .. N), S # {}
  PROVE  Max(S) \in S
<1> DEFINE T == {N - x : x \in S}
<1>1. PICK t \in T : \A y \in T : t <= y
  <2>1. \A x \in S : N - x \in Nat
    OBVIOUS
  <2>2. T \in SUBSET Nat
    BY <2>1
  <2>3. T # {}
    OBVIOUS
  <2> HIDE DEF T
  <2> QED BY <2>2, <2>3, Least
<1>2. PICK m \in S : t = N - m
  OBVIOUS
<1>3. ASSUME NEW x \in S PROVE x <= m
  <2>1. N - x \in T
    OBVIOUS
  <2>2. N - m <= N - x /\ x \in 0 .. N /\ m \in 0 .. N
    BY <1>1, <1>2, <2>1
  <2> QED BY <2>2
<1>4. S \in SUBSET Nat
  OBVIOUS
<1>5. Max(S) = m
  <2> HIDE DEF T
  <2> QED BY <1>2, <1>3, <1>4, MaxIs
<1> QED BY <1>5

\* What is ordered of an offset changes only with the operations that write it.
LEMMA OrderedSame ==
  ASSUME NEW jb, NEW o, NEW c, NEW m, NEW d, NEW n, NEW N \in Nat,
         Writers(jb, c, m, o) \subseteq 0 .. N,
         Writers(jb, d, n, o) = Writers(jb, c, m, o),
         \A j \in Writers(jb, c, m, o) : Wrote(jb, d, n, o, j) = Wrote(jb, c, m, o, j)
  PROVE  OrderedBy(jb, d, n, o) = OrderedBy(jb, c, m, o)
<1> DEFINE w == Writers(jb, c, m, o)
           j == Max(w)
<1>1. CASE w = {}
  BY <1>1 DEF OrderedBy
<1>2. CASE w # {}
  <2>1. j \in w
    BY <1>2, MaxIn
  <2>2. Wrote(jb, d, n, o, j) = Wrote(jb, c, m, o, j)
    BY <2>1
  <2>3. OrderedBy(jb, c, m, o) = StreamByte(jb.ops[j], j, Max(Wrote(jb, c, m, o, j)))
    BY <1>2 DEF OrderedBy
  <2>4. OrderedBy(jb, d, n, o) = StreamByte(jb.ops[j], j, Max(Wrote(jb, d, n, o, j)))
    BY <1>2 DEF OrderedBy
  <2> QED BY <2>2, <2>3, <2>4
<1> QED BY <1>1, <1>2

\* Every position that lands on an offset is a byte of the stream.
LEMMA HitsPositive ==
  ASSUME NEW extents \in Seq(AnyExtent), NEW o \in Nat, NEW k \in Hits(extents, o)
  PROVE  k \in Nat \ {0}
<1>1. PICK i \in 1 .. Len(extents) : k \in Nat /\ Before(extents, i) < k
  BY HitsFacts
<1>2. Before(extents, i) \in Nat
  <2>1. i \in 1 .. Len(extents) + 1
    OBVIOUS
  <2> QED BY <2>1, BeforeFacts
<1> QED BY <1>1, <1>2

\* Where reader and writer are, and what waits to be written.
Placed ==
  /\ phase \in {"find", "gaps", "begin"} => rd = Start /\ wr = Start
  /\ phase = "load" => wr = Start
  /\ phase \in {"copy", "patched"} => CursorAt(Op.dst, wr, moved)
  /\ phase = "copy" /\ Op.kind = "copy" /\ ~ broken => CursorAt(Op.src, rd, made)
  /\ phase \in {"copy", "patched"} /\ result = "running"
       => \A k \in 1 .. Len(pending) : pending[k] = StreamByte(Op, cur, moved + k)

\* What a write needs: an operation with valid destinations and room in the extent.
LEMMA WriteFacts ==
  ASSUME TypeInv, Working, Counted, Placed, CanWrite
  PROVE  /\ phase \in {"copy", "patched"} /\ cur \in 1 .. Len(job.ops) /\ result = "running"
         /\ Op.dst \in Seq(AnyExtent) /\ ValidExtents(Op.dst) /\ wr \in Cursor
         /\ ~ AtEnd(wr, Op.dst) /\ ~ Exhausted(wr, Op.dst) /\ CursorAt(Op.dst, wr, moved)
         /\ moved \in Nat /\ Len(pending) \in Nat /\ pending \in Seq(Byte)
         /\ Room(wr, Op.dst, Len(pending)) \in 0 .. Len(pending)
         /\ Offset(wr, Op.dst) \in Int
<1>1. pending # <<>> /\ result = "running" /\ ~ AtEnd(wr, Op.dst) /\ ~ Exhausted(wr, Op.dst)
  BY DEF CanWrite, Writing
<1>2. phase \in {"copy", "patched"} /\ cur <= Len(job.ops)
  BY <1>1 DEF Working, TypeInv
<1>3. cur \in 1 .. Len(job.ops) /\ Op.dst \in Seq(AnyExtent)
  BY <1>2, AtWork
<1>4. ValidExtents(Op.dst) /\ CursorAt(Op.dst, wr, moved)
  BY <1>2 DEF Counted, Placed
<1>5. wr \in Cursor /\ moved \in Nat /\ Len(pending) \in Nat /\ pending \in Seq(Byte)
  BY DEF TypeInv
<1>6. /\ Room(wr, Op.dst, Len(pending)) \in 0 .. Len(pending)
      /\ Offset(wr, Op.dst) \in Int
  BY <1>1, <1>3, <1>5, RoomFacts
<1> QED BY <1>1, <1>2, <1>3, <1>4, <1>5, <1>6

\* Writing n bytes orders the n offsets they fall on, and no other.
LEMMA PutOrdered ==
  ASSUME TypeInv, Working, Counted, Placed, CanWrite,
         NEW n \in 0 .. Room(wr, Op.dst, Len(pending)), NEW o \in Nat
  PROVE  LET k == o - Offset(wr, Op.dst) + 1
         IN  OrderedBy(job, cur, moved + n, o) =
               IF k \in 1 .. n THEN pending[k] ELSE OrderedBy(job, cur, moved, o)
<1> DEFINE len == Len(pending)
           off == Offset(wr, Op.dst)
           k == o - off + 1
           ops == Len(job.ops)
           old(j) == Wrote(job, cur, moved, o, j)
           new(j) == Wrote(job, cur, moved + n, o, j)
           hits == Hits(Op.dst, o)
<1>1. /\ phase \in {"copy", "patched"} /\ cur \in 1 .. ops /\ result = "running"
      /\ Op.dst \in Seq(AnyExtent) /\ ValidExtents(Op.dst) /\ wr \in Cursor
      /\ ~ AtEnd(wr, Op.dst) /\ ~ Exhausted(wr, Op.dst) /\ CursorAt(Op.dst, wr, moved)
      /\ moved \in Nat /\ len \in Nat /\ Room(wr, Op.dst, len) \in 0 .. len /\ off \in Int
  BY WriteFacts
<1>2. ops \in Nat
  BY JobFacts DEF TypeInv
<1>3. n \in Nat /\ n <= len /\ n <= Room(wr, Op.dst, len)
  BY <1>1
<1>4. ASSUME NEW q \in Nat \ {0}, q <= n
      PROVE  moved + q \in hits <=> o = off + q - 1
  <2>1. q <= Room(wr, Op.dst, len)
    BY <1>1, <1>3, <1>4
  <2> HIDE DEF hits, off
  <2> QED BY <1>1, <2>1, HitsAtCursor DEF hits, off
<1>5. ASSUME NEW p \in hits PROVE p \in Nat \ {0}
  BY <1>1, <1>5, HitsPositive
<1>6. ASSUME NEW p \in hits, p <= moved + n, ~ (p <= moved)
      PROVE  k \in 1 .. n /\ p = moved + k
  <2> DEFINE q == p - moved
  <2>1. p \in Nat
    BY <1>5, <1>6
  <2> HIDE DEF off, hits
  <2>2. q \in Nat \ {0} /\ q <= n /\ p = moved + q
    BY <1>1, <1>3, <1>6, <2>1
  <2> HIDE DEF q
  <2>3. o = off + q - 1
    BY <1>4, <1>6, <2>2
  <2> QED BY <1>1, <1>3, <2>2, <2>3
<1>7. /\ old(cur) = {p \in hits : p <= moved} /\ new(cur) = {p \in hits : p <= moved + n}
      /\ \A j : j # cur => new(j) = old(j)
  <2>1. /\ Done(job, cur, moved, cur) = moved /\ Done(job, cur, moved + n, cur) = moved + n
        /\ \A j : j # cur => Done(job, cur, moved, j) = Done(job, cur, moved + n, j)
    BY DEF Done
  <2>2. old(cur) = {p \in hits : p <= moved} /\ new(cur) = {p \in hits : p <= moved + n}
    BY <2>1 DEF Wrote, Op
  <2>3. ASSUME NEW j, j # cur PROVE new(j) = old(j)
    BY <2>1, <2>3 DEF Wrote
  <2> QED BY <2>2, <2>3
<1>8. Smaller(cur, ops) = cur
  BY <1>1, <1>2 DEF Smaller
<1>9. /\ Writers(job, cur, moved, o) = {j \in 1 .. cur : old(j) # {}}
      /\ Writers(job, cur, moved + n, o) = {j \in 1 .. cur : new(j) # {}}
  BY <1>8 DEF Writers
<1> HIDE DEF old, new, hits
<1>10. CASE k \in 1 .. n
  <2> DEFINE top == moved + k
  <2>1. k \in Nat \ {0} /\ k <= n /\ o = off + k - 1 /\ top \in Nat /\ top <= moved + n
    <3> HIDE DEF off
    <3> QED BY <1>1, <1>3, <1>10
  <2>2. top \in hits
    <3> HIDE DEF off, k
    <3> QED BY <1>4, <2>1
  <2>3. top \in new(cur)
    BY <1>7, <2>1, <2>2
  <2>4. ASSUME NEW p \in new(cur) PROVE p \in Nat /\ p <= top
    <3>1. p \in hits /\ p <= moved + n
      BY <1>7, <2>4
    <3>2. p \in Nat
      BY <1>5, <3>1
    <3> HIDE DEF off
    <3> QED BY <1>1, <1>6, <2>1, <3>1, <3>2
  <2>5. Max(new(cur)) = top
    <3>1. new(cur) \in SUBSET Nat /\ \A p \in new(cur) : p <= top
      BY <2>4
    <3> HIDE DEF top
    <3> QED BY <2>3, <3>1, MaxIs
  <2>6. Max(Writers(job, cur, moved + n, o)) = cur /\ Writers(job, cur, moved + n, o) # {}
    <3> DEFINE w == Writers(job, cur, moved + n, o)
    <3>1. w \in SUBSET Nat /\ cur \in w /\ \A j \in w : j <= cur
      <4>1. cur \in Nat \ {0} /\ cur \in 1 .. cur
        BY <1>1, <1>2
      <4>2. w = {j \in 1 .. cur : new(j) # {}} /\ new(cur) # {}
        BY <1>9, <2>3
      <4> HIDE DEF w
      <4> QED BY <4>1, <4>2
    <3> HIDE DEF w
    <3> QED BY <3>1, MaxIs DEF w
  <2>7. OrderedBy(job, cur, moved + n, o) = StreamByte(Op, cur, top)
    BY <2>5, <2>6 DEF OrderedBy, Op, new
  <2>8. pending[k] = StreamByte(Op, cur, moved + k)
    <3>1. k \in 1 .. len
      BY <1>3, <2>1
    <3> HIDE DEF k
    <3> QED BY <1>1, <3>1 DEF Placed
  <2> QED BY <1>10, <2>7, <2>8
<1>11. CASE k \notin 1 .. n
  <2>1. new(cur) = old(cur)
    <3>1. ASSUME NEW p \in new(cur) PROVE p \in old(cur)
      <4>1. p \in hits /\ p <= moved + n
        BY <1>7, <3>1
      <4>2. p <= moved
        BY <1>6, <1>11, <4>1
      <4> QED BY <1>7, <4>1, <4>2
    <3>2. ASSUME NEW p \in old(cur) PROVE p \in new(cur)
      <4>1. p \in hits /\ p <= moved
        BY <1>7, <3>2
      <4>2. p \in Nat
        BY <1>5, <4>1
      <4>3. p <= moved + n
        BY <1>1, <1>3, <4>1, <4>2
      <4> QED BY <1>7, <4>1, <4>3
    <3> QED BY <3>1, <3>2
  <2>2. \A j : new(j) = old(j)
    BY <1>7, <2>1
  <2>3. Writers(job, cur, moved + n, o) = Writers(job, cur, moved, o)
    BY <1>9, <2>2
  <2>4. Writers(job, cur, moved, o) \subseteq 0 .. ops
    BY <1>1, <1>2, <1>9
  <2>5. OrderedBy(job, cur, moved + n, o) = OrderedBy(job, cur, moved, o)
    BY <1>2, <2>2, <2>3, <2>4, OrderedSame DEF new, old
  <2> QED BY <1>11, <2>5
<1> QED BY <1>10, <1>11

\* Before it writes, an operation orders nothing: what is ordered is what those
\* before it have left.
LEMMA NothingWritten ==
  ASSUME job \in JobType, NEW c \in Nat \ {0}, NEW o \in Nat
  PROVE  c <= Len(job.ops) => Wrote(job, c, 0, o, c) = {}
<1> SUFFICES ASSUME c <= Len(job.ops) PROVE Wrote(job, c, 0, o, c) = {}
  OBVIOUS
<1>1. job.ops[c].dst \in Seq(AnyExtent)
  <2>1. job.ops \in Seq(OpType) /\ c \in 1 .. Len(job.ops)
    BY DEF JobType
  <2>2. job.ops[c] \in OpType
    BY <2>1
  <2> QED BY <2>2, OpFacts
<1>2. ASSUME NEW k \in Hits(job.ops[c].dst, o) PROVE ~ (k <= 0)
  <2>1. k \in Nat \ {0}
    BY <1>1, HitsPositive
  <2> QED BY <2>1
<1> QED BY <1>2 DEF Wrote, Done

\* All that an operation writes is ordered before the next one begins.
LEMMA FinishOrdered ==
  ASSUME TypeInv, cur <= Len(job.ops), NEW o \in Nat,
         moved = IF Op.kind = "bsdiff" THEN Op.yields ELSE Span(Op.dst)
  PROVE  OrderedBy(job, cur + 1, 0, o) = OrderedBy(job, cur, moved, o)
<1> DEFINE ops == Len(job.ops)
           old(j) == Wrote(job, cur, moved, o, j)
           new(j) == Wrote(job, cur + 1, 0, o, j)
<1>1. cur \in Nat \ {0} /\ cur <= ops /\ ops \in Nat /\ job \in JobType
  <2>1. ops \in Nat /\ job \in JobType
    BY JobFacts DEF TypeInv
  <2>2. cur \in 1 .. ops
    BY AtWork
  <2> QED BY <2>1, <2>2
<1>2. cur + 1 <= ops => new(cur + 1) = {}
  BY <1>1, NothingWritten
<1>3. ASSUME NEW j, j # cur + 1 PROVE new(j) = old(j)
  <2>1. Done(job, cur + 1, 0, j) = Done(job, cur, moved, j)
    <3>1. CASE j = cur
      BY <1>1, <3>1 DEF Done, Op
    <3>2. CASE j # cur
      BY <1>3, <3>2 DEF Done
    <3> QED BY <3>1, <3>2
  <2> QED BY <2>1 DEF Wrote
<1> HIDE DEF old, new
<1>4. Smaller(cur, ops) = cur /\ Smaller(cur + 1, ops) = IF cur + 1 > ops THEN cur ELSE cur + 1
  BY <1>1 DEF Smaller
<1>5. Writers(job, cur, moved, o) = {j \in 1 .. cur : old(j) # {}}
  BY <1>4 DEF Writers, old
<1>6. \A j \in 1 .. cur : j # cur + 1 /\ j \in 0 .. ops
  BY <1>1
<1>7. Writers(job, cur + 1, 0, o) = {j \in 1 .. cur : new(j) # {}}
  <2>1. CASE cur + 1 > ops
    BY <1>1, <1>4, <2>1 DEF Writers, new
  <2>2. CASE ~ (cur + 1 > ops)
    <3>1. Writers(job, cur + 1, 0, o) = {j \in 1 .. cur + 1 : new(j) # {}}
      BY <1>1, <1>4, <2>2 DEF Writers, new
    <3>2. \A j \in 1 .. cur + 1 : j \in 1 .. cur \/ j = cur + 1
      BY <1>1
    <3>3. \A j \in 1 .. cur : j \in 1 .. cur + 1
      BY <1>1
    <3>4. new(cur + 1) = {}
      BY <1>1, <1>2, <2>2
    <3> QED BY <3>1, <3>2, <3>3, <3>4
  <2> QED BY <2>1, <2>2
<1>8. Writers(job, cur + 1, 0, o) = Writers(job, cur, moved, o)
  BY <1>3, <1>5, <1>6, <1>7
<1>9. Writers(job, cur, moved, o) \subseteq 0 .. ops
  BY <1>5, <1>6
<1>10. \A j \in Writers(job, cur, moved, o) : new(j) = old(j)
  BY <1>3, <1>5, <1>6
<1> QED BY <1>1, <1>8, <1>9, <1>10, OrderedSame DEF new, old

\* Before the first operation only the gaps have been filled.
LEMMA StartOrdered ==
  ASSUME job \in JobType, NEW o \in Nat
  PROVE  OrderedBy(job, 1, 0, o) = Fallen(job, o)
<1>1. Len(job.ops) \in Nat
  BY DEF JobType
<1>2. \A j \in 1 .. Smaller(1, Len(job.ops)) : j = 1 /\ 1 <= Len(job.ops)
  BY <1>1 DEF Smaller
<1>3. 1 <= Len(job.ops) => Wrote(job, 1, 0, o, 1) = {}
  BY NothingWritten
<1>4. Writers(job, 1, 0, o) = {}
  BY <1>2, <1>3 DEF Writers
<1> QED BY <1>4 DEF OrderedBy

\* What an operation has written when it returns nil.
LEMMA WrittenAtEnd ==
  ASSUME TypeInv, Working, Counted, cur <= Len(job.ops), Exact(Op), result = "running", Idle,
         \/ EndReplace /\ moved = want
         \/ EndZero
         \/ EndCopy /\ moved = want
         \/ EndBsdiff
  PROVE  moved = IF Op.kind = "bsdiff" THEN Op.yields ELSE Span(Op.dst)
<1>1. Op.dst \in Seq(AnyExtent) /\ Op.yields \in Nat
  BY AtWork
<1>2. Size(Op.dst) = Span(Op.dst) /\ Span(Op.dst) \in Nat
  BY <1>1, SpanIsSize DEF Exact
<1>3. made \in Nat /\ moved \in Nat /\ pending = <<>> /\ Len(pending) = 0
  BY DEF TypeInv, Idle
<1>4. phase \in {"copy", "patched"} /\ want = Size(Op.dst)
  BY DEF EndReplace, EndZero, EndCopy, EndBsdiff, At, Counted
<1>5. phase = "copy" => made = moved /\ Op.kind # "bsdiff"
  BY <1>3 DEF Counted, Working
<1>6. CASE EndReplace /\ moved = want
  BY <1>2, <1>4, <1>6 DEF EndReplace
<1>7. CASE EndCopy /\ moved = want
  BY <1>2, <1>4, <1>7 DEF EndCopy
<1>8. CASE EndZero
  <2>1. phase = "copy" /\ Op.kind = "zero" /\ made >= want
    BY <1>8 DEF EndZero, At
  <2>2. made <= want \/ made = 0
    BY <2>1 DEF Counted
  <2> QED BY <1>2, <1>3, <1>4, <1>5, <2>1, <2>2
<1>9. CASE EndBsdiff
  <2>1. phase = "patched"
    BY <1>9 DEF EndBsdiff, At
  <2>2. moved + Len(pending) = Op.yields /\ Op.kind = "bsdiff"
    BY <2>1 DEF Counted, Working
  <2> QED BY <1>3, <2>2
<1> QED BY <1>6, <1>7, <1>8, <1>9

\* The bytes read from the source are those of the stream, and the reader moves on.
LEMMA SourcePlaced ==
  ASSUME TypeInv, Working, Counted, Placed, Reading, phase = "copy", Op.kind = "copy", SourceReady,
         NEW n \in 0 .. Available(Buffer)
  PROVE  /\ CursorAt(Op.src, Moved(rd, n), made + n)
         /\ \A k \in 1 .. Len(Got(n)) : Got(n)[k] = StreamByte(Op, cur, moved + k)
<1>1. Buffer \in Nat /\ made \in Nat /\ moved \in Nat /\ rd \in Cursor
  BY InstallOpsAssumption DEF TypeInv
<1>2. Available(Buffer) \in 0 .. Buffer /\ Len(Got(n)) = n
  BY <1>1, PieceFacts
<1>3. Op.src \in Seq(AnyExtent) /\ ValidExtents(Op.src) /\ job.srcSize \in Nat
  <2>1. cur <= Len(job.ops)
    BY DEF Working
  <2>2. ValidExtents(Op.src)
    BY DEF Counted, CopyAccepted
  <2>3. job.srcSize \in 0 .. MaxInt
    BY JobFacts DEF TypeInv
  <2>4. job.srcSize \in Nat
    BY <2>3, ExtentsAssumption
  <2> QED BY <2>1, <2>2, <2>4, AtWork
<1>4. ~ AtEnd(rd, Op.src) /\ ~ Exhausted(rd, Op.src) /\ CursorAt(Op.src, rd, made) /\ pending = <<>>
  BY DEF SourceReady, Placed, Reading
<1>5. Room(rd, Op.src, Buffer) \in 0 .. Buffer /\ Offset(rd, Op.src) \in Int
  BY <1>1, <1>3, <1>4, RoomFacts
<1>6. n \in Nat /\ n \in 0 .. Room(rd, Op.src, Buffer)
  BY <1>1, <1>2, <1>3, <1>5 DEF Available, Smaller
<1>7. made = moved
  <2>1. Len(pending) = 0 /\ result = "running"
    BY <1>4 DEF Reading, At
  <2> QED BY <1>1, <2>1 DEF Counted
<1>8. ASSUME NEW k \in 1 .. Len(Got(n)) PROVE Got(n)[k] = StreamByte(Op, cur, moved + k)
  <2>1. k \in Nat \ {0} /\ k <= n /\ k <= Room(rd, Op.src, Buffer)
    BY <1>2, <1>5, <1>6
  <2>2. ByteAt(Op.src, made + k) = Offset(rd, Op.src) + k - 1
    BY <1>1, <1>3, <1>4, <2>1, ByteAtCursor
  <2>3. Got(n)[k] = <<"src", Offset(rd, Op.src) + k - 1>>
    BY <1>2, <1>6, <1>8 DEF Got
  <2> QED BY <1>7, <2>2, <2>3 DEF StreamByte
<1>9. CursorAt(Op.src, Moved(rd, n), made + n)
  BY <1>1, <1>3, <1>4, <1>6, MoveKeepsCursor
<1> QED BY <1>8, <1>9

\* So are the bytes the decoder makes.
LEMMA DecodedPlaced ==
  ASSUME TypeInv, Counted, phase = "copy", result = "running", pending = <<>>, NEW n \in Nat
  PROVE  /\ Op.kind = "replace"
              => \A k \in 1 .. Len(Decoded(n)) : Decoded(n)[k] = StreamByte(Op, cur, moved + k)
         /\ Op.kind = "zero"
              => LET zeros == [k \in 1 .. n |-> Zero]
                 IN  \A k \in 1 .. Len(zeros) : zeros[k] = StreamByte(Op, cur, moved + k)
<1>1. made \in Nat /\ moved \in Nat /\ Len(pending) = 0
  BY DEF TypeInv
<1>2. made = moved
  BY <1>1 DEF Counted
<1>3. Len(Decoded(n)) = n /\ Len([k \in 1 .. n |-> Zero]) = n
  BY DecodedFacts
<1>4. \A k \in 1 .. n : Decoded(n)[k] = <<"data", cur, made + k>>
  BY DEF Decoded
<1> QED BY <1>2, <1>3, <1>4 DEF StreamByte

LEMMA PlacedStep ==
  ASSUME TypeInv, Working, Counted, Placed, [Next]_vars
  PROVE  Placed'
<1> USE DEF Op
<1>1. pending = <<>> => Len(pending) = 0
  BY DEF TypeInv
<1>2. CASE FindGaps \/ CopyGap \/ CopyGapFails \/ GapsCopied
  <2>1. /\ phase \in {"find", "gaps"} /\ phase' \in {"find", "gaps", "begin"}
        /\ rd' = rd /\ wr' = wr
    BY <1>2 DEF FindGaps, CopyGap, CopyGapFails, GapsCopied, At, opVars
  <2> QED BY <2>1 DEF Placed
<1>3. ASSUME Fail \/ Panic PROVE Placed'
  <2>1. /\ UNCHANGED <<job, phase, cur, rd, wr, pending, broken, made, moved>>
        /\ result' # "running"
    BY <1>3 DEF Fail, Panic, opVars
  <2> QED BY <2>1 DEF Placed
<1>4. ASSUME Finish PROVE Placed'
  BY <1>4 DEF Finish, Fresh, Placed
<1>5. ASSUME NEW label \in {"copy", "load"}, NEW kind, AtOp(kind), Stream(label)
      PROVE  Placed'
  <2>1. /\ phase = "begin" /\ cur <= Len(job.ops)
        /\ UNCHANGED <<job, cur, rd, wr, pending, broken, made, moved>> /\ phase' = label
    BY <1>5 DEF AtOp, At, Stream
  <2>2. rd = Start /\ wr = Start /\ made = 0 /\ moved = 0 /\ pending = <<>>
    BY <2>1 DEF Placed, Counted, Working
  <2>3. CursorAt(Op.dst, wr, moved) /\ CursorAt(Op.src, rd, made)
    BY <2>1, <2>2, AtWork, StartsAtNothing
  <2> QED BY <1>1, <2>1, <2>2, <2>3 DEF Placed
<1>6. CASE BeginReplace \/ BeginZero \/ BeginCopy \/ BeginBsdiff
  BY <1>3, <1>5, <1>6 DEF BeginReplace, BeginZero, BeginCopy, BeginBsdiff
<1>7. CASE SkipSource
  <2>1. /\ rd' = NextExtent(rd) /\ Exhausted(rd, Op.src) /\ phase \in {"copy", "load"}
        /\ UNCHANGED <<job, phase, cur, wr, pending, broken, made, moved, result>>
    BY <1>7 DEF SkipSource, Reading, At
  <2>2. ASSUME phase = "copy", Op.kind = "copy", ~ broken PROVE CursorAt(Op.src, NextExtent(rd), made)
    <3>1. cur <= Len(job.ops) /\ CopyAccepted
      BY <2>2 DEF Working, Counted
    <3>2. Op.src \in Seq(AnyExtent) /\ ValidExtents(Op.src) /\ CursorAt(Op.src, rd, made)
      BY <2>2, <3>1, AtWork DEF CopyAccepted, Placed
    <3>3. rd \in Cursor
      BY DEF TypeInv
    <3> QED BY <2>1, <3>2, <3>3, SkipKeepsCursor
  <2> QED BY <2>1, <2>2 DEF Placed
<1>8. CASE ReadSource
  <2> DEFINE n == Available(Buffer)
  <2>1. SourceReady /\ phase = "copy" /\ Reading /\ Op.kind = "copy"
    BY <1>8 DEF ReadSource, At, SourceReady, Working
  <2>2. CASE Fail
    BY <1>3, <2>2
  <2>3. CASE /\ pending' = Got(n) /\ rd' = Moved(rd, n) /\ made' = made + n
             /\ UNCHANGED <<job, phase, gaps, cur, wr, broken, moved, want, image, result>>
    <3>1. n \in 0 .. n
      <4>1. Buffer \in Nat
        BY InstallOpsAssumption
      <4>2. n \in 0 .. Buffer
        BY <2>1, <4>1, PieceFacts
      <4> HIDE DEF n
      <4> QED BY <4>1, <4>2
    <3>2. /\ CursorAt(Op.src, Moved(rd, n), made + n)
          /\ \A k \in 1 .. Len(Got(n)) : Got(n)[k] = StreamByte(Op, cur, moved + k)
      BY <2>1, <3>1, SourcePlaced
    <3> HIDE DEF n
    <3> QED BY <2>1, <2>3, <3>2 DEF Placed
  <2> QED BY <1>8, <2>2, <2>3 DEF ReadSource
<1>9. CASE LoadSource
  <2>1. phase = "load"
    BY <1>9 DEF LoadSource, At
  <2>2. CASE Fail
    BY <1>3, <2>2
  <2>3. CASE UNCHANGED <<job, phase, gaps, cur, wr, pending, broken, moved, want, image, result>>
    BY <2>1, <2>3 DEF Placed
  <2> QED BY <1>9, <2>2, <2>3 DEF LoadSource
<1>10. CASE Decode
  <2>1. /\ phase = "copy" /\ result = "running" /\ pending = <<>>
        /\ UNCHANGED <<job, phase, gaps, cur, rd, wr, broken, moved, want, image, result>>
    BY <1>10 DEF Decode, At, Reading
  <2>2. PICK n \in 1 .. Buffer :
          \/ Op.kind = "replace" /\ pending' = Decoded(n)
          \/ Op.kind = "zero" /\ pending' = [k \in 1 .. n |-> Zero]
    BY <1>10 DEF Decode
  <2>3. n \in Nat
    BY InstallOpsAssumption
  <2>4. \A k \in 1 .. Len(pending') : pending'[k] = StreamByte(Op, cur, moved + k)
    <3>1. CASE Op.kind = "replace" /\ pending' = Decoded(n)
      <4>1. \A k \in 1 .. Len(Decoded(n)) : Decoded(n)[k] = StreamByte(Op, cur, moved + k)
        BY <2>1, <2>3, <3>1, DecodedPlaced
      <4> QED BY <3>1, <4>1
    <3>2. CASE Op.kind = "zero" /\ pending' = [k \in 1 .. n |-> Zero]
      <4> DEFINE zeros == [k \in 1 .. n |-> Zero]
      <4>1. \A k \in 1 .. Len(zeros) : zeros[k] = StreamByte(Op, cur, moved + k)
        BY <2>1, <2>3, <3>2, DecodedPlaced
      <4>2. pending' = zeros
        BY <3>2
      <4> HIDE DEF zeros
      <4> QED BY <4>1, <4>2
    <3> QED BY <2>2, <3>1, <3>2
  <2>5. Op.kind # "copy"
    BY <2>2
  <2> QED BY <2>1, <2>4, <2>5 DEF Placed
<1>11. CASE ReadFails
  <2>1. /\ phase \in {"copy", "load"} /\ Reading /\ result = "running" /\ pending = <<>> /\ ~ broken
        /\ UNCHANGED <<job, phase, gaps, cur, rd, wr, moved, want, image, result>> /\ broken' = TRUE
    BY <1>11 DEF ReadFails, Reading, At
  <2>2. PICK n \in 0 .. Buffer :
          \/ pending' = Decoded(n) /\ Op.kind = "replace"
          \/ SourceReady /\ n <= Available(Buffer) /\ pending' = Got(n) /\ Op.kind = "copy"
          \/ pending' = <<>> /\ Op.kind = "bsdiff"
    BY <1>11 DEF ReadFails
  <2>3. n \in Nat /\ Buffer \in Nat
    BY InstallOpsAssumption
  <2>4. ASSUME phase = "copy" PROVE \A k \in 1 .. Len(pending') : pending'[k] = StreamByte(Op, cur, moved + k)
    <3>1. CASE pending' = Decoded(n) /\ Op.kind = "replace"
      <4>1. \A k \in 1 .. Len(Decoded(n)) : Decoded(n)[k] = StreamByte(Op, cur, moved + k)
        BY <2>1, <2>3, <2>4, <3>1, DecodedPlaced
      <4> QED BY <3>1, <4>1
    <3>2. CASE SourceReady /\ n <= Available(Buffer) /\ pending' = Got(n) /\ Op.kind = "copy"
      <4>1. Available(Buffer) \in 0 .. Buffer
        BY <2>1, <2>3, <3>2, PieceFacts
      <4>2. n \in 0 .. Available(Buffer)
        BY <2>3, <3>2, <4>1
      <4>3. \A k \in 1 .. Len(Got(n)) : Got(n)[k] = StreamByte(Op, cur, moved + k)
        BY <2>1, <2>4, <3>2, <4>2, SourcePlaced
      <4> QED BY <3>2, <4>3
    <3>3. Op.kind # "bsdiff"
      BY <2>4 DEF Working
    <3> QED BY <2>2, <3>1, <3>2, <3>3
  <2>5. phase # "patched" /\ phase # "find" /\ phase # "gaps" /\ phase # "begin"
    BY <2>1
  <2> QED BY <2>1, <2>4, <2>5 DEF Placed
<1>12. CASE Broken \/ WritePast \/ PatchFails
  BY <1>3, <1>12 DEF Broken, WritePast, PatchFails
<1>13. CASE SkipTarget
  <2>1. /\ pending # <<>> /\ Exhausted(wr, Op.dst) /\ wr' = NextExtent(wr)
        /\ UNCHANGED <<job, phase, cur, rd, pending, broken, made, moved, result>>
    BY <1>13 DEF SkipTarget, Writing
  <2>2. phase \in {"copy", "patched"} /\ cur <= Len(job.ops)
    BY <2>1 DEF Working, TypeInv
  <2>3. Op.dst \in Seq(AnyExtent) /\ ValidExtents(Op.dst) /\ CursorAt(Op.dst, wr, moved) /\ wr \in Cursor
    BY <2>2, AtWork DEF Counted, Placed, TypeInv
  <2>4. CursorAt(Op.dst, NextExtent(wr), moved)
    BY <2>1, <2>3, SkipKeepsCursor
  <2> QED BY <2>1, <2>2, <2>4 DEF Placed
<1>14. CASE WriteChunk
  <2> DEFINE n == Room(wr, Op.dst, Len(pending))
  <2>1. CanWrite /\ wr' = Moved(wr, n) /\ moved' = moved + n
        /\ pending' = SubSeq(pending, n + 1, Len(pending))
        /\ UNCHANGED <<job, phase, gaps, cur, rd, broken, made, want, result>>
    BY <1>14 DEF WriteChunk, Put
  <2>2. /\ phase \in {"copy", "patched"} /\ result = "running"
        /\ Op.dst \in Seq(AnyExtent) /\ ValidExtents(Op.dst) /\ wr \in Cursor
        /\ ~ AtEnd(wr, Op.dst) /\ ~ Exhausted(wr, Op.dst) /\ CursorAt(Op.dst, wr, moved)
        /\ moved \in Nat /\ Len(pending) \in Nat /\ pending \in Seq(Byte) /\ n \in 0 .. Len(pending)
    BY <2>1, WriteFacts
  <2>3. n \in Nat /\ n \in 0 .. n
    BY <2>2
  <2>4. CursorAt(Op.dst, Moved(wr, n), moved + n)
    BY <2>2, <2>3, MoveKeepsCursor
  <2> HIDE DEF n
  <2>5. /\ Len(pending') = Len(pending) - n
        /\ \A k \in 1 .. Len(pending) - n : pending'[k] = pending[n + k]
    BY <2>1, <2>2, TailFacts
  <2>6. ASSUME NEW k \in 1 .. Len(pending') PROVE pending'[k] = StreamByte(Op, cur, moved' + k)
    <3>1. k \in 1 .. Len(pending) - n /\ n + k \in 1 .. Len(pending) /\ moved + (n + k) = moved' + k
      BY <2>1, <2>2, <2>3, <2>5
    <3>2. pending[n + k] = StreamByte(Op, cur, moved + (n + k))
      BY <2>2, <3>1 DEF Placed
    <3> QED BY <2>5, <3>1, <3>2
  <2> QED BY <2>1, <2>2, <2>4, <2>6 DEF Placed
<1>15. CASE WriteFails
  <2> DEFINE r == Room(wr, Op.dst, Len(pending))
  <2>1. PICK n \in 0 .. r - 1 : Put(n)
    BY <1>15 DEF WriteFails
  <2>2. /\ CanWrite /\ wr' = Moved(wr, n) /\ moved' = moved + n /\ result' = "error"
        /\ UNCHANGED <<job, phase, gaps, cur, rd, pending, broken, made, want>>
    BY <1>15, <2>1 DEF WriteFails, Put
  <2>3. /\ phase \in {"copy", "patched"}
        /\ Op.dst \in Seq(AnyExtent) /\ ValidExtents(Op.dst) /\ wr \in Cursor
        /\ ~ AtEnd(wr, Op.dst) /\ ~ Exhausted(wr, Op.dst) /\ CursorAt(Op.dst, wr, moved)
        /\ Len(pending) \in Nat /\ r \in 0 .. Len(pending)
    BY <2>2, WriteFacts
  <2>4. n \in 0 .. r
    <3> HIDE DEF r
    <3> QED BY <2>1, <2>3
  <2>5. CursorAt(Op.dst, Moved(wr, n), moved + n)
    BY <2>3, <2>4, MoveKeepsCursor
  <2> QED BY <2>2, <2>3, <2>5 DEF Placed
<1>16. CASE EndReplace \/ EndZero \/ EndCopy \/ EndBsdiff
  BY <1>3, <1>4, <1>16 DEF EndReplace, EndZero, EndCopy, EndBsdiff
<1>17. CASE Patch
  <2>1. phase = "load" /\ cur <= Len(job.ops) /\ Op.kind = "bsdiff" /\ wr = Start /\ moved = 0
    BY <1>17 DEF Patch, At, Working, Counted, Placed
  <2>2. CASE Fail \/ Panic
    BY <1>3, <2>2
  <2>3. CASE /\ pending' = [k \in 1 .. Op.yields |-> <<"data", cur, k>>] /\ phase' = "patched"
             /\ UNCHANGED <<job, gaps, cur, rd, wr, broken, made, moved, want, image, result>>
    <3>1. Op.yields \in Nat /\ Op.dst \in Seq(AnyExtent)
      BY <2>1, AtWork
    <3>2. Len(pending') = Op.yields
      BY <2>3, <3>1, DecodedFacts
    <3>3. ASSUME NEW k \in 1 .. Len(pending') PROVE pending'[k] = StreamByte(Op, cur, moved + k)
      <4>1. k \in 1 .. Op.yields /\ moved + k = k
        BY <2>1, <3>1, <3>2
      <4> QED BY <2>1, <2>3, <4>1 DEF StreamByte
    <3>4. CursorAt(Op.dst, wr, moved)
      BY <2>1, <3>1, StartsAtNothing
    <3> QED BY <2>3, <3>3, <3>4 DEF Placed
  <2> QED BY <1>17, <2>2, <2>3 DEF Patch
<1>18. CASE AllDone
  <2>1. UNCHANGED <<job, phase, cur, rd, wr, pending, broken, made, moved>> /\ phase = "begin"
    BY <1>18 DEF AllDone, At, opVars
  <2> QED BY <2>1 DEF Placed
<1>19. CASE UNCHANGED vars
  BY <1>19 DEF vars, opVars, Placed
<1> QED BY <1>2, <1>6, <1>7, <1>8, <1>9, <1>10, <1>11, <1>12, <1>13, <1>14, <1>15, <1>16,
           <1>17, <1>18, <1>19 DEF Next

\* When all gaps are copied, exactly the untouched bytes of the source are there.
LEMMA FallenImage ==
  ASSUME TypeInv, Falling, phase = "gaps", gaps = <<>>, ValidExtents(AllDst), SizeFits,
         NEW o \in OutOffsets
  PROVE  image[o] = Fallen(job, o)
<1>1. o \in Nat /\ job.newSize \in Nat /\ job.srcSize \in Nat
  <2>1. job.newSize \in 0 .. MaxInt /\ job.srcSize \in 0 .. MaxInt
    BY JobFacts DEF TypeInv
  <2> QED BY <2>1, OffsetFacts, ExtentsAssumption
<1>2. o < Smaller(job.newSize, job.srcSize) <=> o < job.newSize /\ o < job.srcSize
  BY <1>1 DEF Smaller
<1>3. Untouched(o) <=> \A x \in DOMAIN DstOf(job) : ~ Within(o, DstOf(job)[x])
  BY DEF Untouched, AllDst, DstOf
<1>4. job.hasSrc /\ Fallthrough /\ GapsLeft
  BY DEF Falling
<1>5. ~ InGap(gaps, o \div BlockSize)
  BY DEF InGap
<1>6. image[o] = Hole \/ (image[o] = <<"src", o>> /\ o < job.newSize /\ o < job.srcSize /\ Untouched(o))
  BY <1>4 DEF Fallthrough
<1>7. o < job.newSize /\ o < job.srcSize /\ Untouched(o) => image[o] # Hole
  BY <1>4, <1>5 DEF GapsLeft
<1> QED BY <1>2, <1>3, <1>4, <1>6, <1>7 DEF Fallen

LEMMA ImageStep ==
  ASSUME TypeInv, Working, Counted, Placed, Falling, ImageIsAsOrdered, [Next]_vars
  PROVE  ImageIsAsOrdered'
<1>1. job' = job
  BY DEF Next, vars, opVars, FindGaps, CopyGap, CopyGapFails, GapsCopied,
     BeginReplace, BeginZero, BeginCopy, BeginBsdiff, Stream, SkipSource, ReadSource,
     LoadSource, Decode, ReadFails, Broken, WritePast, SkipTarget, WriteChunk, WriteFails,
     EndReplace, EndZero, EndCopy, Patch, PatchFails, EndBsdiff, AllDone, Fail, Panic, Finish
<1>2. AllDst' = AllDst /\ SizeFits' = SizeFits
  BY <1>1, AllDstKept
<1> SUFFICES ASSUME phase' \notin {"find", "gaps"}, ValidExtents(AllDst), SizeFits,
                    \A i \in DOMAIN job.ops : Exact(job.ops[i]), NEW o \in OutOffsets
             PROVE  image'[o] = OrderedBy(job, cur', moved', o)
  <2>1. \A o : Ordered(o)' = OrderedBy(job, cur', moved', o)
    BY <1>1, OrderedIs
  <2> QED BY <1>1, <1>2, <2>1 DEF ImageIsAsOrdered
<1>3. o \in Nat /\ job \in JobType
  BY OffsetFacts, JobFacts DEF TypeInv
<1>4. CASE phase \in {"find", "gaps"}
  <2>1. pending = <<>> /\ cur = 1 /\ moved = 0
    BY <1>4 DEF Falling, Counted
  <2>2. GapsCopied
    <3>1. ~ UNCHANGED phase /\ ~ Fail /\ ~ Panic
      BY <1>4 DEF Fail, Panic
    <3>2. phase \notin {"begin", "copy", "load", "patched"} /\ ~ Writing
      BY <1>4, <2>1 DEF Writing
    <3> QED BY <3>1, <3>2 DEF Next, vars, FindGaps, CopyGap, CopyGapFails, AtOp, At,
       BeginReplace, BeginZero, BeginCopy, BeginBsdiff, Reading, SkipSource, ReadSource,
       LoadSource, Decode, ReadFails, Broken, WritePast, SkipTarget, WriteChunk, WriteFails, CanWrite,
       EndReplace, EndZero, EndCopy, Patch, PatchFails, EndBsdiff, AllDone
  <2>3. phase = "gaps" /\ gaps = <<>> /\ image' = image /\ cur' = 1 /\ moved' = 0
    BY <2>1, <2>2 DEF GapsCopied, At, opVars
  <2> QED BY <1>3, <2>3, FallenImage, StartOrdered
<1>5. CASE phase \notin {"find", "gaps"}
  <2>1. image[o] = OrderedBy(job, cur, moved, o)
    BY <1>5, OrderedIs DEF ImageIsAsOrdered
  <2>2. CASE UNCHANGED <<cur, moved, image>>
    BY <2>1, <2>2
  <2>3. ASSUME CanWrite, NEW n \in 0 .. Room(wr, Op.dst, Len(pending)), Put(n), cur' = cur
        PROVE  image'[o] = OrderedBy(job, cur', moved', o)
    <3> DEFINE k == o - Offset(wr, Op.dst) + 1
    <3>1. image'[o] = IF k \in 1 .. n THEN pending[k] ELSE image[o]
      BY <2>3 DEF Put
    <3>2. OrderedBy(job, cur, moved + n, o) = IF k \in 1 .. n THEN pending[k] ELSE OrderedBy(job, cur, moved, o)
      BY <1>3, <2>3, PutOrdered
    <3>3. moved' = moved + n
      BY <2>3 DEF Put
    <3> HIDE DEF k
    <3> QED BY <2>1, <2>3, <3>1, <3>2, <3>3
  <2>4. CASE WriteChunk
    <3> DEFINE r == Room(wr, Op.dst, Len(pending))
    <3>1. CanWrite /\ Put(r) /\ cur' = cur
      BY <2>4 DEF WriteChunk
    <3>2. r \in 0 .. Len(pending)
      BY <3>1, WriteFacts
    <3>3. r \in 0 .. r
      <4> HIDE DEF r
      <4>1. Len(pending) \in Nat
        BY DEF TypeInv
      <4> QED BY <3>2, <4>1
    <3> QED BY <2>3, <3>1, <3>3
  <2>5. CASE WriteFails
    <3> DEFINE r == Room(wr, Op.dst, Len(pending))
    <3>1. CanWrite /\ cur' = cur
      BY <2>5 DEF WriteFails
    <3>2. PICK n \in 0 .. r - 1 : Put(n)
      BY <2>5 DEF WriteFails
    <3>3. n \in 0 .. r
      <4>1. r \in 0 .. Len(pending) /\ Len(pending) \in Nat
        BY <3>1, WriteFacts
      <4> HIDE DEF r
      <4> QED BY <3>2, <4>1
    <3> QED BY <2>3, <3>1, <3>2, <3>3
  <2>6. ASSUME Finish, Idle, result = "running",
               \/ EndReplace /\ moved = want
               \/ EndZero
               \/ EndCopy /\ moved = want
               \/ EndBsdiff
        PROVE  image'[o] = OrderedBy(job, cur', moved', o)
    <3>1. cur <= Len(job.ops)
      BY <2>6 DEF EndReplace, EndZero, EndCopy, EndBsdiff, At, Working
    <3>2. Exact(Op)
      <4>1. cur \in 1 .. Len(job.ops)
        BY <3>1, AtWork
      <4>2. DOMAIN job.ops = 1 .. Len(job.ops)
        BY <1>3 DEF JobType
      <4> QED BY <4>1, <4>2 DEF Op
    <3>3. moved = IF Op.kind = "bsdiff" THEN Op.yields ELSE Span(Op.dst)
      BY <2>6, <3>1, <3>2, WrittenAtEnd
    <3>4. OrderedBy(job, cur + 1, 0, o) = OrderedBy(job, cur, moved, o)
      BY <1>3, <3>1, <3>3, FinishOrdered
    <3>5. cur' = cur + 1 /\ moved' = 0 /\ image' = image
      BY <2>6 DEF Finish, Fresh
    <3> QED BY <2>1, <3>4, <3>5
  <2>7. Fail \/ Panic => UNCHANGED <<cur, moved, image>>
    BY DEF Fail, Panic, opVars
  <2>8. CASE EndReplace \/ EndZero \/ EndCopy \/ EndBsdiff
    <3>1. Idle /\ result = "running"
      BY <2>8 DEF EndReplace, EndZero, EndCopy, EndBsdiff, At
    <3> QED BY <2>2, <2>6, <2>7, <2>8, <3>1 DEF EndReplace, EndZero, EndCopy, EndBsdiff
  <2>9. CASE BeginReplace \/ BeginZero \/ BeginCopy \/ BeginBsdiff \/ AllDone \/ Patch \/ UNCHANGED vars
    BY <2>2, <2>7, <2>9 DEF BeginReplace, BeginZero, BeginCopy, BeginBsdiff, Stream, AllDone, Patch, vars, opVars
  <2>10. CASE \/ SkipSource \/ ReadSource \/ LoadSource \/ Decode \/ ReadFails \/ Broken \/ WritePast
              \/ SkipTarget \/ PatchFails
    BY <2>2, <2>7, <2>10 DEF SkipSource, ReadSource, LoadSource, Decode, ReadFails, Broken, WritePast,
       SkipTarget, PatchFails
  <2>11. ~ (FindGaps \/ CopyGap \/ CopyGapFails \/ GapsCopied)
    BY <1>5 DEF FindGaps, CopyGap, CopyGapFails, GapsCopied, At
  <2> QED BY <2>4, <2>5, <2>8, <2>9, <2>10, <2>11 DEF Next
<1> QED BY <1>4, <1>5

\* At every moment, whatever the chunks, each byte of the image is the byte of the
\* stream that the extents place there last, or the source byte at the same offset
\* where no operation ever writes, or untouched: the two cursors and the sweep of
\* uncoveredRanges put every byte in its place and none elsewhere.
THEOREM ImageOrdered == Spec => []ImageIsAsOrdered
<1> DEFINE Inv == Placed /\ Falling /\ ImageIsAsOrdered
<1>1. Init => Inv
  <2> SUFFICES ASSUME Init PROVE Inv
    OBVIOUS
  <2>1. TypeInv /\ job \in JobType
    BY TypeInit, JobFacts DEF TypeInv
  <2>2. Placed
    BY DEF Init, Placed
  <2>3. Falling
    <3>1. /\ \A o \in OutOffsets : image[o] = Hole
          /\ phase = "find" => job.hasSrc
          /\ phase # "gaps" /\ pending = <<>> /\ cur = 1
      BY DEF Init
    <3> QED BY <3>1 DEF Falling, Fallthrough
  <2>4. ImageIsAsOrdered
    <3> SUFFICES ASSUME phase \notin {"find", "gaps"}, NEW o \in OutOffsets
                 PROVE  image[o] = Ordered(o)
      BY DEF ImageIsAsOrdered
    <3>1. o \in Nat /\ job.newSize \in Nat /\ job.srcSize \in Nat
      <4>1. job.newSize \in 0 .. MaxInt /\ job.srcSize \in 0 .. MaxInt
        BY <2>1 DEF JobType
      <4> QED BY <4>1, OffsetFacts, ExtentsAssumption
    <3>2. ~ (job.hasSrc /\ job.newSize > 0) /\ cur = 1 /\ moved = 0 /\ image[o] = Hole
      BY DEF Init
    <3>3. ~ (job.hasSrc /\ o < Smaller(job.newSize, job.srcSize))
      BY <3>1, <3>2 DEF Smaller
    <3>4. Ordered(o) = Fallen(job, o)
      BY <2>1, <3>1, <3>2, OrderedIs, StartOrdered
    <3> QED BY <3>2, <3>3, <3>4 DEF Fallen
  <2> QED BY <2>2, <2>3, <2>4
<1>2. OpsInv /\ Inv /\ [Next]_vars => Inv'
  BY PlacedStep, FallingStep, ImageStep DEF OpsInv
<1> QED BY <1>1, <1>2, OpsInvariant, PTL DEF Spec
================================================================================
