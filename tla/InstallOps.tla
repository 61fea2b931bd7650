------------------------------ MODULE InstallOps ------------------------------
(***************************************************************************)
(* The blocks of one partition: copySourceFallthrough (payload/extract.go) *)
(* and the install operations (payload/operation.go), streaming through    *)
(* extentsReader and extentsWriter (module Extents) in chunks of any size. *)
(*                                                                         *)
(* A byte is known by where it comes from: <<"src", o>> is byte o of the   *)
(* source image, <<"data", i, k>> the k-th byte that operation i makes of  *)
(* its blob (decompressed or patched), Zero a zero, Hole never written.    *)
(* Module Extract has what is around this: files, goroutines, the context. *)
(***************************************************************************)
EXTENDS Integers, Sequences, FiniteSetsExt, Extents

CONSTANTS
  Jobs,       \* partitions considered
  Buffer,     \* bytes io.Copy moves at a time
  MaxInMemory,\* maxInMemoryOpBytes
  Faults      \* whether I/O operations may fail

OpType ==
  [kind : {"replace", "zero", "copy", "bsdiff"}, src : Seq(AnyExtent), dst : Seq(AnyExtent),
   srcHash : {"right", "wrong"}, dataHash : {"right", "wrong"},
   yields : Nat,    \* bytes the decoder or the patch makes
   length : Word]   \* of the blob

JobType ==
  [ops : Seq(OpType), hasSrc : BOOLEAN, srcSize : 0 .. MaxInt, newSize : 0 .. MaxInt,
   skipVerify : BOOLEAN]

ASSUME InstallOpsAssumption ==
  Jobs \subseteq JobType /\ Buffer \in Nat \ {0} /\ MaxInMemory \in Nat /\ Faults \in BOOLEAN

VARIABLES
  job,      \* the partition at work
  phase,    \* where runOp is
  gaps,     \* gaps still to copy from the source
  cur,      \* operation at work
  rd, wr,   \* cursors of its reader and writer
  pending,  \* bytes read and not written yet
  broken,   \* the reader has failed; pending is still written
  made,     \* bytes taken from the decoder, from zeroReader or from the source
  moved,    \* bytes written by the operation
  want,     \* the length it computed for its destination
  image,    \* origin of each byte of the output file
  result    \* "running", "ok", "error" or "panic"

opVars == <<rd, wr, pending, broken, made, moved, want>>
vars == <<job, phase, gaps, cur, opVars, image, result>>

Zero == <<"zero">>
Hole == <<"hole">>

Op == job.ops[cur]

Size(extents) == Bytes(TotalBlocks(extents))

Smaller(a, b) == IF a < b THEN a ELSE b

OutOffsets == 0 .. MaxInt

Fresh ==
  /\ rd' = Start /\ wr' = Start /\ pending' = <<>> /\ broken' = FALSE
  /\ made' = 0 /\ moved' = 0 /\ want' = 0

At(label) == result = "running" /\ phase = label

Fail == result' = "error" /\ UNCHANGED <<job, phase, gaps, cur, opVars, image>>

Panic == result' = "panic" /\ UNCHANGED <<job, phase, gaps, cur, opVars, image>>

\* The operation returned nil; runOp goes to the next one.
Finish ==
  /\ phase' = "begin" /\ cur' = cur + 1 /\ Fresh
  /\ UNCHANGED <<job, gaps, image, result>>

Init ==
  /\ job \in Jobs
  /\ phase = IF job.hasSrc /\ job.newSize > 0 THEN "find" ELSE "begin"
  /\ gaps = <<>> /\ cur = 1
  /\ rd = Start /\ wr = Start /\ pending = <<>> /\ broken = FALSE
  /\ made = 0 /\ moved = 0 /\ want = 0
  /\ image = [o \in OutOffsets |-> Hole]
  /\ result = "running"

--------------------------------------------------------------------------------
(* copySourceFallthrough                                                    *)

\* The destination extents of all operations.
AllDst ==
  [x \in UNION {{j} \X DOMAIN job.ops[j].dst : j \in DOMAIN job.ops} |->
     job.ops[x[1]].dst[x[2]]]

FindGaps ==
  /\ At("find")
  /\ gaps' \in UncoveredRanges(AllDst, (job.newSize + BlockSize - 1) \div BlockSize)
  /\ phase' = "gaps"
  /\ UNCHANGED <<job, cur, opVars, image, result>>

GapStart == Bytes(Head(gaps).start)

\* Mutant of GapEnd: not clamped to the new size.
GapEndUnclamped == Smaller(Bytes(Head(gaps).end), job.srcSize)

GapEnd == Smaller(Smaller(Bytes(Head(gaps).end), job.newSize), job.srcSize)

FromSource(first, end) ==
  [o \in OutOffsets |-> IF first <= o /\ o < end THEN <<"src", o>> ELSE image[o]]

CopyGap ==
  /\ At("gaps") /\ gaps # <<>>
  /\ image' = FromSource(GapStart, GapEnd)
  /\ gaps' = Tail(gaps)
  /\ UNCHANGED <<job, phase, cur, opVars, result>>

CopyGapFails ==
  /\ Faults
  /\ At("gaps") /\ gaps # <<>> /\ GapStart < job.srcSize
  /\ \E end \in GapStart .. GapEnd : image' = FromSource(GapStart, end)
  /\ result' = "error"
  /\ UNCHANGED <<job, phase, gaps, cur, opVars>>

GapsCopied ==
  /\ At("gaps") /\ gaps = <<>>
  /\ phase' = "begin"
  /\ UNCHANGED <<job, gaps, cur, opVars, image, result>>

--------------------------------------------------------------------------------
(* What an operation checks before it streams                               *)

AtOp(kind) == At("begin") /\ cur <= Len(job.ops) /\ Op.kind = kind

Stream(label) ==
  /\ phase' = label /\ want' = Size(Op.dst)
  /\ UNCHANGED <<job, gaps, cur, rd, wr, pending, broken, made, moved, image, result>>

BeginReplace ==
  /\ AtOp("replace")
  /\ IF Op.dst # <<>> /\ ValidExtents(Op.dst) THEN Stream("copy") ELSE Fail

BeginZero ==
  /\ AtOp("zero")
  /\ IF Op.dst # <<>> /\ ValidExtents(Op.dst) THEN Stream("copy") ELSE Fail

CopyAccepted ==
  /\ job.hasSrc
  /\ Op.src # <<>> /\ Op.dst # <<>>
  /\ Size(Op.src) = Size(Op.dst)
  /\ ValidExtents(Op.src) /\ ValidExtents(Op.dst)

BeginCopy == AtOp("copy") /\ IF CopyAccepted THEN Stream("copy") ELSE Fail

BsdiffAccepted ==
  /\ job.hasSrc
  /\ Op.src # <<>> /\ Op.dst # <<>>
  /\ Size(Op.src) <= MaxInMemory
  /\ ValidExtents(Op.src)

\* make([]byte, srcBytes) panics when the sum of valid extents has wrapped.
BeginBsdiff ==
  /\ AtOp("bsdiff")
  /\ IF ~ BsdiffAccepted THEN Fail
     ELSE IF Size(Op.src) < 0
     THEN Panic
     ELSE Stream("load")

--------------------------------------------------------------------------------
(* Reading                                                                  *)

\* io.Copy and io.ReadFull call Read until it ends, fails or has filled the buffer.
Reading ==
  /\ pending = <<>> /\ ~ broken
  /\ At("copy") \/ (At("load") /\ made < Size(Op.src))

\* extentsReader.Read skips what is exhausted.
SkipSource ==
  /\ Reading
  /\ Op.kind \in {"copy", "bsdiff"} /\ Exhausted(rd, Op.src)
  /\ rd' = NextExtent(rd)
  /\ UNCHANGED <<job, phase, gaps, cur, wr, pending, broken, made, moved, want, image, result>>

SourceReady ==
  /\ Op.kind \in {"copy", "bsdiff"}
  /\ ~ AtEnd(rd, Op.src) /\ ~ Exhausted(rd, Op.src)

Available(n) ==
  LET left == job.srcSize - Offset(rd, Op.src)
  IN  IF left < 0 THEN 0 ELSE Smaller(left, Room(rd, Op.src, n))

Got(n) == [k \in 1 .. n |-> <<"src", Offset(rd, Op.src) + k - 1>>]

\* io.EOF with some bytes is no error; with none it means the source is short.
ReadSource ==
  /\ Reading /\ At("copy")
  /\ SourceReady
  /\ LET n == Available(Buffer) IN
     IF n = 0 THEN Fail
     ELSE /\ pending' = Got(n) /\ rd' = Moved(rd, n) /\ made' = made + n
          /\ UNCHANGED <<job, phase, gaps, cur, wr, broken, moved, want, image, result>>

\* io.ReadFull(r, srcData): made counts the bytes of srcData that are filled. The
\* extents hold at least Size(Op.src) bytes, so they never end too early.
LoadSource ==
  /\ Reading /\ At("load")
  /\ SourceReady
  /\ LET n == Available(Size(Op.src) - made) IN
     IF n = 0 THEN Fail
     ELSE /\ rd' = Moved(rd, n) /\ made' = made + n
          /\ UNCHANGED <<job, phase, gaps, cur, wr, pending, broken, moved, want, image, result>>

\* What the decoder may hand out next, however little of the buffer it fills.
Decoded(n) == [k \in 1 .. n |-> <<"data", cur, made + k>>]

Decode ==
  /\ Reading /\ At("copy")
  /\ \E n \in 1 .. Buffer :
       /\ made' = made + n
       /\ \/ Op.kind = "replace" /\ n <= Op.yields - made /\ pending' = Decoded(n)
          \/ Op.kind = "zero" /\ n = Smaller(Buffer, want - made) /\ pending' = [k \in 1 .. n |-> Zero]
  /\ UNCHANGED <<job, phase, gaps, cur, rd, wr, broken, moved, want, image, result>>

\* A read or the decoder fails; bytes that came with the error are written.
ReadFails ==
  /\ Faults
  /\ Reading /\ (Op.kind = "replace" \/ SourceReady)
  /\ broken' = TRUE
  /\ \E n \in 0 .. Buffer :
       /\ made' = made + n
       /\ \/ Op.kind = "replace" /\ n <= Op.yields - made /\ pending' = Decoded(n)
          \/ Op.kind = "copy" /\ n <= Available(Buffer) /\ pending' = Got(n)
          \/ Op.kind = "bsdiff" /\ n = 0 /\ pending' = <<>>
  /\ UNCHANGED <<job, phase, gaps, cur, rd, wr, moved, want, image, result>>

Broken == result = "running" /\ broken /\ pending = <<>> /\ Fail

--------------------------------------------------------------------------------
(* Writing: one iteration of the loop of extentsWriter.Write each           *)

Writing == result = "running" /\ pending # <<>>

WritePast == Writing /\ AtEnd(wr, Op.dst) /\ Fail

SkipTarget ==
  /\ Writing /\ Exhausted(wr, Op.dst)
  /\ wr' = NextExtent(wr)
  /\ UNCHANGED <<job, phase, gaps, cur, rd, pending, broken, made, moved, want, image, result>>

Put(n) ==
  /\ image' = [o \in OutOffsets |->
                 LET k == o - Offset(wr, Op.dst) + 1
                 IN  IF k \in 1 .. n THEN pending[k] ELSE image[o]]
  /\ wr' = Moved(wr, n) /\ moved' = moved + n

CanWrite == Writing /\ ~ AtEnd(wr, Op.dst) /\ ~ Exhausted(wr, Op.dst)

WriteChunk ==
  /\ CanWrite
  /\ LET n == Room(wr, Op.dst, Len(pending))
     IN  Put(n) /\ pending' = SubSeq(pending, n + 1, Len(pending))
  /\ UNCHANGED <<job, phase, gaps, cur, rd, broken, made, want, result>>

WriteFails ==
  /\ Faults /\ CanWrite
  /\ \E n \in 0 .. Room(wr, Op.dst, Len(pending)) - 1 : Put(n)
  /\ result' = "error"
  /\ UNCHANGED <<job, phase, gaps, cur, rd, pending, broken, made, want>>

--------------------------------------------------------------------------------
(* What it checks afterwards                                                *)

BlobRejected == Op.dataHash = "wrong"

SourceRejected == Op.srcHash = "wrong" /\ ~ job.skipVerify

Idle == pending = <<>> /\ ~ broken

\* Mutant of EndReplace: the number of bytes written is not compared.
EndReplaceUnchecked ==
  /\ At("copy") /\ Idle /\ Op.kind = "replace" /\ made = Op.yields
  /\ IF ~ BlobRejected THEN Finish ELSE Fail

EndReplace ==
  /\ At("copy") /\ Idle /\ Op.kind = "replace" /\ made = Op.yields
  /\ IF moved = want /\ ~ BlobRejected THEN Finish ELSE Fail

\* io.CopyN with a negative length, after an overflow, copies nothing and is content.
EndZero == At("copy") /\ Idle /\ Op.kind = "zero" /\ made >= want /\ Finish

EndCopy ==
  /\ At("copy") /\ Idle /\ Op.kind = "copy" /\ AtEnd(rd, Op.src)
  /\ IF moved = want /\ ~ SourceRejected THEN Finish ELSE Fail

\* Mutant of Patch: the patch is applied before the blob is verified.
PatchUnverified ==
  /\ At("load") /\ ~ broken /\ made = Size(Op.src)
  /\ IF SourceRejected \/ Op.yields > want \/ ~ ValidExtents(Op.dst)
     THEN Fail
     ELSE /\ pending' = [k \in 1 .. Op.yields |-> <<"data", cur, k>>] /\ phase' = "patched"
          /\ UNCHANGED <<job, gaps, cur, rd, wr, broken, made, moved, want, image, result>>

\* The source is verified, then the blob is read (readBlob allocates a length that
\* may have wrapped) and verified; the patch makes at most want bytes.
Patch ==
  /\ At("load") /\ ~ broken /\ made = Size(Op.src)
  /\ IF ~ SourceRejected /\ Int64(Op.length) < 0 THEN Panic
     ELSE IF SourceRejected \/ Int64(Op.length) > MaxInMemory \/ BlobRejected
             \/ Op.yields > want \/ ~ ValidExtents(Op.dst)
     THEN Fail
     ELSE /\ pending' = [k \in 1 .. Op.yields |-> <<"data", cur, k>>] /\ phase' = "patched"
          /\ UNCHANGED <<job, gaps, cur, rd, wr, broken, made, moved, want, image, result>>

PatchFails == Faults /\ At("load") /\ ~ broken /\ made = Size(Op.src) /\ Fail

EndBsdiff == At("patched") /\ Idle /\ Finish

AllDone ==
  /\ At("begin") /\ cur > Len(job.ops)
  /\ result' = "ok" /\ UNCHANGED <<job, phase, gaps, cur, opVars, image>>

Next ==
  \/ FindGaps \/ CopyGap \/ CopyGapFails \/ GapsCopied
  \/ BeginReplace \/ BeginZero \/ BeginCopy \/ BeginBsdiff
  \/ SkipSource \/ ReadSource \/ LoadSource \/ Decode \/ ReadFails \/ Broken
  \/ WritePast \/ SkipTarget \/ WriteChunk \/ WriteFails
  \/ EndReplace \/ EndZero \/ EndCopy \/ Patch \/ PatchFails \/ EndBsdiff
  \/ AllDone

Spec == Init /\ [][Next]_vars /\ WF_vars(Next)

--------------------------------------------------------------------------------
(* What the image is to be, from the extents alone                          *)

\* Bytes before the i-th extent.
Before(extents, i) == Blocks(extents)[i - 1] * BlockSize

Span(extents) == Before(extents, Len(extents) + 1)

Within(o, e) == e.start * BlockSize <= o /\ o < (e.start + e.num) * BlockSize

\* The positions in the stream of an operation that land on offset o.
Hits(extents, o) ==
  {Before(extents, i) + o - extents[i].start * BlockSize + 1 :
     i \in {j \in DOMAIN extents : Within(o, extents[j])}}

\* The offset of the k-th byte of a list of extents.
ByteAt(extents, k) ==
  LET i == CHOOSE j \in DOMAIN extents :
             Before(extents, j) < k /\ k <= Before(extents, j + 1)
  IN  extents[i].start * BlockSize + k - 1 - Before(extents, i)

Streamed(j, k) ==
  CASE job.ops[j].kind = "zero" -> Zero
    [] job.ops[j].kind = "copy" -> <<"src", ByteAt(job.ops[j].src, k)>>
    [] OTHER -> <<"data", j, k>>

\* How many bytes operation j has written; a patch may make fewer than it could.
Progress(j) ==
  IF j = cur THEN moved
  ELSE IF job.ops[j].kind = "bsdiff" THEN job.ops[j].yields
  ELSE Span(job.ops[j].dst)

Untouched(o) == \A x \in DOMAIN AllDst : ~ Within(o, AllDst[x])

\* The last byte written to an offset, or the gap it lies in, or nothing.
Ordered(o) ==
  LET Wrote(j) == {k \in Hits(job.ops[j].dst, o) : k <= Progress(j)}
      writers == {j \in 1 .. Smaller(cur, Len(job.ops)) : Wrote(j) # {}}
  IN  IF writers # {} THEN Streamed(Max(writers), Max(Wrote(Max(writers))))
      ELSE IF job.hasSrc /\ o < Smaller(job.newSize, job.srcSize) /\ Untouched(o)
      THEN <<"src", o>>
      ELSE Hole

\* Spans fit in an int64, and so does the size rounded up to blocks, as those of
\* every real image do.
Exact(op) == Span(op.src) <= MaxInt /\ Span(op.dst) <= MaxInt

SizeFits == job.newSize + BlockSize - 1 <= MaxInt

--------------------------------------------------------------------------------
(* Properties                                                               *)

\* At every moment, whatever the chunks, each byte of the image is the byte of
\* the stream that the extents place there last, or the source byte at the same
\* offset where no operation ever writes, or untouched: the two cursors and the
\* sweep of uncoveredRanges put every byte in its place and none elsewhere.
ImageIsAsOrdered ==
  (/\ phase \notin {"find", "gaps"} /\ ValidExtents(AllDst) /\ SizeFits
   /\ \A i \in DOMAIN job.ops : Exact(job.ops[i]))
    => \A o \in OutOffsets : image[o] = Ordered(o)

\* While gaps are copied, from extents nothing has validated and whose ends may
\* have wrapped, a byte comes from the same offset of the source and lies inside
\* the new image; with valid extents it is not one an operation writes.
GapsStayInTheImage ==
  phase \in {"find", "gaps"} =>
    \A o \in OutOffsets : image[o] # Hole =>
      /\ image[o] = <<"src", o>>
      /\ o < job.newSize /\ o < job.srcSize
      /\ ValidExtents(AllDst) => Untouched(o)

\* No operation is passed with data or a source it was to refuse, and a patch
\* writes nothing before source and blob have been accepted (operation.go:192-199).
HashesGuardTheImage ==
  \A j \in 1 .. Smaller(cur, Len(job.ops)) :
    LET op == job.ops[j]
        rejected == (op.kind \in {"replace", "bsdiff"} /\ op.dataHash = "wrong")
                    \/ (op.kind \in {"copy", "bsdiff"} /\ op.srcHash = "wrong" /\ ~ job.skipVerify)
    IN  rejected => j = cur /\ result # "ok" /\ (op.kind = "bsdiff" => moved = 0)

\* Success means that every operation had destinations it could write to, filled
\* them (a patch: its own length) and, when it copies, read as much as it wrote.
SuccessFillsDestinations ==
  result = "ok" => \A j \in DOMAIN job.ops :
    LET op == job.ops[j] IN
    /\ op.dst # <<>> /\ ValidExtents(op.dst)
    /\ Exact(op) => /\ op.kind = "replace" => op.yields = Span(op.dst)
                    /\ op.kind = "copy" => Span(op.src) = Span(op.dst)
                    /\ op.kind = "bsdiff" => op.yields <= Span(op.dst)

\* The code refuses a source span that is too large to buffer (operation.go:185)
\* with an error, so no span makes the operation panic.
SpansTooLargeAreRefused == result # "panic"

\* Streams end: an empty extent, a short read or a decoder that hands out single
\* bytes never keeps an operation from finishing.
Terminates == <>(result # "running")
================================================================================
