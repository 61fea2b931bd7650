-------------------------------- MODULE Extract --------------------------------
(***************************************************************************)
(* Payload.Extract (payload/extract.go): the checks made before anything   *)
(* is written, the errgroup that extracts the selected partitions under a  *)
(* concurrency limit, the life of one partition from its first progress    *)
(* event to the removal of a failed output, and what is left on disk when  *)
(* Extract returns, is interrupted, or is killed and run again.            *)
(*                                                                         *)
(* The dm-verity FEC of a partition is one call of ParityGen, the promise  *)
(* fec.Generate keeps (module FecPool shows that it does).                 *)
(*                                                                         *)
(* Abstracted: the bytes of a file.  Its content is the set of regions that *)
(* hold what some image has there: <<k, r, i>> is a region of the new image *)
(* of entry k of the manifest, or, with r = "old", of the image it is made  *)
(* from.  A file that has all regions of an image begins with that image;   *)
(* what follows it, in a file that is longer, is not told.                  *)
(*                                                                         *)
(* Nothing makes the names of the entries different: entries of one name    *)
(* are extracted to one path.                                              *)
(***************************************************************************)
EXTENDS Integers, Sequences, FiniteSets

CONSTANTS
  Manifest,     \* the partitions of the payload, a sequence of records
  Names,        \* partition names a user may know, in the manifest or not
  MaxTasks,     \* bound: the longest selection
  OptionSet,    \* the ExtractOptions considered
  Disks,        \* what the disk may hold: functions from some Paths to contents
  Concurrency,  \* opts.Concurrency
  NumCPU,       \* runtime.NumCPU()
  FecBatches,   \* the batches of the parity of a partition with FEC
  Faults,       \* whether I/O operations may fail
  MaxCrashes    \* bound: how often the process is killed and run again

OpKinds == {"replace", "zero", "copy", "bsdiff", "puffdiff"}

\* srcExtents: it has some; dataOk: its data are those of the payload's maker;
\* fills: its patch yields as many bytes as its destination holds.
OpType ==
  [kind : OpKinds, srcExtents : BOOLEAN, srcHash : BOOLEAN, dataHash : BOOLEAN,
   dataOk : BOOLEAN, fills : BOOLEAN]

PartitionType ==
  [name : Names, ops : Seq(OpType), gaps : BOOLEAN, oldSize : BOOLEAN, oldHash : BOOLEAN,
   newHash : BOOLEAN, tree : BOOLEAN, fec : BOOLEAN]

ASSUME ManifestAssumption ==
  /\ Manifest \in Seq(PartitionType)
  /\ MaxTasks \in Nat /\ MaxCrashes \in Nat
  /\ \A o \in OptionSet : o.names \in Seq(Names)
  /\ \A o \in OptionSet : Len(IF o.names = <<>> THEN Manifest ELSE o.names) <= MaxTasks

Tasks == 1 .. MaxTasks

VARIABLES
  opts,       \* the options Extract was called with
  stage,      \* "start", "running" or "returned"
  result,     \* what Extract returned: "ok" or an error
  spawned,    \* partitions handed to the errgroup so far
  xerr,       \* first error recorded by the errgroup
  interrupted,\* the caller's context has been cancelled
  ctxDone,    \* the errgroup's context is done
  step,       \* where the goroutine of a partition is
  completed,  \* operations it has run
  err,        \* the error it is about to return
  src, out,   \* the inodes it has open
  shown,      \* the last progress event of the partition
  dir,        \* [Paths -> inode, or NoFile]
  content,    \* [Inodes -> regions that hold the right bytes]
  kept,       \* partitions whose failed output could not be removed
  call, gerr, written, reported,  \* the calls of fec.Generate, see ParityGen
  crashes     \* how often the process was killed

runVars == <<opts, stage, result, spawned, xerr, interrupted, crashes>>
fileVars == <<dir, content, kept>>
fecVars == <<call, gerr, written, reported>>
taskVars == <<step, completed, err, src, out, shown>>
vars == <<runVars, ctxDone, taskVars, fileVars, fecVars>>

Fec == INSTANCE ParityGen
         WITH Calls <- Tasks, Valid <- LAMBDA t : TRUE, Batch <- LAMBDA t : FecBatches

--------------------------------------------------------------------------------
(* The manifest and the selection                                           *)

OperationNeedsSource(op) == op.srcExtents \/ op.kind \in {"copy", "bsdiff", "puffdiff"}

OperationSupported(op) == op.kind # "puffdiff"

PartitionNeedsSource(p) == \E i \in DOMAIN p.ops : OperationNeedsSource(p.ops[i])

NeedsFullSourceVerification(p) ==
  \E i \in DOMAIN p.ops : OperationNeedsSource(p.ops[i]) /\ ~ p.ops[i].srcHash

\* The map from names to partitions keeps the last entry of a name.
ByName ==
  [n \in {Manifest[k].name : k \in DOMAIN Manifest} |->
     CHOOSE k \in DOMAIN Manifest :
       /\ Manifest[k].name = n
       /\ \A j \in DOMAIN Manifest : Manifest[j].name = n => j <= k]

Known(n) == n \in DOMAIN ByName

\* The entries selected. No names select all of them, also those of one name; a
\* name given twice is selected twice.
SelectPartitions(names) ==
  IF names = <<>> THEN [k \in DOMAIN Manifest |-> k]
  ELSE [i \in DOMAIN names |-> ByName[names[i]]]

Selected == SelectPartitions(opts.names)

Part(t) == Manifest[Selected[t]]

Precheck(o) ==
  IF \E k \in DOMAIN o.names : ~ Known(o.names[k]) THEN "unknown partitions"
  ELSE LET selected == SelectPartitions(o.names)
           parts == {Manifest[selected[t]] : t \in DOMAIN selected} IN
       IF \E p \in parts : \E i \in DOMAIN p.ops : ~ OperationSupported(p.ops[i])
       THEN "unsupported operations"
       ELSE IF o.source = "none" /\ \E p \in parts : PartitionNeedsSource(p)
       THEN "missing source"
       ELSE "ok"

Limit == IF Concurrency <= 0 THEN NumCPU ELSE Concurrency

--------------------------------------------------------------------------------
(* Files                                                                    *)

NoFile == <<"none", 0>>

OutPath(n) == <<"out", n>>

\* The source directory may be the output directory itself.
SourcePath(n) == IF opts.source = "output" THEN OutPath(n) ELSE <<"src", n>>

Paths == {"out", "src"} \X Names

\* A path's first file, and the one a goroutine creates where there is none.
OldInode(path) == path
NewInode(t) == <<"new", t>>
Inodes == Paths \cup {NewInode(t) : t \in Tasks}

\* A file smaller than the old partition.
Short == <<0, "short", 0>>

Gap(k) == <<k, "gap", 0>>
Tree(k) == <<k, "tree", 0>>
Written(k, i) == <<k, "op", i>>
Parity(k, b) == <<k, "fec", b>>

\* What operation i reads of the old image, and the rest of it for i = 0, which the
\* gaps are copied from.
Old(k, i) == <<k, "old", i>>

ReadsSource(op) == op.kind \in {"copy", "bsdiff"}

OldImage(k) ==
  {Old(k, 0)} \cup {Old(k, i) : i \in {j \in DOMAIN Manifest[k].ops : ReadsSource(Manifest[k].ops[j])}}

DataRegions(k) ==
  {Written(k, i) : i \in DOMAIN Manifest[k].ops} \cup (IF Manifest[k].gaps THEN {Gap(k)} ELSE {})

TreeRegions(k) == IF Manifest[k].tree THEN {Tree(k)} ELSE {}

FecRegions(k) == IF Manifest[k].fec THEN {Parity(k, b) : b \in FecBatches} ELSE {}

Image(k) == DataRegions(k) \cup TreeRegions(k) \cup FecRegions(k)

FecSkipped(p) == p.fec /\ opts.noFEC

\* What a run asked not to compute FEC is to produce.
Expected(k) == IF FecSkipped(Manifest[k]) THEN Image(k) \ FecRegions(k) ELSE Image(k)

\* The goroutines that extract to the path t extracts to, t among them.
Namesakes(t) == {u \in DOMAIN Selected : Part(u).name = Part(t).name}

\* The regions of other entries in the output of t: of their images, and of what
\* these are made from if that is read from there.
Foreign(t) ==
  UNION {Image(k) \cup (IF opts.source = "output" THEN OldImage(k) ELSE {}) :
           k \in {Selected[u] : u \in Namesakes(t)} \ {Selected[t]}}

\* t writes a region of its image, and the bytes are the wanted ones or not. What
\* entries of the same name want there is another matter: their images overlap
\* this one in any way.
Put(t, region, good) ==
  LET own == content[out[t]] \ Foreign(t) IN
  \E others \in SUBSET Foreign(t) :
    content' = [content EXCEPT ![out[t]] =
                  others \cup (IF good THEN own \cup {region} ELSE own \ {region})]

SourceHolds(t, i) == src[t] # NoFile /\ Old(Selected[t], i) \in content[src[t]]

\* Another goroutine has the same output file open or had it.
Shared(t) == \E u \in Tasks \ {t} : out[u] = out[t]

\* Whether bytes computed from regions of the image itself come out right. With
\* a second writer the answer depends on when each block was read.
Derived(t, regions) == IF Shared(t) THEN BOOLEAN ELSE {regions \subseteq content[out[t]]}

--------------------------------------------------------------------------------
(* The run as a whole                                                       *)

Event(n, d, e, phase) == [completed |-> n, done |-> d, failure |-> e, phase |-> phase]

NoEvent == Event(0, FALSE, "none", "none")

\* The state of a process that has just been started.
FreshRun ==
  [spawned |-> 0, xerr |-> "none", step |-> [t \in Tasks |-> "queued"],
   completed |-> [t \in Tasks |-> 0], err |-> [t \in Tasks |-> "none"],
   file |-> [t \in Tasks |-> NoFile], shown |-> [t \in Tasks |-> NoEvent],
   call |-> [t \in Tasks |-> "idle"], batches |-> [t \in Tasks |-> {}]]

InitDir(disk) == [p \in Paths |-> IF p \in DOMAIN disk THEN OldInode(p) ELSE NoFile]

InitContent(disk) == [i \in Inodes |-> IF i \in DOMAIN disk THEN disk[i] ELSE {}]

TypeInv ==
  /\ opts \in OptionSet
  /\ stage \in {"start", "running", "returned"}
  /\ result \in {"none", "ok", "unknown partitions", "unsupported operations",
                 "missing source", "io", "verify", "source", "cancelled"}
  /\ spawned \in 0 .. MaxTasks
  /\ xerr \in {"none", "io", "verify", "source", "cancelled"}
  /\ interrupted \in BOOLEAN /\ ctxDone \in BOOLEAN
  /\ step \in [Tasks -> {"queued", "begin", "source", "create", "gaps", "ops", "tree",
                         "fec", "verify", "done", "failing", "remove", "leave", "finished"}]
  /\ \A t \in Tasks : completed[t] \in Nat /\ shown[t].completed \in Nat
  /\ err \in [Tasks -> {"none", "io", "verify", "source", "cancelled"}]
  /\ src \in [Tasks -> Inodes \cup {NoFile}] /\ out \in [Tasks -> Inodes \cup {NoFile}]
  /\ dir \in [Paths -> Inodes \cup {NoFile}]
  /\ DOMAIN content = Inodes
  /\ kept \subseteq Names
  /\ call \in [Tasks -> {"idle", "running", "returned"}]
  /\ gerr \in [Tasks -> {"none", "io", "cancelled"}]
  /\ written \in [Tasks -> SUBSET FecBatches]
  /\ reported \in [Tasks -> SUBSET (1 .. Cardinality(FecBatches))]
  /\ crashes \in 0 .. MaxCrashes

Init ==
  /\ opts \in OptionSet
  /\ \E disk \in Disks : dir = InitDir(disk) /\ content = InitContent(disk)
  /\ stage = "start" /\ result = "none"
  /\ spawned = FreshRun.spawned /\ xerr = FreshRun.xerr
  /\ interrupted = FALSE /\ ctxDone = FALSE
  /\ step = FreshRun.step /\ completed = FreshRun.completed /\ err = FreshRun.err
  /\ src = FreshRun.file /\ out = FreshRun.file /\ shown = FreshRun.shown
  /\ kept = {}
  /\ call = FreshRun.call /\ gerr = FreshRun.err
  /\ written = FreshRun.batches /\ reported = FreshRun.batches
  /\ crashes = 0

\* Mutant of Active: a finished goroutine keeps its slot.
ActiveLeaky == {t \in Tasks : step[t] # "queued"}

Active == {t \in Tasks : step[t] \notin {"queued", "finished"}}

\* The checks before the first write, then MkdirAll.
Start ==
  /\ stage = "start"
  /\ IF Precheck(opts) = "ok"
     THEN stage' = "running" /\ UNCHANGED result
     ELSE stage' = "returned" /\ result' = Precheck(opts)
  /\ UNCHANGED <<opts, spawned, xerr, interrupted, crashes, ctxDone,
                 taskVars, fileVars, fecVars>>

MkdirFails ==
  /\ Faults
  /\ stage = "start" /\ Precheck(opts) = "ok"
  /\ stage' = "returned" /\ result' = "io"
  /\ UNCHANGED <<opts, spawned, xerr, interrupted, crashes, ctxDone,
                 taskVars, fileVars, fecVars>>

\* Mutant of Spawn: one goroutine too many.
SpawnOneTooMany ==
  /\ stage = "running"
  /\ spawned <= Len(Selected)
  /\ Cardinality(Active) < Limit
  /\ spawned' = spawned + 1
  /\ step' = [step EXCEPT ![spawned + 1] = "begin"]
  /\ UNCHANGED <<opts, stage, result, xerr, interrupted, crashes, ctxDone,
                 completed, err, src, out, shown, fileVars, fecVars>>

\* g.Go: waits for a slot of the errgroup, and never looks at the context.
Spawn ==
  /\ stage = "running"
  /\ spawned < Len(Selected)
  /\ Cardinality(Active) < Limit
  /\ spawned' = spawned + 1
  /\ step' = [step EXCEPT ![spawned + 1] = "begin"]
  /\ UNCHANGED <<opts, stage, result, xerr, interrupted, crashes, ctxDone,
                 completed, err, src, out, shown, fileVars, fecVars>>

AllFinished == \A t \in 1 .. Len(Selected) : step[t] = "finished"

\* g.Wait returns the first error recorded.
Return ==
  /\ stage = "running"
  /\ spawned = Len(Selected)
  /\ AllFinished
  /\ stage' = "returned"
  /\ result' = IF xerr = "none" THEN "ok" ELSE xerr
  /\ UNCHANGED <<opts, spawned, xerr, interrupted, crashes, ctxDone,
                 taskVars, fileVars, fecVars>>

\* SIGINT: signal.NotifyContext (cmd/root.go:124) cancels the context of Extract.
Interrupt ==
  /\ stage # "returned" /\ ~ interrupted
  /\ interrupted' = TRUE /\ ctxDone' = TRUE
  /\ UNCHANGED <<opts, stage, result, spawned, xerr, crashes,
                 taskVars, fileVars, fecVars>>

\* The process is killed and the same command is given again: the files that have a
\* path stay.
Crash ==
  /\ stage = "running"
  /\ crashes < MaxCrashes
  /\ crashes' = crashes + 1
  /\ stage' = "start" /\ result' = "none"
  /\ spawned' = FreshRun.spawned /\ xerr' = FreshRun.xerr
  /\ interrupted' = FALSE /\ ctxDone' = FALSE
  /\ step' = FreshRun.step /\ completed' = FreshRun.completed /\ err' = FreshRun.err
  /\ src' = FreshRun.file /\ out' = FreshRun.file /\ shown' = FreshRun.shown
  /\ call' = FreshRun.call /\ gerr' = FreshRun.err
  /\ written' = FreshRun.batches /\ reported' = FreshRun.batches
  /\ kept' = {}
  /\ content' = [i \in Inodes |-> IF \E p \in Paths : dir[p] = i THEN content[i] ELSE {}]
  /\ UNCHANGED <<opts, dir>>

--------------------------------------------------------------------------------
(* extractPartition                                                         *)

Goto(t, label) == step' = [step EXCEPT ![t] = label]

Show(t, event) == shown' = [shown EXCEPT ![t] = event]

\* Mutant of Abort: the deferred handler tests a shadowed err, which is nil.
AbortShadowed(t, e) == err' = [err EXCEPT ![t] = e] /\ Goto(t, "leave")

\* "return err": the deferred handler runs after the files are closed.
Abort(t, e) == err' = [err EXCEPT ![t] = e] /\ Goto(t, "failing")

AfterTree(t) == IF Part(t).fec /\ ~ opts.noFEC THEN "fec" ELSE "verify"

Begin(t) ==
  /\ step[t] = "begin"
  /\ Show(t, NoEvent)
  /\ Goto(t, IF PartitionNeedsSource(Part(t)) THEN "source" ELSE "create")
  /\ UNCHANGED <<runVars, ctxDone, completed, err, src, out, fileVars, fecVars>>

\* openSourceImage: the reason it refuses the image, or "none".
SourceRefusal(t) ==
  LET p == Part(t)
      inode == dir[SourcePath(p.name)]
  IN  IF inode = NoFile \/ (p.oldSize /\ Short \in content[inode]) THEN "source"
      ELSE IF /\ ~ opts.skipVerify
              /\ NeedsFullSourceVerification(p) /\ p.oldHash
              /\ ~ (OldImage(Selected[t]) \subseteq content[inode])
      THEN "verify"
      ELSE "none"

OpenSource(t) ==
  /\ step[t] = "source"
  /\ IF SourceRefusal(t) = "none"
     THEN /\ src' = [src EXCEPT ![t] = dir[SourcePath(Part(t).name)]]
          /\ Goto(t, "create")
          /\ UNCHANGED err
     ELSE Abort(t, SourceRefusal(t)) /\ UNCHANGED src
  /\ UNCHANGED <<runVars, ctxDone, completed, out, shown, fileVars, fecVars>>

\* Mutant of Create: an output that exists is taken for one already extracted.
CreateResuming(t) ==
  LET path == OutPath(Part(t).name)
      inode == IF dir[path] = NoFile THEN NewInode(t) ELSE dir[path]
  IN
  /\ step[t] = "create"
  /\ dir' = [dir EXCEPT ![path] = inode]
  /\ content' = [content EXCEPT ![inode] = IF dir[path] = NoFile THEN {} ELSE @]
  /\ out' = [out EXCEPT ![t] = inode]
  /\ Goto(t, IF dir[path] # NoFile THEN "done" ELSE IF src[t] # NoFile THEN "gaps" ELSE "ops")
  /\ UNCHANGED <<runVars, ctxDone, completed, err, src, shown, kept, fecVars>>

\* OpenFile with O_CREATE and O_TRUNC, and Truncate to the new size, which changes
\* no byte that a goroutine of the same entry has written in between.
Create(t) ==
  LET path == OutPath(Part(t).name)
      inode == IF dir[path] = NoFile THEN NewInode(t) ELSE dir[path]
  IN
  /\ step[t] = "create"
  /\ dir' = [dir EXCEPT ![path] = inode]
  /\ content' = [content EXCEPT ![inode] = {}]
  /\ out' = [out EXCEPT ![t] = inode]
  /\ \/ Goto(t, IF src[t] # NoFile THEN "gaps" ELSE "ops") /\ UNCHANGED err
     \/ Faults /\ Abort(t, "io")
  /\ UNCHANGED <<runVars, ctxDone, completed, src, shown, kept, fecVars>>

\* copySourceFallthrough: blocks no operation writes come from the source.
CopyGaps(t) ==
  /\ step[t] = "gaps"
  /\ IF Part(t).gaps THEN Put(t, Gap(Selected[t]), SourceHolds(t, 0)) ELSE UNCHANGED content
  /\ Goto(t, "ops")
  /\ UNCHANGED <<runVars, ctxDone, completed, err, src, out, shown, dir, kept, fecVars>>

--------------------------------------------------------------------------------
(* runOp                                                                    *)

Op(t) == Part(t).ops[completed[t] + 1]

AtOp(t) == step[t] = "ops" /\ completed[t] < Len(Part(t).ops)

\* What runSourceCopy and runBsdiff refuse before they read anything.
NoSrcExtents(t) == ReadsSource(Op(t)) /\ ~ Op(t).srcExtents

\* verifySourceHash: only with verification on and a hash in the manifest, of what
\* this operation reads.
SourceRejected(t) ==
  /\ ReadsSource(Op(t)) /\ Op(t).srcHash
  /\ ~ opts.skipVerify /\ ~ SourceHolds(t, completed[t] + 1)

\* verifyBlobHash: whatever the options say.
BlobRejected(t) ==
  Op(t).kind \in {"replace", "bsdiff"} /\ Op(t).dataHash /\ ~ Op(t).dataOk

Rejected(t) == SourceRejected(t) \/ BlobRejected(t)

\* The bytes written are the wanted ones. Nothing compares the length of what a
\* patch yields with the destination: the tail of it may stay as it was.
OpGood(t) ==
  /\ ReadsSource(Op(t)) => SourceHolds(t, completed[t] + 1)
  /\ Op(t).kind \in {"replace", "bsdiff"} => Op(t).dataOk
  /\ Op(t).kind = "bsdiff" => Op(t).fills

RunOp(t) ==
  /\ AtOp(t)
  /\ ~ ctxDone
  /\ ~ NoSrcExtents(t) /\ ~ Rejected(t)
  /\ Put(t, Written(Selected[t], completed[t] + 1), OpGood(t))
  /\ completed' = [completed EXCEPT ![t] = @ + 1]
  /\ Show(t, Event(completed[t] + 1, FALSE, "none", "none"))
  /\ UNCHANGED <<runVars, ctxDone, step, err, src, out, dir, kept, fecVars>>

\* runReplace and runSourceCopy have written the destination before they
\* compare the hash; runBsdiff compares first.
OpRejected(t) ==
  /\ AtOp(t)
  /\ ~ ctxDone
  /\ ~ NoSrcExtents(t) /\ Rejected(t)
  /\ IF Op(t).kind = "bsdiff" THEN UNCHANGED content
     ELSE Put(t, Written(Selected[t], completed[t] + 1), FALSE)
  /\ Abort(t, "verify")
  /\ UNCHANGED <<runVars, ctxDone, completed, src, out, shown, dir, kept, fecVars>>

--------------------------------------------------------------------------------
(* writeVerity and verifyOutput                                             *)

AfterOps(t) == step[t] = "ops" /\ completed[t] = Len(Part(t).ops)

BeginVerity(t) ==
  /\ AfterOps(t)
  /\ ~ ctxDone
  /\ Goto(t, IF Part(t).tree THEN "tree" ELSE AfterTree(t))
  /\ UNCHANGED <<runVars, ctxDone, completed, err, src, out, shown, fileVars, fecVars>>

\* writeHashTree: reads the data, computes the levels, writes the tree.
WriteTree(t) ==
  /\ step[t] = "tree"
  /\ ~ ctxDone
  /\ \E good \in Derived(t, DataRegions(Selected[t])) : Put(t, Tree(Selected[t]), good)
  /\ Goto(t, AfterTree(t))
  /\ UNCHANGED <<runVars, ctxDone, completed, err, src, out, shown, dir, kept, fecVars>>

\* Mutant of Cancelled: the goroutine stops, but returns nil.
CancelledSilently(t) ==
  /\ ctxDone
  /\ AtOp(t) \/ AfterOps(t) \/ step[t] = "tree"
  /\ Goto(t, "done")
  /\ UNCHANGED <<runVars, ctxDone, completed, err, src, out, shown, fileVars, fecVars>>

\* The points where a goroutine looks at the context and gives up.
Cancelled(t) ==
  /\ ctxDone
  /\ AtOp(t) \/ AfterOps(t) \/ step[t] = "tree"
  /\ Abort(t, "cancelled")
  /\ UNCHANGED <<runVars, ctxDone, completed, src, out, shown, fileVars, fecVars>>

FecStart(t) ==
  /\ step[t] = "fec"
  /\ Fec!Start(t)
  /\ UNCHANGED <<runVars, taskVars, fileVars>>

\* Parity is computed from the data and from the tree.
FecWrite(t, b) ==
  /\ Fec!WriteBatch(t, b)
  /\ \E good \in Derived(t, DataRegions(Selected[t]) \cup TreeRegions(Selected[t])) :
       Put(t, Parity(Selected[t], b), good)
  /\ UNCHANGED <<runVars, taskVars, dir, kept>>

FecReport(t, k) ==
  /\ Fec!Report(t, k)
  /\ Show(t, Event(Len(Part(t).ops), FALSE, "none", "fec"))
  /\ UNCHANGED <<runVars, step, completed, err, src, out, fileVars>>

FecFault(t, e) ==
  /\ e = "io" => Faults
  /\ Fec!Fault(t, e)
  /\ UNCHANGED <<runVars, taskVars, fileVars>>

\* Mutant of FecSucceed: the caller goes on once the parity is written, without
\* waiting for the workers that still report.
FecSucceedEarly(t) ==
  /\ step[t] = "fec" /\ call[t] = "running"
  /\ gerr[t] = "none" /\ written[t] = FecBatches
  /\ Goto(t, "verify")
  /\ UNCHANGED <<runVars, ctxDone, completed, err, src, out, shown, fileVars, fecVars>>

FecSucceed(t) ==
  /\ Fec!Succeed(t)
  /\ Goto(t, "verify")
  /\ UNCHANGED <<runVars, completed, err, src, out, shown, fileVars>>

FecFail(t) ==
  /\ Fec!Fail(t)
  /\ Abort(t, gerr[t])
  /\ UNCHANGED <<runVars, completed, src, out, shown, fileVars>>

FecStep(t) ==
  \/ FecStart(t) \/ FecSucceed(t) \/ FecFail(t)
  \/ \E b \in FecBatches : FecWrite(t, b)
  \/ \E k \in 1 .. Cardinality(FecBatches) : FecReport(t, k)
  \/ \E e \in {"io", "cancelled"} : FecFault(t, e)

VerifySkipped(t) == opts.skipVerify \/ FecSkipped(Part(t)) \/ ~ Part(t).newHash

\* Mutant of Verify: operations that were all compared with a hash make the hash of
\* the output needless.
VerifyTrustsOps(t) ==
  /\ step[t] = "verify"
  /\ IF \/ VerifySkipped(t) \/ Image(Selected[t]) \subseteq content[out[t]]
        \/ \A i \in DOMAIN Part(t).ops : Part(t).ops[i].srcHash \/ Part(t).ops[i].dataHash
     THEN Goto(t, "done") /\ UNCHANGED err
     ELSE Abort(t, "verify")
  /\ UNCHANGED <<runVars, ctxDone, completed, src, out, shown, fileVars, fecVars>>

Verify(t) ==
  /\ step[t] = "verify"
  /\ IF VerifySkipped(t) \/ Image(Selected[t]) \subseteq content[out[t]]
     THEN Goto(t, "done") /\ UNCHANGED err
     ELSE Abort(t, "verify")
  /\ UNCHANGED <<runVars, ctxDone, completed, src, out, shown, fileVars, fecVars>>

\* The last report, then nil.
Done(t) ==
  /\ step[t] = "done"
  /\ Show(t, Event(Len(Part(t).ops), TRUE, "none", "none"))
  /\ Goto(t, "finished")
  /\ UNCHANGED <<runVars, ctxDone, completed, err, src, out, fileVars, fecVars>>

\* An I/O operation fails, or decompression or patching finds malformed data, or
\* an operation lacks source extents.
IoFails(t) ==
  /\ \/ /\ Faults
        /\ \/ step[t] \in {"source", "create"}
           \/ step[t] = "gaps" /\ Part(t).gaps
           \/ step[t] = "verify" /\ ~ VerifySkipped(t)
           \/ AtOp(t) /\ ~ ctxDone
           \/ step[t] = "tree" /\ ~ ctxDone
           \/ step[t] = "fec" /\ call[t] = "idle"
     \/ AtOp(t) /\ ~ ctxDone /\ NoSrcExtents(t)
  /\ Abort(t, "io")
  /\ UNCHANGED <<runVars, ctxDone, completed, src, out, shown, fileVars, fecVars>>

--------------------------------------------------------------------------------
(* The deferred failure handler and the end of the goroutine                *)

ReportFailure(t) ==
  /\ step[t] = "failing"
  /\ Show(t, Event(completed[t], TRUE, err[t], "none"))
  /\ Goto(t, "remove")
  /\ UNCHANGED <<runVars, ctxDone, completed, err, src, out, fileVars, fecVars>>

\* Mutant of Remove: a cancelled partition keeps what it has written.
RemoveUnlessCancelled(t) ==
  LET n == Part(t).name IN
  /\ step[t] = "remove"
  /\ IF err[t] = "cancelled" THEN UNCHANGED <<dir, kept>>
     ELSE dir' = [dir EXCEPT ![OutPath(n)] = NoFile] /\ UNCHANGED kept
  /\ Goto(t, "leave")
  /\ UNCHANGED <<runVars, ctxDone, completed, err, src, out, shown, content, fecVars>>

\* Mutant of Remove: only a goroutine that has created the output removes it.
RemoveOnlyOpened(t) ==
  LET n == Part(t).name IN
  /\ step[t] = "remove"
  /\ IF out[t] = NoFile THEN UNCHANGED <<dir, kept>>
     ELSE dir' = [dir EXCEPT ![OutPath(n)] = NoFile] /\ UNCHANGED kept
  /\ Goto(t, "leave")
  /\ UNCHANGED <<runVars, ctxDone, completed, err, src, out, shown, content, fecVars>>

\* os.Remove by path, whether or not this goroutine opened the output; its
\* error is dropped.
Remove(t) ==
  LET n == Part(t).name IN
  /\ step[t] = "remove"
  /\ \/ dir' = [dir EXCEPT ![OutPath(n)] = NoFile] /\ UNCHANGED kept
     \/ /\ Faults /\ dir[OutPath(n)] # NoFile
        /\ kept' = kept \cup {n} /\ UNCHANGED dir
  /\ Goto(t, "leave")
  /\ UNCHANGED <<runVars, ctxDone, completed, err, src, out, shown, content, fecVars>>

\* Mutant of Leave: the last error is kept, not the first.
LeaveLastError(t) ==
  /\ step[t] = "leave"
  /\ xerr' = err[t]
  /\ ctxDone' = TRUE
  /\ Goto(t, "finished")
  /\ UNCHANGED <<opts, stage, result, spawned, interrupted, crashes,
                 completed, err, src, out, shown, fileVars, fecVars>>

\* The errgroup records the first error and cancels its context.
Leave(t) ==
  /\ step[t] = "leave"
  /\ xerr' = IF xerr = "none" THEN err[t] ELSE xerr
  /\ ctxDone' = TRUE
  /\ Goto(t, "finished")
  /\ UNCHANGED <<opts, stage, result, spawned, interrupted, crashes,
                 completed, err, src, out, shown, fileVars, fecVars>>

PartitionStep(t) ==
  \/ Begin(t) \/ OpenSource(t) \/ Create(t) \/ CopyGaps(t)
  \/ RunOp(t) \/ OpRejected(t) \/ BeginVerity(t) \/ WriteTree(t) \/ Cancelled(t)
  \/ FecStep(t) \/ Verify(t) \/ Done(t) \/ IoFails(t)
  \/ ReportFailure(t) \/ Remove(t) \/ Leave(t)

Next ==
  \/ Start \/ MkdirFails \/ Spawn \/ Return \/ Interrupt \/ Crash
  \/ stage = "running" /\ \E t \in Tasks : PartitionStep(t)

\* The Go scheduler runs every goroutine that can run; fec.Generate returns
\* (ParityGen!Termination). Nothing forces a signal, a crash or a fault.
Fairness ==
  /\ WF_vars(Start) /\ WF_vars(Spawn) /\ WF_vars(Return)
  /\ \A t \in Tasks : WF_vars(stage = "running" /\ PartitionStep(t))

Spec == Init /\ [][Next]_vars /\ Fairness
--------------------------------------------------------------------------------
(* Properties                                                               *)

\* The output hash was compared with the manifest's.
Checked(t) == ~ opts.skipVerify /\ Part(t).newHash /\ ~ FecSkipped(Part(t))

\* Nothing but the extractor could spoil the image: the payload is intact, the
\* source is the right one and outside the output directory, and no other
\* goroutine extracts to the same path.
Undisturbed(t) ==
  LET p == Part(t) IN
  /\ \A i \in DOMAIN p.ops : p.ops[i].dataOk /\ p.ops[i].fills
  /\ PartitionNeedsSource(p) \/ p.gaps =>
       /\ PartitionNeedsSource(p)
       /\ opts.source = "dir" /\ dir[SourcePath(p.name)] # NoFile
       /\ OldImage(Selected[t]) \subseteq content[dir[SourcePath(p.name)]]
  /\ Namesakes(t) = {t}

CompleteAt(t) ==
  LET inode == dir[OutPath(Part(t).name)] IN
  inode # NoFile /\ Expected(Selected[t]) \subseteq content[inode]

\* The path of t has the image of t, or of the entry of the same name that was
\* extracted last, when what is there was compared with its hash; and that of t
\* without the comparison, when nothing but the extractor could have spoiled it.
Delivered(t) ==
  /\ (\A u \in Namesakes(t) : Checked(u)) => \E u \in Namesakes(t) : CompleteAt(u)
  /\ Undisturbed(t) => CompleteAt(t)

\* A nil result means that every selected image is on disk and complete, when
\* its hash was checked (even for a partition selected twice, a source directory
\* that is the output directory, a source damaged where no operation has a hash of
\* it, a patch that yields too little), and without the check when nothing but the
\* extractor could have spoiled it. Of entries with one name, one image is there: the
\* file begins with it, which is all the hash compares (extract.go:284).
NilMeansComplete == result = "ok" => \A t \in DOMAIN Selected : Delivered(t)

\* When Extract returns after it started writing, the path of a selected
\* partition has a complete image or no file, unless os.Remove itself failed:
\* failed, cancelled and crashed attempts leave nothing partial, and entries of one
\* name leave a file that begins with the whole image of one of them.
NothingPartialIsLeft ==
  stage = "returned" /\ spawned > 0 =>
    \A t \in DOMAIN Selected :
      Part(t).name \in kept \/ dir[OutPath(Part(t).name)] = NoFile \/ Delivered(t)

\* "context canceled" is returned only when the caller cancelled: when one
\* partition fails and cancels the others, Extract returns its error.
CauseIsReturned == result = "cancelled" => interrupted

\* Each partition ends with one terminal event and nothing after it, FEC
\* progress from the workers included.
TerminalEventIsLast ==
  [][\A t \in Tasks : shown[t].done /\ stage' # "start" => shown'[t] = shown[t]]_vars

\* What the progress display was last told about each partition agrees with
\* how Extract ended, and CompletedOps counts the operations really applied.
EventsTellTheOutcome ==
  stage = "returned" /\ spawned > 0 =>
    \A t \in DOMAIN Selected :
      /\ shown[t].done
      /\ shown[t].failure = err[t]
      /\ err[t] = "none" => shown[t].completed = Len(Part(t).ops)
      /\ result = "ok" <=> \A u \in DOMAIN Selected : shown[u].failure = "none"

\* A run that starts returns, however partitions fail and whenever it is
\* interrupted: no goroutine waits for a slot, a permit or a sibling forever.
RunReturns == stage = "running" ~> stage \in {"returned", "start"}

\* "-no-verify" skips the sha256 verification of operation data.
NoVerifySkipsVerification == opts.skipVerify => \A t \in Tasks : err[t] # "verify"

\* The file a failed partition removes is its own incomplete output.
OnlyIncompleteOutputsRemoved ==
  [][\A n \in Names :
       dir[OutPath(n)] # NoFile /\ dir'[OutPath(n)] = NoFile =>
         \E t \in DOMAIN Selected : Part(t).name = n /\ out[t] = dir[OutPath(n)]]_vars
================================================================================
