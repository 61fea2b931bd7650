# A TLA+ verification of payload-dumper-go

`payload-dumper-go` unpacks the partition images of an Android OTA payload: it
opens `payload.bin` (by itself, or in a zip), reads the manifest, runs the
install operations of every selected partition, computes dm-verity hash trees
and FEC parity, and compares the result with the manifest's sha256. This
directory holds TLA+ modules that model the program from its command line down
to the bytes of the parity, TLC configurations that check them, and proofs that
TLAPS checks.

    tlc -workers 2 -config FecPool.cfg       MCFecPool.tla
    tlc -workers 2 -config ExtractSafety.cfg MCExtract.tla
    tlc -workers 2 -config InstallOps.cfg    MCInstallOps.tla
    ...                                      (all of them in section 4)
    tlapm FecPoolProofs.tla                  (all of them in section 6)

## 1. The system

| Component | State | Operations | Talks to | Module |
|---|---|---|---|---|
| Command line (`cmd/root.go`) | error, exit code, signal handler | `Execute` | opens, extracts, waits for the bars, closes | `Command` |
| Input and header (`payload/input.go`, `header.go`, `payload.go`) | open files, a temporary copy, closers | `Open`, `NewFromReaderAt`, `readHeader`, `Close` | used by `Execute` | `Command` |
| Renderers (`cmd/root.go`, `payload/progress.go`) | bars, last counts, last percentage | `handle`, `wait` | receive events from many goroutines | `Progress` |
| Extraction engine (`payload/extract.go`, `source.go`) | errgroup with a limit, context, per partition: open files, operation count, error | `Extract`, `extractPartition`, `openSourceImage`, `verifyOutput` | runs operations and verity, emits events, shares the semaphore with FEC | `Extract` |
| Install operations (`payload/operation.go`, `decompress.go`) | the streams of one operation | `runReplace`, `runZero`, `runSourceCopy`, `runBsdiff`, `copySourceFallthrough` | read payload and source, write extents | `InstallOps` |
| Extents (`payload/extents.go`) | cursor of a stream over extents | `Read`, `Write`, `uncoveredRanges`, `validateExtents` | operations, gaps, verity | `Extents` |
| Binary patch (`internal/bspatch`) | old and new position, three streams | `Apply` | called by `runBsdiff` | `Bspatch` |
| Verity (`payload/verity.go`) | levels of the tree | `writeHashTree`, `writeFEC` | output file, `fec.Generate` | `Verity` |
| FEC pool (`internal/fec/fec.go`) | two atomic counters, workers, shared semaphore | `Validate`, `Generate`, `generateBatch` | output file, progress callback | `FecPool`, `FecParams` |
| Reed-Solomon (`internal/fec/rs.go`) | lookup tables, shift registers | `NewEncoder`, `Update`, `Encode` | FEC pool | `ReedSolomon` |

What is hard here, and hard to test:

* **Interleavings.** One goroutine per partition, several FEC workers inside each,
  one weighted semaphore over all of them, one errgroup per level. Batches are
  drawn from an atomic counter; the count of completed batches and its delivery
  to the callback are two steps; renderers are called from all of them.
* **Failure.** A worker or a partition may fail anywhere, cancel its siblings and
  race with them for the error that is returned. The deferred handler of a
  partition must see every error. `Open` has a dozen error returns and three
  ways to hand its file over.
* **Order.** Gaps before operations, data before tree, tree before parity, parity
  before verification, the terminal event last.
* **Files.** Outputs are truncated in place and sized at once, the source may be
  the output directory, a partition may be named twice, two entries of the manifest
  may have one name and with it one output path, a killed run leaves a file of the
  right size with the wrong content.
* **Arithmetic.** Block numbers are 64-bit numbers of the manifest, and sums and
  products of them may wrap: before validation, in `int64` casts, in the header
  and in the positions of a patch.
* **Streams.** `io.Copy`, decoders and `ReadAt` cut the data anywhere; two cursors
  must nevertheless put each byte in its place.
* **Reused buffers.** FEC workers keep two buffers over symbols, batches and the
  zero padding behind the data.

`PROJECT.json` lists the hazards by line, with the properties that would notice.

## 2. Modules

| Module | Models | Remarks |
|---|---|---|
| `FecParams` | `fec.Params`, `Validate`, batch and block arithmetic | constant level |
| `ParityGen` | the promise of `fec.Generate` | abstract specification |
| `FecPool` | `Generate` and `generateBatch`, several concurrent calls | implements `ParityGen` |
| `ReedSolomon` | the encoder, and the bytes `generateBatch` writes | against the reference encoder of `fectest` |
| `Verity` | `writeVerity`: checks, levels, writes, cancellation | hands `FecParams` what `writeFEC` accepts |
| `Extents` | sums, validation, gaps, cursors | constant level, `w`-bit words |
| `InstallOps` | operations as streams over `Extents` | one partition, byte by byte |
| `Bspatch` | `bspatch.Apply` | against the patch in exact arithmetic |
| `Extract` | `Payload.Extract` and everything it calls | composed with `ParityGen`: each partition is one call of it |
| `Progress` | both renderers under the events of `extractPartition` | `mpb` external |
| `Command` | `Execute`, `Open`, `readHeader`, `Close` | one run of the process |
| `*Proofs` | theorems about the module of that name | section 6; `CommandProofs` has those about `Progress` too, the other part of `cmd/root.go`; `ExtentsProofs` also has the lemmas about remainders, least elements and recursion that other proofs take from it |
| `MC*` | instances for TLC | section 4 |

    Command ---- Progress          (levels of the program; each module takes the
       |            |               one below as something that returns a result)
       +---- Extract ---- ParityGen <--implements-- FecPool --> FecParams
               |   \                                              ^     ^
               |    Verity --> Extents                            |     |
               |       \------------------------------------------+     |
            InstallOps --> Extents            ReedSolomon --------------+
               |
            Bspatch

Definitions named "Mutant of X" are slips a programmer could make in X. No
specification uses them; each is put in the place of X to see that a property
notices (`PROJECT.json`, "mutants").

## 3. How the modules correspond to the code

`PROJECT.json`, "map", gives the lines of each definition. What is not obvious
from it:

### FecPool, ParityGen

A worker's `pc` follows the closure at `fec.go:106-131`: `acquire` (line 108),
`take` (115), `read` (the symbol loop of `generateBatch`), `write` (169), `count`
(`done.Add`, evaluated before `progress` is entered), `deliver` (the callback),
`release` (the deferred `Release`), `return` (the errgroup records the error),
`returned`. `AcquireFails` skips `release`, because the `defer` is registered
only after a successful `Acquire`. The batch context is looked at before every
symbol and never before `WriteAt`. A `WriteAt` that fails may have written a
prefix of the batch; the model counts whole rounds of it.

Abstracted: bytes (a round is written or not; `ReedSolomon` has them), the FIFO
order of the semaphore's waiters (any waiter may get the permit: more behaviours,
not fewer). `golang.org/x/sync` is modelled from its use: the first error is kept
and cancels the group's context; `Wait` returns when all functions have; `Acquire`
with a context that is done fails, also when the permit arrives at the same
moment (version 0.22.0, `go.mod`).

### ReedSolomon

One worker takes all batches with the same `buf` and `state`: which worker
computes a batch does not matter to its bytes, as `FecPool` shows that each is
written once. `Symbol` is a turn of the loop over the symbols of the codewords,
with its read, the zeroes behind the data and `Update`; the unrolled branch of
`Update` for two roots computes the same and is not told apart. Exclusive-or,
shifts and `gfMul` are recursive functions over the symbols, from a number to its
half, which is what they do bit by bit; `HighBit` is the bit that `gfMul` tests
before a shift (`rs.go:47`, `0x80`), and makes the width of a symbol a parameter.
`Tabulated` is the identity: it makes TLC compute a function once. The reference is
the other encoder of the repository, `fectest`: tables of logarithms, long
division, and the interleaving of AOSP instead of the code's read order. The
panics of `Update` and `Encode` on slices of a wrong length are left out; their
callers size the slices.

### Verity

`writeVerity` from its entry to its end on one partition: `CheckTree` and
`CheckFec` are all comparisons of `writeHashTree` and `writeFEC`, in words of the
width of `MaxInt`; `HashBlock`, `LevelBuilt` are the two loops; the context is
polled where the code polls it. Digests are known by their size. The tree is
written at once; a failing write may leave a part (`torn`). `Generate` is the
call of `fec.Generate` with its three outcomes. The option `noFEC` is a variable
chosen at the start.

### Extents, InstallOps

An extent is a pair of `uint64`; `Bytes` is the cast `int64(n * blockSize)`.
`UncoveredRanges` is a set, because `sort.Slice` is not stable; it runs on
extents that nobody has validated, of all operations (`AllDst`, which keeps the
family and forgets the order in which it is appended, as sorting does). `Visit` is
one turn of its loop. A cursor is `[idx, done]`.

In `InstallOps` a byte is known by its origin, and an operation is a stream:
`ReadSource`, `LoadSource` and `Decode` are one `Read` each (of any length, for
a decoder), `WriteChunk` is one turn of the loop of `extentsWriter.Write`,
`SkipSource` and `SkipTarget` are the turns that only advance. `Begin*` are the
checks before and `End*` those after the stream. A decoder is external: it hands
out `yields` bytes in pieces of any size, or fails. Hashes are right or wrong.
`Panic` is the `make` with a negative length.

### Bspatch

A step is a part of an iteration of the control loop that may fail by itself:
`ReadControl`, `ReadDiff`, `ReadExtra`, `Seek`, `Return`. A byte of the output is
known by the positions it was made from. Positions are `w`-bit words, and the
reference (`Sums`, `Patched`, `WellFormed`) is the patch as a function in exact
arithmetic.

### Extract

`step[t]` is the position of the goroutine of the t-th selected partition in
`extractPartition`; `failing`, `remove` and `leave` are the deferred handler and
the end of the errgroup function. Every early return of the code is an `Abort`.
`Cancelled` is enabled exactly where the code polls the context: before each
operation, on entry of `writeVerity`, inside `writeHashTree`. `Spawn` is the loop
over `g.Go`, which waits for a slot and never polls the context.

A file is an inode, and a path maps to an inode or to nothing: goroutines keep
inodes open while others unlink or truncate them. The content of an inode is the
set of regions with the right bytes, and a region belongs to an entry of the
manifest: one per operation, the gaps, the tree, each batch of parity, and those of
the image the entry is made from (`OldImage`: what each operation reads, and the
rest, from which the gaps are copied). "Complete" means "all of them", and a hash
comparison is set inclusion. So a source may be damaged just where no operation
reads it and no hash but that of the output covers it. Tree and parity come out right
when what they are computed from is right at that moment; with a second writer on the
file the outcome is arbitrary. `Crash` is a kill at any moment followed by the same
command: everything but the files that have a path is forgotten.

Nothing makes the names in a manifest different. The map of `selectPartitions`
keeps the last entry of a name (`ByName`), and without `-p` all entries are
selected, those of one name into one file. How their images overlap is unknown:
a write of one (`Put`) leaves any subset of the regions of the others (`Foreign`)
right. `Namesakes` are the goroutines that share a path, and `Delivered` is what can
be promised at it: if all of them compare the hash, the file begins with the whole
image of one of them. `verifyOutput` reads as many bytes as its entry has, so
what a longer image has left behind these is not told, and the length of a file is
not modelled except that a source may be too `Short` for its entry.

Two pairs of steps of the code are one step here. `O_TRUNC` and `Truncate`: in
between, an entry of the same name may have written what `Truncate` cuts off, but then
the goroutine that cuts is still to compare its own hash, or to remove the path, and
this is what decides. The read of `verifyOutput` and its comparison: a goroutine of the
same path that writes meanwhile is still to verify, and the last one that begins to
does so on a file nobody writes to.

An operation is one step here and a rejected one leaves its region wrong when the
code writes before it compares; one that should read a source and has no source
extents fails before that (`NoSrcExtents`), and a patch that yields too little (`fills`)
leaves its region wrong and passes. `InstallOps` has the inside of operations. The
checks of `writeHashTree` and `writeFEC` are faults here; `Verity` has them.

### Command

The process holds `handles` (open files), the temporary copy and what `Close` is
to release. Each step of `Open` may fail; so may `os.Remove`. `Close` closes
whatever is in `closers`, in any state. SIGINT kills the process unless
`signal.NotifyContext` is in effect. Lengths in the header are any `uint64` and
`uint32`, and sums wrap. `Extract` returns with any result.

### Progress

The events are those of `extractPartition`: one at the start, one per operation,
FEC counts drawn and delivered in two steps, the terminal one. `HandleBar` and
`HandleMachine` are the bodies under the two mutexes; the percentage, computed
before the mutex is taken, depends on the event alone. Both renderers run side by
side, though a run has one. `mpb` (version 5.4.0, `go.mod`) is modelled from its use: `AddBar`
arms completion when the total is positive, `SetTotal` without `complete` disarms
it, a finished bar ignores calls, `Wait` returns when no bar is running.

## 4. Runs

| Run | Instance | Shows |
|---|---|---|
| `FecPool` | 3 calls (5 blocks in 2-symbol codewords with batches of 2 rounds, so 2 batches with a short last one; one batch by default size; invalid roots), 2 workers each, 2 permits, any I/O fault, cancellation at any time; 42 286 states | safety of the pool, `IInv`, the refinement of `ParityGen` including termination |
| `ExtractSafety` | 5 partitions, 2 at a time (full with tree and 2 parity batches; incremental with a gap; a patch that is too short; an operation without source extents; corrupted data), all option combinations of `MCOptions`, 3 disks (source whole, wrong, too small, missing, damaged where no operation reads it), 2 slots, faults, interruption; 1 649 165 states | safety of extraction |
| `ExtractCrash` | 3 partitions, 2 slots; two entries of one name, an operation without hash, a source that may be damaged where no operation reads it, a duplicate selection beside and over its source, an unknown name, interruption, one kill and rerun; 307 764 states | safety across reruns, what two entries leave in one file, and that each run returns |
| `ExtractNoVerify` | a partition with corrupted data, `-no-verify` | finding 1 |
| `ExtractRemove` | an incremental update over a directory of complete images | finding 2 |
| `InstallOps` | one and two operations of each kind over overlapping, empty, wrapping and out-of-range extents; blocks of 2 bytes moved 3 at a time, 5-bit words; 61 362 states | every byte of the image is where the extents put it |
| `InstallOpsWrapped` | a patch over source extents whose sum wraps | finding 3 |
| `Bspatch` | three control entries, 4-bit positions, all kinds of headers, short streams; 33 887 states | `Apply` is the patch |
| `Command` | raw files with every manifest length of a 5-bit word, zips, other files; faults everywhere, SIGINT everywhere; 41 524 states | nothing leaks, sizes are exact |
| `Progress` | 4 goroutines, two of them on one name; 3 operations, 2 FEC counts, an empty partition; 35 765 states | bars tell the truth and `wait` returns |
| `Verity` | some 4000 manifests: trees of 1 to 4 levels, parity of right and wrong sizes, 9-bit words, with and without `noFEC`; 101 036 states | what is accepted is built, and apart |
| `ReedSolomon` | GF(256) modulo 0x11d, words of 31 symbols, 2 to 29 roots, 1 to 70 blocks, batches of 1 to 3 rounds; 5 986 states | parity is that of the reference |

### Why these bounds are enough to meet the cases

* *Pool*: two workers and two batches give every order of take, write, count and
  deliver between two workers; two calls with four workers and two permits make
  workers of one call wait for those of another and a call be cancelled while it
  waits; the third call returns without workers.
* *Engine*: two goroutines race for the error, for a file and for a slot; the
  third partition is needed for a goroutine that starts after another ended or
  after a cancellation. `MaxTasks`, `MaxCrashes` and `FecBatches` are the bounds.
  More than two entries of one name add no case to two: what one finds in the file
  is any subset of the others' regions.
* *Words*: all comparisons of the code are between sums and products of block
  numbers and `MaxInt`. With `MaxInt` = 15 (or 7, or 255) the manifests include
  every side of each comparison: ends at, below and above `MaxInt`, sums that wrap
  to zero, to a small number and to a negative one. The theorems of section 6 then
  hold for any width.
* *Streams*: chunks of 3 bytes over blocks of 2 end in every place of a block and
  of an extent; two extents per list, of lengths 0 to 3, give each boundary;
  two operations overlap in every way.
* *Renderers*: two goroutines with one name are what makes counts go back; two
  FEC workers deliver counts out of order.
* *Codewords*: one non-zero symbol at each place tells each tap, each position and
  each buffer slot apart; batches of 1 and 3 rounds leave a narrower last one.

`CHECK_DEADLOCK FALSE` is set everywhere because every run of the program ends.

### The properties

Pool: `SuccessIsComplete` (nil means all parity and all counts),
`BatchesAreExclusive`, `PermitsConserved`, `CauseIsReported`, `ProgressIsHonest`,
`QuietAfterReturn`, `IInv` (the inductive invariant, types included),
`ImplementsPromise`.

Engine: `TypeInv`, `NilMeansComplete`, `NothingPartialIsLeft`, `CauseIsReturned`,
`TerminalEventIsLast`, `EventsTellTheOutcome`, `RunReturns`. `NilMeansComplete`
and `NothingPartialIsLeft` say what the code can promise and no more: an image is
right if its hash was checked, or if nothing outside the extractor could have
spoiled it (payload intact and its patches long enough, right source outside the
output directory, no other goroutine on the path). With `-no-verify` a wrong source,
an in-place source or a name selected twice may give a wrong image and a nil result.
Of two entries of one name the promise is one image, and nil hides that the other
is not there.

Operations: `ImageIsAsOrdered` compares the image with the extents at every
moment; `GapsStayInTheImage` bounds what is copied under extents that are not
valid; `HashesGuardTheImage`; `SuccessFillsDestinations`; `Terminates`. A patch may
make fewer bytes than its destination holds, and the code does not compare the
two; the properties allow it, and the hash of the output decides: that it does is
`NilMeansComplete` in `Extract`, where an operation may have such a patch.

Patch: `TypeInv` (both slices inside the output), `OutputIsThePatch`,
`AcceptsTheWellFormed` (in both directions).

Verity: `TreeFillsItsExtent` (the formula for the size and the construction
agree), `WritesAreApart` (inside the image, beside what they are computed from),
`AcceptedFecIsValid`, `OutcomeMatchesImage`, `Terminates`.

Parity: `RegistersAreRemainders`, at every step of the encoder;
`ParityIsTheReference`; `CodewordsAreFarApart`, the distance that makes losses
repairable.

Process: `PayloadIsReadable`, `NothingLeaks`, `MetadataInsideFile`. A run killed by
SIGINT while it copies `payload.bin` out of a zip leaves the copy, and so does a panic
in a goroutine of `Extract` (finding 3), which ends the process without its deferred
calls; `NothingLeaks` speaks of runs that end by themselves, and no property covers
these two.

Renderers: `BarShowsProgress`, `BarTellsTheOutcome`, `HundredMeansOperationsDone`,
`WaitReturns`.

### Fairness

`FecPool` assumes weak fairness of each worker's next step and of the return of
`g.Wait`: the Go scheduler runs every goroutine that can run, and the semaphore
serves waiters. A waiter is never starved, because a call has finitely many
batches, so permits are free in the end (weak fairness of each worker, not strong,
is enough in every instance checked). Nothing obliges a caller to start, cancel
or an operation to fail. `Extract` assumes weak fairness of `Start`, `Spawn`,
`Return` and of each partition's goroutine; faults, interrupts and crashes are
never obliged to happen. In `Extract` a call of `fec.Generate` returns since its
steps are fair; that the real pool does is `ImplementsPromise`. `Progress` assumes
the same of each goroutine and of `wait`. `InstallOps` and `Verity` are sequential
programs: weak fairness of their next step only says that they are not stopped.
`Bspatch`, `Command` and `ReedSolomon` state no liveness and assume no fairness.

## 5. Findings

1. `-no-verify` does not skip the check of operation data (`operation.go:70`,
   against `CHANGELOG.md:43` and `README.md:83`; the flag's help text at
   `cmd/root.go:49` agrees with the code).
2. A partition that fails before its output is opened removes whatever is at the
   output path (`extract.go:156`) and logs "removed incomplete output"
   (`extract.go:157`): an incremental run whose base image is missing deletes the
   complete image of an earlier run, and with `-old` equal to the output directory
   a base image that is too small or fails its hash.
3. The source extents of a patch are validated one by one, but their sum times the
   block size may wrap to a negative `int64`: it passes the comparison with
   `maxInMemoryOpBytes` (`operation.go:184`), which is there to refuse spans that
   are too large, and `make` panics (`operation.go:191`).

Not a run, but seen while stating the properties of `Bspatch`: the old position is
tested for overflow upwards only (`bspatch.go:101`); two increments downwards may
wrap it to a large value, and the patch is applied from there. All reads stay
inside the old data; the result is wrong bytes, or zeroes, from a corrupt patch.

## 6. Proofs

All theorems hold for every value of the constants under the assumptions named in
the modules (`FecConstantsAssumption`, `FecPoolAssumption`, `ExtentsAssumption`,
`InstallOpsAssumption`, `VerityAssumption`, `BspatchAssumption`, `CommandAssumption`,
`ManifestAssumption`, `ProgressAssumption`, `ReedSolomonAssumption`): types of the
constants and orders such as "a codeword has more symbols than parity". The one that
says more is `PrimitiveAssumption`, a part of the last: the field polynomial is
primitive, which TLC computes to be so of the code's `0x11d` over bytes. The code's
values are instances. Nothing is assumed about manifests, patches, inputs, counts of
workers or widths of words beyond that; in particular, entries of a manifest may have
one name.

*Batches* (`FecPoolProofs`). From the division theorem for `%` and `\div`
(`DivMod`) come the bounds of a rounded-up quotient (`CeilDivBounds`), and from
these: a batch is not empty, fits its buffers and stays inside the rounds
(`BatchFitsBuffer`), batches are disjoint (`BatchesDisjoint`) and cover the rounds
(`BatchesCover`), a block is one symbol of one round (`BlocksCoveredOnce`), and
nothing `Validate` accepts overflows (`OffsetsDoNotOverflow`).

*Worker pool* (`FecPoolProofs`). `SuccessIsComplete` is not inductive: that a call
with no error has all its parity depends on what became of each batch number that
left the counter. The inductive invariant `IInv` says so in parts, each proved
preserved by a lemma of its own:

* `Lifecycle`: workers run only while their call does;
* `ErrorFlow`: who reports cancellation has seen it, and an error of a worker that
  returned is with the group;
* `Ownership`: a batch being processed has one owner, and its number is below the
  counter;
* `ParityFollowsOwners`: nothing of a batch is written before its owner's write,
  all of it afterwards;
* `NoneLost`: a batch taken is written, or owned, or a worker has an error; who
  leaves without error leaves an exhausted counter;
* `Counting`: `done` is the number of batches written and counted, and the values
  drawn from it are reported or about to be, by one worker each.

`Invariant` is `Spec => []IInv`; from it follow `CauseReported`, `ExclusiveBatches`,
`HonestProgress`, `Quiet` and, with `BatchesCover`, `SuccessComplete`.
`PermitsAddUp` needs one more invariant, that the holders are a finite set.

`KeepsPromise` is the refinement of `ParityGen` without its termination: initial
states map to initial states, and every step of the pool is a step of the promise or
a stutter (`PromiseStep`, one case for each action). The hard cases are a write,
which completes one batch of the promise at once (`WriteCompletesOne`, from
`BatchesDisjoint`), a write that fails, which may leave rounds but never completes a
batch (`FailureCompletesNone`), and the return with nil, where the invariant gives
that all batches are there (`AllDone`).

*Engine* (`ExtractProofs`). The steps of a partition's goroutine are first reduced
to four kinds (`Effect`: it works, aborts, unwinds or ends), so that the invariant
is proved against these and not against some thirty actions. `IInv` has: the kinds
of the variables (`Kinds`), that a partition whose FEC call is under way is at that
step (`Calling`), that only partitions handed to the group have moved (`Spawning`),
where an error `context.Canceled` can come from (`Causes`: the group's context is
done only after an interrupt or after an error that is recorded before it), and
what the last event of a partition has told (`Telling`). From it: `CauseReturned`,
`EventsHonest`, `TerminalIsLast`, for any number of partitions, slots, options and
batches.

What is in the files needs a second layer, `FilesInv`, over all inodes, paths and
runs of the program. Again the steps are reduced first, to what they do to the
files (`FileEffect`: a goroutine moves on, opens, writes or removes). The parts:

* `Holding`: a path and a goroutine only ever hold the files of their own
  name; `Handles` types the rest of what goroutines keep;
* `Settled`: a file at the path of partitions whose hashes are compared has the
  image of one of them once a goroutine of this run has opened it and no goroutine is
  busy with it. This is the part for partitions that are selected twice and for entries
  of one name, where one goroutine truncates, overwrites or removes what the other has
  verified: the last one that was busy has found its own image;
* `Fresh`: once a goroutine of this run has opened or removed its output, what is at
  the path is a file of this run, and not one that a killed run left;
* `Present`: while none has failed, what they have created is at its path;
* `Advancing`: when nothing else disturbs an image (`Undisturbed`: payload intact,
  the right source, outside the output directory, alone at its path), the regions of the
  stages it has passed are in its file, which is the file at its path;
* `NotBegun`, `Ended`: nothing is counted before it is begun, and what `Extract` has
  returned when all have ended.

`NilComplete` and `NothingPartial` take `Settled` and `Fresh` for images whose hash is
compared (`NamesakesDone`) and `Advancing` for the others; that nil implies a file at the
path is `Present`. Both hold for every manifest, as the theorems are about all
goroutines of a path together. `TypeCorrect` is `TypeInv`. `ManifestAssumption` has types
only, and the bounds of the model: `MaxTasks`, the longest selection, and `MaxCrashes`
are any numbers.

*Extents* (`ExtentsProofs`). The module begins with what the solvers do not find about
remainders and with what stands in for induction: a set of numbers has a least element
(`Least`, from the library's well-foundedness of `<`), a recursive definition over
`0 .. N` defines a function (`Recursion`, by the least length at which it would not)
and has the type of its steps (`RecursionTypes`). The induction theorems of the library
take an operator as a parameter, which the provers cannot instantiate; an induction here
is a least counterexample. `BspatchProofs`, `CommandProofs` and `ReedSolomonProofs` take these
lemmas from an instance of the module, whose constants do not matter to them.

`ValidExtentIsExact`: the two wrapping comparisons of `validateExtents` accept exactly
what an `int64` addresses, so all later sums and products are exact.
`CursorStaysInside`: reads and writes never leave their extent. `UncoveredIsComplement`:
whatever order an unstable sort gives, the gaps are not empty and lie below the total,
and with valid extents a block is in a gap exactly when it is in no extent. It goes
through the cursor of the sweep after each range (`SweptAlways`, of extents nobody has
validated; `SweepIsComplement`, of sorted ranges that do not wrap).

*Operations* (`InstallOpsProofs`). `OpsInv` has the types, that an operation is at work
in each of the streaming phases (`Working`), what it has counted (`Counted`: what was
made is written or pending, and what was checked before) and what the operations before
it have passed (`Passed`). From it: `HashesGuard` and `SuccessFills`. The gaps need
`Falling`: each byte copied is that of its own offset, inside both images, and with
valid extents the untouched bytes not yet copied are in the gaps that are left; the step
is where multiplications by the block size turn blocks into bytes (`GapCopied`, from
`GapBytes` and `BlockBelow`). From it: `GapsStay`.

`ImageOrdered`, the strongest of these, compares a stream that moves in chunks with a
definition that looks only at the extents. `Placed` says that both cursors are where the
count of bytes puts them (`CursorAt`, kept by `SkipKeepsCursor` and `MoveKeepsCursor`)
and that pending bytes are those of the stream. A write of n bytes then orders the n
offsets under the cursor and no other (`PutOrdered`): the position of an offset in the
stream is below the cursor, or is the one the cursor is at (`HitsAtCursor`, as a position
lies in one extent only, `OnePlace`), so it is the last one, of the last operation. An
operation that ends has written its whole span (`WrittenAtEnd`), hence the next one
begins with nothing changed (`FinishOrdered`), and the first one begins with the gaps
(`FallenImage`). It holds for partitions whose spans fit an `int64` and whose size does
when rounded up to a block; without the second (`SizeFits`) the end of the last gap
wraps, and the gap is not copied.

*Verity* (`VerityProofs`). Past the checks the manifest satisfies them (`Checked`,
an invariant since no step changes the manifest); with the theorem about extents
the wrapping comparisons mean what they say (`InsideIsExact`, `OverlapIsExact`),
hence `WritesStayApart`; and bounded parity satisfies `fec.Validate`
(`ParityFits`), hence `AcceptedIsValid`. `OutcomeHonest` uses `HowFar`, which says
at each point what has been written.

`TreeFills` is about two computations that never meet in the code before the last
comparison: the loop that counts the blocks of the tree, and the levels as they are
padded and appended. The invariant is `Built`: the levels so far are as dm-verity has
them (`Stacked`), and their bytes, with the count of the first loop begun again at the
last level, are those of the extent (`Hashing`). It rests on: a padded level has exactly
the blocks the first loop counts (`Padding`), if a block is a whole number of hashes,
which holds as both are powers of two (`BlockOfHashes`). `Powers` are defined as what is
in every set that has 1 and is closed under doubling, so that what holds of them all
(the smaller divides the larger, `PowersDivide`) needs no induction; that
`nextPowerOfTwo` returns one (`NextIsPower`) and that the count is a function of the
number of blocks (`Descent`) need the recursions to be well founded, by a least
counterexample as in `ExtentsProofs`.

*Patch* (`BspatchProofs`). `Inside` (bounds of both positions, what the tests of the
current entry have established) gives `StaysInside`: `Apply` never slices outside
its output. `Made` (every byte below the new position was made, from a position of
the old data that exists) gives `OutputIsMade`: an accepted output has no holes.
`SumsFacts` says that the recursive definition of `Sums` is a function with the values
it reads. With it, `Track` (both positions and both streams are where the entries read
so far have brought them), `BytesAreRight` (each byte made is the one of its entry, at
the place the sums give) and `AddIsExact` (a sum that passed its test has not wrapped
upwards) give `AppliesThePatch`; `Judged` (the entries read fit, and a refusal has a
reason in the patch itself) gives `AcceptsExactly`, in both directions. Both are
stated for positions that fit their words, as the code does not notice one that wraps
downwards (section 5).

*Renderers* (`CommandProofs`, first part). A step of a goroutine is reduced to what it does to
the goroutine and to the event it sends, if any (`StepEffect`: `Silent` or
`Reports`); an event to what `handle` makes of one bar (`BarHandled`) and of the lines
printed (`PrintHandled`). The invariant has `TaskFits` (how far a goroutine is at each
stage, and which counts its workers have drawn), `BarFits` (a running bar has no
completion armed and shows the last progress) and `CountsTold`: when a count has been
delivered, the bar knows the number of FEC units. Without it a bar could complete
below its total. From these: `BarFollows`, `BarsTellOutcome`, `HundredIsHonest`, also
for partitions that several goroutines extract.

*Process* (`CommandProofs`, second part). `HeaderSizesAreExact` is arithmetic: whatever
the three lengths, a sum that passed the tests has not wrapped. The invariant
`ProcessInv` has what `Open` holds at each of its points (`OpenHolds`), what the running
program holds (`RunHolds`), where the exit code comes from (`Decided`), and that a
payload in use had its header accepted (`FromAccepted`). From it: `PayloadReadable`,
`NoLeak`, `MetadataInside`, `ExitCodeHonest` ("every error aborts with a non-zero exit
code") and `ProcessTypeCorrect`.

*Reed-Solomon* (`ReedSolomonProofs`). What holds in any field has to be earned for
this one, which the code makes of shifts and exclusive-ors:

* *xor*: `Plus` is a function with its recursive values (`PlusTable`), closed,
  commutative, associative and its own inverse (`PlusFacts`); each law is a least
  counterexample, halved. That the highest bit is a power of 2 (`HighBitIsPower`)
  follows from its having no odd divisor but 1.
* *field*: `Shifted` is additive (`ShiftedAdds`), so multiplication with the tables of
  `fectest` distributes (`MulDistributes`); with the laws of exponents
  (`LogSumLaws`) this gives the field laws (`MulFacts`). `gfMul`, which adds shifted
  copies bit by bit, is that multiplication (`GfMulIsMul`).
* *generator*: the polynomial of `rs.go` is that of `fectest` read backwards
  (`GeneratorIsGen`) and vanishes at the first powers of 2, as many as there are roots
  (`GenVanishes`, factor after factor by `TimesEval`).
* *register*: a turn of `Update` keeps "the symbols so far, followed by the register,
  vanish where the generator does" (`RemainderKept`, coefficient by coefficient along
  Horner's rule), hence `EncodeVanishes`; the long division of the reference leaves the
  same (`DividedIsEncode`: its first symbols are at each step the register, plus those
  of the message that the division has not met).
* *distance*: a word with at least one symbol and no more of them than there are
  powers it vanishes at does not exist (`FewSymbolsVanish`). Of the least number for
  which one did, multiplying each symbol by its place minus that of one of them
  (`Twisted`) removes this symbol and one power, so nothing but this symbol was there
  (`SingleSymbol`). The sum of two codewords vanishes where both do
  (`VanishingWordsFarApart`).

The worker's inductive invariant then relates the reused buffers to `Encode`:
`TypeOK`, `Control` (what each label says of the batch and the position), `Registers`
(the register of each codeword of the batch is `Encode` of the symbols it has had),
`Written` (the parity of all rounds of earlier batches is at its place). The reads are
those of AOSP's interleaving (`ReferenceSymbolIs`), and a batch writes the parity of its
rounds and of no other (`BelowRound`, `FromRound`). From it: `BuffersAreExact`,
`RemaindersInRegisters`, `ExtentIsTheReference` and `CodewordsFarApart`, for any width
of symbols, primitive polynomial, length of codewords below the order of the field,
number of roots, image and batch size: the run has words of 31 symbols, the code 255.

Only model-checked:

* liveness: the termination in `ImplementsPromise`, `RunReturns`, `WaitReturns`,
  `Terminates`. Liveness and `ENABLED` are outside what the prover can do.

## 7. Not modelled

* Decompressors (`decompress.go`): adapters over external codecs. `InstallOps` and
  `Bspatch` take what a codec yields, in pieces of any size, or its failure.
* Flag parsing, the listing of `-l`, directory names, wording of bars and errors
  (`errors.go`, most of `cmd/root.go:151-170` and `259-269`): formatting.
* The generated protocol-buffer code: data types only; that parsing may fail is a
  fault of `Parse`.
* Zip parsing (`archive/zip`), `mpb`, `errgroup`, `semaphore`: external, modelled from
  their use.
* Memory: that `make` of an accepted but large size succeeds.
* sha256 itself: equal hashes are taken to mean equal bytes.
