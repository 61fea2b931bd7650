-------------------------------- MODULE FecPool --------------------------------
(***************************************************************************)
(* fec.Generate (internal/fec/fec.go:85-173) as the extractor runs it: one *)
(* invocation per partition with FEC, several at a time, all of them with  *)
(* the same weighted semaphore (payload/extract.go:64) and the same parent *)
(* context.                                                                *)
(*                                                                         *)
(* An invocation starts its workers in an errgroup.  A worker holds one    *)
(* permit for its whole life, takes batch numbers from an atomic counter,  *)
(* reads the symbols of the batch one by one (checking the context before  *)
(* each), writes the parity of the batch, counts it, and hands the count   *)
(* to the progress callback.  The first error a worker returns is the      *)
(* invocation's, and cancels the group's context.                          *)
(*                                                                         *)
(* Abstracted: the bytes of blocks and parity (a round is written or not), *)
(* and the FIFO order in which the semaphore serves its waiters (any       *)
(* waiter may be served next).                                             *)
(***************************************************************************)
EXTENDS FecParams, FiniteSets

CONSTANTS
  Calls,       \* invocations of Generate
  Params,      \* [Calls -> parameters of the invocation]
  NumWorkers,  \* the workers argument
  Capacity     \* permits of the semaphore

ASSUME FecPoolAssumption ==
  /\ Params \in [Calls -> ParamsType]
  /\ NumWorkers \in Int
  /\ Capacity \in Nat \ {0}

VARIABLES
  ctxDone,   \* the parent context is done
  permits,   \* free permits of the semaphore
  call,      \* [Calls -> {"idle", "running", "returned"}]
  gerr,      \* first error recorded by the errgroup of a call; cancels its context
  next,      \* the atomic counter of batches taken
  done,      \* the atomic counter of batches completed
  parity,    \* rounds whose parity has been written
  reported,  \* values passed to progress
  pc,        \* where a worker is
  batch,     \* the batch a worker holds
  sym,       \* data symbols of the batch read so far
  seq,       \* the value of done a worker is about to report
  werr       \* the error a worker is about to return

callVars == <<call, gerr, next, done, parity, reported>>
workerVars == <<pc, batch, sym, seq, werr>>
vars == <<ctxDone, permits, callVars, workerVars>>

--------------------------------------------------------------------------------
(* Workers                                                                  *)

\* "if workers <= 0 { workers = 1 }; if workers > batches { workers = batches }"
WorkerCount(c) ==
  IF ~ Valid(Params[c]) THEN 0
  ELSE IF NumWorkers <= 0 THEN 1
  ELSE IF NumWorkers > Batches(Params[c]) THEN Batches(Params[c])
  ELSE NumWorkers

CallOf(w) == w[1]

WorkersOf(c) == {c} \X (1 .. WorkerCount(c))

Workers == UNION {WorkersOf(c) : c \in Calls}

Symbols(c) == RsN(Params[c])

NumBatches(c) == Batches(Params[c])

BatchOf(w) == BatchSpan(Params[CallOf(w)], batch[w])

\* The states of a worker between a successful Acquire and its Release.
Holding == {"take", "read", "write", "count", "deliver", "release"}

Holds(w) == pc[w] \in Holding

\* The context the workers of a call see: the errgroup's, derived from the parent.
GroupDone(c) == ctxDone \/ gerr[c] # "none"

AllReturned(c) == \A w \in WorkersOf(c) : pc[w] = "returned"

TypeInv ==
  /\ ctxDone \in BOOLEAN
  /\ permits \in Nat
  /\ call \in [Calls -> {"idle", "running", "returned"}]
  /\ gerr \in [Calls -> {"none", "params", "io", "cancelled"}]
  /\ next \in [Calls -> Nat]
  /\ done \in [Calls -> Nat]
  /\ parity \in [Calls -> SUBSET Nat]
  /\ reported \in [Calls -> SUBSET Nat]
  /\ pc \in [Workers -> Holding \cup {"idle", "acquire", "return", "returned"}]
  /\ batch \in [Workers -> Nat]
  /\ sym \in [Workers -> Nat]
  /\ seq \in [Workers -> Nat]
  /\ werr \in [Workers -> {"none", "io", "cancelled"}]

Init ==
  /\ ctxDone = FALSE
  /\ permits = Capacity
  /\ call = [c \in Calls |-> "idle"]
  /\ gerr = [c \in Calls |-> "none"]
  /\ next = [c \in Calls |-> 0]
  /\ done = [c \in Calls |-> 0]
  /\ parity = [c \in Calls |-> {}]
  /\ reported = [c \in Calls |-> {}]
  /\ pc = [w \in Workers |-> "idle"]
  /\ batch = [w \in Workers |-> 0]
  /\ sym = [w \in Workers |-> 0]
  /\ seq = [w \in Workers |-> 0]
  /\ werr = [w \in Workers |-> "none"]

Goto(w, label) == pc' = [pc EXCEPT ![w] = label]

\* A worker leaves the loop with error e; the deferred Release comes first.
\* (batch, sym and seq are locals of the loop: 0 outside their scope.)
Abandon(w, e) ==
  /\ werr' = [werr EXCEPT ![w] = e]
  /\ batch' = [batch EXCEPT ![w] = 0]
  /\ sym' = [sym EXCEPT ![w] = 0]
  /\ Goto(w, "release")

--------------------------------------------------------------------------------
(* Generate: parameters, start of the workers, g.Wait                       *)

Generate(c) ==
  /\ call[c] = "idle"
  /\ Valid(Params[c])
  /\ call' = [call EXCEPT ![c] = "running"]
  /\ pc' = [w \in Workers |-> IF CallOf(w) = c THEN "acquire" ELSE pc[w]]
  /\ UNCHANGED <<ctxDone, permits, gerr, next, done, parity, reported,
                 batch, sym, seq, werr>>

RejectParams(c) ==
  /\ call[c] = "idle"
  /\ ~ Valid(Params[c])
  /\ call' = [call EXCEPT ![c] = "returned"]
  /\ gerr' = [gerr EXCEPT ![c] = "params"]
  /\ UNCHANGED <<ctxDone, permits, next, done, parity, reported, workerVars>>

\* Mutant of GenerateReturns: the first error returns before the workers have.
GenerateReturnsEarly(c) ==
  /\ call[c] = "running"
  /\ AllReturned(c) \/ gerr[c] # "none"
  /\ call' = [call EXCEPT ![c] = "returned"]
  /\ UNCHANGED <<ctxDone, permits, gerr, next, done, parity, reported, workerVars>>

GenerateReturns(c) ==
  /\ call[c] = "running"
  /\ AllReturned(c)
  /\ call' = [call EXCEPT ![c] = "returned"]
  /\ UNCHANGED <<ctxDone, permits, gerr, next, done, parity, reported, workerVars>>

--------------------------------------------------------------------------------
(* The body of a worker                                                     *)

\* Mutant of Acquire: the worker does not wait for a permit.
AcquireUnbounded(w) ==
  /\ pc[w] = "acquire"
  /\ ~ GroupDone(CallOf(w))
  /\ permits' = permits - 1
  /\ Goto(w, "take")
  /\ UNCHANGED <<ctxDone, callVars, batch, sym, seq, werr>>

Acquire(w) ==
  /\ pc[w] = "acquire"
  /\ ~ GroupDone(CallOf(w))
  /\ permits > 0
  /\ permits' = permits - 1
  /\ Goto(w, "take")
  /\ UNCHANGED <<ctxDone, callVars, batch, sym, seq, werr>>

\* Mutant of AcquireFails: the Release is deferred before the Acquire.
AcquireFailsReleasing(w) ==
  /\ pc[w] = "acquire"
  /\ GroupDone(CallOf(w))
  /\ werr' = [werr EXCEPT ![w] = "cancelled"]
  /\ Goto(w, "release")
  /\ UNCHANGED <<ctxDone, permits, callVars, batch, sym, seq>>

\* Acquire fails without a permit, so the deferred Release is never registered.
AcquireFails(w) ==
  /\ pc[w] = "acquire"
  /\ GroupDone(CallOf(w))
  /\ werr' = [werr EXCEPT ![w] = "cancelled"]
  /\ Goto(w, "return")
  /\ UNCHANGED <<ctxDone, permits, callVars, batch, sym, seq>>

\* Mutant of TakeBatch: the counter is not atomic, an increment may be lost.
TakeBatchRacy(w) ==
  LET c == CallOf(w) IN
  /\ pc[w] = "take"
  /\ \E n \in {next[c], next[c] + 1} : next' = [next EXCEPT ![c] = n]
  /\ IF next[c] >= NumBatches(c)
     THEN Goto(w, "release") /\ UNCHANGED batch
     ELSE Goto(w, "read") /\ batch' = [batch EXCEPT ![w] = next[c]]
  /\ UNCHANGED <<ctxDone, permits, call, gerr, done, parity, reported,
                 sym, seq, werr>>

\* Mutant of TakeBatch: compares the incremented counter, so the last batch is
\* taken and dropped.
TakeBatchShort(w) ==
  LET c == CallOf(w) IN
  /\ pc[w] = "take"
  /\ next' = [next EXCEPT ![c] = @ + 1]
  /\ IF next[c] + 1 >= NumBatches(c)
     THEN Goto(w, "release") /\ UNCHANGED batch
     ELSE Goto(w, "read") /\ batch' = [batch EXCEPT ![w] = next[c]]
  /\ UNCHANGED <<ctxDone, permits, call, gerr, done, parity, reported,
                 sym, seq, werr>>

\* batch := next.Add(1) - 1, and the end of the loop when there is none left.
TakeBatch(w) ==
  LET c == CallOf(w) IN
  /\ pc[w] = "take"
  /\ next' = [next EXCEPT ![c] = @ + 1]
  /\ IF next[c] >= NumBatches(c)
     THEN Goto(w, "release") /\ UNCHANGED batch
     ELSE Goto(w, "read") /\ batch' = [batch EXCEPT ![w] = next[c]]
  /\ UNCHANGED <<ctxDone, permits, call, gerr, done, parity, reported,
                 sym, seq, werr>>

\* One iteration of generateBatch: ctx.Err, ReadAt, Update.
ReadSymbol(w) ==
  LET c == CallOf(w) IN
  /\ pc[w] = "read"
  /\ ~ GroupDone(c)
  /\ IF sym[w] + 1 = Symbols(c)
     THEN Goto(w, "write") /\ sym' = [sym EXCEPT ![w] = 0]
     ELSE UNCHANGED pc /\ sym' = [sym EXCEPT ![w] = @ + 1]
  /\ UNCHANGED <<ctxDone, permits, callVars, batch, seq, werr>>

\* Mutant of ReadCancelled: the cancelled batch is abandoned without an error.
ReadCancelledSilently(w) ==
  /\ pc[w] = "read"
  /\ GroupDone(CallOf(w))
  /\ Abandon(w, "none")
  /\ UNCHANGED <<ctxDone, permits, callVars, seq>>

ReadCancelled(w) ==
  /\ pc[w] = "read"
  /\ GroupDone(CallOf(w))
  /\ Abandon(w, "cancelled")
  /\ UNCHANGED <<ctxDone, permits, callVars, seq>>

ReadFails(w) ==
  /\ pc[w] = "read"
  /\ ~ GroupDone(CallOf(w))
  /\ Abandon(w, "io")
  /\ UNCHANGED <<ctxDone, permits, callVars, seq>>

\* WriteAt of the parity of the batch; the context is not consulted again.
WriteParity(w) ==
  /\ pc[w] = "write"
  /\ parity' = [parity EXCEPT ![CallOf(w)] = @ \cup BatchOf(w)]
  /\ Goto(w, "count")
  /\ UNCHANGED <<ctxDone, permits, call, gerr, next, done, reported,
                 batch, sym, seq, werr>>

\* A WriteAt that fails may have written the first n rounds of the batch.
WriteFails(w) ==
  /\ pc[w] = "write"
  /\ \E n \in BatchOf(w) :
       parity' = [parity EXCEPT ![CallOf(w)] = @ \cup {r \in BatchOf(w) : r < n}]
  /\ Abandon(w, "io")
  /\ UNCHANGED <<ctxDone, permits, call, gerr, next, done, reported, seq>>

\* Mutant of CountBatch: the counter is not atomic, an increment may be lost.
CountBatchRacy(w) ==
  LET c == CallOf(w) IN
  /\ pc[w] = "count"
  /\ \E n \in {done[c], done[c] + 1} : done' = [done EXCEPT ![c] = n]
  /\ seq' = [seq EXCEPT ![w] = done[c] + 1]
  /\ Goto(w, "deliver")
  /\ UNCHANGED <<ctxDone, permits, call, gerr, next, parity, reported,
                 batch, sym, werr>>

\* done.Add(1), evaluated before progress is entered.
CountBatch(w) ==
  LET c == CallOf(w) IN
  /\ pc[w] = "count"
  /\ done' = [done EXCEPT ![c] = @ + 1]
  /\ seq' = [seq EXCEPT ![w] = done[c] + 1]
  /\ Goto(w, "deliver")
  /\ UNCHANGED <<ctxDone, permits, call, gerr, next, parity, reported,
                 batch, sym, werr>>

\* progress(done, total): another worker may deliver a later value first.
Deliver(w) ==
  /\ pc[w] = "deliver"
  /\ reported' = [reported EXCEPT ![CallOf(w)] = @ \cup {seq[w]}]
  /\ batch' = [batch EXCEPT ![w] = 0]
  /\ seq' = [seq EXCEPT ![w] = 0]
  /\ Goto(w, "take")
  /\ UNCHANGED <<ctxDone, permits, call, gerr, next, done, parity, sym, werr>>

\* defer lim.Release(1)
Release(w) ==
  /\ pc[w] = "release"
  /\ permits' = permits + 1
  /\ Goto(w, "return")
  /\ UNCHANGED <<ctxDone, callVars, batch, sym, seq, werr>>

\* Mutant of Return: the last error is kept, not the first.
ReturnLastError(w) ==
  LET c == CallOf(w) IN
  /\ pc[w] = "return"
  /\ gerr' = [gerr EXCEPT ![c] = IF werr[w] = "none" THEN @ ELSE werr[w]]
  /\ Goto(w, "returned")
  /\ UNCHANGED <<ctxDone, permits, call, next, done, parity, reported,
                 batch, sym, seq, werr>>

\* The errgroup records the first error and cancels the group's context.
Return(w) ==
  LET c == CallOf(w) IN
  /\ pc[w] = "return"
  /\ gerr' = [gerr EXCEPT ![c] = IF @ = "none" THEN werr[w] ELSE @]
  /\ Goto(w, "returned")
  /\ UNCHANGED <<ctxDone, permits, call, next, done, parity, reported,
                 batch, sym, seq, werr>>

--------------------------------------------------------------------------------

Cancel ==
  /\ ~ ctxDone
  /\ ctxDone' = TRUE
  /\ UNCHANGED <<permits, callVars, workerVars>>

Fault(w) == ReadFails(w) \/ WriteFails(w)

WorkerStep(w) ==
  \/ Acquire(w) \/ AcquireFails(w) \/ TakeBatch(w)
  \/ ReadSymbol(w) \/ ReadCancelled(w) \/ WriteParity(w)
  \/ CountBatch(w) \/ Deliver(w) \/ Release(w) \/ Return(w)

Next ==
  \/ Cancel
  \/ \E c \in Calls : Generate(c) \/ RejectParams(c) \/ GenerateReturns(c)
  \/ \E w \in Workers : WorkerStep(w) \/ Fault(w)

\* Go runs every goroutine that can run, and g.Wait returns once it may.
\* Nothing makes a caller start a call, cancel it, or an I/O operation fail.
Fairness ==
  /\ \A w \in Workers : WF_vars(WorkerStep(w) \/ Fault(w))
  /\ \A c \in Calls : WF_vars(GenerateReturns(c))

Spec == Init /\ [][Next]_vars /\ Fairness
--------------------------------------------------------------------------------
(* Properties                                                               *)

BatchesOf(c) == IF Valid(Params[c]) THEN BatchSet(Params[c]) ELSE {}

\* Batches all of whose parity is in the file.
WrittenBatches ==
  [c \in Calls |-> {b \in BatchesOf(c) : BatchSpan(Params[c], b) \subseteq parity[c]}]

\* A call that returns nil has written the parity of every round, and its
\* progress callback has been given every value from 1 to the number of
\* batches: no batch is lost between next.Add and a worker that stops.
SuccessIsComplete ==
  \A c \in Calls :
    call[c] = "returned" /\ gerr[c] = "none" =>
      /\ parity[c] = RoundSet(Params[c])
      /\ reported[c] = 1 .. NumBatches(c)

\* Two workers never compute the same batch, and none begins a batch whose
\* parity has been written: WriteAt calls never touch the same bytes.
BatchesAreExclusive ==
  \A v, w \in Workers :
    /\ CallOf(v) = CallOf(w)
    /\ pc[v] \in {"read", "write"}
    => /\ v # w /\ pc[w] \in {"read", "write"} => batch[v] # batch[w]
       /\ BatchSpan(Params[CallOf(v)], batch[v]) \cap parity[CallOf(v)] = {}

\* Permits are conserved: what is not free is held by a worker, so no early
\* return or failure leaks one, and never do more than Capacity workers of
\* all the concurrent calls compute at the same time.
PermitsConserved ==
  permits + Cardinality({w \in Workers : Holds(w)}) = Capacity

\* A value about to be handed to progress is new, no other worker holds it, and
\* that many batches are already in the file, in whatever order the workers
\* deliver their values.
ProgressIsHonest ==
  \A w \in Workers : pc[w] = "deliver" =>
    /\ seq[w] \in 1 .. Cardinality(WrittenBatches[CallOf(w)])
    /\ seq[w] \notin reported[CallOf(w)]
    /\ \A v \in WorkersOf(CallOf(w)) \ {w} : pc[v] = "deliver" => seq[v] # seq[w]

\* The error a call returns is the cause: "context canceled" only when the
\* caller's context ended, never because a sibling worker failed first.
CauseIsReported ==
  \A c \in Calls : gerr[c] = "cancelled" => ctxDone

\* After g.Wait nobody writes to the file or calls progress, although the
\* workers hold no reference that closing the file would invalidate.
QuietAfterReturn ==
  [][\A c \in Calls : call[c] = "returned" =>
       parity'[c] = parity[c] /\ reported'[c] = reported[c]]_vars

ValidCall(c) == Valid(Params[c])

Promise == INSTANCE ParityGen
             WITH written <- WrittenBatches, Valid <- ValidCall, Batch <- BatchesOf

\* Every behaviour of the worker pool is one the promise allows, and a call
\* that has begun returns whatever faults and cancellations occur.
ImplementsPromise == Promise!Spec
================================================================================
