------------------------------- MODULE ParityGen -------------------------------
(***************************************************************************)
(* What fec.Generate promises its caller (internal/fec/fec.go:85-134),     *)
(* without saying how: a call writes the parity of every batch in any      *)
(* order, reports progress values that never run ahead of the parity       *)
(* written, and returns nil only when all batches are written and all      *)
(* values reported.  It fails for a reason of its own (bad parameters, an  *)
(* I/O error) or because its caller's context ended, never otherwise, and  *)
(* it touches nothing once it has returned.                                *)
(*                                                                         *)
(* FecPool, the worker pool of the code, implements this specification;    *)
(* Extract is composed with it.                                            *)
(***************************************************************************)
EXTENDS Integers, FiniteSets

CONSTANTS
  Calls,    \* the invocations of Generate, one per partition with FEC
  Valid(_), \* whether the parameters of a call pass Validate
  Batch(_)  \* the batches of a call

VARIABLES
  ctxDone,  \* the caller's context has been cancelled
  call,     \* [Calls -> {"idle", "running", "returned"}]
  gerr,     \* [Calls -> "none" or the error the call returns]
  written,  \* [Calls -> the batches whose parity is in the file]
  reported  \* [Calls -> the "done" values passed to the progress callback]

vars == <<ctxDone, call, gerr, written, reported>>

Errors == {"params", "io", "cancelled"}

Init ==
  /\ ctxDone = FALSE
  /\ call = [c \in Calls |-> "idle"]
  /\ gerr = [c \in Calls |-> "none"]
  /\ written = [c \in Calls |-> {}]
  /\ reported = [c \in Calls |-> {}]

Start(c) ==
  /\ call[c] = "idle"
  /\ Valid(c)
  /\ call' = [call EXCEPT ![c] = "running"]
  /\ UNCHANGED <<ctxDone, gerr, written, reported>>

Reject(c) ==
  /\ call[c] = "idle"
  /\ ~ Valid(c)
  /\ call' = [call EXCEPT ![c] = "returned"]
  /\ gerr' = [gerr EXCEPT ![c] = "params"]
  /\ UNCHANGED <<ctxDone, written, reported>>

WriteBatch(c, b) ==
  /\ call[c] = "running"
  /\ b \in Batch(c) \ written[c]
  /\ written' = [written EXCEPT ![c] = @ \cup {b}]
  /\ UNCHANGED <<ctxDone, call, gerr, reported>>

Report(c, k) ==
  /\ call[c] = "running"
  /\ k \in 1 .. Cardinality(written[c])
  /\ k \notin reported[c]
  /\ reported' = [reported EXCEPT ![c] = @ \cup {k}]
  /\ UNCHANGED <<ctxDone, call, gerr, written>>

Succeed(c) ==
  /\ call[c] = "running"
  /\ gerr[c] = "none"
  /\ written[c] = Batch(c)
  /\ reported[c] = 1 .. Cardinality(Batch(c))
  /\ call' = [call EXCEPT ![c] = "returned"]
  /\ UNCHANGED <<ctxDone, gerr, written, reported>>

\* The first error of a worker is the call's; the others may still be at work.
Fault(c, e) ==
  /\ call[c] = "running"
  /\ gerr[c] = "none"
  /\ e = "cancelled" => ctxDone
  /\ gerr' = [gerr EXCEPT ![c] = e]
  /\ UNCHANGED <<ctxDone, call, written, reported>>

Fail(c) ==
  /\ call[c] = "running"
  /\ gerr[c] # "none"
  /\ call' = [call EXCEPT ![c] = "returned"]
  /\ UNCHANGED <<ctxDone, gerr, written, reported>>

Cancel ==
  /\ ~ ctxDone
  /\ ctxDone' = TRUE
  /\ UNCHANGED <<call, gerr, written, reported>>

\* A step of a call that has begun.
Step(c) ==
  \/ \E b \in Batch(c) : WriteBatch(c, b)
  \/ \E k \in 1 .. Cardinality(Batch(c)) : Report(c, k)
  \/ Succeed(c)
  \/ \E e \in Errors \ {"params"} : Fault(c, e)
  \/ Fail(c)

Next == Cancel \/ \E c \in Calls : Start(c) \/ Reject(c) \/ Step(c)

\* A call that has begun returns, whatever happens to its context.
Termination == \A c \in Calls : call[c] = "running" ~> call[c] = "returned"

Spec == Init /\ [][Next]_vars /\ Termination
================================================================================
