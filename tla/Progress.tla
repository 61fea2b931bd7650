------------------------------- MODULE Progress -------------------------------
(***************************************************************************)
(* The renderers of cmd/root.go: barRenderer over mpb bars, machineRenderer*)
(* over printed percentages, fed with the events that extractPartition     *)
(* emits.  Several goroutines may extract a partition of the same name     *)
(* (a name given twice), and within one the FEC workers deliver their      *)
(* counts out of order (fec.go, module FecPool).                           *)
(*                                                                         *)
(* mpb is external: a bar has a current value and a total; SetTotal with   *)
(* complete = FALSE disarms its completion, which AddBar has armed when    *)
(* the total is positive; a completed or aborted bar ignores every call.   *)
(***************************************************************************)
EXTENDS Integers, Sequences, FiniteSets

CONSTANTS
  Tasks,        \* goroutines of extractPartition
  Name,         \* [Tasks -> partition names]
  TotalOps,     \* [partition names -> operations]
  FecBatches,   \* [partition names -> PhaseTotal, 0 without FEC]
  FecWorkers    \* counts that may be drawn and not delivered at a time

Names == {Name[t] : t \in Tasks}

ASSUME ProgressAssumption ==
  /\ IsFiniteSet(Tasks)
  /\ TotalOps \in [Names -> Nat] /\ FecBatches \in [Names -> Nat]
  /\ FecWorkers \in Nat \ {0}

VARIABLES
  stage,      \* of a task: "queued", "ops", "fec", "ended"
  completed,  \* operations reported by a task
  drawn,      \* FEC batches counted by a task
  pending,    \* counts its workers have drawn and not delivered yet
  outcome,    \* of a task: "none", "done" or "failed"
  bars,       \* [Names -> a bar, or NoBar]
  lastDone, phaseTotal,   \* barRenderer.last and phaseTotal
  printed,    \* percentages printed for each name, and machineRenderer.last
  waited      \* bars.wait() has returned

taskVars == <<stage, completed, drawn, pending, outcome>>
barVars == <<bars, lastDone, phaseTotal>>
vars == <<taskVars, barVars, printed, waited>>

--------------------------------------------------------------------------------
(* mpb                                                                      *)

NoBar == [current |-> -1, total |-> 0, armed |-> FALSE, state |-> "absent"]

AddBar(total) == [current |-> 0, total |-> total, armed |-> total > 0, state |-> "running"]

\* A total of zero stands for the current value.
SetTotal(bar, total, complete) ==
  LET new == IF total <= 0 THEN bar.current ELSE total IN
  IF bar.state # "running" THEN bar
  ELSE IF complete THEN [bar EXCEPT !.total = new, !.current = new, !.state = "completed"]
  ELSE [bar EXCEPT !.total = new, !.armed = FALSE]

IncrBy(bar, n) ==
  IF bar.state # "running" THEN bar
  ELSE IF bar.armed /\ bar.current + n >= bar.total
  THEN [bar EXCEPT !.current = bar.total, !.state = "completed"]
  ELSE [bar EXCEPT !.current = @ + n]

BarAbort(bar) == IF bar.state = "running" THEN [bar EXCEPT !.state = "aborted"] ELSE bar

--------------------------------------------------------------------------------
(* Events and the two handlers                                              *)

Event(t, ops, phase, done, failed) ==
  [name |-> Name[t], ops |-> ops, phase |-> phase, done |-> done, failed |-> failed]

PhaseTotal(ev) == IF ev.phase > 0 THEN FecBatches[ev.name] ELSE 0

\* Mutant of OpenBar: the completion AddBar has armed stays armed.
OpenBarArmed(n) == IF bars[n] = NoBar THEN AddBar(TotalOps[n]) ELSE bars[n]

OpenBar(n) ==
  IF bars[n] = NoBar THEN SetTotal(AddBar(TotalOps[n]), TotalOps[n], FALSE) ELSE bars[n]

\* Counts of a phase may arrive late: only progress counts.
Advance(n, done) == done > lastDone[n]

\* Mutant of Finished: failure and success end a bar alike.
FinishedErrIgnored(bar, ev, grown) ==
  IF ev.done THEN SetTotal(bar, TotalOps[ev.name] + grown, TRUE) ELSE bar

\* Mutant of Finished: a failed partition leaves its bar running.
FinishedErrReturns(bar, ev, grown) ==
  IF ev.done /\ ~ ev.failed THEN SetTotal(bar, TotalOps[ev.name] + grown, TRUE) ELSE bar

Finished(bar, ev, grown) ==
  IF ev.failed THEN BarAbort(bar)
  ELSE IF ev.done THEN SetTotal(bar, TotalOps[ev.name] + grown, TRUE)
  ELSE bar

\* Mutant of Grown: the units of the phase are not added.
GrownNever(ev) == phaseTotal[ev.name]

Grown(ev) == IF PhaseTotal(ev) > phaseTotal[ev.name] THEN PhaseTotal(ev) ELSE phaseTotal[ev.name]

\* barRenderer.handle, under its mutex.
HandleBar(ev) ==
  LET n == ev.name
      grown == Grown(ev)
      opened == OpenBar(n)
      sized == IF grown > phaseTotal[n] THEN SetTotal(opened, TotalOps[n] + grown, FALSE) ELSE opened
      done == ev.ops + ev.phase
      moved == IF Advance(n, done) THEN IncrBy(sized, done - lastDone[n]) ELSE sized
  IN  /\ bars' = [bars EXCEPT ![n] = Finished(moved, ev, grown)]
      /\ phaseTotal' = [phaseTotal EXCEPT ![n] = grown]
      /\ lastDone' = [lastDone EXCEPT ![n] = IF Advance(n, done) THEN done ELSE @]

\* Mutant of Percent: the operation under way is counted.
PercentAhead(ev) ==
  IF ev.done \/ ev.ops + 1 >= TotalOps[ev.name] THEN 100
  ELSE ((ev.ops + 1) * 100) \div TotalOps[ev.name]

Percent(ev) ==
  IF ev.done \/ TotalOps[ev.name] = 0 THEN 100 ELSE (ev.ops * 100) \div TotalOps[ev.name]

PrintsNow(n, percent) == printed[n] = <<>> \/ percent > printed[n][Len(printed[n])]

\* machineRenderer.handle: the percentage is computed before the mutex is taken,
\* from the event alone; the comparison and the line printed are under it.
HandleMachine(ev) ==
  printed' = IF ~ ev.failed /\ PrintsNow(ev.name, Percent(ev))
             THEN [printed EXCEPT ![ev.name] = Append(@, Percent(ev))]
             ELSE printed

\* A run has one renderer; both are fed the same events here.
Handle(ev) == HandleBar(ev) /\ HandleMachine(ev) /\ UNCHANGED waited

--------------------------------------------------------------------------------
(* The events of extractPartition                                           *)

Init ==
  /\ stage = [t \in Tasks |-> "queued"]
  /\ completed = [t \in Tasks |-> 0] /\ drawn = [t \in Tasks |-> 0]
  /\ pending = [t \in Tasks |-> {}]
  /\ outcome = [t \in Tasks |-> "none"]
  /\ bars = [n \in Names |-> NoBar]
  /\ lastDone = [n \in Names |-> 0] /\ phaseTotal = [n \in Names |-> 0]
  /\ printed = [n \in Names |-> <<>>]
  /\ waited = FALSE

\* report(0, false, nil)
Begin(t) ==
  /\ stage[t] = "queued"
  /\ stage' = [stage EXCEPT ![t] = "ops"]
  /\ Handle(Event(t, 0, 0, FALSE, FALSE))
  /\ UNCHANGED <<completed, drawn, pending, outcome>>

ReportOp(t) ==
  /\ stage[t] = "ops" /\ completed[t] < TotalOps[Name[t]]
  /\ completed' = [completed EXCEPT ![t] = @ + 1]
  /\ Handle(Event(t, completed[t] + 1, 0, FALSE, FALSE))
  /\ UNCHANGED <<stage, drawn, pending, outcome>>

\* An operation fails, or the context is done.
OpFails(t) ==
  /\ stage[t] = "ops"
  /\ stage' = [stage EXCEPT ![t] = "ended"] /\ outcome' = [outcome EXCEPT ![t] = "failed"]
  /\ Handle(Event(t, completed[t], 0, TRUE, TRUE))
  /\ UNCHANGED <<completed, drawn, pending>>

OpsDone(t) ==
  /\ stage[t] = "ops" /\ completed[t] = TotalOps[Name[t]]
  /\ stage' = [stage EXCEPT ![t] = "fec"]
  /\ UNCHANGED <<completed, drawn, pending, outcome, barVars, printed, waited>>

\* done.Add(1) of a worker; the callback comes later.
Draw(t) ==
  /\ stage[t] = "fec" /\ drawn[t] < FecBatches[Name[t]]
  /\ Cardinality(pending[t]) < FecWorkers
  /\ drawn' = [drawn EXCEPT ![t] = @ + 1]
  /\ pending' = [pending EXCEPT ![t] = @ \cup {drawn[t] + 1}]
  /\ UNCHANGED <<stage, completed, outcome, barVars, printed, waited>>

Deliver(t) ==
  /\ stage[t] = "fec"
  /\ \E k \in pending[t] :
       /\ pending' = [pending EXCEPT ![t] = @ \ {k}]
       /\ Handle(Event(t, completed[t], k, FALSE, FALSE))
  /\ UNCHANGED <<stage, completed, drawn, outcome>>

\* The terminal event of the deferred report, after fec.Generate has returned.
End(t) ==
  /\ stage[t] = "fec" /\ pending[t] = {}
  /\ stage' = [stage EXCEPT ![t] = "ended"]
  /\ \/ /\ drawn[t] = FecBatches[Name[t]]
        /\ outcome' = [outcome EXCEPT ![t] = "done"]
        /\ Handle(Event(t, completed[t], 0, TRUE, FALSE))
     \/ /\ outcome' = [outcome EXCEPT ![t] = "failed"]
        /\ Handle(Event(t, completed[t], 0, TRUE, TRUE))
  /\ UNCHANGED <<completed, drawn, pending>>

\* Extract has returned: all tasks it started have ended, none is in progress.
ExtractReturned == \A t \in Tasks : stage[t] = "ended"

Open(n) == bars[n].state = "running"

\* bars.wait(): progress.Wait returns when no bar is running.
Wait ==
  /\ ExtractReturned /\ ~ waited
  /\ \A n \in Names : ~ Open(n)
  /\ waited' = TRUE
  /\ UNCHANGED <<taskVars, barVars, printed>>

TaskStep(t) ==
  Begin(t) \/ ReportOp(t) \/ OpFails(t) \/ OpsDone(t) \/ Draw(t) \/ Deliver(t) \/ End(t)

Next == (\E t \in Tasks : TaskStep(t)) \/ Wait

Spec == Init /\ [][Next]_vars /\ (\A t \in Tasks : WF_vars(TaskStep(t))) /\ WF_vars(Wait)

--------------------------------------------------------------------------------
(* Properties                                                               *)

Of(n) == {t \in Tasks : Name[t] = n}

\* A running bar shows the furthest progress any goroutine of its partition has
\* reported, never more than its total, in whatever order counts arrive.
BarShowsProgress ==
  \A n \in Names : Open(n) =>
    /\ bars[n].current = lastDone[n]
    /\ bars[n].current <= bars[n].total
    /\ bars[n].total = TotalOps[n] + phaseTotal[n]

\* A bar is complete only if an extraction of its partition has succeeded, parity
\* included, and then shows all of it; it is aborted only if one has failed.
BarTellsTheOutcome ==
  \A n \in Names :
    /\ bars[n].state = "completed" =>
         /\ \E t \in Of(n) : outcome[t] = "done"
         /\ bars[n].current = TotalOps[n] + FecBatches[n]
    /\ bars[n].state = "aborted" => \E t \in Of(n) : outcome[t] = "failed"

\* 100 is printed when the operations of some goroutine are complete (not before),
\* and it always is once the partition has been extracted.
HundredMeansOperationsDone ==
  \A n \in Names :
    /\ (\E i \in DOMAIN printed[n] : printed[n][i] = 100)
         => \E t \in Of(n) : stage[t] # "queued" /\ completed[t] = TotalOps[n]
    /\ (\E t \in Of(n) : outcome[t] = "done")
         => \E i \in DOMAIN printed[n] : printed[n][i] = 100

\* bars.wait (root.go:137) returns: whatever fails, no bar is left running once
\* Extract has returned.
WaitReturns == <>waited
================================================================================
