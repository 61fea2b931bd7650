----------------------------- MODULE ExtractProofs -----------------------------
(***************************************************************************)
(* What Extract reports and what it leaves on disk, proved for every       *)
(* manifest, selection and options, every state of the disk beforehand,    *)
(* every number of slots and of batches: the error it returns, the events  *)
(* of each partition, and the images at the output paths.  First one step  *)
(* of a partition is reduced to its effect on the control (Effect) and on  *)
(* the files (FileEffect); the parts of the invariant are then proved from *)
(* the effects, and only the progress of an undisturbed image (Advanced)   *)
(* action by action.                                                       *)
(***************************************************************************)
EXTENDS Extract, WellFoundedInduction, TLAPS

Steps ==
  {"queued", "begin", "source", "create", "gaps", "ops", "tree", "fec", "verify", "done",
   "failing", "remove", "leave", "finished"}

\* Where the goroutine of a partition has not failed; and has run its operations.
Working == {"begin", "source", "create", "gaps", "ops", "tree", "fec", "verify", "done"}
Late == {"tree", "fec", "verify", "done"}

Errors == {"none", "io", "verify", "source", "cancelled"}

LEMMA SelectionFacts ==
  ASSUME opts \in OptionSet
  PROVE  /\ Len(Selected) \in Nat /\ Len(Selected) <= MaxTasks /\ MaxTasks \in Nat
         /\ DOMAIN Selected = 1 .. Len(Selected)
         /\ DOMAIN Selected \subseteq Tasks
<1>1. /\ MaxTasks \in Nat /\ Manifest \in Seq(PartitionType) /\ opts.names \in Seq(Names)
      /\ Len(IF opts.names = <<>> THEN Manifest ELSE opts.names) <= MaxTasks
  BY ManifestAssumption
<1>2. CASE opts.names = <<>>
  <2> DEFINE n == Len(Manifest)
  <2>1. n \in Nat /\ DOMAIN Manifest = 1 .. n /\ n <= MaxTasks
    BY <1>1, <1>2
  <2>2. Selected = [k \in 1 .. n |-> k]
    BY <1>2, <2>1 DEF Selected, SelectPartitions
  <2> HIDE DEF n
  <2>3. DOMAIN Selected = 1 .. n /\ Len(Selected) = n
    BY <2>1, <2>2
  <2> QED BY <1>1, <2>1, <2>3 DEF Tasks
<1>3. CASE opts.names # <<>>
  <2> DEFINE n == Len(opts.names)
  <2>1. n \in Nat /\ DOMAIN opts.names = 1 .. n /\ n <= MaxTasks
    BY <1>1, <1>3
  <2>2. Selected = [k \in 1 .. n |-> ByName[opts.names[k]]]
    BY <1>3, <2>1 DEF Selected, SelectPartitions
  <2> HIDE DEF n
  <2>3. DOMAIN Selected = 1 .. n /\ Len(Selected) = n
    BY <2>1, <2>2
  <2> QED BY <1>1, <2>1, <2>3 DEF Tasks
<1> QED BY <1>2, <1>3

--------------------------------------------------------------------------------
(* One step of one partition                                                *)

\* The type of what the arguments below are about.
Kinds ==
  /\ opts \in OptionSet
  /\ step \in [Tasks -> Steps]
  /\ err \in [Tasks -> Errors]
  /\ completed \in [Tasks -> Nat]
  /\ shown = [t \in Tasks |-> shown[t]]
  /\ call \in [Tasks -> {"idle", "running", "returned"}]
  /\ gerr \in [Tasks -> {"none", "io", "cancelled"}]
  /\ xerr \in Errors
  /\ interrupted \in BOOLEAN /\ ctxDone \in BOOLEAN

\* What a step of t leaves alone.
Frame(t) ==
  /\ UNCHANGED <<opts, stage, result, spawned, interrupted>>
  /\ \A u \in Tasks \ {t} :
       /\ step'[u] = step[u] /\ err'[u] = err[u] /\ completed'[u] = completed[u]
       /\ shown'[u] = shown[u] /\ call'[u] = call[u] /\ gerr'[u] = gerr[u]

Quiet == xerr' = xerr /\ ctxDone' = ctxDone

\* t goes on with its work.
Works(t) ==
  /\ step[t] \in Working /\ step'[t] \in Working /\ Quiet
  /\ err'[t] = err[t]
  /\ step'[t] \in Late => step[t] \in Late \/ completed'[t] = Len(Part(t).ops)
  /\ step[t] \in Late => completed'[t] = completed[t]
  /\ shown'[t] = shown[t] \/ ~ shown'[t].done
  /\ call'[t] = "running" => step'[t] = "fec"
  /\ gerr'[t] = gerr[t] \/ (gerr'[t] = "cancelled" => ctxDone)

\* t fails.
Aborts(t) ==
  /\ step[t] \in Working /\ step'[t] = "failing" /\ Quiet
  /\ err'[t] # "none" /\ (err'[t] = "cancelled" => ctxDone)
  /\ shown'[t] = shown[t] /\ gerr'[t] = gerr[t] /\ call'[t] # "running"

\* t tells of its failure, removes its output, and leaves the group.
Unwinds(t) ==
  /\ err'[t] = err[t] /\ gerr'[t] = gerr[t] /\ call'[t] = call[t]
  /\ \/ /\ step[t] = "failing" /\ step'[t] = "remove" /\ Quiet
        /\ shown'[t].done /\ shown'[t].failure = err[t]
     \/ /\ step[t] = "remove" /\ step'[t] = "leave" /\ Quiet
        /\ shown'[t] = shown[t]
     \/ /\ step[t] = "leave" /\ step'[t] = "finished" /\ shown'[t] = shown[t]
        /\ xerr' = (IF xerr = "none" THEN err[t] ELSE xerr) /\ ctxDone' = TRUE

\* t ends well.
Ends(t) ==
  /\ step[t] = "done" /\ step'[t] = "finished" /\ Quiet
  /\ err'[t] = err[t] /\ gerr'[t] = gerr[t] /\ call'[t] = call[t]
  /\ shown'[t].done /\ shown'[t].failure = "none"
  /\ shown'[t].completed = Len(Part(t).ops)

Effect(t) == Frame(t) /\ (Works(t) \/ Aborts(t) \/ Unwinds(t) \/ Ends(t))

\* A call of fec.Generate is under way only where it is waited for, and what it has
\* met is a cancellation only if there is one.
Calling ==
  \A t \in Tasks : /\ call[t] = "running" => step[t] = "fec"
                   /\ gerr[t] = "cancelled" => ctxDone

USE DEF runVars, fileVars, fecVars, taskVars, Goto, Show, Event, NoEvent

LEMMA StepEffect ==
  ASSUME Kinds, Calling, NEW t \in Tasks, PartitionStep(t)
  PROVE  Effect(t)
<1> USE DEF Kinds, Effect, Frame, Works, Aborts, Unwinds, Ends, Quiet, Working, Late, Steps, Abort, Calling
<1>1. CASE Begin(t)
  BY <1>1 DEF Begin
<1>2. CASE OpenSource(t)
  BY <1>2 DEF OpenSource, SourceRefusal
<1>3. CASE Create(t)
  BY <1>3 DEF Create
<1>4. CASE CopyGaps(t)
  BY <1>4 DEF CopyGaps
<1>5. CASE RunOp(t)
  BY <1>5 DEF RunOp, AtOp
<1>6. CASE OpRejected(t)
  BY <1>6 DEF OpRejected, AtOp
<1>7. CASE BeginVerity(t)
  BY <1>7 DEF BeginVerity, AfterOps, AfterTree
<1>8. CASE WriteTree(t)
  BY <1>8 DEF WriteTree, AfterTree
<1>9. CASE Cancelled(t)
  BY <1>9 DEF Cancelled, AtOp, AfterOps
<1>10. CASE FecStart(t)
  BY <1>10 DEF FecStart, Fec!Start
<1>11. CASE FecSucceed(t)
  BY <1>11 DEF FecSucceed, Fec!Succeed
<1>12. CASE FecFail(t)
  BY <1>12 DEF FecFail, Fec!Fail
<1>13. ASSUME NEW b \in FecBatches, FecWrite(t, b) PROVE Effect(t)
  BY <1>13 DEF FecWrite, Fec!WriteBatch
<1>14. ASSUME NEW k \in 1 .. Cardinality(FecBatches), FecReport(t, k) PROVE Effect(t)
  BY <1>14 DEF FecReport, Fec!Report
<1>15. ASSUME NEW e \in {"io", "cancelled"}, FecFault(t, e) PROVE Effect(t)
  BY <1>15 DEF FecFault, Fec!Fault
<1>16. CASE Verify(t)
  BY <1>16 DEF Verify
<1>17. CASE Done(t)
  BY <1>17 DEF Done
<1>18. CASE IoFails(t)
  BY <1>18 DEF IoFails, AtOp
<1>19. CASE ReportFailure(t)
  BY <1>19 DEF ReportFailure
<1>20. CASE Remove(t)
  BY <1>20 DEF Remove
<1>21. CASE Leave(t)
  BY <1>21 DEF Leave
<1> QED
  BY <1>1, <1>2, <1>3, <1>4, <1>5, <1>6, <1>7, <1>8, <1>9, <1>10, <1>11, <1>12,
     <1>13, <1>14, <1>15, <1>16, <1>17, <1>18, <1>19, <1>20, <1>21
     DEF PartitionStep, FecStep

LEMMA StepKinds ==
  ASSUME Kinds, NEW t \in Tasks, PartitionStep(t)
  PROVE  Kinds'
<1> USE DEF Kinds, Errors, Steps, Abort
<1>1. CASE Begin(t)
  BY <1>1 DEF Begin
<1>2. CASE OpenSource(t)
  BY <1>2 DEF OpenSource, SourceRefusal
<1>3. CASE Create(t)
  BY <1>3 DEF Create
<1>4. CASE CopyGaps(t)
  BY <1>4 DEF CopyGaps
<1>5. CASE RunOp(t)
  <2>1. completed' \in [Tasks -> Nat]
    BY <1>5 DEF RunOp
  <2> QED BY <1>5, <2>1 DEF RunOp
<1>6. CASE OpRejected(t)
  BY <1>6 DEF OpRejected
<1>7. CASE BeginVerity(t)
  BY <1>7 DEF BeginVerity, AfterTree
<1>8. CASE WriteTree(t)
  BY <1>8 DEF WriteTree, AfterTree
<1>9. CASE Cancelled(t)
  BY <1>9 DEF Cancelled
<1>10. CASE FecStart(t)
  BY <1>10 DEF FecStart, Fec!Start
<1>11. CASE FecSucceed(t)
  BY <1>11 DEF FecSucceed, Fec!Succeed
<1>12. CASE FecFail(t)
  BY <1>12 DEF FecFail, Fec!Fail
<1>13. ASSUME NEW b \in FecBatches, FecWrite(t, b) PROVE Kinds'
  BY <1>13 DEF FecWrite, Fec!WriteBatch
<1>14. ASSUME NEW k \in 1 .. Cardinality(FecBatches), FecReport(t, k) PROVE Kinds'
  BY <1>14 DEF FecReport, Fec!Report
<1>15. ASSUME NEW e \in {"io", "cancelled"}, FecFault(t, e) PROVE Kinds'
  BY <1>15 DEF FecFault, Fec!Fault
<1>16. CASE Verify(t)
  BY <1>16 DEF Verify
<1>17. CASE Done(t)
  BY <1>17 DEF Done
<1>18. CASE IoFails(t)
  BY <1>18 DEF IoFails
<1>19. CASE ReportFailure(t)
  BY <1>19 DEF ReportFailure
<1>20. CASE Remove(t)
  BY <1>20 DEF Remove
<1>21. CASE Leave(t)
  BY <1>21 DEF Leave
<1> QED
  BY <1>1, <1>2, <1>3, <1>4, <1>5, <1>6, <1>7, <1>8, <1>9, <1>10, <1>11, <1>12,
     <1>13, <1>14, <1>15, <1>16, <1>17, <1>18, <1>19, <1>20, <1>21
     DEF PartitionStep, FecStep

--------------------------------------------------------------------------------
(* The steps of the run as a whole                                          *)

RunStep == Start \/ MkdirFails \/ Spawn \/ Return \/ Interrupt \/ Crash

\* Nothing but the partitions' goroutines and Crash touches what they keep.
GroupStep ==
  \/ stage = "running" /\ \E t \in Tasks : PartitionStep(t)
  \/ RunStep

LEMMA NextIsGroupStep == Next <=> GroupStep
BY DEF Next, GroupStep, RunStep

\* Which partitions have been handed to the group.
Spawning ==
  /\ stage \in {"start", "running", "returned"}
  /\ spawned \in Nat /\ spawned <= Len(Selected)
  /\ \A t \in Tasks : step[t] = "queued" <=> t > spawned
  /\ stage = "start" => spawned = 0 /\ result = "none"
  /\ stage = "running" => Precheck(opts) = "ok"
  /\ stage = "returned" /\ spawned > 0 =>
       /\ \A t \in DOMAIN Selected : step[t] = "finished"
       /\ result = "ok" <=> xerr = "none"

LEMMA SameSelection ==
  ASSUME opts' = opts
  PROVE  Selected' = Selected /\ \A t : Part(t)' = Part(t)
BY DEF Selected, Part

LEMMA RunKinds ==
  ASSUME Kinds, Spawning, RunStep
  PROVE  Kinds'
<1> USE DEF Kinds, Errors, Steps
<1>1. CASE Start BY <1>1 DEF Start
<1>2. CASE MkdirFails BY <1>2 DEF MkdirFails
<1>3. CASE Spawn BY <1>3 DEF Spawn
<1>4. CASE Return BY <1>4 DEF Return
<1>5. CASE Interrupt BY <1>5 DEF Interrupt
<1>6. CASE Crash BY <1>6 DEF Crash, FreshRun
<1> QED BY <1>1, <1>2, <1>3, <1>4, <1>5, <1>6 DEF RunStep

LEMMA RunCalling ==
  ASSUME Kinds, Calling, Spawning, RunStep
  PROVE  Calling'
<1> USE DEF Kinds, Calling, Steps
<1>1. CASE Start BY <1>1 DEF Start
<1>2. CASE MkdirFails BY <1>2 DEF MkdirFails
<1>3. CASE Spawn
  <2>1. \A t \in Tasks : t = spawned + 1 => step[t] = "queued"
    BY DEF Spawning
  <2>2. \A t \in Tasks : t # spawned + 1 => step'[t] = step[t]
    BY <1>3 DEF Spawn
  <2> QED BY <1>3, <2>1, <2>2 DEF Spawn
<1>4. CASE Return BY <1>4 DEF Return
<1>5. CASE Interrupt BY <1>5 DEF Interrupt
<1>6. CASE Crash BY <1>6 DEF Crash, FreshRun
<1> QED BY <1>1, <1>2, <1>3, <1>4, <1>5, <1>6 DEF RunStep

LEMMA StepCalling ==
  ASSUME Kinds, Calling, NEW t \in Tasks, Effect(t)
  PROVE  Calling'
BY DEF Kinds, Calling, Effect, Frame, Works, Aborts, Unwinds, Ends, Quiet, Working

LEMMA StepSpawning ==
  ASSUME Kinds, Spawning, stage = "running", NEW t \in Tasks, Effect(t)
  PROVE  Spawning'
<1>1. opts' = opts /\ stage' = stage /\ result' = result /\ spawned' = spawned
  BY DEF Effect, Frame
<1>2. Selected' = Selected /\ Precheck(opts') = Precheck(opts)
  BY <1>1, SameSelection
<1>3. \A u \in Tasks : step'[u] = "queued" <=> step[u] = "queued"
  BY DEF Effect, Frame, Works, Aborts, Unwinds, Ends, Working
<1> QED BY <1>1, <1>2, <1>3 DEF Spawning

LEMMA RunSpawning ==
  ASSUME Kinds, Spawning, RunStep
  PROVE  Spawning'
<1>1. opts' = opts /\ Selected' = Selected
  <2>1. opts' = opts
    BY DEF RunStep, Start, MkdirFails, Spawn, Return, Interrupt, Crash
  <2> QED BY <2>1, SameSelection
<1>2. /\ Len(Selected) \in Nat /\ spawned \in Nat /\ spawned <= Len(Selected)
      /\ DOMAIN Selected = 1 .. Len(Selected) /\ DOMAIN Selected \subseteq Tasks
      /\ MaxTasks \in Nat
  BY SelectionFacts DEF Kinds, Spawning
<1>3. CASE Start
  BY <1>1, <1>2, <1>3 DEF Start, Spawning
<1>4. CASE MkdirFails
  BY <1>1, <1>2, <1>4 DEF MkdirFails, Spawning
<1>5. CASE Spawn
  <2>1. /\ spawned' = spawned + 1 /\ spawned < Len(Selected) /\ stage = "running"
        /\ stage' = "running" /\ step' = [step EXCEPT ![spawned + 1] = "begin"]
    BY <1>5 DEF Spawn
  <2>2. spawned + 1 \in Nat /\ spawned + 1 <= Len(Selected)
    BY <1>2, <2>1
  <2>3. ASSUME NEW t \in Tasks PROVE step'[t] = "queued" <=> t > spawned + 1
    <3>1. t \in Int
      BY <1>2 DEF Tasks
    <3>2. step[t] = "queued" <=> t > spawned
      BY DEF Spawning
    <3>3. step'[t] = IF t = spawned + 1 THEN "begin" ELSE step[t]
      BY <2>1 DEF Kinds
    <3> QED BY <1>2, <3>1, <3>2, <3>3
  <2> QED BY <1>1, <2>1, <2>2, <2>3 DEF Spawning
<1>6. CASE Return
  <2>1. /\ stage' = "returned" /\ result' = (IF xerr = "none" THEN "ok" ELSE xerr)
        /\ xerr' = xerr /\ step' = step /\ spawned' = spawned
        /\ \A t \in 1 .. Len(Selected) : step[t] = "finished"
    BY <1>6 DEF Return, AllFinished
  <2>2. result' = "ok" <=> xerr' = "none"
    BY <2>1 DEF Kinds, Errors
  <2> QED BY <1>1, <1>2, <2>1, <2>2 DEF Spawning
<1>7. CASE Interrupt
  BY <1>1, <1>2, <1>7 DEF Interrupt, Spawning
<1>8. CASE Crash
  <2>1. /\ spawned' = 0 /\ stage' = "start" /\ result' = "none"
        /\ step' = [t \in Tasks |-> "queued"]
    BY <1>8 DEF Crash, FreshRun
  <2>2. \A t \in Tasks : step'[t] = "queued" /\ t > 0
    BY <1>2, <2>1 DEF Tasks
  <2> QED BY <1>1, <1>2, <2>1, <2>2 DEF Spawning
<1> QED BY <1>3, <1>4, <1>5, <1>6, <1>7, <1>8 DEF RunStep

--------------------------------------------------------------------------------
(* The error Extract returns                                                *)

\* A partition is cancelled only after the group's context has ended, and that
\* ends with the first failure or with the caller's.
Causes ==
  /\ \A t \in Tasks : step[t] \in {"failing", "remove", "leave"} => err[t] # "none"
  /\ \A t \in Tasks : err[t] = "cancelled" => ctxDone
  /\ ctxDone => interrupted \/ xerr # "none"
  /\ xerr = "cancelled" => interrupted
  /\ result = "cancelled" => interrupted

LEMMA StepCauses ==
  ASSUME Kinds, Calling, Causes, NEW t \in Tasks, Effect(t)
  PROVE  Causes'
<1>1. Frame(t) /\ result' = result /\ interrupted' = interrupted
  BY DEF Effect, Frame
<1>2. CASE Works(t)
  BY <1>1, <1>2 DEF Works, Frame, Quiet, Causes, Working
<1>3. CASE Aborts(t)
  BY <1>1, <1>3 DEF Aborts, Frame, Quiet, Causes, Working
<1>4. CASE Unwinds(t)
  BY <1>1, <1>4 DEF Unwinds, Frame, Quiet, Causes
<1>5. CASE Ends(t)
  BY <1>1, <1>5 DEF Ends, Frame, Quiet, Causes
<1> QED BY <1>2, <1>3, <1>4, <1>5 DEF Effect

LEMMA PrecheckIsNoCancellation == \A o : Precheck(o) # "cancelled"
BY DEF Precheck

LEMMA RunCauses ==
  ASSUME Kinds, Spawning, Causes, RunStep
  PROVE  Causes'
<1> USE DEF Causes
<1>1. CASE Start BY <1>1, PrecheckIsNoCancellation DEF Start
<1>2. CASE MkdirFails BY <1>2 DEF MkdirFails
<1>3. CASE Spawn
  <2>1. \A t \in Tasks : step'[t] = step[t] \/ step'[t] = "begin"
    BY <1>3 DEF Spawn, Kinds
  <2> QED BY <1>3, <2>1 DEF Spawn
<1>4. CASE Return BY <1>4 DEF Return
<1>5. CASE Interrupt BY <1>5 DEF Interrupt
<1>6. CASE Crash BY <1>6 DEF Crash, FreshRun
<1> QED BY <1>1, <1>2, <1>3, <1>4, <1>5, <1>6 DEF RunStep

--------------------------------------------------------------------------------
(* The events of a partition                                                *)

Told == {"remove", "leave", "finished"}

\* What the last event of a partition says, and what it is said of.
Telling ==
  /\ \A t \in Tasks :
       /\ step[t] \in Working \cup {"queued"} => err[t] = "none"
       /\ step[t] \in Told => shown[t].done /\ shown[t].failure = err[t]
       /\ step[t] \notin Told => ~ shown[t].done
       /\ step[t] \in Late => completed[t] = Len(Part(t).ops)
       /\ step[t] = "finished" /\ err[t] = "none" => shown[t].completed = Len(Part(t).ops)
       /\ step[t] = "finished" /\ err[t] # "none" => xerr # "none"
  /\ xerr # "none" => \E t \in Tasks : step[t] = "finished" /\ err[t] # "none"

LEMMA StepTelling ==
  ASSUME Kinds, Causes, Telling, NEW t \in Tasks, Effect(t)
  PROVE  Telling'
<1>1. Frame(t) /\ opts' = opts
  BY DEF Effect, Frame
<1>2. \A u : Part(u)' = Part(u)
  BY <1>1, SameSelection
<1>3. CASE Works(t)
  BY <1>1, <1>2, <1>3 DEF Works, Frame, Quiet, Telling, Working, Late, Told
<1>4. CASE Aborts(t)
  BY <1>1, <1>2, <1>4 DEF Aborts, Frame, Quiet, Telling, Working, Late, Told
<1>5. CASE Unwinds(t)
  BY <1>1, <1>2, <1>5 DEF Unwinds, Frame, Quiet, Telling, Causes, Working, Late, Told
<1>6. CASE Ends(t)
  BY <1>1, <1>2, <1>6 DEF Ends, Frame, Quiet, Telling, Working, Late, Told
<1> QED BY <1>3, <1>4, <1>5, <1>6 DEF Effect

LEMMA RunTelling ==
  ASSUME Kinds, Spawning, Telling, RunStep
  PROVE  Telling'
<1>1. opts' = opts
  BY DEF RunStep, Start, MkdirFails, Spawn, Return, Interrupt, Crash
<1>2. \A u : Part(u)' = Part(u)
  BY <1>1, SameSelection
<1>3. CASE Start BY <1>2, <1>3 DEF Start, Telling
<1>4. CASE MkdirFails BY <1>2, <1>4 DEF MkdirFails, Telling
<1>5. CASE Spawn
  <2>1. \A t \in Tasks : t = spawned + 1 => step[t] = "queued"
    <3>1. spawned \in Nat /\ \A t \in Tasks : t \in Int
      BY ManifestAssumption DEF Spawning, Tasks
    <3> QED BY <3>1 DEF Spawning
  <2>2. \A t \in Tasks : step'[t] = step[t] \/ (step'[t] = "begin" /\ step[t] = "queued")
    BY <1>5, <2>1 DEF Spawn, Kinds
  <2>3. UNCHANGED <<err, shown, completed, xerr>>
    BY <1>5 DEF Spawn
  <2> QED BY <1>2, <2>2, <2>3 DEF Telling, Working, Late, Told
<1>6. CASE Return BY <1>2, <1>6 DEF Return, Telling
<1>7. CASE Interrupt BY <1>2, <1>7 DEF Interrupt, Telling
<1>8. CASE Crash BY <1>8 DEF Crash, FreshRun, Telling, Working, Late, Told
<1> QED BY <1>3, <1>4, <1>5, <1>6, <1>7, <1>8 DEF RunStep

--------------------------------------------------------------------------------
(* The invariant                                                            *)

IInv == Kinds /\ Calling /\ Spawning /\ Causes /\ Telling

LEMMA InitIInv == Init => IInv
<1> SUFFICES ASSUME Init PROVE IInv
  OBVIOUS
<1> USE DEF Init, FreshRun
<1>1. Kinds
  BY DEF Kinds, Errors, Steps
<1>2. Calling
  BY DEF Calling
<1>3. Spawning
  <2>1. Len(Selected) \in Nat /\ MaxTasks \in Nat
    BY SelectionFacts
  <2>2. \A t \in Tasks : t > 0
    BY <2>1 DEF Tasks
  <2> QED BY <2>1, <2>2 DEF Spawning
<1>4. Causes
  BY DEF Causes
<1>5. Telling
  BY DEF Telling, Working, Late, Told
<1> QED BY <1>1, <1>2, <1>3, <1>4, <1>5 DEF IInv

LEMMA NextIInv == IInv /\ [Next]_vars => IInv'
<1> SUFFICES ASSUME IInv, [Next]_vars PROVE IInv'
  OBVIOUS
<1> USE DEF IInv
<1>1. ASSUME stage = "running", NEW t \in Tasks, PartitionStep(t) PROVE IInv'
  <2>1. Effect(t)
    BY <1>1, StepEffect
  <2> QED BY <1>1, <2>1, StepKinds, StepCalling, StepSpawning, StepCauses, StepTelling
<1>2. CASE RunStep
  BY <1>2, RunKinds, RunCalling, RunSpawning, RunCauses, RunTelling
<1>3. CASE UNCHANGED vars
  <2> USE <1>3 DEF vars
  <2>1. Selected' = Selected /\ \A t : Part(t)' = Part(t)
    BY SameSelection
  <2>2. Kinds'
    BY DEF Kinds
  <2>3. Calling' /\ Causes'
    BY DEF Calling, Causes
  <2>4. Spawning'
    BY <2>1 DEF Spawning
  <2>5. Telling'
    BY <2>1 DEF Telling
  <2> QED BY <2>2, <2>3, <2>4, <2>5
<1> QED BY <1>1, <1>2, <1>3, NextIsGroupStep DEF GroupStep

LEMMA Invariant == Spec => []IInv
BY InitIInv, NextIInv, PTL DEF Spec

\* Extract returns "context canceled" only when its caller has cancelled: a
\* partition that fails, and cancels its siblings, is not hidden by them
\* (extract.go:58-73).
THEOREM CauseReturned == Spec => []CauseIsReturned
<1>1. IInv => CauseIsReturned
  BY DEF IInv, Causes, CauseIsReturned
<1> QED BY <1>1, Invariant, PTL

\* When Extract returns, the last event of each partition has told its outcome and
\* counted its operations, and Extract returns nil when none has told of a failure.
THEOREM EventsHonest == Spec => []EventsTellTheOutcome
<1>1. ASSUME IInv PROVE EventsTellTheOutcome
  <2> SUFFICES ASSUME stage = "returned", spawned > 0, NEW t \in DOMAIN Selected
               PROVE  /\ shown[t].done
                      /\ shown[t].failure = err[t]
                      /\ err[t] = "none" => shown[t].completed = Len(Part(t).ops)
                      /\ result = "ok" <=> \A u \in DOMAIN Selected : shown[u].failure = "none"
    BY DEF EventsTellTheOutcome
  <2> USE <1>1 DEF IInv
  <2>1. /\ DOMAIN Selected \subseteq Tasks /\ DOMAIN Selected = 1 .. Len(Selected)
        /\ Len(Selected) \in Nat /\ MaxTasks \in Nat
    BY SelectionFacts DEF Kinds
  <2>2. /\ \A u \in DOMAIN Selected : step[u] = "finished"
        /\ result = "ok" <=> xerr = "none"
    BY DEF Spawning
  <2>3. \A u \in DOMAIN Selected : /\ shown[u].done /\ shown[u].failure = err[u]
                                   /\ err[u] = "none" => shown[u].completed = Len(Part(u).ops)
                                   /\ err[u] # "none" => xerr # "none"
    BY <2>1, <2>2 DEF Telling, Told
  <2>4. ASSUME NEW u \in Tasks, step[u] = "finished" PROVE u \in DOMAIN Selected
    <3>1. ~ (u > spawned) /\ spawned \in Nat /\ spawned <= Len(Selected)
      BY <2>4 DEF Spawning
    <3>2. u \in Int /\ u >= 1
      BY <2>1 DEF Tasks
    <3> QED BY <2>1, <3>1, <3>2
  <2>5. xerr # "none" => \E u \in DOMAIN Selected : err[u] # "none"
    BY <2>4 DEF Telling
  <2>6. xerr = "none" <=> \A u \in DOMAIN Selected : shown[u].failure = "none"
    BY <2>3, <2>5
  <2> QED BY <2>2, <2>3, <2>6
<1> QED BY <1>1, Invariant, PTL

\* Nothing is told of a partition after its terminal event, by its goroutine or by
\* the workers that compute its parity.
THEOREM TerminalIsLast == Spec => TerminalEventIsLast
<1> DEFINE Last == \A t \in Tasks : shown[t].done /\ stage' # "start" => shown'[t] = shown[t]
<1>1. ASSUME IInv, [Next]_vars PROVE Last
  <2> USE <1>1 DEF IInv
  <2>1. ASSUME NEW t \in Tasks, PartitionStep(t) PROVE Last
    <3>1. Effect(t)
      BY <2>1, StepEffect
    <3>2. shown[t].done => step[t] \in Told
      BY DEF Telling
    <3>3. shown[t].done => shown'[t] = shown[t]
      BY <3>1, <3>2 DEF Effect, Works, Aborts, Unwinds, Ends, Working, Told
    <3> QED BY <3>1, <3>3 DEF Effect, Frame
  <2>2. CASE RunStep
    BY <2>2 DEF RunStep, Start, MkdirFails, Spawn, Return, Interrupt, Crash
  <2>3. CASE UNCHANGED vars
    BY <2>3 DEF vars
  <2> QED BY <2>1, <2>2, <2>3, NextIsGroupStep DEF GroupStep
<1>2. IInv /\ [Next]_vars => [Last]_vars
  BY <1>1
<1> QED BY <1>2, Invariant, PTL DEF Spec, TerminalEventIsLast
--------------------------------------------------------------------------------
(* What is on disk                                                          *)

\* Where a goroutine has created its output and has not failed; and where it may
\* still write to it.
Writing == {"gaps", "ops", "tree", "fec", "verify"}
Opened == Writing \cup {"done"}

\* The files that can be at the output path of a name.
OutInodes(n) ==
  {OutPath(n)} \cup {NewInode(t) : t \in {u \in DOMAIN Selected : Part(u).name = n}}

\* Paths and goroutines hold the files of their own partition.
Holding ==
  /\ dir \in [Paths -> Inodes \cup {NoFile}]
  /\ content = [i \in Inodes |-> content[i]]
  /\ out \in [Tasks -> Inodes \cup {NoFile}]
  /\ \A n \in Names : /\ dir[OutPath(n)] \in OutInodes(n) \cup {NoFile}
                      /\ dir[<<"src", n>>] \in {<<"src", n>>, NoFile}
  /\ \A t \in Tasks : out[t] # NoFile => /\ t \in DOMAIN Selected
                                         /\ out[t] \in OutInodes(Part(t).name)
  /\ \A t \in Tasks : step[t] \in Opened => out[t] # NoFile

\* A goroutine that may still write to a file, or is about to remove its path.
Busy(u, inode) ==
  (step[u] \in Writing /\ out[u] = inode) \/ step[u] \in {"failing", "remove"}

\* The file at the path of a partition has the image of it, or of an entry of the same
\* name, when the hashes of these are checked, a goroutine of this run has opened the
\* file, and none is busy with it: the last that was has found its image there.
Settled ==
  \A t \in DOMAIN Selected :
    LET n == Part(t).name
        inode == dir[OutPath(n)]
    IN  /\ \A u \in Namesakes(t) : Checked(u)
        /\ inode # NoFile /\ n \notin kept
        /\ \E w \in DOMAIN Selected : out[w] = inode
        /\ \A u \in Namesakes(t) : ~ Busy(u, inode)
        => \E u \in Namesakes(t) : Expected(Selected[u]) \subseteq content[inode]

\* Once a goroutine has created or removed the output of its partition, what is at
\* the path is a file of this run.
Fresh ==
  \A t \in DOMAIN Selected :
    LET n == Part(t).name IN
    step[t] \in Opened \cup {"leave", "finished"} =>
      \/ dir[OutPath(n)] = NoFile \/ n \in kept
      \/ \E w \in DOMAIN Selected : out[w] = dir[OutPath(n)]

\* While no goroutine has failed, what they have created is there.
Present ==
  (\A u \in Tasks : step[u] # "leave" /\ (step[u] = "finished" => err[u] = "none")) =>
    /\ kept = {}
    /\ \A t \in DOMAIN Selected :
         step[t] \in Opened \cup {"finished"} => dir[OutPath(Part(t).name)] # NoFile

\* What is in the output t has open.
Held(t) == content[out[t]]

\* t has ended without an error.
Well(t) == step[t] = "finished" /\ err[t] = "none"

\* What each stage of t has behind it when nothing else disturbs its image: its source
\* is the one at its path, its output is at its path, and the regions of the stages it
\* has passed are written; and when it has failed, its path is empty.
Advanced(t) ==
  LET p == Part(t)
      k == Selected[t]
  IN
  /\ step[t] \in {"create"} \cup Writing /\ PartitionNeedsSource(p)
       => src[t] = dir[SourcePath(p.name)]
  /\ step[t] \in Opened \/ Well(t) => out[t] = dir[OutPath(p.name)] /\ out[t] # NoFile
  /\ step[t] = "leave" \/ (step[t] = "finished" /\ ~ Well(t))
       => dir[OutPath(p.name)] = NoFile \/ p.name \in kept
  /\ step[t] = "ops" => /\ p.gaps => Gap(k) \in Held(t)
                        /\ \A i \in 1 .. completed[t] : Written(k, i) \in Held(t)
  /\ step[t] \in {"tree", "fec", "verify", "done"} => DataRegions(k) \subseteq Held(t)
  /\ step[t] \in {"fec", "verify", "done"} => TreeRegions(k) \subseteq Held(t)
  /\ step[t] = "fec" => /\ p.fec /\ \A b \in written[t] : Parity(k, b) \in Held(t)
  /\ step[t] \in {"verify", "done"} \/ Well(t) => Expected(k) \subseteq Held(t)

Advancing == \A t \in DOMAIN Selected : Undisturbed(t) => Advanced(t)

\* Nothing has been counted or written before it is begun.
NotBegun ==
  \A t \in Tasks :
    /\ step[t] \in {"queued", "begin", "source", "create", "gaps"} => completed[t] = 0
    /\ step[t] \in {"queued", "begin", "source", "create", "gaps", "ops", "tree"}
         => written[t] = {}

\* Extract returns nil when all partitions have ended and none has failed.
Ended ==
  /\ result \in Errors \cup {"ok", "unknown partitions", "unsupported operations", "missing source"}
  /\ stage # "returned" => result = "none"
  /\ result = "ok" => spawned = Len(Selected) /\ xerr = "none"

LEMMA SameStatics ==
  ASSUME opts' = opts
  PROVE  /\ Selected' = Selected
         /\ \A t : Part(t)' = Part(t) /\ (Checked(t)' <=> Checked(t))
         /\ \A t : Namesakes(t)' = Namesakes(t)
         /\ \A n : OutInodes(n)' = OutInodes(n)
         /\ \A k : Expected(k)' = Expected(k)
<1>1. Selected' = Selected /\ \A t : Part(t)' = Part(t)
  BY SameSelection
<1>2. \A p : FecSkipped(p)' <=> FecSkipped(p)
  BY DEF FecSkipped
<1>3. \A t : Checked(t)' <=> Checked(t)
  BY <1>1, <1>2 DEF Checked
<1>4. \A t : Namesakes(t)' = Namesakes(t)
  BY <1>1 DEF Namesakes
<1>5. \A n : OutInodes(n)' = OutInodes(n)
  BY <1>1 DEF OutInodes
<1>6. \A k : Expected(k)' = Expected(k)
  BY <1>2 DEF Expected
<1> QED BY <1>1, <1>3, <1>4, <1>5, <1>6

\* The last entry of a name is one of the manifest, with that name.
LEMMA LastEntry ==
  ASSUME NEW n, Known(n)
  PROVE  ByName[n] \in DOMAIN Manifest /\ Manifest[ByName[n]].name = n
<1> DEFINE Last(k) == /\ Manifest[k].name = n
                      /\ \A j \in DOMAIN Manifest : Manifest[j].name = n => j <= k
           above == {Len(Manifest) - k : k \in {i \in DOMAIN Manifest : Manifest[i].name = n}}
           R == OpToRel(<, Nat)
<1>1. Len(Manifest) \in Nat /\ DOMAIN Manifest = 1 .. Len(Manifest)
  BY ManifestAssumption
<1>2. n \in {Manifest[k].name : k \in DOMAIN Manifest}
  BY DEF Known, ByName
<1>3. above \subseteq Nat /\ above # {}
  BY <1>1, <1>2
<1>4. \A x, y \in Nat : x < y => <<x, y>> \in R
  BY DEF OpToRel
<1> HIDE DEF R
<1>5. PICK a \in above : \A b \in above : ~ (<<b, a>> \in R)
  <2> HIDE DEF above
  <2>1. IsWellFoundedOn(R, Nat)
    BY NatLessThanWellFounded DEF R
  <2> QED BY <1>3, <2>1, WFMin
<1>6. PICK k \in DOMAIN Manifest : Manifest[k].name = n /\ a = Len(Manifest) - k
  BY <1>5
<1>7. ASSUME NEW j \in DOMAIN Manifest, Manifest[j].name = n PROVE j <= k
  <2>1. Len(Manifest) - j \in above
    BY <1>7
  <2>2. Len(Manifest) - j \in Nat /\ a \in Nat
    BY <1>3, <1>5, <2>1
  <2>3. ~ (Len(Manifest) - j < a)
    BY <1>4, <1>5, <2>1, <2>2
  <2> QED BY <1>1, <1>6, <2>3
<1>8. Last(k)
  BY <1>6, <1>7
<1>9. ByName[n] = CHOOSE i \in DOMAIN Manifest : Last(i)
  BY <1>2 DEF ByName
<1> HIDE DEF Last
<1>10. ByName[n] \in DOMAIN Manifest /\ Last(ByName[n])
  BY <1>8, <1>9
<1> QED BY <1>10 DEF Last

\* The selected partitions are in the manifest.
LEMMA PartFacts ==
  ASSUME Kinds, Precheck(opts) = "ok", NEW t \in DOMAIN Selected
  PROVE  Selected[t] \in DOMAIN Manifest /\ Part(t) \in PartitionType
<1>1. Manifest \in Seq(PartitionType)
  BY ManifestAssumption
<1>2. Selected[t] \in DOMAIN Manifest
  <2>1. CASE opts.names = <<>>
    BY <2>1 DEF Selected, SelectPartitions
  <2>2. CASE opts.names # <<>>
    <3>1. t \in DOMAIN opts.names /\ Selected[t] = ByName[opts.names[t]]
      BY <2>2 DEF Selected, SelectPartitions
    <3>2. Known(opts.names[t])
      BY <3>1 DEF Precheck
    <3> QED BY <3>1, <3>2, LastEntry
  <2> QED BY <2>1, <2>2
<1> QED BY <1>1, <1>2 DEF Part

\* Files of different names are different.
LEMMA InodesApart ==
  ASSUME NEW m, NEW n, NEW i \in OutInodes(m), i \in OutInodes(n)
  PROVE  m = n
<1>1. ASSUME NEW k PROVE i \in OutInodes(k) =>
        \/ i = <<"out", k>>
        \/ \E t \in DOMAIN Selected : Part(t).name = k /\ i = <<"new", t>>
  BY DEF OutInodes, OutPath, NewInode
<1>2. CASE i = <<"out", m>>
  BY <1>1, <1>2
<1>3. ASSUME NEW t \in DOMAIN Selected, Part(t).name = m, i = <<"new", t>> PROVE m = n
  BY <1>1, <1>3
<1> QED BY <1>1, <1>2, <1>3

--------------------------------------------------------------------------------
(* What one step of a partition does to the files                           *)

\* The other goroutines' files stay theirs.
FileFrame(t) ==
  /\ out' = [out EXCEPT ![t] = out'[t]]
  /\ \A w \in Tasks \ {t} : src'[w] = src[w] /\ written'[w] = written[w]

\* t goes on without touching a file.
Moves(t) ==
  /\ UNCHANGED <<dir, content, kept>> /\ out'[t] = out[t]
  /\ step'[t] # "leave"
  /\ step'[t] \in Opened => step[t] \in Opened
  /\ step[t] \in Writing => step'[t] \in Opened \cup {"failing"}
  /\ step[t] \in {"failing", "remove"} => step'[t] = "remove"
  /\ step'[t] = "finished" => step[t] \in {"done", "leave"}
  /\ step'[t] = "done" => /\ step[t] = "verify"
                          /\ VerifySkipped(t) \/ Image(Selected[t]) \subseteq content[out[t]]

\* t creates its output, or truncates the one it finds.
Opens(t) ==
  LET path == OutPath(Part(t).name)
      inode == IF dir[path] = NoFile THEN NewInode(t) ELSE dir[path]
  IN  /\ step[t] = "create" /\ step'[t] \in {"gaps", "ops", "failing"}
      /\ dir' = [dir EXCEPT ![path] = inode]
      /\ content' = [content EXCEPT ![inode] = {}]
      /\ out'[t] = inode
      /\ kept' = kept

\* t writes to its output.
Writes(t) ==
  /\ step[t] \in Writing /\ step'[t] \in Writing \cup {"failing"}
  /\ UNCHANGED <<dir, kept>> /\ out'[t] = out[t]
  /\ content' = [content EXCEPT ![out[t]] = content'[out[t]]]

\* t removes its output, or fails to.
Removes(t) ==
  LET n == Part(t).name IN
  /\ step[t] = "remove" /\ step'[t] = "leave"
  /\ content' = content /\ out'[t] = out[t]
  /\ \/ dir' = [dir EXCEPT ![OutPath(n)] = NoFile] /\ kept' = kept
     \/ dir' = dir /\ kept' = kept \cup {n}

FileEffect(t) == FileFrame(t) /\ (Moves(t) \/ Opens(t) \/ Writes(t) \/ Removes(t))

\* The type of the rest of what a goroutine keeps.
Handles ==
  /\ src \in [Tasks -> Inodes \cup {NoFile}]
  /\ written \in [Tasks -> SUBSET FecBatches]
  /\ reported \in [Tasks -> SUBSET (1 .. Cardinality(FecBatches))]
  /\ \A t \in Tasks : shown[t].completed \in Nat
  /\ kept \subseteq Names
  /\ crashes \in 0 .. MaxCrashes

LEMMA StepFiles ==
  ASSUME Kinds, Calling, Holding, Handles, NEW t \in Tasks, PartitionStep(t)
  PROVE  FileEffect(t)
<1> USE DEF Kinds, FileEffect, FileFrame, Opened, Writing, Steps, Abort, Calling, Handles
<1>0. /\ out \in [Tasks -> Inodes \cup {NoFile}]
      /\ content = [i \in Inodes |-> content[i]]
      /\ step[t] \in Opened => out[t] \in Inodes
  BY DEF Holding
<1>a. ASSUME NEW region, NEW good, Put(t, region, good), step[t] \in Opened
      PROVE  content' = [content EXCEPT ![out[t]] = content'[out[t]]]
  BY <1>0, <1>a DEF Put
<1> USE <1>0
<1>1. CASE Begin(t)
  BY <1>1 DEF Begin, Moves
<1>2. CASE OpenSource(t)
  BY <1>2 DEF OpenSource, Moves
<1>3. CASE Create(t)
  BY <1>3 DEF Create, Opens
<1>4. CASE CopyGaps(t)
  <2>1. CASE Part(t).gaps
    BY <1>4, <1>a, <2>1 DEF CopyGaps, Writes
  <2>2. CASE ~ Part(t).gaps
    BY <1>4, <2>2 DEF CopyGaps, Moves
  <2> QED BY <2>1, <2>2
<1>5. CASE RunOp(t)
  BY <1>5, <1>a DEF RunOp, AtOp, Writes
<1>6. CASE OpRejected(t)
  <2>1. CASE Op(t).kind = "bsdiff"
    BY <1>6, <2>1 DEF OpRejected, AtOp, Moves
  <2>2. CASE Op(t).kind # "bsdiff"
    BY <1>6, <1>a, <2>2 DEF OpRejected, AtOp, Writes
  <2> QED BY <2>1, <2>2
<1>7. CASE BeginVerity(t)
  BY <1>7 DEF BeginVerity, AfterOps, AfterTree, Moves
<1>8. CASE WriteTree(t)
  BY <1>8, <1>a DEF WriteTree, AfterTree, Writes
<1>9. CASE Cancelled(t)
  BY <1>9 DEF Cancelled, AtOp, AfterOps, Moves
<1>10. CASE FecStart(t)
  BY <1>10 DEF FecStart, Fec!Start, Moves
<1>11. CASE FecSucceed(t)
  BY <1>11 DEF FecSucceed, Fec!Succeed, Moves
<1>12. CASE FecFail(t)
  BY <1>12 DEF FecFail, Fec!Fail, Moves
<1>13. ASSUME NEW b \in FecBatches, FecWrite(t, b) PROVE FileEffect(t)
  BY <1>13, <1>a DEF FecWrite, Fec!WriteBatch, Writes
<1>14. ASSUME NEW k \in 1 .. Cardinality(FecBatches), FecReport(t, k) PROVE FileEffect(t)
  BY <1>14 DEF FecReport, Fec!Report, Moves
<1>15. ASSUME NEW e \in {"io", "cancelled"}, FecFault(t, e) PROVE FileEffect(t)
  BY <1>15 DEF FecFault, Fec!Fault, Moves
<1>16. CASE Verify(t)
  BY <1>16 DEF Verify, Moves
<1>17. CASE Done(t)
  BY <1>17 DEF Done, Moves
<1>18. CASE IoFails(t)
  BY <1>18 DEF IoFails, AtOp, Moves
<1>19. CASE ReportFailure(t)
  BY <1>19 DEF ReportFailure, Moves
<1>20. CASE Remove(t)
  BY <1>20 DEF Remove, Removes
<1>21. CASE Leave(t)
  BY <1>21 DEF Leave, Moves
<1> QED
  BY <1>1, <1>2, <1>3, <1>4, <1>5, <1>6, <1>7, <1>8, <1>9, <1>10, <1>11, <1>12,
     <1>13, <1>14, <1>15, <1>16, <1>17, <1>18, <1>19, <1>20, <1>21
     DEF PartitionStep, FecStep

\* Every goroutine at work has a partition.
LEMMA RunFacts ==
  ASSUME Kinds, Spawning, stage = "running"
  PROVE  /\ DOMAIN Selected \subseteq Tasks
         /\ \A t \in DOMAIN Selected : /\ Selected[t] \in DOMAIN Manifest
                                       /\ Part(t) \in PartitionType /\ Part(t).name \in Names
         /\ \A t \in Tasks : t \notin DOMAIN Selected => step[t] = "queued"
<1>1. Precheck(opts) = "ok"
  BY DEF Spawning
<1>2. /\ DOMAIN Selected = 1 .. Len(Selected) /\ DOMAIN Selected \subseteq Tasks
      /\ Len(Selected) \in Nat /\ MaxTasks \in Nat
  BY SelectionFacts DEF Kinds
<1>3. ASSUME NEW t \in Tasks, t \notin DOMAIN Selected PROVE step[t] = "queued"
  BY <1>2, <1>3 DEF Spawning, Tasks
<1>4. \A p \in PartitionType : p.name \in Names
  BY DEF PartitionType
<1> QED BY <1>1, <1>2, <1>3, <1>4, PartFacts

LEMMA StepHolding ==
  ASSUME Kinds, Spawning, Holding, stage = "running", NEW t \in DOMAIN Selected,
         Effect(t), FileEffect(t)
  PROVE  Holding'
<1>1. /\ t \in Tasks /\ Part(t).name \in Names
  BY RunFacts
<1>2. opts' = opts /\ \A u \in Tasks \ {t} : step'[u] = step[u]
  BY DEF Effect, Frame
<1>3. /\ Selected' = Selected
      /\ \A u : Part(u)' = Part(u)
      /\ \A n : OutInodes(n)' = OutInodes(n)
  BY <1>2, SameStatics
<1>4. out' = [out EXCEPT ![t] = out'[t]]
  BY DEF FileEffect, FileFrame
<1> USE DEF Holding
<1>5. CASE Moves(t)
  <2>1. out' = out /\ UNCHANGED <<dir, content>>
    BY <1>4, <1>5 DEF Moves
  <2>2. \A u \in Tasks : step'[u] \in Opened => step[u] \in Opened
    BY <1>2, <1>5 DEF Moves
  <2> QED BY <1>3, <2>1, <2>2
<1>6. CASE Opens(t)
  <2> DEFINE path == OutPath(Part(t).name)
             inode == IF dir[path] = NoFile THEN NewInode(t) ELSE dir[path]
  <2>1. /\ dir' = [dir EXCEPT ![path] = inode] /\ out'[t] = inode
        /\ content' = [content EXCEPT ![inode] = {}]
    BY <1>6 DEF Opens
  <2>2. path \in Paths /\ path = <<"out", Part(t).name>>
    BY <1>1 DEF OutPath, Paths
  <2>3. inode \in Inodes /\ inode \in OutInodes(Part(t).name) /\ inode # NoFile
    <3>1. NewInode(t) \in Inodes /\ NewInode(t) \in OutInodes(Part(t).name)
      BY <1>1 DEF Inodes, OutInodes
    <3>2. NewInode(t) # NoFile
      BY DEF NewInode, NoFile
    <3>3. dir[path] \in Inodes \cup {NoFile} /\ dir[path] \in OutInodes(Part(t).name) \cup {NoFile}
      BY <1>1, <2>2
    <3> QED BY <3>1, <3>2, <3>3
  <2> HIDE DEF inode, path
  <2>4. /\ dir' \in [Paths -> Inodes \cup {NoFile}] /\ out' \in [Tasks -> Inodes \cup {NoFile}]
        /\ content' = [i \in Inodes |-> content'[i]]
    BY <1>1, <1>4, <2>1, <2>2, <2>3
  <2>5. ASSUME NEW n \in Names
        PROVE  dir'[OutPath(n)] \in OutInodes(n) \cup {NoFile} /\ dir'[<<"src", n>>] \in {<<"src", n>>, NoFile}
    <3>1. OutPath(n) \in Paths /\ <<"src", n>> \in Paths /\ <<"src", n>> # path
          /\ (OutPath(n) = path => n = Part(t).name)
      BY <2>2 DEF OutPath, Paths
    <3> QED BY <2>1, <2>2, <2>3, <3>1
  <2>6. \A u \in Tasks : out'[u] = IF u = t THEN inode ELSE out[u]
    BY <1>1, <1>4, <2>1
  <2>7. \A u \in Tasks : step'[u] \in Opened => step[u] \in Opened \/ u = t
    BY <1>2
  <2> QED BY <1>3, <2>3, <2>4, <2>5, <2>6, <2>7
<1>7. CASE Writes(t)
  <2>1. out' = out /\ dir' = dir /\ content' = [i \in Inodes |-> content'[i]]
    BY <1>4, <1>7 DEF Writes
  <2>2. \A u \in Tasks : step'[u] \in Opened => step[u] \in Opened
    BY <1>2, <1>7 DEF Writes, Opened
  <2> QED BY <1>3, <2>1, <2>2
<1>8. CASE Removes(t)
  <2>1. /\ out' = out /\ content' = content
        /\ dir' = dir \/ dir' = [dir EXCEPT ![OutPath(Part(t).name)] = NoFile]
    BY <1>4, <1>8 DEF Removes
  <2>2. \A u \in Tasks : step'[u] \in Opened => step[u] \in Opened
    BY <1>2, <1>8 DEF Removes, Opened, Writing
  <2>3. dir' \in [Paths -> Inodes \cup {NoFile}]
    BY <2>1
  <2>4. ASSUME NEW n \in Names
        PROVE  dir'[OutPath(n)] \in {dir[OutPath(n)], NoFile} /\ dir'[<<"src", n>>] \in {dir[<<"src", n>>], NoFile}
    BY <2>1 DEF OutPath, Paths
  <2> QED BY <1>3, <2>1, <2>2, <2>3, <2>4
<1> QED BY <1>5, <1>6, <1>7, <1>8 DEF FileEffect

LEMMA RunHolding ==
  ASSUME Kinds, Spawning, Holding, RunStep
  PROVE  Holding'
<1>1. opts' = opts /\ UNCHANGED dir
  BY DEF RunStep, Start, MkdirFails, Spawn, Return, Interrupt, Crash, fileVars
<1>2. content' = [i \in Inodes |-> content'[i]]
  <2>1. content' = content \/ Crash
    BY DEF RunStep, Start, MkdirFails, Spawn, Return, Interrupt, fileVars
  <2> QED BY <2>1 DEF Holding, Crash, Inodes, NewInode
<1>3. /\ Selected' = Selected
      /\ \A u : Part(u)' = Part(u)
      /\ \A n : OutInodes(n)' = OutInodes(n)
  BY <1>1, SameStatics
<1>4. /\ out' = out \/ out' = [t \in Tasks |-> NoFile]
      /\ \A t \in Tasks : step'[t] \in Opened => step[t] \in Opened /\ out' = out
  BY DEF RunStep, Start, MkdirFails, Spawn, Return, Interrupt, Crash, FreshRun, Kinds, Opened, Writing
<1> QED BY <1>1, <1>2, <1>3, <1>4 DEF Holding

--------------------------------------------------------------------------------
(* What is on disk, after a step of a partition                             *)

\* A step of t touches the files of its own name, and no source.
LEMMA Touches ==
  ASSUME Kinds, Spawning, Holding, stage = "running", NEW t \in DOMAIN Selected, FileEffect(t)
  PROVE  LET n == Part(t).name IN
         /\ \A p \in Paths : p # OutPath(n) => dir'[p] = dir[p]
         /\ \A i \in Inodes : i \notin OutInodes(n) => content'[i] = content[i]
         /\ \A w \in Tasks : w # t => out'[w] = out[w] /\ src'[w] = src[w] /\ written'[w] = written[w]
         /\ out'[t] = out[t] \/ out'[t] \in OutInodes(n)
         /\ \A m : m # n => (m \in kept' <=> m \in kept)
         /\ \A m : m \in kept => m \in kept'
<1> DEFINE n == Part(t).name
<1>1. t \in Tasks /\ n \in Names /\ OutPath(n) \in Paths
  BY RunFacts DEF OutPath, Paths
<1>2. \A w \in Tasks : w # t => out'[w] = out[w] /\ src'[w] = src[w] /\ written'[w] = written[w]
  BY DEF FileEffect, FileFrame, Holding
<1>3. CASE Moves(t)
  <2>1. dir' = dir /\ content' = content /\ kept' = kept /\ out'[t] = out[t]
    BY <1>3 DEF Moves
  <2> QED BY <1>2, <2>1
<1>4. CASE Opens(t)
  <2> DEFINE path == OutPath(n)
             inode == IF dir[path] = NoFile THEN NewInode(t) ELSE dir[path]
  <2>1. /\ dir' = [dir EXCEPT ![path] = inode] /\ out'[t] = inode /\ kept' = kept
        /\ content' = [content EXCEPT ![inode] = {}]
    BY <1>4 DEF Opens
  <2>2. inode \in OutInodes(n)
    <3>1. NewInode(t) \in OutInodes(n)
      BY DEF OutInodes
    <3>2. dir[path] # NoFile => dir[path] \in OutInodes(n)
      BY <1>1 DEF Holding
    <3> QED BY <3>1, <3>2
  <2> HIDE DEF inode
  <2>3. \A p \in Paths : p # path => dir'[p] = dir[p]
    BY <2>1 DEF Holding
  <2>4. \A i \in Inodes : i # inode => content'[i] = content[i]
    BY <2>1 DEF Holding
  <2>5. \A i \in Inodes : i \notin OutInodes(n) => content'[i] = content[i]
    BY <2>2, <2>4
  <2>6. out'[t] \in OutInodes(n)
    BY <2>1, <2>2
  <2>7. kept' = kept
    BY <2>1
  <2> HIDE DEF n
  <2> QED BY <1>2, <2>3, <2>5, <2>6, <2>7 DEF n
<1>5. CASE Writes(t)
  <2>1. out[t] \in OutInodes(n)
    BY <1>1, <1>5 DEF Writes, Holding, Opened
  <2>2. content' = [content EXCEPT ![out[t]] = content'[out[t]]]
    BY <1>5 DEF Writes
  <2>3. \A i \in Inodes : i # out[t] => content'[i] = content[i]
    BY <2>2 DEF Holding
  <2> QED BY <1>2, <1>5, <2>1, <2>3 DEF Writes
<1>6. CASE Removes(t)
  <2>1. \A p \in Paths : p # OutPath(n) => dir'[p] = dir[p]
    BY <1>6 DEF Removes, Holding
  <2> QED BY <1>2, <1>6, <2>1 DEF Removes
<1> QED BY <1>3, <1>4, <1>5, <1>6 DEF FileEffect

\* The files of another name stay as they are, and whose they are.
LEMMA OthersStay ==
  ASSUME Kinds, Spawning, Holding, Holding', stage = "running", NEW t \in DOMAIN Selected,
         Effect(t), FileEffect(t), NEW n \in Names, n # Part(t).name
  PROVE  /\ dir'[OutPath(n)] = dir[OutPath(n)]
         /\ dir[OutPath(n)] # NoFile => content'[dir[OutPath(n)]] = content[dir[OutPath(n)]]
         /\ n \in kept' <=> n \in kept
         /\ \A w \in Tasks : dir[OutPath(n)] # NoFile =>
              (out'[w] = dir[OutPath(n)] <=> out[w] = dir[OutPath(n)])
<1> DEFINE i == dir[OutPath(n)]
<1>1. /\ t \in Tasks /\ opts' = opts /\ OutPath(n) \in Paths /\ OutPath(n) # OutPath(Part(t).name)
  BY RunFacts DEF Effect, Frame, OutPath, Paths
<1>2. /\ dir'[OutPath(n)] = i /\ (n \in kept' <=> n \in kept)
      /\ \A w \in Tasks : w # t => out'[w] = out[w]
      /\ \A k \in Inodes : k \notin OutInodes(Part(t).name) => content'[k] = content[k]
  BY <1>1, Touches
<1>3. ASSUME i # NoFile
      PROVE  /\ content'[i] = content[i]
             /\ out[t] # i /\ out'[t] # i
  <2>1. i \in OutInodes(n) /\ i \in Inodes
    BY <1>1, <1>3 DEF Holding
  <2>2. i \notin OutInodes(Part(t).name)
    BY <2>1, InodesApart
  <2>3. OutInodes(Part(t).name)' = OutInodes(Part(t).name)
    BY <1>1, SameStatics
  <2>4. out[t] # i
    BY <1>1, <1>3, <2>2 DEF Holding
  <2>5. out'[t] # i
    BY <1>1, <2>2, <2>4, Touches
  <2> QED BY <1>2, <2>1, <2>2, <2>4, <2>5
<1> QED BY <1>2, <1>3

LEMMA StepSettled ==
  ASSUME Kinds, Spawning, Holding, Holding', Settled, stage = "running",
         NEW t \in DOMAIN Selected, Effect(t), FileEffect(t)
  PROVE  Settled'
<1>1. /\ t \in Tasks /\ Part(t).name \in Names /\ DOMAIN Selected \subseteq Tasks /\ opts' = opts
      /\ \A u \in Tasks : u # t => step'[u] = step[u]
  BY RunFacts DEF Effect, Frame
<1>2. /\ Selected' = Selected
      /\ \A u : /\ Part(u)' = Part(u) /\ (Checked(u)' <=> Checked(u))
                /\ Namesakes(u)' = Namesakes(u)
      /\ \A k : Expected(k)' = Expected(k)
  BY <1>1, SameStatics
<1>3. SUFFICES ASSUME NEW v \in DOMAIN Selected, \A u \in Namesakes(v) : Checked(u),
                      Part(v).name \notin kept', dir'[OutPath(Part(v).name)] # NoFile,
                      NEW w \in DOMAIN Selected, out'[w] = dir'[OutPath(Part(v).name)],
                      \A u \in Namesakes(v) :
                        ~ \/ step'[u] \in Writing /\ out'[u] = dir'[OutPath(Part(v).name)]
                          \/ step'[u] \in {"failing", "remove"}
               PROVE  \E u \in Namesakes(v) :
                        Expected(Selected[u]) \subseteq content'[dir'[OutPath(Part(v).name)]]
  BY <1>2 DEF Settled, Busy
<1> DEFINE n == Part(v).name
           i == dir[OutPath(n)]
           Whole(inode) == \E u \in Namesakes(v) : Expected(Selected[u]) \subseteq content'[inode]
<1>4. /\ n \in Names /\ v \in Tasks /\ w \in Tasks
      /\ \A u : u \in Namesakes(v) <=> u \in DOMAIN Selected /\ Part(u).name = n
  BY <1>1, RunFacts DEF Namesakes
<1>5. ASSUME dir'[OutPath(n)] = i, n \notin kept, out[w] = i, content'[i] = content[i],
             \A u \in DOMAIN Selected : Part(u).name = n => ~ Busy(u, i)
      PROVE  Whole(i)
  <2>1. \A u \in Namesakes(v) : ~ Busy(u, i)
    BY <1>4, <1>5
  <2> QED BY <1>3, <1>5, <2>1 DEF Settled
<1> HIDE DEF Whole
<1>6. ASSUME n # Part(t).name PROVE Whole(dir'[OutPath(n)])
  <2>1. /\ dir'[OutPath(n)] = i /\ content'[i] = content[i] /\ n \notin kept
        /\ \A u \in Tasks : out'[u] = i <=> out[u] = i
    BY <1>1, <1>3, <1>4, <1>6, OthersStay
  <2>2. ASSUME NEW u \in DOMAIN Selected, Part(u).name = n PROVE ~ Busy(u, i)
    <3>1. u # t /\ u \in Tasks /\ step'[u] = step[u]
      BY <1>1, <1>6, <2>2
    <3>2. ~ ((step'[u] \in Writing /\ out'[u] = i) \/ step'[u] \in {"failing", "remove"})
      BY <1>3, <1>4, <2>1, <2>2 DEF Busy
    <3> QED BY <2>1, <3>1, <3>2 DEF Busy
  <2> HIDE DEF i
  <2> QED BY <1>3, <1>4, <1>5, <2>1, <2>2
<1>7. ASSUME n = Part(t).name PROVE Whole(dir'[OutPath(n)])
  <2>1. t \in Namesakes(v) /\ Checked(t)
    BY <1>3, <1>4, <1>7
  <2>2. ~ (step'[t] \in Writing /\ out'[t] = dir'[OutPath(n)]) /\ step'[t] \notin {"failing", "remove"}
    BY <1>3, <2>1
  <2>3. \A u \in DOMAIN Selected : u # t /\ Part(u).name = n =>
          ~ ((step[u] \in Writing /\ out[u] = dir'[OutPath(n)]) \/ step[u] \in {"failing", "remove"})
    <3>1. \A u \in Tasks : u # t => out'[u] = out[u]
      BY Touches
    <3> QED BY <1>1, <1>3, <1>4, <3>1
  <2>4. CASE Moves(t)
    <3>1. /\ dir' = dir /\ content' = content /\ kept' = kept /\ \A u \in Tasks : out'[u] = out[u]
      BY <2>4, Touches DEF Moves
    <3>2. CASE Busy(t, i)
      <4>1. /\ step[t] \in Writing /\ out[t] = i /\ step'[t] = "done"
        BY <2>2, <2>4, <3>1, <3>2 DEF Moves, Busy, Opened
      <4>2. VerifySkipped(t) \/ Image(Selected[t]) \subseteq content[i]
        BY <2>4, <4>1 DEF Moves
      <4>3. Image(Selected[t]) \subseteq content[i]
        BY <2>1, <4>2 DEF VerifySkipped, Checked
      <4>4. Expected(Selected[t]) \subseteq Image(Selected[t])
        BY DEF Expected
      <4> QED BY <2>1, <3>1, <4>3, <4>4 DEF Whole
    <3>3. CASE ~ Busy(t, i)
      <4>1. \A u \in DOMAIN Selected : Part(u).name = n => ~ Busy(u, i)
        BY <2>3, <3>1, <3>3 DEF Busy
      <4> QED BY <1>3, <1>4, <1>5, <3>1, <4>1
    <3> QED BY <3>2, <3>3
  <2>5. CASE Opens(t)
    <3>1. /\ step'[t] \in {"gaps", "ops", "failing"} /\ out'[t] = dir'[OutPath(n)]
      BY <1>1, <1>7, <2>5 DEF Opens, Holding, OutPath, Paths
    <3> QED BY <2>2, <3>1 DEF Writing
  <2>6. CASE Writes(t)
    <3>1. /\ dir' = dir /\ kept' = kept /\ \A u \in Tasks : out'[u] = out[u]
      BY <2>6, Touches DEF Writes
    <3>2. step'[t] \in Writing /\ step[t] \in Writing /\ out[t] # i
      BY <1>1, <2>2, <2>6, <3>1 DEF Writes
    <3>3. content'[i] = content[i]
      <4>1. i \in Inodes
        BY <1>3, <1>4, <3>1 DEF Holding, OutPath, Paths
      <4>2. content' = [content EXCEPT ![out[t]] = content'[out[t]]]
        BY <2>6 DEF Writes
      <4> HIDE DEF i
      <4> QED BY <3>2, <4>1, <4>2 DEF Holding
    <3>4. \A u \in DOMAIN Selected : Part(u).name = n => ~ Busy(u, i)
      <4>1. ~ Busy(t, i)
        BY <3>2 DEF Busy, Writing
      <4> QED BY <2>3, <3>1, <4>1 DEF Busy
    <3> QED BY <1>3, <1>4, <1>5, <3>1, <3>3, <3>4
  <2>7. CASE Removes(t)
    <3>1. dir'[OutPath(n)] = NoFile \/ n \in kept'
      BY <1>4, <1>7, <2>7 DEF Removes, Holding, OutPath, Paths
    <3> QED BY <1>3, <3>1
  <2> QED BY <2>4, <2>5, <2>6, <2>7 DEF FileEffect
<1> QED BY <1>6, <1>7 DEF Whole

LEMMA StepFresh ==
  ASSUME Kinds, Spawning, Holding, Holding', Fresh, stage = "running",
         NEW t \in DOMAIN Selected, Effect(t), FileEffect(t)
  PROVE  Fresh'
<1>1. /\ t \in Tasks /\ Part(t).name \in Names /\ DOMAIN Selected \subseteq Tasks /\ opts' = opts
      /\ \A u \in Tasks : u # t => step'[u] = step[u]
  BY RunFacts DEF Effect, Frame
<1>2. Selected' = Selected /\ \A u : Part(u)' = Part(u)
  BY <1>1, SameStatics
<1>3. SUFFICES ASSUME NEW v \in DOMAIN Selected, step'[v] \in Opened \cup {"leave", "finished"}
               PROVE  \/ dir'[OutPath(Part(v).name)] = NoFile \/ Part(v).name \in kept'
                      \/ \E w \in DOMAIN Selected : out'[w] = dir'[OutPath(Part(v).name)]
  BY <1>2 DEF Fresh
<1> DEFINE n == Part(v).name
           i == dir[OutPath(n)]
<1>4. n \in Names /\ v \in Tasks
  BY <1>1, RunFacts
<1>5. ASSUME step[v] \in Opened \cup {"leave", "finished"}, dir'[OutPath(n)] = i,
             \A u \in Tasks : out[u] = i => out'[u] = i \/ i = NoFile
      PROVE  \/ dir'[OutPath(n)] = NoFile \/ n \in kept'
             \/ \E w \in DOMAIN Selected : out'[w] = dir'[OutPath(n)]
  <2>1. i = NoFile \/ n \in kept \/ \E w \in DOMAIN Selected : out[w] = i
    BY <1>3, <1>5 DEF Fresh
  <2>2. n \in kept => n \in kept'
    BY Touches
  <2> QED BY <1>1, <1>5, <2>1, <2>2
<1>6. CASE n # Part(t).name
  <2>1. /\ dir'[OutPath(n)] = i
        /\ \A u \in Tasks : i # NoFile => (out'[u] = i <=> out[u] = i)
    BY <1>1, <1>4, <1>6, OthersStay
  <2>2. step'[v] = step[v]
    BY <1>1, <1>4, <1>6
  <2> QED BY <1>3, <1>4, <1>5, <2>1, <2>2
<1>7. CASE n = Part(t).name
  <2>1. CASE Moves(t)
    <3>1. /\ dir' = dir /\ \A u \in Tasks : out'[u] = out[u]
      BY <2>1, Touches DEF Moves
    <3>2. step[v] \in Opened \cup {"leave", "finished"}
      <4>1. v = t => step[v] \in Opened \cup {"leave", "finished"}
        BY <1>3, <2>1 DEF Moves, Opened
      <4> QED BY <1>1, <1>3, <1>4, <4>1
    <3> QED BY <1>5, <3>1, <3>2
  <2>2. CASE Opens(t)
    <3>1. out'[t] = dir'[OutPath(n)]
      BY <1>1, <1>7, <2>2 DEF Opens, Holding, OutPath, Paths
    <3> QED BY <3>1
  <2>3. CASE Writes(t)
    <3>1. /\ dir' = dir /\ \A u \in Tasks : out'[u] = out[u]
      BY <2>3, Touches DEF Writes
    <3>2. step[v] \in Opened \cup {"leave", "finished"}
      BY <1>1, <1>3, <1>4, <2>3 DEF Writes, Opened
    <3> QED BY <1>5, <3>1, <3>2
  <2>4. CASE Removes(t)
    <3>1. dir'[OutPath(n)] = NoFile \/ n \in kept'
      BY <1>4, <1>7, <2>4 DEF Removes, Holding, OutPath, Paths
    <3> QED BY <3>1
  <2> QED BY <2>1, <2>2, <2>3, <2>4 DEF FileEffect
<1> QED BY <1>6, <1>7

LEMMA StepPresent ==
  ASSUME Kinds, Spawning, Causes, Holding, Holding', Present, stage = "running",
         NEW t \in DOMAIN Selected, Effect(t), FileEffect(t)
  PROVE  Present'
<1>1. /\ t \in Tasks /\ Part(t).name \in Names /\ DOMAIN Selected \subseteq Tasks /\ opts' = opts
      /\ \A u \in Tasks : u # t => step'[u] = step[u] /\ err'[u] = err[u]
  BY RunFacts DEF Effect, Frame
<1>2. Selected' = Selected /\ \A u : Part(u)' = Part(u)
  BY <1>1, SameStatics
<1>3. SUFFICES ASSUME \A u \in Tasks : step'[u] # "leave" /\ (step'[u] = "finished" => err'[u] = "none")
               PROVE  /\ kept' = {}
                      /\ \A v \in DOMAIN Selected :
                           step'[v] \in Opened \cup {"finished"} => dir'[OutPath(Part(v).name)] # NoFile
  BY <1>2 DEF Present
<1>4. step[t] \notin {"leave", "finished"} /\ ~ Removes(t)
  <2>1. step[t] = "leave" => step'[t] = "finished" /\ err'[t] # "none"
    BY <1>1 DEF Effect, Works, Aborts, Unwinds, Ends, Working, Causes
  <2>2. step[t] # "finished"
    BY DEF Effect, Works, Aborts, Unwinds, Ends, Working
  <2>3. ~ Removes(t)
    BY <1>1, <1>3 DEF Removes
  <2> QED BY <1>1, <1>3, <2>1, <2>2, <2>3
<1>5. /\ kept = {}
      /\ \A v \in DOMAIN Selected :
           step[v] \in Opened \cup {"finished"} => dir[OutPath(Part(v).name)] # NoFile
  <2>1. \A u \in Tasks : step[u] # "leave" /\ (step[u] = "finished" => err[u] = "none")
    BY <1>1, <1>3, <1>4
  <2> QED BY <2>1 DEF Present
<1>6. CASE Moves(t)
  <2>1. dir' = dir /\ kept' = kept
    BY <1>6 DEF Moves
  <2>2. step'[t] \in Opened \cup {"finished"} => step[t] \in Opened
    BY <1>4, <1>6 DEF Moves, Opened
  <2> QED BY <1>1, <1>5, <2>1, <2>2
<1>7. CASE Opens(t)
  <2> DEFINE path == OutPath(Part(t).name)
  <2>1. /\ kept' = kept /\ path \in Paths /\ dir'[path] # NoFile
        /\ \A p \in Paths : p # path => dir'[p] = dir[p]
    <3>1. /\ path \in Paths /\ kept' = kept
          /\ dir' = [dir EXCEPT ![path] = IF dir[path] = NoFile THEN NewInode(t) ELSE dir[path]]
      BY <1>1, <1>7 DEF Opens, OutPath, Paths
    <3>2. NewInode(t) # NoFile
      BY DEF NewInode, NoFile
    <3> HIDE DEF path
    <3> QED BY <3>1, <3>2 DEF Holding
  <2>2. ASSUME NEW v \in DOMAIN Selected, step'[v] \in Opened \cup {"finished"}
        PROVE  dir'[OutPath(Part(v).name)] # NoFile
    <3>1. CASE OutPath(Part(v).name) = path
      BY <2>1, <3>1
    <3>2. CASE OutPath(Part(v).name) # path
      <4>1. v # t /\ v \in Tasks /\ Part(v).name \in Names
        BY <1>1, <3>2, RunFacts
      <4>2. OutPath(Part(v).name) \in Paths /\ step[v] = step'[v]
        BY <1>1, <4>1 DEF OutPath, Paths
      <4> QED BY <1>5, <2>1, <2>2, <3>2, <4>2
    <3> QED BY <3>1, <3>2
  <2> QED BY <1>5, <2>1, <2>2
<1>8. CASE Writes(t)
  <2>1. dir' = dir /\ kept' = kept
    BY <1>8 DEF Writes
  <2>2. step[t] \in Opened
    BY <1>8 DEF Writes, Opened
  <2> QED BY <1>1, <1>5, <2>1, <2>2
<1> QED BY <1>4, <1>6, <1>7, <1>8 DEF FileEffect

LEMMA StepNotBegun ==
  ASSUME Kinds, Calling, Handles, NotBegun, NEW t \in Tasks, PartitionStep(t)
  PROVE  NotBegun'
<1> USE DEF Kinds, Abort, Calling, Handles, NotBegun
<1>1. CASE Begin(t)
  BY <1>1 DEF Begin
<1>2. CASE OpenSource(t)
  BY <1>2 DEF OpenSource
<1>3. CASE Create(t)
  BY <1>3 DEF Create
<1>4. CASE CopyGaps(t)
  BY <1>4 DEF CopyGaps
<1>5. CASE RunOp(t)
  BY <1>5 DEF RunOp, AtOp
<1>6. CASE OpRejected(t)
  BY <1>6 DEF OpRejected, AtOp
<1>7. CASE BeginVerity(t)
  BY <1>7 DEF BeginVerity, AfterOps, AfterTree
<1>8. CASE WriteTree(t)
  BY <1>8 DEF WriteTree, AfterTree
<1>9. CASE Cancelled(t)
  BY <1>9 DEF Cancelled, AtOp, AfterOps
<1>10. CASE FecStart(t)
  BY <1>10 DEF FecStart, Fec!Start
<1>11. CASE FecSucceed(t)
  BY <1>11 DEF FecSucceed, Fec!Succeed
<1>12. CASE FecFail(t)
  BY <1>12 DEF FecFail, Fec!Fail
<1>13. ASSUME NEW b \in FecBatches, FecWrite(t, b) PROVE NotBegun'
  BY <1>13 DEF FecWrite, Fec!WriteBatch
<1>14. ASSUME NEW k \in 1 .. Cardinality(FecBatches), FecReport(t, k) PROVE NotBegun'
  BY <1>14 DEF FecReport, Fec!Report
<1>15. ASSUME NEW e \in {"io", "cancelled"}, FecFault(t, e) PROVE NotBegun'
  BY <1>15 DEF FecFault, Fec!Fault
<1>16. CASE Verify(t)
  BY <1>16 DEF Verify
<1>17. CASE Done(t)
  BY <1>17 DEF Done
<1>18. CASE IoFails(t)
  BY <1>18 DEF IoFails
<1>19. CASE ReportFailure(t)
  BY <1>19 DEF ReportFailure
<1>20. CASE Remove(t)
  BY <1>20 DEF Remove
<1>21. CASE Leave(t)
  BY <1>21 DEF Leave
<1> QED
  BY <1>1, <1>2, <1>3, <1>4, <1>5, <1>6, <1>7, <1>8, <1>9, <1>10, <1>11, <1>12,
     <1>13, <1>14, <1>15, <1>16, <1>17, <1>18, <1>19, <1>20, <1>21
     DEF PartitionStep, FecStep

\* Only the goroutines of selected partitions work.
LEMMA AtWork ==
  ASSUME Kinds, Spawning, stage = "running", NEW t \in Tasks, Effect(t)
  PROVE  t \in DOMAIN Selected
BY RunFacts DEF Effect, Works, Aborts, Unwinds, Ends, Working

LEMMA StepHandles ==
  ASSUME Kinds, Calling, Spawning, Holding, Handles, stage = "running",
         NEW t \in DOMAIN Selected, PartitionStep(t)
  PROVE  Handles'
<1>0. /\ t \in Tasks /\ Part(t).name \in Names /\ Len(Part(t).ops) \in Nat
      /\ dir \in [Paths -> Inodes \cup {NoFile}]
  <2>1. Part(t) \in PartitionType
    BY RunFacts
  <2> QED BY <2>1, RunFacts DEF PartitionType, Holding
<1> USE <1>0 DEF Kinds, Abort, Handles
<1>1. CASE Begin(t)
  BY <1>1 DEF Begin
<1>2. CASE OpenSource(t)
  <2>1. dir[SourcePath(Part(t).name)] \in Inodes \cup {NoFile}
    BY DEF SourcePath, OutPath, Paths
  <2>2. src' \in [Tasks -> Inodes \cup {NoFile}]
    BY <1>2, <2>1 DEF OpenSource
  <2> QED BY <1>2, <2>2 DEF OpenSource
<1>3. CASE Create(t)
  BY <1>3 DEF Create
<1>4. CASE CopyGaps(t)
  BY <1>4 DEF CopyGaps
<1>5. CASE RunOp(t)
  BY <1>5 DEF RunOp, AtOp
<1>6. CASE OpRejected(t)
  BY <1>6 DEF OpRejected, AtOp
<1>7. CASE BeginVerity(t)
  BY <1>7 DEF BeginVerity, AfterOps, AfterTree
<1>8. CASE WriteTree(t)
  BY <1>8 DEF WriteTree, AfterTree
<1>9. CASE Cancelled(t)
  BY <1>9 DEF Cancelled, AtOp, AfterOps
<1>10. CASE FecStart(t)
  BY <1>10 DEF FecStart, Fec!Start
<1>11. CASE FecSucceed(t)
  BY <1>11 DEF FecSucceed, Fec!Succeed
<1>12. CASE FecFail(t)
  BY <1>12 DEF FecFail, Fec!Fail
<1>13. ASSUME NEW b \in FecBatches, FecWrite(t, b) PROVE Handles'
  BY <1>13 DEF FecWrite, Fec!WriteBatch
<1>14. ASSUME NEW k \in 1 .. Cardinality(FecBatches), FecReport(t, k) PROVE Handles'
  BY <1>14 DEF FecReport, Fec!Report
<1>15. ASSUME NEW e \in {"io", "cancelled"}, FecFault(t, e) PROVE Handles'
  BY <1>15 DEF FecFault, Fec!Fault
<1>16. CASE Verify(t)
  BY <1>16 DEF Verify
<1>17. CASE Done(t)
  BY <1>17 DEF Done
<1>18. CASE IoFails(t)
  BY <1>18 DEF IoFails
<1>19. CASE ReportFailure(t)
  BY <1>19 DEF ReportFailure
<1>20. CASE Remove(t)
  BY <1>20 DEF Remove
<1>21. CASE Leave(t)
  BY <1>21 DEF Leave
<1> QED
  BY <1>1, <1>2, <1>3, <1>4, <1>5, <1>6, <1>7, <1>8, <1>9, <1>10, <1>11, <1>12,
     <1>13, <1>14, <1>15, <1>16, <1>17, <1>18, <1>19, <1>20, <1>21
     DEF PartitionStep, FecStep

--------------------------------------------------------------------------------
(* An image that nothing else disturbs                                      *)

\* t never undoes what other goroutines are promised.
LEMMA UndisturbedStays ==
  ASSUME Kinds, Spawning, Holding, stage = "running", NEW t \in DOMAIN Selected,
         Effect(t), FileEffect(t), NEW v \in DOMAIN Selected
  PROVE  /\ Undisturbed(v)' <=> Undisturbed(v)
         /\ opts.source = "dir" => dir'[SourcePath(Part(v).name)] = dir[SourcePath(Part(v).name)]
<1> DEFINE m == Part(v).name
<1>1. /\ opts' = opts /\ m \in Names /\ t \in Tasks
  BY RunFacts DEF Effect, Frame
<1>2. Selected' = Selected /\ \A u : Part(u)' = Part(u) /\ Namesakes(u)' = Namesakes(u)
  BY <1>1, SameStatics
<1>3. /\ <<"src", m>> \in Paths /\ <<"src", m>> # OutPath(Part(t).name)
      /\ <<"src", m>> \in Inodes /\ <<"src", m>> \notin OutInodes(Part(t).name)
  BY <1>1 DEF Paths, Inodes, OutInodes, OutPath, NewInode
<1>4. dir'[<<"src", m>>] = dir[<<"src", m>>] /\ content'[<<"src", m>>] = content[<<"src", m>>]
  BY <1>3, Touches
<1>5. dir[<<"src", m>>] \in {<<"src", m>>, NoFile}
  BY <1>1 DEF Holding
<1>6. ASSUME opts.source = "dir" PROVE SourcePath(m) = <<"src", m>> /\ SourcePath(m)' = <<"src", m>>
  BY <1>1, <1>2, <1>6 DEF SourcePath
<1>7. Undisturbed(v)' <=> Undisturbed(v)
  <2>1. CASE opts.source = "dir"
    <3>1. SourcePath(m)' = SourcePath(m) /\ dir'[SourcePath(m)] = dir[SourcePath(m)]
          /\ (dir[SourcePath(m)] # NoFile => content'[dir[SourcePath(m)]] = content[dir[SourcePath(m)]])
      BY <1>4, <1>5, <1>6, <2>1
    <3> QED BY <1>1, <1>2, <3>1 DEF Undisturbed
  <2>2. CASE opts.source # "dir"
    BY <1>1, <1>2, <2>2 DEF Undisturbed
  <2> QED BY <2>1, <2>2
<1> QED BY <1>4, <1>6, <1>7

LEMMA OthersAdvanced ==
  ASSUME Kinds, Spawning, Holding, Holding', Advancing, stage = "running",
         NEW t \in DOMAIN Selected, Effect(t), FileEffect(t),
         NEW v \in DOMAIN Selected, v # t, Undisturbed(v)'
  PROVE  Advanced(v)'
<1> DEFINE n == Part(v).name
<1>1. /\ opts' = opts /\ n \in Names /\ t \in Tasks /\ v \in Tasks
      /\ step'[v] = step[v] /\ err'[v] = err[v] /\ completed'[v] = completed[v]
  BY RunFacts DEF Effect, Frame
<1>2. /\ Selected' = Selected /\ \A u : Part(u)' = Part(u)
      /\ \A k : Expected(k)' = Expected(k)
  BY <1>1, SameStatics
<1>3. /\ Undisturbed(v)
      /\ opts.source = "dir" => dir'[SourcePath(n)] = dir[SourcePath(n)]
  BY UndisturbedStays
<1>4. Advanced(v) /\ n # Part(t).name
  BY <1>3 DEF Advancing, Undisturbed, Namesakes
<1>5. PartitionNeedsSource(Part(v)) => dir'[SourcePath(n)] = dir[SourcePath(n)]
  BY <1>3 DEF Undisturbed
<1>6. /\ dir'[OutPath(n)] = dir[OutPath(n)]
      /\ n \in kept' <=> n \in kept
      /\ dir[OutPath(n)] # NoFile => content'[dir[OutPath(n)]] = content[dir[OutPath(n)]]
  BY <1>1, <1>4, OthersStay
<1>7. out'[v] = out[v] /\ src'[v] = src[v] /\ written'[v] = written[v]
  BY <1>1, Touches
<1>8. SourcePath(n)' = SourcePath(n)
  BY <1>1, <1>2 DEF SourcePath
<1>9. step[v] \in Opened \/ Well(v) => content'[out[v]] = content[out[v]]
  BY <1>4, <1>6 DEF Advanced
<1>10. Well(v)' <=> Well(v)
  BY <1>1 DEF Well
<1>11. step[v] \in {"ops", "tree", "fec", "verify", "done"} \/ Well(v) => Held(v)' = Held(v)
  BY <1>7, <1>9 DEF Held, Opened, Writing
<1> QED
  BY <1>1, <1>2, <1>4, <1>5, <1>6, <1>7, <1>8, <1>10, <1>11 DEF Advanced

\* The work of t itself, step by step: a region is written well, because the source
\* and the payload are good and nobody else has the file open, and t leaves no stage
\* before its regions are written.
LEMMA OwnAdvanced ==
  ASSUME Kinds, Calling, Spawning, Causes, Telling, Holding, Holding', Handles, NotBegun,
         Advancing, stage = "running", NEW t \in DOMAIN Selected, PartitionStep(t),
         Undisturbed(t)'
  PROVE  Advanced(t)'
<1> DEFINE p == Part(t)
           n == p.name
           k == Selected[t]
<1>1. /\ t \in Tasks /\ n \in Names /\ Effect(t) /\ FileEffect(t)
  BY RunFacts, StepEffect, StepFiles
<1>2. opts' = opts
  BY <1>1 DEF Effect, Frame
<1>3. /\ Selected' = Selected /\ \A u : Part(u)' = Part(u)
      /\ \A j : Expected(j)' = Expected(j)
  BY <1>2, SameStatics
<1>4. /\ Undisturbed(t) /\ Advanced(t)
      /\ opts.source = "dir" => dir'[SourcePath(n)] = dir[SourcePath(n)]
  BY <1>1, UndisturbedStays DEF Advancing
<1>5. /\ PartitionNeedsSource(p) => dir'[SourcePath(n)] = dir[SourcePath(n)]
      /\ SourcePath(n)' = SourcePath(n)
  BY <1>2, <1>3, <1>4 DEF Undisturbed, SourcePath
<1>6. PartitionNeedsSource(p) /\ step[t] \in {"create"} \cup Writing
        => src[t] # NoFile /\ OldImage(k) \subseteq content[src[t]]
  BY <1>4 DEF Advanced, Undisturbed
<1>7. ASSUME step[t] \in Opened
      PROVE  /\ out[t] = dir[OutPath(n)] /\ out[t] # NoFile /\ out[t] \in Inodes
             /\ \A regions : Derived(t, regions) = {regions \subseteq content[out[t]]}
  <2>1. out[t] = dir[OutPath(n)] /\ out[t] # NoFile /\ out[t] \in Inodes
    BY <1>1, <1>4, <1>7 DEF Advanced, Holding
  <2>2. ASSUME NEW u \in Tasks \ {t} PROVE out[u] # out[t]
    <3>1. out[t] \in OutInodes(n)
      BY <1>1, <2>1 DEF Holding
    <3>2. out[u] # NoFile => u \in DOMAIN Selected /\ out[u] \in OutInodes(Part(u).name)
      BY DEF Holding
    <3>3. u \in DOMAIN Selected => Part(u).name # n
      BY <1>4 DEF Undisturbed, Namesakes
    <3> QED BY <2>1, <3>1, <3>2, <3>3, InodesApart
  <2>3. ~ Shared(t)
    BY <2>2 DEF Shared
  <2> QED BY <2>1, <2>3 DEF Derived
<1>8. ASSUME NEW region, Put(t, region, TRUE), step[t] \in Opened
      PROVE  /\ region \in content'[out[t]]
             /\ \A r, i : <<k, r, i>> \in content[out[t]] => <<k, r, i>> \in content'[out[t]]
  <2>1. Foreign(t) = {}
    BY <1>4 DEF Undisturbed, Foreign
  <2>2. content' = [content EXCEPT ![out[t]] = content[out[t]] \cup {region}]
    BY <1>8, <2>1 DEF Put
  <2> QED BY <1>7, <1>8, <2>2 DEF Holding
<1>9. /\ p \in PartitionType /\ p.ops \in Seq(OpType)
      /\ Len(p.ops) \in Nat /\ DOMAIN p.ops = 1 .. Len(p.ops)
  BY RunFacts DEF PartitionType
<1>10. ASSUME step'[t] \in {"begin", "source", "failing", "remove"} PROVE Advanced(t)'
  BY <1>10 DEF Advanced, Opened, Writing, Well
<1> HIDE DEF p, n, k
<1>11. CASE Begin(t)
  <2>1. step'[t] = IF PartitionNeedsSource(p) THEN "source" ELSE "create"
    BY <1>1, <1>11 DEF Begin, Kinds, p
  <2>2. step'[t] = "create" => ~ PartitionNeedsSource(Part(t)')
    BY <1>3, <2>1 DEF p
  <2>3. step'[t] = "create" => Advanced(t)'
    BY <2>2 DEF Advanced, Opened, Writing, Well
  <2> QED BY <1>10, <2>1, <2>3
<1>12. CASE OpenSource(t)
  <2>1. step'[t] = "failing" \/ (step'[t] = "create" /\ src'[t] = dir[SourcePath(n)])
    BY <1>1, <1>12 DEF OpenSource, Abort, Kinds, Handles, n, p
  <2>2. ASSUME step'[t] = "create", src'[t] = dir[SourcePath(n)] PROVE Advanced(t)'
    BY <1>3, <1>5, <2>2 DEF Advanced, Opened, Writing, Well, n, p
  <2> QED BY <1>10, <2>1, <2>2
<1>13. CASE Create(t)
  <2>1. /\ step'[t] \in {"gaps", "ops", "failing"} /\ step[t] = "create"
        /\ step'[t] = "ops" => src[t] = NoFile
        /\ src'[t] = src[t] /\ completed'[t] = completed[t] /\ completed[t] = 0
    BY <1>1, <1>13 DEF Create, Abort, Kinds, NotBegun
  <2>2. out'[t] = dir'[OutPath(n)] /\ out'[t] # NoFile
    <3>1. OutPath(n) \in Paths
      BY <1>1 DEF OutPath, Paths
    <3>2. /\ dir' = [dir EXCEPT ![OutPath(n)] = IF dir[OutPath(n)] = NoFile THEN NewInode(t) ELSE dir[OutPath(n)]]
          /\ out' = [out EXCEPT ![t] = IF dir[OutPath(n)] = NoFile THEN NewInode(t) ELSE dir[OutPath(n)]]
      BY <1>13 DEF Create, n, p
    <3>3. NewInode(t) # NoFile
      BY DEF NewInode, NoFile
    <3> QED BY <1>1, <3>1, <3>2, <3>3 DEF Holding
  <2>3. PartitionNeedsSource(p) => src'[t] = dir'[SourcePath(n)] /\ src[t] # NoFile
    BY <1>4, <1>5, <1>6, <2>1 DEF Advanced, n, p
  <2>4. step'[t] = "ops" => ~ p.gaps
    BY <1>4, <2>1, <2>3 DEF Undisturbed, n, p
  <2>5. \A i : ~ (i \in 1 .. completed'[t])
    BY <2>1
  <2>6. step'[t] # "failing" => Advanced(t)'
    BY <1>3, <1>5, <2>1, <2>2, <2>3, <2>4, <2>5 DEF Advanced, Opened, Writing, Well, n, p
  <2> QED BY <1>10, <2>1, <2>6
<1>14. ASSUME step[t] \in Writing, step'[t] \in Opened, UNCHANGED <<src, out, dir>>,
              step'[t] = "done" => step[t] = "verify",
              step'[t] = "ops" =>
                /\ p.gaps => Gap(k) \in content'[out[t]]
                /\ \A i \in 1 .. completed'[t] : Written(k, i) \in content'[out[t]],
              step'[t] \in {"tree", "fec", "verify", "done"} => DataRegions(k) \subseteq content'[out[t]],
              step'[t] \in {"fec", "verify", "done"} => TreeRegions(k) \subseteq content'[out[t]],
              step'[t] = "fec" => p.fec /\ \A b \in written'[t] : Parity(k, b) \in content'[out[t]],
              step'[t] \in {"verify", "done"} => Expected(k) \subseteq content'[out[t]]
       PROVE  Advanced(t)'
  <2>2. PartitionNeedsSource(p) => src'[t] = dir'[SourcePath(n)]
    BY <1>4, <1>14 DEF Advanced, n, p
  <2>3. out'[t] = dir'[OutPath(n)] /\ out'[t] # NoFile /\ out'[t] = out[t]
    BY <1>7, <1>14 DEF Opened
  <2>4. ~ Well(t)' /\ step'[t] \notin {"leave", "finished"}
    BY <1>14 DEF Well, Opened, Writing
  <2>5. Held(t)' = content'[out[t]]
    BY <2>3 DEF Held
  <2>6. Part(t)' = p /\ Selected'[t] = k
    BY <1>3 DEF p, k
  <2> HIDE DEF Opened, Writing
  <2> QED BY <1>3, <1>5, <1>14, <2>2, <2>3, <2>4, <2>5, <2>6 DEF Advanced, n, p
<1>15. ASSUME step[t] \in Writing, UNCHANGED <<src, out, dir, content, completed, written>>,
              step'[t] = step[t], step[t] # "ops" 
       PROVE  Advanced(t)'
  <2>1. step'[t] \in Opened /\ step'[t] # "done"
    BY <1>15 DEF Opened, Writing
  <2> QED BY <1>4, <1>14, <1>15, <2>1 DEF Advanced, Held, p, k, Writing
<1>16. /\ Manifest[k] = p
       /\ Expected(k) \subseteq DataRegions(k) \cup TreeRegions(k) \cup FecRegions(k)
       /\ ~ (p.fec /\ ~ opts.noFEC) => Expected(k) \subseteq DataRegions(k) \cup TreeRegions(k)
  <2>1. Manifest[k] = p
    BY DEF Part, p, k
  <2> QED BY <2>1 DEF Expected, Image, FecSkipped, FecRegions
<1>17. CASE CopyGaps(t)
  <2>1. /\ step[t] = "gaps" /\ step'[t] = "ops" /\ UNCHANGED <<src, out, dir>>
        /\ \A i : ~ (i \in 1 .. completed'[t])
    BY <1>1, <1>17 DEF CopyGaps, Kinds, NotBegun
  <2>2. ASSUME p.gaps PROVE Gap(k) \in content'[out[t]]
    <3>1. SourceHolds(t, 0)
      BY <1>4, <1>6, <2>1, <2>2 DEF Undisturbed, Writing, SourceHolds, OldImage, p, k
    <3>2. Put(t, Gap(k), TRUE)
      <4>1. SourceHolds(t, 0) = TRUE
        BY <3>1 DEF SourceHolds
      <4> QED BY <1>17, <2>2, <4>1 DEF CopyGaps, p, k
    <3> QED BY <1>8, <2>1, <3>2 DEF Opened, Writing
  <2> QED BY <1>14, <2>1, <2>2 DEF Opened, Writing
<1>18. CASE RunOp(t)
  <2>1. /\ step[t] = "ops" /\ step'[t] = "ops" /\ UNCHANGED <<src, out, dir>>
        /\ completed[t] \in Nat /\ completed[t] < Len(p.ops) /\ completed'[t] = completed[t] + 1
    BY <1>1, <1>18 DEF RunOp, AtOp, Kinds, p
  <2>2. completed[t] + 1 \in DOMAIN p.ops /\ Op(t) = p.ops[completed[t] + 1]
    BY <1>9, <2>1 DEF Op, p
  <2>3. Op(t).dataOk /\ Op(t).fills
    BY <1>4, <2>2 DEF Undisturbed, p
  <2>4. ASSUME ReadsSource(Op(t)) PROVE SourceHolds(t, completed[t] + 1)
    <3>1. PartitionNeedsSource(p)
      BY <2>2, <2>4 DEF PartitionNeedsSource, OperationNeedsSource, ReadsSource
    <3>2. Old(k, completed[t] + 1) \in OldImage(k)
      BY <1>16, <2>2, <2>4 DEF OldImage
    <3> QED BY <1>6, <2>1, <3>1, <3>2 DEF SourceHolds, Writing, k
  <2>5. OpGood(t) = TRUE
    BY <2>3, <2>4 DEF OpGood
  <2>6. Put(t, Written(k, completed[t] + 1), TRUE)
    BY <1>18, <2>5 DEF RunOp, k
  <2>7. /\ Written(k, completed[t] + 1) \in content'[out[t]]
        /\ \A r, i : <<k, r, i>> \in content[out[t]] => <<k, r, i>> \in content'[out[t]]
    BY <1>8, <2>1, <2>6 DEF Opened, Writing
  <2>8. /\ p.gaps => Gap(k) \in content'[out[t]]
        /\ \A i \in 1 .. completed[t] : Written(k, i) \in content'[out[t]]
    <3>1. /\ p.gaps => Gap(k) \in content[out[t]]
          /\ \A i \in 1 .. completed[t] : Written(k, i) \in content[out[t]]
      BY <1>4, <2>1 DEF Advanced, Held, p, k
    <3> QED BY <2>7, <3>1 DEF Gap, Written
  <2>9. \A i \in 1 .. completed'[t] : Written(k, i) \in content'[out[t]]
    <3>1. \A i \in 1 .. completed'[t] : i \in 1 .. completed[t] \/ i = completed[t] + 1
      BY <2>1
    <3> QED BY <2>7, <2>8, <3>1
  <2> QED BY <1>14, <2>1, <2>8, <2>9 DEF Opened, Writing
<1>19. CASE BeginVerity(t)
  <2>1. /\ step[t] = "ops" /\ UNCHANGED <<src, out, dir, content, written>>
        /\ completed[t] = Len(p.ops)
        /\ step'[t] = IF p.tree THEN "tree" ELSE IF p.fec /\ ~ opts.noFEC THEN "fec" ELSE "verify"
    BY <1>1, <1>19 DEF BeginVerity, AfterOps, AfterTree, Kinds, p
  <2>2. DataRegions(k) \subseteq content[out[t]]
    <3>1. /\ p.gaps => Gap(k) \in content[out[t]]
          /\ \A i \in DOMAIN p.ops : Written(k, i) \in content[out[t]]
      BY <1>4, <1>9, <2>1 DEF Advanced, Held, p, k
    <3> QED BY <1>16, <3>1 DEF DataRegions
  <2>3. step'[t] # "tree" => TreeRegions(k) = {}
    BY <1>16, <2>1 DEF TreeRegions
  <2>4. written'[t] = {}
    BY <1>1, <2>1 DEF NotBegun
  <2>5. step'[t] = "verify" => Expected(k) \subseteq content[out[t]]
    BY <1>16, <2>1, <2>2, <2>3
  <2> QED BY <1>14, <2>1, <2>2, <2>3, <2>4, <2>5 DEF Opened, Writing
<1>20. CASE WriteTree(t)
  <2>1. /\ step[t] = "tree" /\ UNCHANGED <<src, out, dir, written>>
        /\ step'[t] = IF p.fec /\ ~ opts.noFEC THEN "fec" ELSE "verify"
    BY <1>1, <1>20 DEF WriteTree, AfterTree, Kinds, p
  <2>2. step[t] \in Opened /\ DataRegions(k) \subseteq content[out[t]]
    BY <1>4, <2>1 DEF Advanced, Held, Opened, Writing, k
  <2>3. Derived(t, DataRegions(k)) = {TRUE}
    BY <1>7, <2>2
  <2>4. Put(t, Tree(k), TRUE)
    BY <1>20, <2>3 DEF WriteTree, k
  <2>5. /\ Tree(k) \in content'[out[t]]
        /\ \A r, i : <<k, r, i>> \in content[out[t]] => <<k, r, i>> \in content'[out[t]]
    BY <1>8, <2>2, <2>4
  <2>6. DataRegions(k) \cup TreeRegions(k) \subseteq content'[out[t]]
    BY <2>2, <2>5 DEF DataRegions, TreeRegions, Gap, Written
  <2>7. written'[t] = {}
    BY <1>1, <2>1 DEF NotBegun
  <2>8. step'[t] = "verify" => Expected(k) \subseteq content'[out[t]]
    BY <1>16, <2>1, <2>6
  <2> QED BY <1>14, <2>1, <2>6, <2>7, <2>8 DEF Opened, Writing
<1>21. CASE FecStart(t) \/ \E e \in {"io", "cancelled"} : FecFault(t, e)
  <2>1. step[t] = "fec"
    BY <1>1, <1>21 DEF FecStart, FecFault, Fec!Fault, Calling
  <2> QED BY <1>15, <1>21, <2>1 DEF FecStart, FecFault, Fec!Start, Fec!Fault, Writing
<1>22. ASSUME NEW j \in 1 .. Cardinality(FecBatches), FecReport(t, j) PROVE Advanced(t)'
  <2>1. step[t] = "fec"
    BY <1>1, <1>22 DEF FecReport, Fec!Report, Calling
  <2> QED BY <1>15, <1>22, <2>1 DEF FecReport, Fec!Report, Writing
<1>23. ASSUME NEW b \in FecBatches, FecWrite(t, b) PROVE Advanced(t)'
  <2>1. /\ step[t] = "fec" /\ step'[t] = "fec" /\ UNCHANGED <<src, out, dir>>
        /\ written'[t] = written[t] \cup {b}
    BY <1>1, <1>23 DEF FecWrite, Fec!WriteBatch, Calling, Handles
  <2>2. /\ step[t] \in Opened /\ DataRegions(k) \cup TreeRegions(k) \subseteq content[out[t]]
        /\ p.fec /\ \A c \in written[t] : Parity(k, c) \in content[out[t]]
    BY <1>4, <2>1 DEF Advanced, Held, Opened, Writing, p, k
  <2>3. Derived(t, DataRegions(k) \cup TreeRegions(k)) = {TRUE}
    BY <1>7, <2>2
  <2>4. Put(t, Parity(k, b), TRUE)
    BY <1>23, <2>3 DEF FecWrite, k
  <2>5. /\ Parity(k, b) \in content'[out[t]]
        /\ \A r, i : <<k, r, i>> \in content[out[t]] => <<k, r, i>> \in content'[out[t]]
    BY <1>8, <2>2, <2>4
  <2>6. DataRegions(k) \cup TreeRegions(k) \subseteq content'[out[t]]
    BY <2>2, <2>5 DEF DataRegions, TreeRegions, Gap, Written, Tree
  <2>7. \A c \in written'[t] : Parity(k, c) \in content'[out[t]]
    BY <2>1, <2>2, <2>5 DEF Parity
  <2> QED BY <1>14, <2>1, <2>2, <2>6, <2>7 DEF Opened, Writing
<1>24. CASE FecSucceed(t)
  <2>1. /\ step[t] = "fec" /\ step'[t] = "verify" /\ UNCHANGED <<src, out, dir, content, written>>
        /\ written[t] = FecBatches
    BY <1>1, <1>24 DEF FecSucceed, Fec!Succeed, Calling, Kinds
  <2>2. /\ DataRegions(k) \cup TreeRegions(k) \subseteq content[out[t]]
        /\ \A c \in FecBatches : Parity(k, c) \in content[out[t]]
    BY <1>4, <2>1 DEF Advanced, Held, k
  <2>3. FecRegions(k) \subseteq content[out[t]]
    BY <2>2 DEF FecRegions
  <2>4. Expected(k) \subseteq content[out[t]]
    BY <1>16, <2>2, <2>3
  <2> QED BY <1>14, <2>1, <2>2, <2>4 DEF Opened, Writing
<1>25. CASE Verify(t)
  <2>1. /\ step[t] = "verify" /\ step'[t] \in {"done", "failing"}
        /\ UNCHANGED <<src, out, dir, content>>
    BY <1>1, <1>25 DEF Verify, Abort, Kinds
  <2>2. /\ DataRegions(k) \cup TreeRegions(k) \subseteq content[out[t]]
        /\ Expected(k) \subseteq content[out[t]]
    BY <1>4, <2>1 DEF Advanced, Held, k
  <2> QED BY <1>10, <1>14, <2>1, <2>2 DEF Opened, Writing
<1>26. ASSUME step'[t] = "finished", UNCHANGED <<out, dir, content, kept>>,
              (step[t] = "done" /\ err'[t] = "none") \/ (step[t] = "leave" /\ err'[t] # "none")
       PROVE  Advanced(t)'
  <2>1. Held(t)' = Held(t)
    BY <1>26 DEF Held
  <2> QED BY <1>3, <1>4, <1>26, <2>1 DEF Advanced, Well, Opened, Writing, p
<1>27. CASE Done(t)
  <2>1. err[t] = "none"
    BY <1>1, <1>27 DEF Done, Telling, Working
  <2>2. /\ step[t] = "done" /\ step'[t] = "finished" /\ err' = err
        /\ UNCHANGED <<out, dir, content, kept>>
    BY <1>1, <1>27 DEF Done, Kinds
  <2> QED BY <1>26, <2>1, <2>2
<1>28. CASE Leave(t)
  <2>1. err[t] # "none"
    BY <1>1, <1>28 DEF Leave, Causes
  <2> QED BY <1>1, <1>26, <1>28, <2>1 DEF Leave, Kinds
<1>29. CASE Remove(t)
  <2>1. step'[t] = "leave" /\ (dir'[OutPath(n)] = NoFile \/ n \in kept')
    <3>1. OutPath(n) \in Paths
      BY <1>1 DEF OutPath, Paths
    <3> QED BY <1>1, <1>29, <3>1 DEF Remove, Kinds, Holding, n, p
  <2> QED BY <1>3, <2>1 DEF Advanced, Well, Opened, Writing, n, p
<1>30. CASE OpRejected(t) \/ Cancelled(t) \/ FecFail(t) \/ IoFails(t)
  <2>1. step'[t] = "failing"
    BY <1>1, <1>30 DEF OpRejected, Cancelled, FecFail, IoFails, Abort, Kinds
  <2> QED BY <1>10, <2>1
<1>31. CASE ReportFailure(t)
  <2>1. step'[t] = "remove"
    BY <1>1, <1>31 DEF ReportFailure, Kinds
  <2> QED BY <1>10, <2>1
<1> QED
  BY <1>11, <1>12, <1>13, <1>17, <1>18, <1>19, <1>20, <1>21, <1>22, <1>23, <1>24, <1>25,
     <1>27, <1>28, <1>29, <1>30, <1>31 DEF PartitionStep, FecStep

LEMMA StepAdvancing ==
  ASSUME Kinds, Calling, Spawning, Causes, Telling, Holding, Holding', Handles, NotBegun,
         Advancing, stage = "running", NEW t \in DOMAIN Selected, PartitionStep(t)
  PROVE  Advancing'
<1>1. Effect(t) /\ FileEffect(t) /\ opts' = opts
  BY RunFacts, StepEffect, StepFiles DEF Effect, Frame
<1>2. Selected' = Selected
  BY <1>1, SameStatics
<1>3. ASSUME NEW v \in DOMAIN Selected, Undisturbed(v)' PROVE Advanced(v)'
  BY <1>1, <1>3, OwnAdvanced, OthersAdvanced
<1> QED BY <1>2, <1>3 DEF Advancing

--------------------------------------------------------------------------------
(* What is on disk, after a step of the run as a whole                      *)

\* Nothing happens to the files but that a killed process forgets them.
Stays ==
  /\ UNCHANGED <<dir, content, kept, out, src, err, completed, written, reported, shown, crashes>>
  /\ \A t \in Tasks : step'[t] = step[t] \/ (step[t] = "queued" /\ step'[t] = "begin")

LEMMA RunStays ==
  ASSUME Kinds, Spawning, RunStep, ~ Crash
  PROVE  Stays
<1> USE DEF Stays
<1>1. CASE Spawn
  <2>1. \A t \in Tasks : t = spawned + 1 => step[t] = "queued"
    <3>1. spawned \in Nat /\ \A t \in Tasks : t \in Int
      BY ManifestAssumption DEF Spawning, Tasks
    <3> QED BY <3>1 DEF Spawning
  <2> QED BY <1>1, <2>1 DEF Spawn, Kinds
<1>2. CASE Start BY <1>2 DEF Start
<1>3. CASE MkdirFails BY <1>3 DEF MkdirFails
<1>4. CASE Return BY <1>4 DEF Return
<1>5. CASE Interrupt BY <1>5 DEF Interrupt
<1> QED BY <1>1, <1>2, <1>3, <1>4, <1>5 DEF RunStep

LEMMA StayFiles ==
  ASSUME Kinds, Handles, Settled, Fresh, Present, Advancing, NotBegun, opts' = opts, Stays
  PROVE  Handles' /\ Settled' /\ Fresh' /\ Present' /\ Advancing' /\ NotBegun'
<1>1. /\ Selected' = Selected /\ DOMAIN Selected \subseteq Tasks
      /\ \A u : /\ Part(u)' = Part(u) /\ (Checked(u)' <=> Checked(u))
                /\ Namesakes(u)' = Namesakes(u)
      /\ \A k : Expected(k)' = Expected(k)
      /\ \A n : SourcePath(n)' = SourcePath(n)
  BY SameStatics, SelectionFacts DEF Kinds, SourcePath
<1> USE DEF Stays
<1>2. Handles' /\ NotBegun'
  BY DEF Handles, NotBegun
<1>3. Settled'
  <2>1. \A u \in DOMAIN Selected : \A i : Busy(u, i)' <=> Busy(u, i)
    BY <1>1 DEF Busy, Writing
  <2>2. \A u : Namesakes(u) \subseteq DOMAIN Selected
    BY DEF Namesakes
  <2> QED BY <1>1, <2>1, <2>2 DEF Settled
<1>4. Fresh' /\ Present'
  BY <1>1 DEF Fresh, Present, Opened, Writing
<1>5. ASSUME NEW t \in DOMAIN Selected, Undisturbed(t)' PROVE Advanced(t)'
  <2>1. Undisturbed(t)
    BY <1>1, <1>5 DEF Undisturbed
  <2>2. CASE step'[t] = step[t]
    <3>1. Advanced(t)
      BY <2>1 DEF Advancing
    <3> QED BY <1>1, <2>2, <3>1 DEF Advanced, Well, Held
  <2>3. CASE step'[t] = "begin"
    BY <2>3 DEF Advanced, Well, Opened, Writing
  <2> QED BY <1>1, <2>2, <2>3
<1> QED BY <1>1, <1>2, <1>3, <1>4, <1>5 DEF Advancing

LEMMA CrashFiles ==
  ASSUME Kinds, Handles, Crash
  PROVE  Handles' /\ Settled' /\ Fresh' /\ Present' /\ Advancing' /\ NotBegun'
<1>1. /\ step' = [t \in Tasks |-> "queued"] /\ out' = [t \in Tasks |-> NoFile]
      /\ kept' = {} /\ UNCHANGED <<opts, dir>>
  BY DEF Crash, FreshRun
<1>2. Selected' = Selected /\ DOMAIN Selected \subseteq Tasks /\ \A u : Part(u)' = Part(u)
  BY <1>1, SameSelection, SelectionFacts DEF Kinds
<1>3. Handles'
  <2>1. crashes' \in 0 .. MaxCrashes
    BY ManifestAssumption DEF Handles, Crash
  <2> QED BY <2>1 DEF Handles, Crash, FreshRun
<1>4. NotBegun'
  BY DEF NotBegun, Crash, FreshRun
<1>5. Settled' /\ Fresh' /\ Present'
  BY <1>1, <1>2 DEF Settled, Fresh, Present, Opened, Writing
<1>6. ASSUME NEW t \in DOMAIN Selected PROVE Advanced(t)'
  BY <1>1, <1>2 DEF Advanced, Well, Opened, Writing
<1> QED BY <1>2, <1>3, <1>4, <1>5, <1>6 DEF Advancing

LEMMA StepEnded ==
  ASSUME Ended, stage = "running", NEW t \in Tasks, Effect(t)
  PROVE  Ended'
BY DEF Ended, Effect, Frame

LEMMA RunEnded ==
  ASSUME Kinds, Ended, RunStep
  PROVE  Ended'
<1>1. opts' = opts
  BY DEF RunStep, Start, MkdirFails, Spawn, Return, Interrupt, Crash
<1>2. Selected' = Selected
  BY <1>1, SameSelection
<1>3. Precheck(opts) \in {"ok", "unknown partitions", "unsupported operations", "missing source"}
  BY DEF Precheck
<1> USE <1>2 DEF Ended, Errors
<1>4. CASE Start BY <1>3, <1>4 DEF Start
<1>5. CASE MkdirFails BY <1>5 DEF MkdirFails
<1>6. CASE Spawn BY <1>6 DEF Spawn
<1>7. CASE Return BY <1>7 DEF Return, Kinds
<1>8. CASE Interrupt BY <1>8 DEF Interrupt
<1>9. CASE Crash BY <1>9 DEF Crash
<1> QED BY <1>4, <1>5, <1>6, <1>7, <1>8, <1>9 DEF RunStep

--------------------------------------------------------------------------------
(* The invariant of the files                                               *)

FilesInv ==
  /\ IInv /\ Holding /\ Handles /\ Settled /\ Fresh /\ Present
  /\ Advancing /\ NotBegun /\ Ended

LEMMA InitFiles == Init => FilesInv
<1> SUFFICES ASSUME Init PROVE FilesInv
  OBVIOUS
<1> USE DEF Init, FreshRun
<1>1. IInv
  BY InitIInv
<1>2. Holding
  <2>1. PICK disk \in Disks : dir = InitDir(disk) /\ content = InitContent(disk)
    OBVIOUS
  <2>2. \A p \in Paths : dir[p] = p \/ dir[p] = NoFile
    BY <2>1 DEF InitDir, OldInode
  <2>3. dir \in [Paths -> Inodes \cup {NoFile}]
    <3>1. DOMAIN dir = Paths /\ dir = [p \in Paths |-> dir[p]]
      BY <2>1 DEF InitDir
    <3> QED BY <2>2, <3>1 DEF Inodes
  <2>4. content = [i \in Inodes |-> content[i]]
    BY <2>1 DEF InitContent
  <2>5. ASSUME NEW n \in Names
        PROVE  /\ dir[OutPath(n)] \in OutInodes(n) \cup {NoFile}
               /\ dir[<<"src", n>>] \in {<<"src", n>>, NoFile}
    <3>1. OutPath(n) \in Paths /\ <<"src", n>> \in Paths /\ OutPath(n) \in OutInodes(n)
      BY DEF OutPath, Paths, OutInodes
    <3> QED BY <2>2, <3>1
  <2> QED BY <2>3, <2>4, <2>5 DEF Holding, Opened, Writing
<1>3. Handles
  BY ManifestAssumption DEF Handles
<1>4. Settled /\ Fresh /\ Present
  <2>1. DOMAIN Selected \subseteq Tasks
    BY SelectionFacts
  <2> QED BY <2>1 DEF Settled, Fresh, Present, Opened, Writing
<1>5. Advancing
  <2>1. DOMAIN Selected \subseteq Tasks
    BY SelectionFacts
  <2> QED BY <2>1 DEF Advancing, Advanced, Well, Opened, Writing
<1>6. NotBegun /\ Ended
  BY DEF NotBegun, Ended, Errors
<1> QED BY <1>1, <1>2, <1>3, <1>4, <1>5, <1>6 DEF FilesInv

LEMMA NextFiles == FilesInv /\ [Next]_vars => FilesInv'
<1> SUFFICES ASSUME FilesInv, [Next]_vars PROVE FilesInv'
  OBVIOUS
<1> USE DEF FilesInv
<1>1. IInv'
  BY NextIInv
<1>2. Kinds /\ Calling /\ Spawning /\ Causes /\ Telling
  BY DEF IInv
<1>3. ASSUME stage = "running", NEW t \in Tasks, PartitionStep(t) PROVE FilesInv'
  <2>1. Effect(t) /\ t \in DOMAIN Selected
    BY <1>2, <1>3, StepEffect, AtWork
  <2>2. FileEffect(t)
    BY <1>2, <1>3, StepFiles
  <2>3. Holding'
    BY <1>2, <1>3, <2>1, <2>2, StepHolding
  <2>4. Settled' /\ Fresh' /\ Present'
    BY <1>2, <1>3, <2>1, <2>2, <2>3, StepSettled, StepFresh, StepPresent
  <2>5. Handles' /\ NotBegun' /\ Ended'
    BY <1>2, <1>3, <2>1, StepHandles, StepNotBegun, StepEnded
  <2>6. Advancing'
    BY <1>2, <1>3, <2>1, <2>3, StepAdvancing
  <2> QED BY <1>1, <2>3, <2>4, <2>5, <2>6
<1>4. CASE RunStep
  <2>1. Holding' /\ Ended'
    BY <1>2, <1>4, RunHolding, RunEnded
  <2>2. CASE Crash
    BY <1>1, <1>2, <2>1, <2>2, CrashFiles
  <2>3. CASE ~ Crash
    <3>1. Stays
      BY <1>2, <1>4, <2>3, RunStays
    <3>2. opts' = opts
      BY <1>4 DEF RunStep, Start, MkdirFails, Spawn, Return, Interrupt, Crash
    <3> QED BY <1>1, <1>2, <2>1, <3>1, <3>2, StayFiles
  <2> QED BY <2>2, <2>3
<1>5. CASE UNCHANGED vars
  <2>1. opts' = opts /\ Stays
    BY <1>5 DEF vars, Stays
  <2>2. /\ Selected' = Selected
        /\ \A u : Part(u)' = Part(u)
        /\ \A n : OutInodes(n)' = OutInodes(n)
    BY <2>1, SameStatics
  <2>3. Holding' /\ Ended'
    BY <1>5, <2>2 DEF vars, Holding, Ended
  <2> QED BY <1>1, <1>2, <2>1, <2>3, StayFiles
<1> QED BY <1>3, <1>4, <1>5, NextIsGroupStep DEF GroupStep

LEMMA FilesInvariant == Spec => []FilesInv
BY InitFiles, NextFiles, PTL DEF Spec

\* Every variable keeps to its type.
THEOREM TypeCorrect == Spec => []TypeInv
<1>1. ASSUME FilesInv PROVE TypeInv
  <2> USE <1>1 DEF FilesInv, IInv
  <2>1. opts \in OptionSet /\ stage \in {"start", "running", "returned"}
    BY DEF Kinds, Spawning
  <2>2. spawned \in 0 .. MaxTasks
    BY SelectionFacts DEF Kinds, Spawning
  <2>3. result \in {"none", "ok", "unknown partitions", "unsupported operations",
                    "missing source", "io", "verify", "source", "cancelled"}
    BY DEF Ended, Errors
  <2>4. DOMAIN content = Inodes /\ kept \subseteq Names /\ crashes \in 0 .. MaxCrashes
    BY DEF Holding, Handles
  <2>5. /\ src \in [Tasks -> Inodes \cup {NoFile}] /\ out \in [Tasks -> Inodes \cup {NoFile}]
        /\ dir \in [Paths -> Inodes \cup {NoFile}]
    BY DEF Holding, Handles
  <2>6. /\ written \in [Tasks -> SUBSET FecBatches]
        /\ reported \in [Tasks -> SUBSET (1 .. Cardinality(FecBatches))]
        /\ \A t \in Tasks : completed[t] \in Nat /\ shown[t].completed \in Nat
    BY DEF Kinds, Handles
  <2> QED BY <2>1, <2>2, <2>3, <2>4, <2>5, <2>6 DEF TypeInv, Kinds, Errors, Steps
<1> QED BY <1>1, FilesInvariant, PTL

\* When all the goroutines have ended, none is busy with a file.
LEMMA NoneBusy ==
  ASSUME FilesInv, stage = "returned", spawned > 0
  PROVE  /\ DOMAIN Selected \subseteq Tasks
         /\ \A t \in DOMAIN Selected : step[t] = "finished" /\ \A i : ~ Busy(t, i)
<1>1. \A t \in DOMAIN Selected : step[t] = "finished"
  BY DEF FilesInv, IInv, Spawning
<1> QED BY <1>1, SelectionFacts DEF FilesInv, IInv, Kinds, Busy, Writing

\* The goroutines of the name of t are done with its path: t among them.
LEMMA NamesakesDone ==
  ASSUME FilesInv, stage = "returned", spawned > 0, NEW t \in DOMAIN Selected,
         dir[OutPath(Part(t).name)] # NoFile, Part(t).name \notin kept
  PROVE  (\A u \in Namesakes(t) : Checked(u)) => \E u \in Namesakes(t) : CompleteAt(u)
<1> DEFINE n == Part(t).name
           i == dir[OutPath(n)]
<1> USE DEF FilesInv
<1>1. SUFFICES ASSUME \A u \in Namesakes(t) : Checked(u)
               PROVE  \E u \in Namesakes(t) : CompleteAt(u)
  OBVIOUS
<1>2. \A u \in DOMAIN Selected : step[u] = "finished" /\ ~ Busy(u, i)
  BY NoneBusy
<1>3. \E w \in DOMAIN Selected : out[w] = i
  BY <1>2 DEF Fresh
<1>4. \A u \in Namesakes(t) : u \in DOMAIN Selected /\ Part(u).name = n
  BY DEF Namesakes
<1>5. \E u \in Namesakes(t) : Expected(Selected[u]) \subseteq content[i]
  BY <1>1, <1>2, <1>3, <1>4 DEF Settled
<1> QED BY <1>4, <1>5 DEF CompleteAt

\* When Extract returns nil, every selected image is at its path and has all its
\* regions, if its hash was compared (extract.go:278-297) or nothing but the extractor
\* could have spoiled it: also after a kill, with other partitions extracted at the
\* same time, or the same one twice. Of entries of one name, which the selection
\* (extract.go:76-99) does not refuse, the file at the path begins with the whole
\* image of one; what a longer one may have written behind it is not told.
THEOREM NilComplete == Spec => []NilMeansComplete
<1>1. ASSUME FilesInv PROVE NilMeansComplete
  <2> SUFFICES ASSUME result = "ok", NEW t \in DOMAIN Selected
               PROVE  Delivered(t)
    BY DEF NilMeansComplete
  <2> DEFINE n == Part(t).name
             i == dir[OutPath(n)]
  <2> USE <1>1 DEF FilesInv
  <2>1. /\ stage = "returned" /\ spawned = Len(Selected) /\ xerr = "none"
    BY DEF Ended
  <2>2. spawned > 0
    BY <2>1, SelectionFacts DEF IInv, Kinds
  <2>3. \A u \in DOMAIN Selected : u \in Tasks /\ step[u] = "finished"
    BY <2>1, <2>2, NoneBusy
  <2>4. \A u \in Tasks : step[u] # "leave" /\ (step[u] = "finished" => err[u] = "none")
    <3>1. \A u \in Tasks : u \in DOMAIN Selected \/ step[u] = "queued"
      BY <2>1, SelectionFacts DEF IInv, Kinds, Spawning, Tasks
    <3>2. \A u \in Tasks : step[u] = "finished" => err[u] = "none"
      BY <2>1 DEF IInv, Telling
    <3> QED BY <2>3, <3>1, <3>2
  <2>5. kept = {} /\ i # NoFile
    BY <2>3, <2>4 DEF Present
  <2>6. (\A u \in Namesakes(t) : Checked(u)) => \E u \in Namesakes(t) : CompleteAt(u)
    BY <2>1, <2>2, <2>5, NamesakesDone
  <2>7. ASSUME Undisturbed(t) PROVE CompleteAt(t)
    <3>1. Advanced(t) /\ Well(t)
      BY <2>3, <2>4, <2>7 DEF Advancing, Well
    <3> QED BY <2>5, <3>1 DEF Advanced, Held, CompleteAt
  <2> QED BY <2>6, <2>7 DEF Delivered
<1> QED BY <1>1, FilesInvariant, PTL

\* Whenever Extract returns after its first goroutine, the path of a selected partition
\* holds a complete image or nothing, unless os.Remove failed (extract.go:153-160):
\* what a failed, cancelled or killed attempt has written is gone. Of entries of one
\* name, a file that stays begins with the whole image of one of them.
THEOREM NothingPartial == Spec => []NothingPartialIsLeft
<1>1. ASSUME FilesInv PROVE NothingPartialIsLeft
  <2> SUFFICES ASSUME stage = "returned", spawned > 0, NEW t \in DOMAIN Selected,
                      Part(t).name \notin kept, dir[OutPath(Part(t).name)] # NoFile
               PROVE  Delivered(t)
    BY DEF NothingPartialIsLeft
  <2> USE <1>1 DEF FilesInv
  <2>1. (\A u \in Namesakes(t) : Checked(u)) => \E u \in Namesakes(t) : CompleteAt(u)
    BY NamesakesDone
  <2>2. ASSUME Undisturbed(t) PROVE CompleteAt(t)
    <3>1. step[t] = "finished"
      BY NoneBusy
    <3>2. Advanced(t) /\ Well(t)
      BY <2>2, <3>1 DEF Advancing, Advanced
    <3> QED BY <3>2 DEF Advanced, Held, CompleteAt
  <2> QED BY <2>1, <2>2 DEF Delivered
<1> QED BY <1>1, FilesInvariant, PTL
================================================================================
