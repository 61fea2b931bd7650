----------------------------- MODULE CommandProofs -----------------------------
(***************************************************************************)
(* cmd/root.go, proved.  First what the two renderers show (Progress), for *)
(* any set of goroutines, with or without partitions that are extracted    *)
(* twice, any number of operations, FEC batches and workers, and any order *)
(* in which counts are delivered.  Then what one run of the program holds  *)
(* and leaves behind (Command), for every set of inputs, every sizes of    *)
(* header and signature, and every word.                                   *)
(***************************************************************************)
EXTENDS Progress, Command, TLAPS

--------------------------------------------------------------------------------
(* The invariant                                                            *)

BarType ==
  [current : Int, total : Int, armed : BOOLEAN,
   state : {"absent", "running", "completed", "aborted"}]

RendererTypes ==
  /\ stage \in [Tasks -> {"queued", "ops", "fec", "ended"}]
  /\ completed \in [Tasks -> Nat] /\ drawn \in [Tasks -> Nat]
  /\ pending \in [Tasks -> SUBSET Nat]
  /\ outcome \in [Tasks -> {"none", "done", "failed"}]
  /\ bars \in [Names -> BarType]
  /\ lastDone \in [Names -> Nat] /\ phaseTotal \in [Names -> Nat]
  /\ printed \in [Names -> Seq(0 .. 100)]

\* How far a goroutine is, by its stage.
TaskFits(t) ==
  /\ completed[t] <= TotalOps[Name[t]]
  /\ drawn[t] <= FecBatches[Name[t]]
  /\ pending[t] \subseteq 1 .. drawn[t]
  /\ stage[t] = "queued" => completed[t] = 0
  /\ stage[t] \in {"queued", "ops"} => pending[t] = {} /\ drawn[t] = 0
  /\ stage[t] = "fec" => completed[t] = TotalOps[Name[t]]
  /\ outcome[t] # "none" => stage[t] = "ended"
  /\ outcome[t] = "done" => completed[t] = TotalOps[Name[t]]

\* A count that has been delivered has told the bar how many there will be.
CountsTold(t) ==
  pending[t] # 1 .. drawn[t] => phaseTotal[Name[t]] = FecBatches[Name[t]]

\* A bar that is running follows the last progress, with no completion armed.
BarFits(n) ==
  /\ phaseTotal[n] \in {0, FecBatches[n]}
  /\ lastDone[n] <= TotalOps[n] + phaseTotal[n]
  /\ bars[n].state = "absent" => bars[n] = NoBar /\ lastDone[n] = 0 /\ phaseTotal[n] = 0
  /\ bars[n].state = "running" =>
       /\ bars[n].current = lastDone[n]
       /\ bars[n].total = TotalOps[n] + phaseTotal[n]
       /\ ~ bars[n].armed

IInv ==
  /\ RendererTypes
  /\ \A t \in Tasks : TaskFits(t) /\ CountsTold(t)
  /\ \A n \in Names : BarFits(n)
  /\ BarTellsTheOutcome /\ HundredMeansOperationsDone

LEMMA NameFacts ==
  ASSUME NEW t \in Tasks
  PROVE  Name[t] \in Names /\ TotalOps[Name[t]] \in Nat /\ FecBatches[Name[t]] \in Nat
BY ProgressAssumption DEF Names

--------------------------------------------------------------------------------
(* One event                                                                *)

\* What an event of goroutine t may carry, and what it makes of the goroutine.
Carries(t, ops, phase, done, failed) ==
  /\ ops = completed'[t] /\ ops \in Nat /\ ops <= TotalOps[Name[t]]
  /\ phase \in Nat /\ phase <= FecBatches[Name[t]] /\ (phase > 0 => ops = TotalOps[Name[t]])
  /\ done \in BOOLEAN /\ failed \in BOOLEAN
  /\ stage'[t] # "queued"
  /\ failed => outcome'[t] = "failed"
  /\ outcome'[t] = "done" <=> done /\ ~ failed

\* The updates of a bar, field by field.
LEMMA BarUpdates ==
  ASSUME NEW b \in BarType, NEW x \in Int
  PROVE  /\ [b EXCEPT !.total = x, !.armed = FALSE]
              = [current |-> b.current, total |-> x, armed |-> FALSE, state |-> b.state]
         /\ [b EXCEPT !.current = x]
              = [current |-> x, total |-> b.total, armed |-> b.armed, state |-> b.state]
         /\ [b EXCEPT !.total = x, !.current = x, !.state = "completed"]
              = [current |-> x, total |-> x, armed |-> b.armed, state |-> "completed"]
         /\ [b EXCEPT !.state = "aborted"]
              = [current |-> b.current, total |-> b.total, armed |-> b.armed, state |-> "aborted"]
         /\ b.current \in Int /\ b.total \in Int /\ b.armed \in BOOLEAN
<1>1. b.current \in Int /\ b.total \in Int /\ b.armed \in BOOLEAN
  BY DEF BarType
<1>2. /\ [b EXCEPT !.current = x]
           = [current |-> x, total |-> b.total, armed |-> b.armed, state |-> b.state]
      /\ [b EXCEPT !.state = "aborted"]
           = [current |-> b.current, total |-> b.total, armed |-> b.armed, state |-> "aborted"]
  BY DEF BarType
<1> DEFINE sized == [b EXCEPT !.total = x]
<1>3. sized = [current |-> b.current, total |-> x, armed |-> b.armed, state |-> b.state]
  BY DEF BarType
<1>4. sized \in BarType
  BY <1>1, <1>3 DEF BarType
<1> HIDE DEF sized
<1>5. ASSUME NEW f \in BOOLEAN
      PROVE  [sized EXCEPT !.armed = f]
               = [current |-> b.current, total |-> x, armed |-> f, state |-> b.state]
  BY <1>3, <1>4 DEF BarType
<1>51. [sized EXCEPT !.armed = FALSE]
         = [current |-> b.current, total |-> x, armed |-> FALSE, state |-> b.state]
  BY <1>5, Zenon
<1> DEFINE full == [sized EXCEPT !.current = x]
<1>6. full = [current |-> x, total |-> x, armed |-> b.armed, state |-> b.state]
  BY <1>3, <1>4 DEF BarType
<1>7. full \in BarType
  BY <1>4 DEF BarType
<1> HIDE DEF full
<1>8. [full EXCEPT !.state = "completed"]
        = [current |-> x, total |-> x, armed |-> b.armed, state |-> "completed"]
  BY <1>6, <1>7 DEF BarType
<1> QED BY <1>1, <1>2, <1>51, <1>8 DEF sized, full

LEMMA BarRecords ==
  ASSUME NEW c \in Int, NEW n \in Int, NEW a \in BOOLEAN,
         NEW s \in {"absent", "running", "completed", "aborted"}
  PROVE  LET b == [current |-> c, total |-> n, armed |-> a, state |-> s] IN
         b \in BarType /\ b.current = c /\ b.total = n /\ b.armed = a /\ b.state = s
BY DEF BarType

LEMMA RunningBars ==
  ASSUME NEW c \in Int, NEW n \in Int
  PROVE  LET b == [current |-> c, total |-> n, armed |-> FALSE, state |-> "running"] IN
         b \in BarType /\ b.current = c /\ b.total = n /\ b.armed = FALSE /\ b.state = "running"
<1>1. FALSE \in BOOLEAN /\ "running" \in {"absent", "running", "completed", "aborted"}
  OBVIOUS
<1> QED BY <1>1, BarRecords, Zenon

\* A bar is opened with its total, and nothing completes it but a call.
LEMMA NewBar ==
  ASSUME NEW T \in Nat
  PROVE  SetTotal(AddBar(T), T, FALSE)
           = [current |-> 0, total |-> T, armed |-> FALSE, state |-> "running"]
<1> DEFINE b == AddBar(T)
<1>1. /\ b \in BarType /\ b.state = "running" /\ b.current = 0
  BY DEF AddBar, BarType
<1>2. (IF T <= 0 THEN b.current ELSE T) = T
  BY <1>1
<1>3. SetTotal(b, T, FALSE) = [b EXCEPT !.total = T, !.armed = FALSE]
  <2> HIDE DEF b
  <2> QED BY <1>1, <1>2 DEF SetTotal
<1> HIDE DEF b
<1>4. T \in Int
  OBVIOUS
<1>5. SetTotal(b, T, FALSE)
        = [current |-> b.current, total |-> T, armed |-> FALSE, state |-> b.state]
  BY <1>1, <1>3, <1>4, BarUpdates, Zenon
<1>6. SetTotal(b, T, FALSE) = [current |-> 0, total |-> T, armed |-> FALSE, state |-> "running"]
  BY <1>1, <1>5, Zenon
<1> QED BY <1>6 DEF b

\* What handle makes of the bar of a partition.
LEMMA BarHandled ==
  ASSUME RendererTypes, NEW t \in Tasks, BarFits(Name[t]),
         NEW ops \in Nat, NEW phase \in Nat, NEW done \in BOOLEAN, NEW failed \in BOOLEAN,
         ops <= TotalOps[Name[t]], phase <= FecBatches[Name[t]],
         HandleBar(Event(t, ops, phase, done, failed))
  PROVE  LET n == Name[t]
             b == bars'[n] IN
         /\ \A m \in Names : m # n => /\ bars'[m] = bars[m] /\ lastDone'[m] = lastDone[m]
                                      /\ phaseTotal'[m] = phaseTotal[m]
         /\ bars' \in [Names -> BarType] /\ lastDone' \in [Names -> Nat]
         /\ phaseTotal' \in [Names -> Nat]
         /\ phaseTotal'[n] = IF phase > 0 THEN FecBatches[n] ELSE phaseTotal[n]
         /\ lastDone'[n] <= TotalOps[n] + phaseTotal'[n]
         /\ IF bars[n].state \in {"completed", "aborted"} THEN b = bars[n]
            ELSE IF failed THEN b.state = "aborted"
            ELSE IF done THEN b.state = "completed" /\ b.current = TotalOps[n] + phaseTotal'[n]
            ELSE /\ b.state = "running" /\ ~ b.armed /\ b.current = lastDone'[n]
                 /\ b.total = TotalOps[n] + phaseTotal'[n]
<1> DEFINE n == Name[t]
           ev == Event(t, ops, phase, done, failed)
           T == TotalOps[n]
           F == FecBatches[n]
           grown == Grown(ev)
           opened == OpenBar(n)
           sized == IF grown > phaseTotal[n] THEN SetTotal(opened, T + grown, FALSE) ELSE opened
           now == ops + phase
           moved == IF Advance(n, now) THEN IncrBy(sized, now - lastDone[n]) ELSE sized
           final == Finished(moved, ev, grown)
           last == IF Advance(n, now) THEN now ELSE lastDone[n]
<1>1. /\ n \in Names /\ T \in Nat /\ F \in Nat /\ bars[n] \in BarType
      /\ lastDone[n] \in Nat /\ phaseTotal[n] \in Nat
  BY NameFacts DEF RendererTypes
<1>2. /\ ev.name = n /\ ev.ops = ops /\ ev.phase = phase /\ ev.done = done /\ ev.failed = failed
  BY DEF Event
<1>3. /\ bars' = [bars EXCEPT ![n] = final]
      /\ phaseTotal' = [phaseTotal EXCEPT ![n] = grown]
      /\ lastDone' = [lastDone EXCEPT ![n] = last]
  BY <1>2 DEF HandleBar
<1>4. grown = IF phase > 0 THEN F ELSE phaseTotal[n]
  BY <1>1, <1>2 DEF Grown, PhaseTotal, BarFits
<1>5. grown \in Nat /\ now \in Nat /\ now <= T + grown
  BY <1>1, <1>4
<1>6. last \in Nat /\ last >= lastDone[n] /\ last <= T + grown /\ (Advance(n, now) <=> now > lastDone[n])
  BY <1>1, <1>4, <1>5 DEF Advance, BarFits
<1>61. ASSUME final \in BarType
       PROVE  /\ \A m \in Names : m # n => /\ bars'[m] = bars[m] /\ lastDone'[m] = lastDone[m]
                                           /\ phaseTotal'[m] = phaseTotal[m]
              /\ bars' \in [Names -> BarType] /\ lastDone' \in [Names -> Nat]
              /\ phaseTotal' \in [Names -> Nat]
              /\ phaseTotal'[n] = grown /\ lastDone'[n] = last /\ bars'[n] = final
  <2> HIDE DEF n, final, grown, last
  <2> QED BY <1>1, <1>3, <1>5, <1>6, <1>61 DEF RendererTypes
<1>7. CASE bars[n].state \in {"completed", "aborted"}
  <2>1. opened = bars[n]
    <3>1. bars[n] # NoBar
      BY <1>7 DEF NoBar
    <3> QED BY <3>1 DEF OpenBar
  <2>2. sized = bars[n]
    BY <1>7, <2>1 DEF SetTotal
  <2>3. moved = bars[n]
    BY <1>7, <2>2 DEF IncrBy
  <2>4. final = bars[n]
    BY <1>7, <2>3 DEF Finished, BarAbort, SetTotal
  <2> HIDE DEF final, grown, last
  <2> QED BY <1>1, <1>4, <1>6, <1>61, <1>7, <2>4
<1>8. CASE bars[n].state \notin {"completed", "aborted"}
  <2>1. /\ opened.state = "running" /\ opened.armed = FALSE /\ opened.current = lastDone[n]
        /\ opened.total = T + phaseTotal[n] /\ opened \in BarType
    <3>1. CASE bars[n].state = "absent"
      <4>1. bars[n] = NoBar /\ lastDone[n] = 0 /\ phaseTotal[n] = 0
        BY <3>1 DEF BarFits
      <4>2. opened = [current |-> 0, total |-> T, armed |-> FALSE, state |-> "running"]
        BY <1>1, <4>1, NewBar DEF OpenBar
      <4> HIDE DEF opened
      <4> QED BY <1>1, <4>1, <4>2 DEF BarType
    <3>2. CASE bars[n].state = "running"
      <4>1. opened = bars[n]
        <5>1. bars[n] # NoBar
          BY <3>2 DEF NoBar
        <5> QED BY <5>1 DEF OpenBar
      <4> HIDE DEF opened
      <4> QED BY <1>1, <3>2, <4>1 DEF BarFits, BarType
    <3> QED BY <1>1, <1>8, <3>1, <3>2 DEF BarType
  <2>2. /\ sized.state = "running" /\ sized.armed = FALSE /\ sized.current = lastDone[n]
        /\ sized.total = T + grown /\ sized \in BarType
    <3>1. CASE grown > phaseTotal[n]
      <4>1. sized = [opened EXCEPT !.total = T + grown, !.armed = FALSE]
        <5>1. ~ (T + grown <= 0)
          BY <1>1, <1>5, <3>1
        <5> HIDE DEF opened, grown, T
        <5> QED BY <2>1, <3>1, <5>1 DEF SetTotal
      <4>2. T + grown \in Int
        BY <1>1, <1>5
      <4> HIDE DEF opened, grown, T, sized
      <4>3. sized = [current |-> lastDone[n], total |-> T + grown, armed |-> FALSE, state |-> "running"]
        BY <2>1, <4>1, <4>2, BarUpdates
      <4>4. lastDone[n] \in Int
        BY <1>1
      <4> QED BY <4>2, <4>3, <4>4, RunningBars
    <3>2. CASE ~ (grown > phaseTotal[n])
      <4>1. grown = phaseTotal[n]
        BY <1>1, <1>4, <3>2 DEF BarFits
      <4> QED BY <2>1, <3>2, <4>1
    <3> QED BY <3>1, <3>2
  <2>3. /\ moved.state = "running" /\ moved.armed = FALSE /\ moved.current = last
        /\ moved.total = T + grown /\ moved \in BarType
    <3>1. CASE Advance(n, now)
      <4>1. moved = [sized EXCEPT !.current = @ + (now - lastDone[n])]
        <5> HIDE DEF sized
        <5> QED BY <2>2, <3>1 DEF IncrBy
      <4>2. last = now /\ lastDone[n] + (now - lastDone[n]) = now
        BY <1>1, <1>5, <3>1
      <4> HIDE DEF sized, moved, last, now, grown, T
      <4>3. moved = [sized EXCEPT !.current = now] /\ now \in Int
        BY <1>5, <2>2, <4>1, <4>2
      <4>4. moved = [current |-> now, total |-> T + grown, armed |-> FALSE, state |-> "running"]
        BY <2>2, <4>3, BarUpdates
      <4>5. T + grown \in Int
        BY <1>1, <1>5
      <4> DEFINE r == [current |-> now, total |-> T + grown, armed |-> FALSE, state |-> "running"]
      <4>6. r \in BarType /\ r.current = now /\ r.total = T + grown /\ r.armed = FALSE
            /\ r.state = "running"
        BY <4>3, <4>5, RunningBars, Zenon
      <4>7. moved = r
        BY <4>4
      <4> HIDE DEF r
      <4> QED BY <4>2, <4>6, <4>7
    <3>2. CASE ~ Advance(n, now)
      <4> HIDE DEF sized, grown, T
      <4> QED BY <2>2, <3>2
    <3> QED BY <3>1, <3>2
  <2>4. CASE failed
    <3>1. final = [moved EXCEPT !.state = "aborted"]
      <4> HIDE DEF moved, grown
      <4> QED BY <1>2, <2>3, <2>4 DEF Finished, BarAbort
    <3>2. final.state = "aborted" /\ final \in BarType
      <4> HIDE DEF moved, final
      <4> QED BY <2>3, <3>1, BarUpdates DEF BarType
    <3> HIDE DEF final, grown, last
    <3> QED BY <1>1, <1>4, <1>6, <1>61, <1>8, <2>4, <3>2
  <2>5. CASE ~ failed /\ done
    <3>1. final = SetTotal(moved, T + grown, TRUE)
      <4> HIDE DEF moved, grown
      <4> QED BY <1>2, <2>5 DEF Finished
    <3>2. final = [moved EXCEPT !.total = T + grown, !.current = T + grown, !.state = "completed"]
      <4>1. T + grown <= 0 => moved.current = T + grown
        <5> HIDE DEF moved, grown, last, T
        <5> QED BY <1>1, <1>5, <1>6, <2>3
      <4> HIDE DEF moved, grown, T, final
      <4> QED BY <2>3, <3>1, <4>1 DEF SetTotal
    <3>3. final.state = "completed" /\ final.current = T + grown /\ final \in BarType
      <4>1. T + grown \in Int
        BY <1>1, <1>5
      <4> HIDE DEF moved, final, grown, T
      <4>2. final = [current |-> T + grown, total |-> T + grown, armed |-> moved.armed,
                     state |-> "completed"]
        BY <2>3, <3>2, <4>1, BarUpdates
      <4> QED BY <2>3, <4>1, <4>2 DEF BarType
    <3> HIDE DEF final, grown, last
    <3> QED BY <1>1, <1>4, <1>6, <1>61, <1>8, <2>5, <3>3
  <2>6. CASE ~ failed /\ ~ done
    <3>1. final = moved
      <4> HIDE DEF moved, grown
      <4> QED BY <1>2, <2>6 DEF Finished
    <3> HIDE DEF final, grown, last, moved
    <3> QED BY <1>1, <1>4, <1>6, <1>61, <1>8, <2>3, <2>6, <3>1
  <2> QED BY <2>4, <2>5, <2>6
<1> QED BY <1>7, <1>8

Hundred(n) == \E i \in DOMAIN printed[n] : printed[n][i] = 100

\* A percentage is one, and 100 only when all operations are done.
LEMMA PercentFits ==
  ASSUME NEW o \in Nat, NEW T \in Nat \ {0}, o <= T
  PROVE  (o * 100) \div T \in 0 .. 100 /\ ((o * 100) \div T = 100 => o = T)
<1> DEFINE q == (o * 100) \div T
           r == (o * 100) % T
           s == T * q
<1>1. q \in Int /\ r \in 0 .. T - 1 /\ o * 100 = s + r
  OBVIOUS
<1>2. /\ s \in Int /\ (q = 100 => s = T * 100) /\ (q < 0 => s <= -T)
      /\ (q > 100 => s >= T * 101)
  <2>1. \A x \in Nat \ {0}, y \in Int :
          /\ x * y \in Int /\ (y < 0 => x * y <= -x) /\ (y > 100 => x * y >= x * 101)
    OBVIOUS
  <2> HIDE DEF q
  <2> QED BY <1>1, <2>1
<1> HIDE DEF q, r, s
<1>3. q \in 0 .. 100 /\ (q = 100 => o = T)
  BY <1>1, <1>2
<1> QED BY <1>3 DEF q

\* What handle makes of the lines printed for a partition.
LEMMA PrintHandled ==
  ASSUME RendererTypes, NEW t \in Tasks,
         NEW ops \in Nat, NEW phase \in Nat, NEW done \in BOOLEAN, NEW failed \in BOOLEAN,
         ops <= TotalOps[Name[t]], done /\ ~ failed => ops = TotalOps[Name[t]],
         HandleMachine(Event(t, ops, phase, done, failed))
  PROVE  LET n == Name[t] IN
         /\ printed' \in [Names -> Seq(0 .. 100)]
         /\ \A m \in Names : m # n => printed'[m] = printed[m]
         /\ Hundred(n) => Hundred(n)'
         /\ Hundred(n)' => Hundred(n) \/ ops = TotalOps[n]
         /\ done /\ ~ failed => Hundred(n)'
<1> DEFINE n == Name[t]
           ev == Event(t, ops, phase, done, failed)
           T == TotalOps[n]
           old == printed[n]
           p == Percent(ev)
<1>1. n \in Names /\ T \in Nat /\ old \in Seq(0 .. 100) /\ printed \in [Names -> Seq(0 .. 100)]
  BY NameFacts DEF RendererTypes
<1>2. /\ ev.name = n /\ ev.ops = ops /\ ev.done = done /\ ev.failed = failed
  BY DEF Event
<1>3. CASE ~ failed /\ PrintsNow(n, p)
  <2>1. printed' = [printed EXCEPT ![n] = Append(old, p)]
    BY <1>2, <1>3 DEF HandleMachine
  <2>2. p \in 0 .. 100 /\ (p = 100 => ops = T) /\ (done => p = 100)
    <3>1. CASE done \/ T = 0
      <4>1. p = 100
        BY <1>2, <3>1 DEF Percent
      <4>2. ops = T
        BY <1>1, <1>3, <3>1
      <4> QED BY <4>1, <4>2
    <3>2. CASE ~ (done \/ T = 0)
      <4>1. p = (ops * 100) \div T
        BY <1>2, <3>2 DEF Percent
      <4>2. T \in Nat \ {0}
        BY <1>1, <3>2
      <4>3. ops <= T
        OBVIOUS
      <4> HIDE DEF T, p
      <4>4. (ops * 100) \div T \in 0 .. 100 /\ ((ops * 100) \div T = 100 => ops = T)
        BY <4>2, <4>3, PercentFits
      <4> QED BY <3>2, <4>1, <4>4
    <3> QED BY <3>1, <3>2
  <2> DEFINE now == Append(old, p)
  <2> HIDE DEF p, old, T, n
  <2>3. /\ now \in Seq(0 .. 100) /\ Len(now) = Len(old) + 1 /\ Len(old) \in Nat
        /\ DOMAIN now = 1 .. Len(old) + 1 /\ DOMAIN old = 1 .. Len(old)
        /\ now[Len(old) + 1] = p
        /\ \A i \in 1 .. Len(old) : now[i] = old[i]
    BY <1>1, <2>2
  <2> HIDE DEF now
  <2>4. /\ printed' \in [Names -> Seq(0 .. 100)] /\ printed'[n] = now
        /\ \A m \in Names : m # n => printed'[m] = printed[m]
    BY <1>1, <2>1, <2>3 DEF now
  <2>5. \A i \in DOMAIN now : i \in DOMAIN old \/ i = Len(old) + 1
    BY <2>3
  <2>6. (\E i \in DOMAIN old : old[i] = 100) => \E i \in DOMAIN now : now[i] = 100
    <3>1. \A i \in DOMAIN old : i \in DOMAIN now /\ now[i] = old[i]
      BY <2>3
    <3> QED BY <3>1
  <2>7. (\E i \in DOMAIN now : now[i] = 100) => (\E i \in DOMAIN old : old[i] = 100) \/ p = 100
    BY <2>3, <2>5
  <2>8. p = 100 => \E i \in DOMAIN now : now[i] = 100
    <3>1. Len(old) + 1 \in DOMAIN now
      BY <2>3
    <3> QED BY <2>3, <3>1
  <2> QED BY <1>3, <2>2, <2>4, <2>6, <2>7, <2>8 DEF Hundred, old, n, T
<1>4. CASE ~ (~ failed /\ PrintsNow(n, p))
  <2>1. printed' = printed
    BY <1>2, <1>4 DEF HandleMachine
  <2>2. ASSUME done, ~ failed PROVE Hundred(n)
    <3>1. p = 100
      BY <1>2, <2>2 DEF Percent
    <3>2. old # <<>> /\ ~ (100 > old[Len(old)])
      BY <1>4, <2>2, <3>1 DEF PrintsNow
    <3>3. Len(old) \in DOMAIN old /\ old[Len(old)] \in 0 .. 100
      BY <1>1, <3>2
    <3>4. old[Len(old)] = 100
      <4> DEFINE x == old[Len(old)]
      <4>1. x \in 0 .. 100 /\ ~ (100 > x)
        BY <3>2, <3>3
      <4> HIDE DEF x
      <4>2. x = 100
        BY <4>1
      <4> QED BY <4>2 DEF x
    <3> QED BY <3>3, <3>4 DEF Hundred
  <2> QED BY <1>1, <2>1, <2>2 DEF Hundred
<1> QED BY <1>3, <1>4

--------------------------------------------------------------------------------
(* The steps                                                                *)

\* What a step that reports nothing leaves alone.
Quiet == UNCHANGED <<barVars, printed>>

\* The other goroutines are not concerned.
Alone(t) ==
  \A u \in Tasks : u # t =>
    /\ stage'[u] = stage[u] /\ completed'[u] = completed[u] /\ drawn'[u] = drawn[u]
    /\ pending'[u] = pending[u] /\ outcome'[u] = outcome[u]

TaskTypes ==
  /\ stage \in [Tasks -> {"queued", "ops", "fec", "ended"}]
  /\ completed \in [Tasks -> Nat] /\ drawn \in [Tasks -> Nat]
  /\ pending \in [Tasks -> SUBSET Nat]
  /\ outcome \in [Tasks -> {"none", "done", "failed"}]

\* What a step of a goroutine does to it, and the event it sends, if any.
Sends(t, ops, phase, done, failed) ==
  /\ Carries(t, ops, phase, done, failed)
  /\ Handle(Event(t, ops, phase, done, failed))

Keeps(t) ==
  /\ outcome[t] # "none" => outcome'[t] = outcome[t]
  /\ stage[t] # "queued" => stage'[t] # "queued"
  /\ completed[t] = TotalOps[Name[t]] => completed'[t] = completed[t]

\* What may be said of a step that reports nothing, and of one that does.
Silent(t) ==
  /\ Quiet /\ outcome'[t] = outcome[t]
  /\ pending[t] = 1 .. drawn[t] => pending'[t] = 1 .. drawn'[t]

Reports(t) ==
  \E ops \in Nat, phase \in Nat, done \in BOOLEAN, failed \in BOOLEAN :
    /\ Sends(t, ops, phase, done, failed)
    /\ phase > 0 \/ (pending'[t] = pending[t] /\ drawn'[t] = drawn[t])
    /\ done /\ ~ failed => pending'[t] = {} /\ drawn'[t] = FecBatches[Name[t]]

LEMMA StepEffect ==
  ASSUME IInv, NEW t \in Tasks, TaskStep(t)
  PROVE  /\ Alone(t) /\ TaskTypes' /\ TaskFits(t)' /\ Keeps(t)
         /\ Silent(t) \/ Reports(t)
<1> DEFINE T == TotalOps[Name[t]]
           F == FecBatches[Name[t]]
<1>1. /\ T \in Nat /\ F \in Nat /\ Name[t] \in Names /\ TaskTypes /\ TaskFits(t)
      /\ completed[t] \in Nat /\ drawn[t] \in Nat /\ pending[t] \in SUBSET Nat
      /\ T = TotalOps[Name[t]] /\ F = FecBatches[Name[t]]
  BY NameFacts DEF IInv, RendererTypes, TaskTypes
<1> HIDE DEF T, F
<1>2. CASE Begin(t)
  <2>1. /\ stage[t] = "queued" /\ stage' = [stage EXCEPT ![t] = "ops"]
        /\ Handle(Event(t, 0, 0, FALSE, FALSE))
        /\ UNCHANGED <<completed, drawn, pending, outcome>>
    BY <1>2 DEF Begin
  <2>2. /\ Alone(t) /\ TaskTypes' /\ TaskFits(t)' /\ Keeps(t)
        /\ stage'[t] = "ops" /\ outcome'[t] = "none" /\ completed'[t] = 0
    BY <1>1, <2>1 DEF Alone, TaskTypes, TaskFits, Keeps
  <2>3. 0 \in Nat /\ 0 <= T /\ 0 <= F /\ ~ (0 > 0)
    BY <1>1
  <2>4. Sends(t, 0, 0, FALSE, FALSE)
    BY <1>1, <2>1, <2>2, <2>3, Zenon DEF Sends, Carries
  <2>5. Reports(t)
    BY <2>1, <2>3, <2>4, Zenon DEF Reports
  <2> QED BY <2>2, <2>5
<1>3. CASE ReportOp(t)
  <2>1. /\ stage[t] = "ops" /\ completed[t] < T
        /\ completed' = [completed EXCEPT ![t] = @ + 1]
        /\ Handle(Event(t, completed[t] + 1, 0, FALSE, FALSE))
        /\ UNCHANGED <<stage, drawn, pending, outcome>>
    BY <1>1, <1>3 DEF ReportOp
  <2>2. /\ Alone(t) /\ TaskTypes' /\ TaskFits(t)' /\ Keeps(t)
        /\ stage'[t] = "ops" /\ outcome'[t] = "none" /\ completed'[t] = completed[t] + 1
    BY <1>1, <2>1 DEF Alone, TaskTypes, TaskFits, Keeps
  <2>3. 0 \in Nat /\ 0 <= F /\ ~ (0 > 0) /\ completed[t] + 1 \in Nat /\ completed[t] + 1 <= T
    BY <1>1, <2>1
  <2>4. Sends(t, completed[t] + 1, 0, FALSE, FALSE)
    BY <1>1, <2>1, <2>2, <2>3, Zenon DEF Sends, Carries
  <2>5. Reports(t)
    BY <2>1, <2>3, <2>4, Zenon DEF Reports
  <2> QED BY <2>2, <2>5
<1>4. CASE OpFails(t)
  <2>1. /\ stage[t] = "ops" /\ stage' = [stage EXCEPT ![t] = "ended"]
        /\ outcome' = [outcome EXCEPT ![t] = "failed"]
        /\ Handle(Event(t, completed[t], 0, TRUE, TRUE))
        /\ UNCHANGED <<completed, drawn, pending>>
    BY <1>4 DEF OpFails
  <2>2. /\ Alone(t) /\ TaskTypes' /\ TaskFits(t)' /\ Keeps(t)
        /\ stage'[t] = "ended" /\ outcome'[t] = "failed" /\ completed'[t] = completed[t]
    BY <1>1, <2>1 DEF Alone, TaskTypes, TaskFits, Keeps
  <2>3. 0 \in Nat /\ 0 <= F /\ ~ (0 > 0) /\ completed[t] <= T
    BY <1>1 DEF TaskFits
  <2>4. Sends(t, completed[t], 0, TRUE, TRUE)
    BY <1>1, <2>1, <2>2, <2>3, Zenon DEF Sends, Carries
  <2>5. Reports(t)
    BY <1>1, <2>1, <2>3, <2>4, Zenon DEF Reports
  <2> QED BY <2>2, <2>5
<1>5. CASE OpsDone(t)
  <2>1. /\ stage[t] = "ops" /\ completed[t] = T /\ stage' = [stage EXCEPT ![t] = "fec"]
        /\ UNCHANGED <<completed, drawn, pending, outcome, barVars, printed>>
    BY <1>1, <1>5 DEF OpsDone
  <2>2. Alone(t) /\ TaskTypes' /\ TaskFits(t)' /\ Keeps(t)
    BY <1>1, <2>1 DEF Alone, TaskTypes, TaskFits, Keeps
  <2>3. Silent(t)
    BY <2>1 DEF Silent, Quiet
  <2> QED BY <2>2, <2>3
<1>6. CASE Draw(t)
  <2>1. /\ stage[t] = "fec" /\ drawn[t] < F
        /\ drawn' = [drawn EXCEPT ![t] = @ + 1]
        /\ pending' = [pending EXCEPT ![t] = @ \cup {drawn[t] + 1}]
        /\ UNCHANGED <<stage, completed, outcome, barVars, printed>>
    BY <1>1, <1>6 DEF Draw
  <2>2. /\ drawn'[t] = drawn[t] + 1 /\ pending'[t] = pending[t] \cup {drawn[t] + 1}
        /\ drawn' \in [Tasks -> Nat] /\ pending' \in [Tasks -> SUBSET Nat]
        /\ \A u \in Tasks : u # t => drawn'[u] = drawn[u] /\ pending'[u] = pending[u]
    BY <1>1, <2>1 DEF TaskTypes
  <2>3. 1 .. drawn[t] + 1 = (1 .. drawn[t]) \cup {drawn[t] + 1}
    BY <1>1
  <2>4. TaskFits(t)'
    BY <1>1, <2>1, <2>2, <2>3 DEF TaskFits, TaskTypes
  <2>5. Alone(t) /\ TaskTypes' /\ Keeps(t)
    BY <1>1, <2>1, <2>2 DEF Alone, TaskTypes, Keeps
  <2>6. Silent(t)
    BY <2>1, <2>2, <2>3 DEF Silent, Quiet
  <2> QED BY <2>4, <2>5, <2>6
<1>7. CASE Deliver(t)
  <2>1. PICK k \in pending[t] :
          /\ stage[t] = "fec"
          /\ pending' = [pending EXCEPT ![t] = @ \ {k}]
          /\ Handle(Event(t, completed[t], k, FALSE, FALSE))
          /\ UNCHANGED <<stage, completed, drawn, outcome>>
    BY <1>7 DEF Deliver
  <2>2. k \in Nat /\ k > 0 /\ k <= F /\ completed[t] = T /\ T <= T /\ outcome[t] = "none"
    BY <1>1, <2>1 DEF TaskFits, TaskTypes
  <2>3. /\ Alone(t) /\ TaskTypes' /\ TaskFits(t)' /\ Keeps(t)
        /\ stage'[t] = "fec" /\ outcome'[t] = "none" /\ completed'[t] = completed[t]
    BY <1>1, <2>1, <2>2 DEF Alone, TaskTypes, TaskFits, Keeps
  <2>4. Sends(t, completed[t], k, FALSE, FALSE)
    BY <1>1, <2>1, <2>2, <2>3, Zenon DEF Sends, Carries
  <2>5. Reports(t)
    BY <1>1, <2>2, <2>4, Zenon DEF Reports
  <2> QED BY <2>3, <2>5
<1>8. CASE End(t)
  <2>1. /\ stage[t] = "fec" /\ pending[t] = {} /\ stage' = [stage EXCEPT ![t] = "ended"]
        /\ UNCHANGED <<completed, drawn, pending>>
    BY <1>8 DEF End
  <2>2. 0 \in Nat /\ 0 <= F /\ ~ (0 > 0) /\ completed[t] <= T /\ completed[t] = T
        /\ outcome[t] = "none"
    BY <1>1, <2>1 DEF TaskFits, TaskTypes
  <2>3. CASE /\ drawn[t] = F /\ outcome' = [outcome EXCEPT ![t] = "done"]
             /\ Handle(Event(t, completed[t], 0, TRUE, FALSE))
    <3>1. /\ Alone(t) /\ TaskTypes' /\ TaskFits(t)' /\ Keeps(t)
          /\ stage'[t] = "ended" /\ outcome'[t] = "done" /\ completed'[t] = completed[t]
      BY <1>1, <2>1, <2>2, <2>3 DEF Alone, TaskTypes, TaskFits, Keeps
    <3>2. Sends(t, completed[t], 0, TRUE, FALSE)
      BY <1>1, <2>2, <2>3, <3>1, Zenon DEF Sends, Carries
    <3>3. pending'[t] = {} /\ drawn'[t] = F /\ pending'[t] = pending[t] /\ drawn'[t] = drawn[t]
      BY <2>1, <2>3
    <3>4. Reports(t)
      BY <1>1, <2>2, <3>2, <3>3, Zenon DEF Reports
    <3> QED BY <3>1, <3>4
  <2>4. CASE /\ outcome' = [outcome EXCEPT ![t] = "failed"]
             /\ Handle(Event(t, completed[t], 0, TRUE, TRUE))
    <3>1. /\ Alone(t) /\ TaskTypes' /\ TaskFits(t)' /\ Keeps(t)
          /\ stage'[t] = "ended" /\ outcome'[t] = "failed" /\ completed'[t] = completed[t]
      BY <1>1, <2>1, <2>2, <2>4 DEF Alone, TaskTypes, TaskFits, Keeps
    <3>2. Sends(t, completed[t], 0, TRUE, TRUE)
      BY <1>1, <2>2, <2>4, <3>1, Zenon DEF Sends, Carries
    <3>3. Reports(t)
      BY <1>1, <2>1, <2>2, <3>2, Zenon DEF Reports
    <3> QED BY <3>1, <3>3
  <2> QED BY <1>1, <1>8, <2>3, <2>4 DEF End
<1> QED BY <1>2, <1>3, <1>4, <1>5, <1>6, <1>7, <1>8 DEF TaskStep

LEMMA SilentIInv ==
  ASSUME IInv, NEW t \in Tasks, Alone(t), TaskTypes', TaskFits(t)', Keeps(t), Silent(t)
  PROVE  IInv'
<1>1. RendererTypes /\ RendererTypes'
  BY DEF IInv, RendererTypes, TaskTypes, Silent, Quiet, barVars
<1>2. /\ bars' = bars /\ lastDone' = lastDone /\ phaseTotal' = phaseTotal /\ printed' = printed
  BY DEF Silent, Quiet, barVars
<1>3. ASSUME NEW u \in Tasks PROVE TaskFits(u)' /\ CountsTold(u)'
  <2>1. CASE u = t
    BY <1>2, <2>1 DEF IInv, CountsTold, Silent
  <2>2. CASE u # t
    BY <1>2, <2>2 DEF IInv, TaskFits, CountsTold, Alone
  <2> QED BY <2>1, <2>2
<1>4. \A n \in Names : BarFits(n)'
  BY <1>2 DEF IInv, BarFits
<1>5. \A u \in Tasks : /\ outcome'[u] = outcome[u]
                       /\ stage[u] # "queued" => stage'[u] # "queued"
                       /\ completed[u] = TotalOps[Name[u]] => completed'[u] = completed[u]
  BY DEF Alone, Keeps, Silent
<1>6. BarTellsTheOutcome'
  BY <1>2, <1>5 DEF IInv, BarTellsTheOutcome, Of
<1>7. HundredMeansOperationsDone'
  <2> SUFFICES ASSUME NEW n \in Names
               PROVE  /\ Hundred(n) => \E u \in Of(n) : stage'[u] # "queued" /\ completed'[u] = TotalOps[n]
                      /\ (\E u \in Of(n) : outcome'[u] = "done") => Hundred(n)
    BY <1>2 DEF HundredMeansOperationsDone, Hundred
  <2>1. /\ Hundred(n) => \E u \in Of(n) : stage[u] # "queued" /\ completed[u] = TotalOps[n]
        /\ (\E u \in Of(n) : outcome[u] = "done") => Hundred(n)
    BY DEF IInv, HundredMeansOperationsDone, Hundred
  <2> QED BY <1>5, <2>1 DEF Of
<1> QED BY <1>1, <1>3, <1>4, <1>6, <1>7 DEF IInv

LEMMA ReportsIInv ==
  ASSUME IInv, NEW t \in Tasks, Alone(t), TaskTypes', TaskFits(t)', Keeps(t), Reports(t)
  PROVE  IInv'
<1> DEFINE n == Name[t]
<1>1. RendererTypes /\ n \in Names /\ BarFits(n) /\ TotalOps[n] \in Nat /\ FecBatches[n] \in Nat
  BY NameFacts DEF IInv
<1>2. PICK ops \in Nat, phase \in Nat, done \in BOOLEAN, failed \in BOOLEAN :
        /\ Sends(t, ops, phase, done, failed)
        /\ phase > 0 \/ (pending'[t] = pending[t] /\ drawn'[t] = drawn[t])
        /\ done /\ ~ failed => pending'[t] = {} /\ drawn'[t] = FecBatches[n]
  BY Zenon DEF Reports
<1>3. /\ Carries(t, ops, phase, done, failed)
      /\ HandleBar(Event(t, ops, phase, done, failed))
      /\ HandleMachine(Event(t, ops, phase, done, failed))
  BY <1>2, Zenon DEF Sends, Handle
<1>4. /\ ops = completed'[t] /\ ops <= TotalOps[n] /\ phase <= FecBatches[n]
      /\ stage'[t] # "queued"
      /\ failed => outcome'[t] = "failed"
      /\ outcome'[t] = "done" <=> done /\ ~ failed
  BY <1>3, Zenon DEF Carries
<1>5. done /\ ~ failed => ops = TotalOps[n]
  BY <1>4 DEF TaskFits
<1> DEFINE b == bars'[n]
<1>6. /\ \A m \in Names : m # n => /\ bars'[m] = bars[m] /\ lastDone'[m] = lastDone[m]
                                   /\ phaseTotal'[m] = phaseTotal[m]
      /\ bars' \in [Names -> BarType] /\ lastDone' \in [Names -> Nat]
      /\ phaseTotal' \in [Names -> Nat]
      /\ phaseTotal'[n] = IF phase > 0 THEN FecBatches[n] ELSE phaseTotal[n]
      /\ lastDone'[n] <= TotalOps[n] + phaseTotal'[n]
      /\ IF bars[n].state \in {"completed", "aborted"} THEN b = bars[n]
         ELSE IF failed THEN b.state = "aborted"
         ELSE IF done THEN b.state = "completed" /\ b.current = TotalOps[n] + phaseTotal'[n]
         ELSE /\ b.state = "running" /\ ~ b.armed /\ b.current = lastDone'[n]
              /\ b.total = TotalOps[n] + phaseTotal'[n]
  BY <1>1, <1>3, <1>4, BarHandled, Zenon
<1>7. /\ printed' \in [Names -> Seq(0 .. 100)]
      /\ \A m \in Names : m # n => printed'[m] = printed[m]
      /\ Hundred(n) => Hundred(n)'
      /\ Hundred(n)' => Hundred(n) \/ ops = TotalOps[n]
      /\ done /\ ~ failed => Hundred(n)'
  BY <1>1, <1>3, <1>4, <1>5, PrintHandled, Zenon
<1>8. RendererTypes'
  BY <1>6, <1>7 DEF RendererTypes, TaskTypes
<1>9. \A m \in Names : phaseTotal[m] = FecBatches[m] => phaseTotal'[m] = FecBatches[m]
  BY <1>6
<1>10. \A u \in Tasks : /\ outcome[u] # "none" => outcome'[u] = outcome[u]
                        /\ stage[u] # "queued" => stage'[u] # "queued"
                        /\ completed[u] = TotalOps[Name[u]] => completed'[u] = completed[u]
  BY DEF Alone, Keeps
<1>11. CountsTold(t)'
  BY <1>2, <1>6, <1>9, <1>1 DEF IInv, CountsTold
<1>12. ASSUME NEW u \in Tasks PROVE TaskFits(u)' /\ CountsTold(u)'
  <2>1. CASE u = t
    BY <1>11, <2>1
  <2>2. CASE u # t
    <3>1. Name[u] \in Names
      BY NameFacts
    <3> QED BY <1>9, <2>2, <3>1 DEF IInv, TaskFits, CountsTold, Alone
  <2> QED BY <2>1, <2>2
<1>13. phaseTotal'[n] \in {0, FecBatches[n]}
  BY <1>1, <1>6 DEF BarFits
<1>14. b.state # "absent"
  BY <1>1, <1>6 DEF RendererTypes, BarType
<1>15. BarFits(n)'
  <2>1. b.state = "running" =>
          /\ b.current = lastDone'[n] /\ b.total = TotalOps[n] + phaseTotal'[n] /\ ~ b.armed
    <3>1. CASE bars[n].state \in {"completed", "aborted"}
      BY <1>6, <3>1
    <3>2. CASE bars[n].state \notin {"completed", "aborted"}
      BY <1>6, <3>2
    <3> QED BY <3>1, <3>2
  <2> HIDE DEF n
  <2> QED BY <1>6, <1>13, <1>14, <2>1 DEF BarFits
<1>16. ASSUME NEW m \in Names PROVE BarFits(m)'
  <2>1. CASE m = n
    BY <1>15, <2>1
  <2>2. CASE m # n
    BY <1>6, <2>2 DEF IInv, BarFits
  <2> QED BY <2>1, <2>2
<1>17. ASSUME NEW m \in Names
       PROVE  /\ bars'[m].state = "completed" =>
                   /\ \E u \in Of(m) : outcome'[u] = "done"
                   /\ bars'[m].current = TotalOps[m] + FecBatches[m]
              /\ bars'[m].state = "aborted" => \E u \in Of(m) : outcome'[u] = "failed"
  <2>1. /\ bars[m].state = "completed" =>
             /\ \E u \in Of(m) : outcome'[u] = "done"
             /\ bars[m].current = TotalOps[m] + FecBatches[m]
        /\ bars[m].state = "aborted" => \E u \in Of(m) : outcome'[u] = "failed"
    <3>1. /\ bars[m].state = "completed" =>
               /\ \E u \in Of(m) : outcome[u] = "done"
               /\ bars[m].current = TotalOps[m] + FecBatches[m]
          /\ bars[m].state = "aborted" => \E u \in Of(m) : outcome[u] = "failed"
      BY DEF IInv, BarTellsTheOutcome
    <3>2. \A u \in Of(m) : u \in Tasks
      BY DEF Of
    <3> QED BY <1>10, <3>1, <3>2
  <2>2. CASE m # n \/ bars[n].state \in {"completed", "aborted"}
    BY <1>6, <2>1, <2>2
  <2>3. CASE m = n /\ bars[n].state \notin {"completed", "aborted"}
    <3>1. t \in Of(n)
      BY DEF Of
    <3>2. CASE failed
      BY <1>4, <1>6, <2>3, <3>1, <3>2
    <3>3. CASE ~ failed /\ done
      <4>1. phaseTotal'[n] = FecBatches[n]
        <5>1. CASE FecBatches[n] = 0
          BY <1>13, <5>1
        <5>2. CASE FecBatches[n] # 0
          <6>1. pending'[t] = {} /\ drawn'[t] = FecBatches[n]
            BY <1>2, <3>3
          <6>2. 1 \in 1 .. FecBatches[n]
            BY <1>1, <5>2
          <6>3. pending'[t] # 1 .. drawn'[t]
            <7> HIDE DEF n
            <7> QED BY <6>1, <6>2
          <6> QED BY <1>11, <6>3 DEF CountsTold
        <5> QED BY <5>1, <5>2
      <4>2. b.state = "completed" /\ b.current = TotalOps[n] + phaseTotal'[n]
        BY <1>6, <2>3, <3>3
      <4>3. outcome'[t] = "done"
        BY <1>4, <3>3
      <4> QED BY <2>3, <3>1, <4>1, <4>2, <4>3
    <3>4. CASE ~ failed /\ ~ done
      BY <1>6, <2>3, <3>4
    <3> QED BY <3>2, <3>3, <3>4
  <2> QED BY <2>2, <2>3
<1>18. ASSUME NEW m \in Names
       PROVE  /\ Hundred(m)' => \E u \in Of(m) : stage'[u] # "queued" /\ completed'[u] = TotalOps[m]
              /\ (\E u \in Of(m) : outcome'[u] = "done") => Hundred(m)'
  <2>1. /\ Hundred(m) => \E u \in Of(m) : stage[u] # "queued" /\ completed[u] = TotalOps[m]
        /\ (\E u \in Of(m) : outcome[u] = "done") => Hundred(m)
    BY DEF IInv, HundredMeansOperationsDone, Hundred
  <2>2. Hundred(m) => Hundred(m)'
    <3>1. CASE m = n
      BY <1>7, <3>1
    <3>2. CASE m # n
      BY <1>7, <3>2 DEF Hundred
    <3> QED BY <3>1, <3>2
  <2>3. Hundred(m) => \E u \in Of(m) : stage'[u] # "queued" /\ completed'[u] = TotalOps[m]
    BY <1>10, <2>1 DEF Of
  <2>4. Hundred(m)' => Hundred(m) \/ (m = n /\ ops = TotalOps[n])
    <3>1. CASE m = n
      BY <1>7, <3>1
    <3>2. CASE m # n
      BY <1>7, <3>2 DEF Hundred
    <3> QED BY <3>1, <3>2
  <2>5. m = n /\ ops = TotalOps[n] =>
          \E u \in Of(m) : stage'[u] # "queued" /\ completed'[u] = TotalOps[m]
    BY <1>4 DEF Of
  <2>6. ASSUME NEW u \in Of(m), outcome'[u] = "done" PROVE Hundred(m)'
    <3>1. CASE u = t
      BY <1>4, <1>7, <2>6, <3>1 DEF Of
    <3>2. CASE u # t
      BY <2>1, <2>2, <2>6, <3>2 DEF Of, Alone
    <3> QED BY <3>1, <3>2
  <2> QED BY <2>3, <2>4, <2>5, <2>6
<1>19. BarTellsTheOutcome' /\ HundredMeansOperationsDone'
  BY <1>17, <1>18 DEF BarTellsTheOutcome, HundredMeansOperationsDone, Hundred, Of
<1> QED BY <1>8, <1>12, <1>16, <1>19 DEF IInv

LEMMA InitIInv == Init => IInv
<1> SUFFICES ASSUME Init PROVE IInv
  OBVIOUS
<1>1. NoBar \in BarType /\ NoBar.state = "absent"
  BY DEF NoBar, BarType
<1>2. RendererTypes
  BY <1>1 DEF Init, RendererTypes
<1>3. \A t \in Tasks : TaskFits(t) /\ CountsTold(t)
  <2> SUFFICES ASSUME NEW t \in Tasks PROVE TaskFits(t) /\ CountsTold(t)
    OBVIOUS
  <2>1. /\ stage[t] = "queued" /\ completed[t] = 0 /\ drawn[t] = 0 /\ pending[t] = {}
        /\ outcome[t] = "none"
    BY DEF Init
  <2>2. TotalOps[Name[t]] \in Nat /\ FecBatches[Name[t]] \in Nat
    BY NameFacts
  <2> QED BY <2>1, <2>2 DEF TaskFits, CountsTold
<1>4. \A n \in Names : BarFits(n)
  BY <1>1, ProgressAssumption DEF Init, BarFits
<1>5. BarTellsTheOutcome /\ HundredMeansOperationsDone
  BY <1>1 DEF Init, BarTellsTheOutcome, HundredMeansOperationsDone, Of
<1> QED BY <1>2, <1>3, <1>4, <1>5 DEF IInv

LEMMA NextIInv == IInv /\ [Next]_vars => IInv'
<1> SUFFICES ASSUME IInv, [Next]_vars PROVE IInv'
  OBVIOUS
<1>1. ASSUME NEW t \in Tasks, TaskStep(t) PROVE IInv'
  <2>1. Alone(t) /\ TaskTypes' /\ TaskFits(t)' /\ Keeps(t) /\ (Silent(t) \/ Reports(t))
    BY <1>1, StepEffect, Zenon
  <2> QED BY <2>1, SilentIInv, ReportsIInv, Zenon
<1>2. ASSUME UNCHANGED <<taskVars, barVars, printed>> PROVE IInv'
  BY <1>2 DEF taskVars, barVars, IInv, RendererTypes, TaskFits, CountsTold, BarFits,
     BarTellsTheOutcome, HundredMeansOperationsDone
<1>3. CASE Wait
  BY <1>2, <1>3 DEF Wait
<1>4. CASE UNCHANGED vars
  BY <1>2, <1>4 DEF vars
<1> QED BY <1>1, <1>3, <1>4 DEF Next

--------------------------------------------------------------------------------
(* Theorems                                                                 *)

THEOREM Invariant == Spec => []IInv
BY InitIInv, NextIInv, PTL DEF Spec

\* A running bar shows the furthest progress that any goroutine of its partition
\* has reported, never more than its total, and the total is the operations plus
\* the FEC units once a count has told them, in whatever order counts are
\* delivered (barRenderer.handle).
THEOREM BarFollows == Spec => []BarShowsProgress
<1>1. IInv => BarShowsProgress
  <2> SUFFICES ASSUME IInv, NEW n \in Names, bars[n].state = "running"
               PROVE  /\ bars[n].current = lastDone[n]
                      /\ bars[n].current <= bars[n].total
                      /\ bars[n].total = TotalOps[n] + phaseTotal[n]
    BY DEF BarShowsProgress, Open
  <2> QED BY DEF IInv, BarFits
<1> QED BY <1>1, Invariant, PTL

\* A bar completes only for an extraction that has succeeded, parity included, and
\* then shows all of it; it is aborted only for one that has failed.
THEOREM BarsTellOutcome == Spec => []BarTellsTheOutcome
<1>1. IInv => BarTellsTheOutcome
  BY DEF IInv
<1> QED BY <1>1, Invariant, PTL

\* machineRenderer prints 100 for a partition when all operations of a goroutine
\* are done, not before, and always by the time its extraction has succeeded.
THEOREM HundredIsHonest == Spec => []HundredMeansOperationsDone
<1>1. IInv => HundredMeansOperationsDone
  BY DEF IInv
<1> QED BY <1>1, Invariant, PTL

--------------------------------------------------------------------------------
(* One run of the program: module Command                                   *)

\* Remainders and least elements; the sizes of a word and a block do not matter to them.
Shared == INSTANCE ExtentsProofs WITH MaxInt <- 1, BlockSize <- 1

--------------------------------------------------------------------------------
(* The sizes in the header                                                  *)

\* A sum within three words wraps once at most.
LEMMA WrappedOnce ==
  ASSUME NEW n \in 0 .. 3 * MaxInt
  PROVE  Wrapped(n) = IF n <= MaxInt THEN n ELSE n - 2 * (MaxInt + 1)
<1> DEFINE m == 2 * (MaxInt + 1)
           a == n + MaxInt + 1
<1>1. MaxInt \in Nat
  BY CommandAssumption
<1>2. a \in Nat /\ m \in Nat \ {0} /\ a < m + m
  BY <1>1
<1>3. (a % m) = IF a < m THEN a ELSE a - m
  <2> HIDE DEF a, m
  <2> QED BY <1>2, 1 \in Nat /\ 1 \in 1 .. 1, Zenon, Shared!RemainderOfSum
<1>4. Wrapped(n) = (a % m) - (MaxInt + 1)
  BY DEF Wrapped
<1> DEFINE r == a % m
<1>5. r = (IF a < m THEN a ELSE a - m) /\ Wrapped(n) = r - (MaxInt + 1)
  BY <1>3, <1>4
<1> HIDE DEF r
<1> QED BY <1>1, <1>5

\* A header whose sizes pass the tests of readHeader says where the data of the
\* payload begin, whatever the three lengths are: no sum has wrapped.
THEOREM HeaderSizesAreExact ==
  ASSUME NEW h, h.manifestLen \in 0 .. 2 * MaxInt + 1, h.sigLen \in 0 .. MaxSigLen,
         h.size \in 0 .. MaxInt, MetadataFits(h)
  PROVE  /\ MetadataLen(h) = HeaderLen + h.manifestLen + h.sigLen
         /\ HeaderLen + h.manifestLen + h.sigLen <= h.size
<1> DEFINE n == h.manifestLen
           w == Wrapped(n)
           s == HeaderLen + w + h.sigLen
<1>1. /\ MaxInt \in Nat /\ HeaderLen \in Nat \ {0} /\ MaxSigLen \in Nat
      /\ HeaderLen + MaxSigLen <= MaxInt
  BY CommandAssumption
<1>2. n \in Nat /\ h.sigLen \in Nat /\ h.sigLen <= MaxSigLen /\ n <= 2 * MaxInt + 1
  BY <1>1
<1>3. /\ w >= 0 /\ Wrapped(s) >= HeaderLen /\ Wrapped(s) <= h.size
      /\ MetadataLen(h) = Wrapped(s)
  BY DEF MetadataFits, MetadataLen
<1>4. w = n /\ n <= MaxInt
  <2>1. CASE n <= 3 * MaxInt
    <3>1. w = IF n <= MaxInt THEN n ELSE n - 2 * (MaxInt + 1)
      BY <1>1, <1>2, <2>1, WrappedOnce
    <3> HIDE DEF w, n
    <3> QED BY <1>1, <1>2, <1>3, <3>1
  <2>2. CASE n > 3 * MaxInt
    <3> HIDE DEF w, n
    <3> QED BY <1>1, <1>2, <2>2
  <2> QED BY <1>1, <1>2, <2>1, <2>2
<1>5. s \in 0 .. 2 * MaxInt /\ s \in 0 .. 3 * MaxInt /\ s = HeaderLen + n + h.sigLen
  <2> HIDE DEF w, n
  <2> QED BY <1>1, <1>2, <1>4
<1>6. Wrapped(s) = IF s <= MaxInt THEN s ELSE s - 2 * (MaxInt + 1)
  <2> HIDE DEF s
  <2> QED BY <1>5, WrappedOnce
<1>7. s \in Nat /\ s <= 2 * MaxInt
  BY <1>1, <1>5
<1>8. Wrapped(s) = s
  <2> DEFINE v == Wrapped(s)
  <2>1. v >= HeaderLen /\ v = IF s <= MaxInt THEN s ELSE s - 2 * (MaxInt + 1)
    BY <1>3, <1>6
  <2> HIDE DEF s, w, n, v
  <2>2. v = s
    BY <1>1, <1>7, <2>1
  <2> QED BY <2>2 DEF v
<1> QED BY <1>3, <1>5, <1>8

--------------------------------------------------------------------------------
(* What is held at each point of the program                                *)

NoPayload == ra = "none" /\ closers = <<>> /\ tempPath = FALSE

InUse ==
  /\ ra \in {"input", "temp"} /\ handles = {ra} /\ closers = <<ra>>
  /\ tempPath = (ra = "temp") /\ tempFile = (ra = "temp")

NoTemp == tempFile = FALSE /\ err = "none"

\* While Open is at work: what it has opened so far.
OpenHolds ==
  /\ pc \in {"args", "open"} => NoPayload /\ NoTemp /\ handles = {}
  /\ pc \in {"inspect", "zip", "parse", "entry"} => NoPayload /\ NoTemp /\ handles = {"input"}
  /\ pc = "temp" => NoPayload /\ NoTemp /\ handles = {"input", "entry"}
  /\ pc \in {"copy", "parse temp"} =>
       NoPayload /\ tempFile = TRUE /\ err = "none" /\ handles = {"input", "entry", "temp"}
  /\ pc = "deferred" =>
       \/ NoPayload /\ err # "none" /\ "temp" \notin handles /\ (tempFile => keptTemp)
       \/ /\ err = "none" /\ ra = "temp" /\ closers = <<"temp">> /\ tempPath = TRUE
          /\ tempFile = TRUE /\ handles = {"input", "entry", "temp"}

\* From then on: the payload, or nothing.
RunHolds ==
  /\ pc = "opened" =>
       \/ NoPayload /\ err # "none" /\ handles = {} /\ (tempFile => keptTemp)
       \/ InUse /\ err = "none"
  /\ pc \in {"notify", "extract", "bars", "report", "stop", "close"} => InUse
  /\ pc = "exited" => handles = {} /\ (tempFile => keptTemp)

\* The exit code once it is decided, and the error it is decided from.
Decided ==
  /\ pc \notin {"args", "exited", "killed"} => flags.named
  /\ pc \in {"notify", "extract"} => err = "none"
  /\ pc \in {"stop", "close", "exited"} =>
       exit = IF ~ flags.named THEN 2 ELSE IF err = "none" THEN 0 ELSE 1

FromAccepted == ra # "none" => Accepted(input.header)

ProcessInv == TypeInv /\ OpenHolds /\ RunHolds /\ Decided /\ FromAccepted

USE DEF Goto, rest, payload

LEMMA InitProcess == CommandInit => ProcessInv
BY DEF CommandInit, ProcessInv, TypeInv, OpenHolds, RunHolds, Decided, FromAccepted,
       NoPayload, NoTemp

--------------------------------------------------------------------------------
(* Types                                                                    *)

\* The parts of TypeInv, apart because a solver is given one at a time.
Labels ==
  /\ input \in Inputs
  /\ flags \in [named : BOOLEAN, list : BOOLEAN, bars : BOOLEAN]
  /\ pc \in {"args", "open", "inspect", "zip", "parse", "entry", "temp", "copy", "parse temp",
             "deferred", "opened", "notify", "extract", "bars", "report", "stop", "close",
             "exited", "killed"}
  /\ err \in {"none", "open", "not payload", "zip", "header", "temp", "missing source", "extract"}
  /\ exit \in {-1, 0, 1, 2}

Files ==
  /\ handles \subseteq {"input", "entry", "temp"}
  /\ ra \in {"none", "input", "temp"}
  /\ closers \in {<<>>, <<"input">>, <<"temp">>}

Booleans ==
  /\ tempFile \in BOOLEAN /\ keptTemp \in BOOLEAN /\ tempPath \in BOOLEAN
  /\ notified \in BOOLEAN /\ interrupted \in BOOLEAN

LEMMA TypeParts == TypeInv <=> Labels /\ Files /\ Booleans
BY DEF TypeInv, Labels, Files, Booleans

LEMMA OpeningLabels == Labels /\ Opening => Labels'
<1> SUFFICES ASSUME Labels, Opening PROVE Labels'
  OBVIOUS
<1> USE DEF Labels, GiveUp, Step
<1>1. CASE Args BY <1>1 DEF Args
<1>2. CASE OpenFile BY <1>2 DEF OpenFile
<1>3. CASE Inspect BY <1>3 DEF Inspect
<1>4. CASE OpenZip BY <1>4 DEF OpenZip
<1>5. CASE Parse BY <1>5 DEF Parse
<1>6. CASE OpenEntry BY <1>6 DEF OpenEntry
<1>7. CASE CreateTemp BY <1>7 DEF CreateTemp
<1>8. CASE CopyTemp BY <1>8 DEF CopyTemp
<1>9. CASE ParseTemp BY <1>9 DEF ParseTemp
<1>10. CASE Deferred BY <1>10 DEF Deferred
<1> QED BY <1>1, <1>2, <1>3, <1>4, <1>5, <1>6, <1>7, <1>8, <1>9, <1>10 DEF Opening

LEMMA RunningLabels == Labels /\ (Running \/ Interrupt) => Labels'
<1> SUFFICES ASSUME Labels, Running \/ Interrupt PROVE Labels'
  OBVIOUS
<1> USE DEF Labels, Step
<1>1. CASE Opened BY <1>1 DEF Opened
<1>2. CASE Notify BY <1>2 DEF Notify
<1>3. CASE ExtractReturns BY <1>3 DEF ExtractReturns
<1>4. CASE WaitBars BY <1>4 DEF WaitBars
<1>5. CASE Report BY <1>5 DEF Report
<1>6. CASE Stop BY <1>6 DEF Stop
<1>7. CASE Close BY <1>7 DEF Close
<1>8. CASE Interrupt
  <2>1. /\ pc' \in {pc, "killed"}
        /\ input' = input /\ flags' = flags /\ err' = err /\ exit' = exit
    BY <1>8 DEF Interrupt
  <2>2. CASE pc' = pc
    BY <2>1, <2>2, ZenonT(40)
  <2>3. CASE pc' = "killed"
    BY <2>1, <2>3, ZenonT(40)
  <2> QED BY <2>1, <2>2, <2>3
<1> QED BY <1>1, <1>2, <1>3, <1>4, <1>5, <1>6, <1>7, <1>8 DEF Running

LEMMA OpeningFiles == Files /\ Opening => Files'
<1> SUFFICES ASSUME Files, Opening PROVE Files'
  OBVIOUS
<1> USE DEF Files, GiveUp, Step
<1>1. CASE Args BY <1>1 DEF Args
<1>2. CASE OpenFile BY <1>2 DEF OpenFile
<1>3. CASE Inspect BY <1>3 DEF Inspect
<1>4. CASE OpenZip BY <1>4 DEF OpenZip
<1>5. CASE Parse BY <1>5 DEF Parse
<1>6. CASE OpenEntry BY <1>6 DEF OpenEntry
<1>7. CASE CreateTemp BY <1>7 DEF CreateTemp
<1>8. CASE CopyTemp BY <1>8 DEF CopyTemp
<1>9. CASE ParseTemp BY <1>9 DEF ParseTemp
<1>10. CASE Deferred BY <1>10 DEF Deferred
<1> QED BY <1>1, <1>2, <1>3, <1>4, <1>5, <1>6, <1>7, <1>8, <1>9, <1>10 DEF Opening

LEMMA RunningFiles == Files /\ (Running \/ Interrupt) => Files'
<1> SUFFICES ASSUME Files, Running \/ Interrupt PROVE Files'
  OBVIOUS
<1> USE DEF Files, Step
<1>1. CASE Opened BY <1>1 DEF Opened
<1>2. CASE Notify BY <1>2 DEF Notify
<1>3. CASE ExtractReturns BY <1>3 DEF ExtractReturns
<1>4. CASE WaitBars BY <1>4 DEF WaitBars
<1>5. CASE Report BY <1>5 DEF Report
<1>6. CASE Stop BY <1>6 DEF Stop
<1>7. CASE Close BY <1>7 DEF Close
<1>8. CASE Interrupt BY <1>8 DEF Interrupt
<1> QED BY <1>1, <1>2, <1>3, <1>4, <1>5, <1>6, <1>7, <1>8 DEF Running

LEMMA OpeningBooleans == Booleans /\ Opening => Booleans'
<1> SUFFICES ASSUME Booleans, Opening PROVE Booleans'
  OBVIOUS
<1> USE DEF Booleans, GiveUp, Step, Remove
<1>1. CASE Args BY <1>1 DEF Args
<1>2. CASE OpenFile BY <1>2 DEF OpenFile
<1>3. CASE Inspect BY <1>3 DEF Inspect
<1>4. CASE OpenZip BY <1>4 DEF OpenZip
<1>5. CASE Parse BY <1>5 DEF Parse
<1>6. CASE OpenEntry BY <1>6 DEF OpenEntry
<1>7. CASE CreateTemp BY <1>7 DEF CreateTemp
<1>8. CASE CopyTemp BY <1>8 DEF CopyTemp
<1>9. CASE ParseTemp BY <1>9 DEF ParseTemp
<1>10. CASE Deferred BY <1>10 DEF Deferred
<1> QED BY <1>1, <1>2, <1>3, <1>4, <1>5, <1>6, <1>7, <1>8, <1>9, <1>10 DEF Opening

LEMMA RunningBooleans == Booleans /\ (Running \/ Interrupt) => Booleans'
<1> SUFFICES ASSUME Booleans, Running \/ Interrupt PROVE Booleans'
  OBVIOUS
<1> USE DEF Booleans, Step, Remove
<1>1. CASE Opened BY <1>1 DEF Opened
<1>2. CASE Notify BY <1>2 DEF Notify
<1>3. CASE ExtractReturns BY <1>3 DEF ExtractReturns
<1>4. CASE WaitBars BY <1>4 DEF WaitBars
<1>5. CASE Report BY <1>5 DEF Report
<1>6. CASE Stop BY <1>6 DEF Stop
<1>7. CASE Close BY <1>7 DEF Close
<1>8. CASE Interrupt BY <1>8 DEF Interrupt
<1> QED BY <1>1, <1>2, <1>3, <1>4, <1>5, <1>6, <1>7, <1>8 DEF Running

LEMMA NextProcessType == TypeInv /\ [CommandNext]_commandVars => TypeInv'
<1> SUFFICES ASSUME TypeInv, [CommandNext]_commandVars PROVE TypeInv'
  OBVIOUS
<1>1. Labels /\ Files /\ Booleans
  BY TypeParts
<1>2. CASE Opening
  BY <1>1, <1>2, OpeningLabels, OpeningFiles, OpeningBooleans
     DEF TypeInv, Labels, Files, Booleans
<1>3. CASE Running \/ Interrupt
  BY <1>1, <1>3, RunningLabels, RunningFiles, RunningBooleans
     DEF TypeInv, Labels, Files, Booleans
<1>4. CASE UNCHANGED commandVars
  <2>1. Labels'
    BY <1>1, <1>4, ZenonT(40)
       DEF commandVars, Labels
  <2>2. Files'
    BY <1>1, <1>4 DEF commandVars, Files
  <2>3. Booleans'
    BY <1>1, <1>4 DEF commandVars, Booleans
  <2> QED BY <2>1, <2>2, <2>3 DEF TypeInv, Labels, Files, Booleans
<1> QED BY <1>2, <1>3, <1>4 DEF CommandNext

--------------------------------------------------------------------------------
(* What is held                                                             *)

LEMMA OpeningOpenHolds == OpenHolds /\ Opening => OpenHolds'
<1> SUFFICES ASSUME OpenHolds, Opening PROVE OpenHolds'
  OBVIOUS
<1> USE DEF OpenHolds, NoPayload, NoTemp, GiveUp, Step, Remove
<1>1. CASE Args BY <1>1 DEF Args
<1>2. CASE OpenFile BY <1>2 DEF OpenFile
<1>3. CASE Inspect BY <1>3 DEF Inspect
<1>4. CASE OpenZip BY <1>4 DEF OpenZip
<1>5. CASE Parse BY <1>5 DEF Parse
<1>6. CASE OpenEntry BY <1>6 DEF OpenEntry
<1>7. CASE CreateTemp
  <2>1. CASE pc' = "copy"
    BY <1>7, <2>1 DEF CreateTemp
  <2>2. CASE pc' = "deferred"
    BY <1>7, <2>2 DEF CreateTemp
  <2> QED BY <1>7, <2>1, <2>2 DEF CreateTemp
<1>8. CASE CopyTemp BY <1>8 DEF CopyTemp
<1>9. CASE ParseTemp BY <1>9 DEF ParseTemp
<1>10. CASE Deferred BY <1>10 DEF Deferred
<1> QED BY <1>1, <1>2, <1>3, <1>4, <1>5, <1>6, <1>7, <1>8, <1>9, <1>10 DEF Opening

\* Giving up before the temporary copy: nothing is held.
LEMMA GiveUpHolds ==
  ASSUME NEW r, r # "none", OpenHolds, pc \in {"inspect", "zip", "parse"}, GiveUp(r)
  PROVE  RunHolds'
<1>1. NoPayload' /\ err' # "none" /\ handles' = {} /\ pc' = "opened" /\ tempFile' = FALSE
  BY DEF OpenHolds, GiveUp, NoPayload, NoTemp
<1> QED BY <1>1 DEF RunHolds

LEMMA OpeningRunHolds == Files /\ OpenHolds /\ Opening => RunHolds'
<1> SUFFICES ASSUME Files, OpenHolds, Opening PROVE RunHolds'
  OBVIOUS
<1> USE DEF OpenHolds, RunHolds, NoPayload, InUse, NoTemp, GiveUp, Step, Remove
<1>1. CASE Args BY <1>1 DEF Args
<1>2. CASE OpenFile BY <1>2 DEF OpenFile
<1>3. CASE Inspect
  BY <1>3, GiveUpHolds DEF Inspect
<1>4. CASE OpenZip
  BY <1>4, GiveUpHolds DEF OpenZip
<1>5. CASE Parse
  BY <1>5, GiveUpHolds DEF Parse
<1>6. CASE OpenEntry BY <1>6 DEF OpenEntry
<1>7. CASE CreateTemp BY <1>7 DEF CreateTemp
<1>8. CASE CopyTemp BY <1>8 DEF CopyTemp
<1>9. CASE ParseTemp BY <1>9 DEF ParseTemp
<1>10. CASE Deferred
  <2>1. pc' = "opened"
    BY <1>10 DEF Deferred
  <2>2. CASE err = "none"
    BY <1>10, <2>1, <2>2 DEF Deferred
  <2>3. CASE err # "none"
    <3>1. handles' = {}
      BY <1>10, <2>3 DEF Deferred, Files
    <3> QED BY <1>10, <2>1, <2>3, <3>1 DEF Deferred
  <2> QED BY <2>2, <2>3
<1> QED BY <1>1, <1>2, <1>3, <1>4, <1>5, <1>6, <1>7, <1>8, <1>9, <1>10 DEF Opening

LEMMA RunningOpenHolds == OpenHolds /\ (Running \/ Interrupt) => OpenHolds'
<1> SUFFICES ASSUME OpenHolds, Running \/ Interrupt PROVE OpenHolds'
  OBVIOUS
<1> USE DEF OpenHolds, Step
<1>1. CASE Opened BY <1>1 DEF Opened
<1>2. CASE Notify BY <1>2 DEF Notify
<1>3. CASE ExtractReturns BY <1>3 DEF ExtractReturns
<1>4. CASE WaitBars BY <1>4 DEF WaitBars
<1>5. CASE Report BY <1>5 DEF Report
<1>6. CASE Stop BY <1>6 DEF Stop
<1>7. CASE Close BY <1>7 DEF Close
<1>8. CASE Interrupt
  <2>1. /\ pc' \in {pc, "killed"}
        /\ UNCHANGED <<err, handles, tempFile, keptTemp, ra, closers, tempPath>>
    BY <1>8 DEF Interrupt
  <2>2. CASE pc' = pc
    BY <2>1, <2>2 DEF NoPayload, NoTemp
  <2>3. CASE pc' = "killed"
    BY <2>1, <2>3
  <2> QED BY <2>1, <2>2, <2>3
<1> QED BY <1>1, <1>2, <1>3, <1>4, <1>5, <1>6, <1>7, <1>8 DEF Running

LEMMA RunningRunHolds == RunHolds /\ (Running \/ Interrupt) => RunHolds'
<1> SUFFICES ASSUME RunHolds, Running \/ Interrupt PROVE RunHolds'
  OBVIOUS
<1> USE DEF RunHolds, NoPayload, InUse, Step, Remove
<1>1. CASE Opened BY <1>1 DEF Opened
<1>2. CASE Notify BY <1>2 DEF Notify
<1>3. CASE ExtractReturns BY <1>3 DEF ExtractReturns
<1>4. CASE WaitBars BY <1>4 DEF WaitBars
<1>5. CASE Report BY <1>5 DEF Report
<1>6. CASE Stop BY <1>6 DEF Stop
<1>7. CASE Close BY <1>7 DEF Close
<1>8. CASE Interrupt BY <1>8 DEF Interrupt
<1> QED BY <1>1, <1>2, <1>3, <1>4, <1>5, <1>6, <1>7, <1>8 DEF Running

LEMMA OpeningDecided == Decided /\ Opening => Decided'
<1> SUFFICES ASSUME Decided, Opening PROVE Decided'
  OBVIOUS
<1> USE DEF Decided, GiveUp, Step
<1>1. CASE Args BY <1>1 DEF Args
<1>2. CASE OpenFile BY <1>2 DEF OpenFile
<1>3. CASE Inspect BY <1>3 DEF Inspect
<1>4. CASE OpenZip BY <1>4 DEF OpenZip
<1>5. CASE Parse BY <1>5 DEF Parse
<1>6. CASE OpenEntry BY <1>6 DEF OpenEntry
<1>7. CASE CreateTemp BY <1>7 DEF CreateTemp
<1>8. CASE CopyTemp BY <1>8 DEF CopyTemp
<1>9. CASE ParseTemp BY <1>9 DEF ParseTemp
<1>10. CASE Deferred BY <1>10 DEF Deferred
<1> QED BY <1>1, <1>2, <1>3, <1>4, <1>5, <1>6, <1>7, <1>8, <1>9, <1>10 DEF Opening

LEMMA RunningDecided == RunHolds /\ Decided /\ (Running \/ Interrupt) => Decided'
<1> SUFFICES ASSUME RunHolds, Decided, Running \/ Interrupt PROVE Decided'
  OBVIOUS
<1> USE DEF RunHolds, InUse, NoPayload, Decided, Step
<1>1. CASE Opened BY <1>1 DEF Opened
<1>2. CASE Notify BY <1>2 DEF Notify
<1>3. CASE ExtractReturns BY <1>3 DEF ExtractReturns
<1>4. CASE WaitBars BY <1>4 DEF WaitBars
<1>5. CASE Report BY <1>5 DEF Report
<1>6. CASE Stop BY <1>6 DEF Stop
<1>7. CASE Close BY <1>7 DEF Close
<1>8. CASE Interrupt BY <1>8 DEF Interrupt
<1> QED BY <1>1, <1>2, <1>3, <1>4, <1>5, <1>6, <1>7, <1>8 DEF Running

LEMMA OpeningFromAccepted == FromAccepted /\ Opening => FromAccepted'
<1> SUFFICES ASSUME FromAccepted, Opening PROVE FromAccepted'
  OBVIOUS
<1> USE DEF FromAccepted, GiveUp, Step
<1>1. CASE Args BY <1>1 DEF Args
<1>2. CASE OpenFile BY <1>2 DEF OpenFile
<1>3. CASE Inspect BY <1>3 DEF Inspect
<1>4. CASE OpenZip BY <1>4 DEF OpenZip
<1>5. CASE Parse BY <1>5 DEF Parse
<1>6. CASE OpenEntry BY <1>6 DEF OpenEntry
<1>7. CASE CreateTemp BY <1>7 DEF CreateTemp
<1>8. CASE CopyTemp BY <1>8 DEF CopyTemp
<1>9. CASE ParseTemp BY <1>9 DEF ParseTemp
<1>10. CASE Deferred BY <1>10 DEF Deferred
<1> QED BY <1>1, <1>2, <1>3, <1>4, <1>5, <1>6, <1>7, <1>8, <1>9, <1>10 DEF Opening

LEMMA RunningFromAccepted == FromAccepted /\ (Running \/ Interrupt) => FromAccepted'
<1> SUFFICES ASSUME FromAccepted, Running \/ Interrupt PROVE FromAccepted'
  OBVIOUS
<1> USE DEF FromAccepted, Step
<1>1. CASE Opened BY <1>1 DEF Opened
<1>2. CASE Notify BY <1>2 DEF Notify
<1>3. CASE ExtractReturns BY <1>3 DEF ExtractReturns
<1>4. CASE WaitBars BY <1>4 DEF WaitBars
<1>5. CASE Report BY <1>5 DEF Report
<1>6. CASE Stop BY <1>6 DEF Stop
<1>7. CASE Close BY <1>7 DEF Close
<1>8. CASE Interrupt BY <1>8 DEF Interrupt
<1> QED BY <1>1, <1>2, <1>3, <1>4, <1>5, <1>6, <1>7, <1>8 DEF Running

LEMMA NextProcess == ProcessInv /\ [CommandNext]_commandVars => ProcessInv'
<1> SUFFICES ASSUME ProcessInv, [CommandNext]_commandVars PROVE ProcessInv'
  OBVIOUS
<1>1. /\ TypeInv /\ Labels /\ Files /\ Booleans
      /\ OpenHolds /\ RunHolds /\ Decided /\ FromAccepted
  BY TypeParts DEF ProcessInv
<1>2. TypeInv'
  BY <1>1, NextProcessType
<1>3. CASE Opening
  BY <1>1, <1>2, <1>3, OpeningOpenHolds, OpeningRunHolds, OpeningDecided, OpeningFromAccepted
     DEF ProcessInv
<1>4. CASE Running \/ Interrupt
  BY <1>1, <1>2, <1>4, RunningOpenHolds, RunningRunHolds, RunningDecided, RunningFromAccepted
     DEF ProcessInv
<1>5. CASE UNCHANGED commandVars
  BY <1>1, <1>2, <1>5
     DEF commandVars, ProcessInv, OpenHolds, RunHolds, Decided, FromAccepted,
         NoPayload, NoTemp, InUse
<1> QED BY <1>3, <1>4, <1>5 DEF CommandNext

--------------------------------------------------------------------------------
(* The properties of Command                                                *)

LEMMA ProcessInvariant == CommandSpec => []ProcessInv
BY InitProcess, NextProcess, PTL DEF CommandSpec

\* Each variable keeps its type.
THEOREM ProcessTypeCorrect == CommandSpec => []TypeInv
<1>1. ProcessInv => TypeInv
  BY DEF ProcessInv
<1> QED BY <1>1, ProcessInvariant, PTL

\* From the moment Open returns a payload until Close, its file is open, alone,
\* and what Close closes and removes.
THEOREM PayloadReadable == CommandSpec => []PayloadIsReadable
<1>1. ProcessInv => PayloadIsReadable
  BY DEF ProcessInv, RunHolds, NoPayload, InUse, PayloadIsReadable, HasPayload
<1> QED BY <1>1, ProcessInvariant, PTL

\* No path out of Open or Execute, with a failure at any step, leaves a file open or
\* a temporary copy that could have been removed.
THEOREM NoLeak == CommandSpec => []NothingLeaks
<1>1. ProcessInv => NothingLeaks
  BY DEF ProcessInv, RunHolds, NoPayload, InUse, NothingLeaks
<1> QED BY <1>1, ProcessInvariant, PTL

\* A payload in use has its metadata inside its file, and the offset of its data
\* is the exact sum of the three lengths.
THEOREM MetadataInside == CommandSpec => []MetadataInsideFile
<1>1. ASSUME TypeInv, FromAccepted, ra # "none"
      PROVE  /\ HeaderLen + input.header.manifestLen + input.header.sigLen <= input.header.size
             /\ MetadataLen(input.header) =
                  HeaderLen + input.header.manifestLen + input.header.sigLen
  <2> DEFINE h == input.header
  <2>1. MetadataFits(h)
    BY <1>1 DEF FromAccepted, Accepted
  <2>2. /\ h.manifestLen \in 0 .. 2 * MaxInt + 1 /\ h.sigLen \in 0 .. MaxSigLen
        /\ h.size \in 0 .. MaxInt
    <3>1. input \in InputType
      BY <1>1, CommandAssumption DEF TypeInv
    <3> QED BY <3>1 DEF InputType
  <2> HIDE DEF h
  <2>3. /\ MetadataLen(h) = HeaderLen + h.manifestLen + h.sigLen
        /\ HeaderLen + h.manifestLen + h.sigLen <= h.size
    BY <2>1, <2>2, HeaderSizesAreExact
  <2> QED BY <2>3 DEF h
<1>2. ProcessInv => MetadataInsideFile
  BY <1>1 DEF ProcessInv, MetadataInsideFile
<1> QED BY <1>2, ProcessInvariant, PTL

\* The exit code is 0 only when nothing failed, and 2 only without an argument.
THEOREM ExitCodeHonest == CommandSpec => []ExitCodeTellsTheOutcome
<1>1. ProcessInv => ExitCodeTellsTheOutcome
  BY DEF ProcessInv, Decided, ExitCodeTellsTheOutcome
<1> QED BY <1>1, ProcessInvariant, PTL
================================================================================
