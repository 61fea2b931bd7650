----------------------------- MODULE BspatchProofs -----------------------------
(***************************************************************************)
(* bspatch.Apply on any patch whatever, for every size of the old data and *)
(* of the output and every word: it stays inside its buffers, what it      *)
(* accepts it has made completely, each byte is the one the patch defines, *)
(* and what it accepts are the well-formed patches.                        *)
(***************************************************************************)
EXTENDS Bspatch, TLAPS

\* Remainders and least elements; the sizes of a word and a block do not matter to them.
Shared == INSTANCE ExtentsProofs WITH MaxInt <- 1, BlockSize <- 1

ConstFacts ==
  /\ MaxInt \in Nat \ {0} /\ OldSize \in Nat /\ OldSize <= MaxInt

LEMMA Constants == ConstFacts
BY BspatchAssumption DEF ConstFacts

LEMMA AddIsInt64 ==
  ASSUME NEW a \in Int, NEW b \in Int
  PROVE  AddInt64(a, b) \in Int64
<1> DEFINE s == a + b + MaxInt + 1
           m == 2 * (MaxInt + 1)
           r == s % m
<1>1. MaxInt \in Nat
  BY Constants DEF ConstFacts
<1>2. s \in Int /\ m \in Nat \ {0}
  BY <1>1
<1>3. r \in 0 .. m - 1
  <2> HIDE DEF s, m
  <2> QED BY <1>2
<1>4. AddInt64(a, b) = r - (MaxInt + 1)
  BY DEF AddInt64
<1> HIDE DEF r
<1> QED BY <1>1, <1>3, <1>4 DEF Int64

LEMMA CtrlFacts ==
  ASSUME patch \in Patches
  PROVE  /\ patch.newSize \in Int /\ patch.diffBytes \in Nat /\ patch.extraBytes \in Nat
         /\ Len(patch.ctrl) \in Nat
         /\ \A n \in 1 .. Len(patch.ctrl) :
              /\ patch.ctrl[n].diff \in Int /\ patch.ctrl[n].extra \in Int
              /\ patch.ctrl[n].seek \in Int
<1> DEFINE Entry == [diff : Parsed, extra : Parsed, seek : Parsed]
<1>1. patch \in PatchType /\ MaxInt \in Nat
  BY BspatchAssumption
<1>2. patch.ctrl \in Seq(Entry)
  BY <1>1 DEF PatchType
<1>3. \A x \in Parsed : x \in Int
  BY <1>1 DEF Parsed
<1>4. patch.newSize \in Int /\ patch.diffBytes \in Nat /\ patch.extraBytes \in Nat
  BY <1>1, <1>3 DEF PatchType
<1>5. ASSUME NEW e \in Entry PROVE e.diff \in Int /\ e.extra \in Int /\ e.seek \in Int
  BY <1>3, <1>5
<1> HIDE DEF Entry
<1>6. Len(patch.ctrl) \in Nat /\ \A n \in 1 .. Len(patch.ctrl) : patch.ctrl[n] \in Entry
  BY <1>2
<1> QED BY <1>4, <1>5, <1>6

--------------------------------------------------------------------------------
(* Positions                                                                *)

\* What Apply knows at each point, with the size of the output it has checked.
Inside ==
  /\ patch \in Patches
  /\ TypeInv
  /\ pc = "header" => newpos = 0 /\ entry = 0
  /\ pc \notin {"header", "done"} => patch.newSize >= 0
  /\ result = "ok" => pc = "done" /\ newpos = patch.newSize

LEMMA InitInside == Init => Inside
<1> SUFFICES ASSUME Init PROVE Inside
  OBVIOUS
<1>1. Len(patch.ctrl) \in Nat /\ 0 \in Int64
  BY CtrlFacts, Constants DEF Init, Int64, ConstFacts
<1> QED BY <1>1 DEF Init, Inside, TypeInv

LEMMA NextInside == Inside /\ [Next]_vars => Inside'
<1> SUFFICES ASSUME Inside, [Next]_vars PROVE Inside'
  OBVIOUS
<1> USE DEF Ctrl
<1>1. /\ patch \in Patches /\ patch.newSize \in Int /\ Len(patch.ctrl) \in Nat
      /\ \A n \in 1 .. Len(patch.ctrl) :
           /\ patch.ctrl[n].diff \in Int /\ patch.ctrl[n].extra \in Int
           /\ patch.ctrl[n].seek \in Int
  BY CtrlFacts DEF Inside
<1>2. MaxInt \in Nat /\ oldpos \in Int /\ newpos \in Nat /\ entry \in 0 .. Len(patch.ctrl)
  BY Constants DEF ConstFacts, Inside, TypeInv, Int64
<1>3. ASSUME NEW reason, reason # "ok", Refuse(reason) PROVE Inside'
  BY <1>3 DEF Refuse, Inside, TypeInv
<1>4. CASE Header
  <2>1. CASE HeaderError # "none"
    <3>1. HeaderError # "ok"
      BY DEF HeaderError
    <3> QED BY <1>3, <1>4, <2>1, <3>1 DEF Header
  <2>2. CASE HeaderError = "none"
    <3>1. patch.newSize >= 0
      BY <1>1, <2>2 DEF HeaderError
    <3> QED BY <1>1, <1>4, <2>2, <3>1 DEF Header, Inside, TypeInv
  <2> QED BY <2>1, <2>2
<1>5. CASE ReadControl
  <2> DEFINE e == patch.ctrl[entry + 1]
  <2>1. CASE Refuse("stream") \/ Refuse("negative size") \/ Refuse("past end")
    BY <1>3, <2>1
  <2>2. CASE ~ (Refuse("stream") \/ Refuse("negative size") \/ Refuse("past end"))
    <3>1. /\ entry # Len(patch.ctrl) /\ ~ (e.diff < 0 \/ e.extra < 0)
          /\ ~ (e.diff > patch.newSize - newpos)
          /\ entry' = entry + 1 /\ pc' = "diff" /\ pc = "ctrl"
          /\ UNCHANGED <<patch, oldpos, newpos, diffAt, extraAt, new, result>>
      BY <1>5, <2>2 DEF ReadControl
    <3>2. entry + 1 \in 1 .. Len(patch.ctrl)
      BY <1>1, <1>2, <3>1
    <3>3. e.diff \in Int /\ e.extra \in Int
      BY <1>1, <3>2
    <3> QED BY <1>1, <1>2, <3>1, <3>2, <3>3 DEF Inside, TypeInv
  <2> QED BY <2>1, <2>2
<1>6. ASSUME pc \in {"diff", "extra", "seek"}
      PROVE  Ctrl.diff \in Nat /\ Ctrl.extra \in Nat /\ Ctrl.seek \in Int
  <2>1. entry \in 1 .. Len(patch.ctrl) /\ Ctrl.diff >= 0 /\ Ctrl.extra >= 0
    BY <1>2, <1>6 DEF Inside, TypeInv
  <2> QED BY <1>1, <2>1
<1>7. CASE ReadDiff
  <2>1. CASE newpos' = newpos + Ctrl.diff /\ pc' = "extra"
    <3>1. /\ pc = "diff" /\ ~ (oldpos > MaxInt - Ctrl.diff)
          /\ oldpos' = oldpos + Ctrl.diff /\ diffAt' = diffAt + Ctrl.diff
          /\ UNCHANGED <<patch, entry, extraAt, result>>
      BY <1>7, <2>1 DEF ReadDiff, Refuse
    <3>2. Ctrl.diff \in Nat
      BY <1>6, <3>1
    <3>3. oldpos' \in Int64
      <4> DEFINE d == Ctrl.diff
      <4>1. d \in Nat /\ oldpos' = oldpos + d /\ ~ (oldpos > MaxInt - d)
        BY <3>1, <3>2
      <4>2. oldpos \in Int /\ oldpos >= -MaxInt - 1
        BY <1>2 DEF Int64, Inside, TypeInv
      <4> HIDE DEF d
      <4> QED BY <1>2, <4>1, <4>2 DEF Int64
    <3>4. newpos + Ctrl.diff <= patch.newSize /\ newpos + Ctrl.diff \in Nat
      <4>1. newpos + Ctrl.diff <= patch.newSize
        BY <3>1 DEF Inside, TypeInv
      <4> QED BY <1>2, <3>2, <4>1
    <3>5. diffAt' \in Nat /\ extraAt' \in Nat
      <4> DEFINE d == Ctrl.diff
      <4>1. d \in Nat /\ diffAt' = diffAt + d /\ extraAt' = extraAt
        BY <3>1, <3>2
      <4>2. diffAt \in Nat /\ extraAt \in Nat
        BY DEF Inside, TypeInv
      <4> HIDE DEF d
      <4> QED BY <4>1, <4>2
    <3>6. Ctrl' = Ctrl /\ entry > 0 /\ Ctrl.extra >= 0 /\ Ctrl.diff >= 0
      BY <3>1 DEF Inside, TypeInv
    <3>7. TypeInv'
      BY <1>2, <2>1, <3>1, <3>3, <3>4, <3>5, <3>6 DEF TypeInv
    <3>8. patch.newSize >= 0 /\ result # "ok"
      BY <3>1 DEF Inside
    <3> QED BY <1>1, <2>1, <3>1, <3>7, <3>8 DEF Inside
  <2>2. CASE Refuse("stream") \/ Refuse("position")
    BY <1>3, <2>2
  <2> QED BY <1>7, <2>1, <2>2 DEF ReadDiff
<1>8. CASE ReadExtra
  <2>1. CASE newpos' = newpos + Ctrl.extra /\ pc' = "seek"
    <3>1. /\ pc = "extra" /\ ExtraFits /\ extraAt' = extraAt + Ctrl.extra
          /\ UNCHANGED <<patch, entry, oldpos, diffAt, result>>
      BY <1>8, <2>1 DEF ReadExtra, Refuse
    <3>2. Ctrl.extra \in Nat
      BY <1>6, <3>1
    <3>3. newpos + Ctrl.extra <= patch.newSize
      BY <1>1, <1>2, <3>1, <3>2 DEF ExtraFits
    <3>4. newpos + Ctrl.extra \in Nat /\ extraAt' \in Nat /\ diffAt' \in Nat /\ oldpos' \in Int64
      <4> DEFINE x == Ctrl.extra
      <4>1. x \in Nat /\ extraAt' = extraAt + x /\ diffAt' = diffAt /\ oldpos' = oldpos
        BY <3>1, <3>2
      <4>2. newpos \in Nat /\ extraAt \in Nat /\ diffAt \in Nat /\ oldpos \in Int64
        BY DEF Inside, TypeInv
      <4> HIDE DEF x
      <4>3. newpos + x \in Nat /\ extraAt' \in Nat /\ diffAt' \in Nat /\ oldpos' \in Int64
        BY <4>1, <4>2
      <4> QED BY <4>3 DEF x
    <3>5. Ctrl' = Ctrl /\ entry > 0 /\ Ctrl.extra >= 0 /\ Ctrl.diff >= 0
      BY <3>1 DEF Inside, TypeInv
    <3>6. TypeInv'
      BY <1>2, <2>1, <3>1, <3>3, <3>4, <3>5 DEF TypeInv
    <3>7. patch.newSize >= 0 /\ result # "ok"
      BY <3>1 DEF Inside
    <3> QED BY <1>1, <2>1, <3>1, <3>6, <3>7 DEF Inside
  <2>2. CASE Refuse("stream") \/ Refuse("past end")
    BY <1>3, <2>2
  <2> QED BY <1>8, <2>1, <2>2 DEF ReadExtra
<1>9. CASE Seek
  <2>1. CASE pc' = "ctrl"
    <3>1. /\ pc = "seek" /\ oldpos' = AddInt64(oldpos, Ctrl.seek)
          /\ UNCHANGED <<patch, entry, newpos, diffAt, extraAt, new, result>>
      BY <1>9, <2>1 DEF Seek, Refuse
    <3>2. oldpos' \in Int64
      BY <1>2, <1>6, <3>1, AddIsInt64
    <3> QED BY <2>1, <3>1, <3>2 DEF Inside, TypeInv
  <2>2. CASE Refuse("position")
    BY <1>3, <2>2
  <2> QED BY <1>9, <2>1, <2>2 DEF Seek
<1>10. CASE Return
  BY <1>1, <1>2, <1>10 DEF Return, Inside, TypeInv
<1>11. CASE UNCHANGED vars
  BY <1>11 DEF vars, Inside, TypeInv
<1> QED BY <1>4, <1>5, <1>7, <1>8, <1>9, <1>10, <1>11 DEF Next

LEMMA AlwaysInside == Spec => []Inside
BY InitInside, NextInside, PTL DEF Spec

\* Whatever the patch, the slices of the output that Apply fills are inside it and
\* the positions are int64 values (bspatch.go:71-105).
THEOREM StaysInside == Spec => []TypeInv
<1>1. Inside => TypeInv
  BY DEF Inside
<1> QED BY <1>1, AlwaysInside, PTL

--------------------------------------------------------------------------------
(* The output                                                               *)

FromDiff(b) == \E d, p : b = <<"diff", d, p>> /\ p \in -1 .. OldSize - 1

FromExtra(b) == \E x : b = <<"extra", x>>

\* What is before the new position has been made, from old bytes that exist; what
\* is after it has not been touched.
Made ==
  pc \notin {"header", "done"} \/ result = "ok" =>
    /\ new = [k \in Positions |-> new[k]]
    /\ \A k \in Positions : IF k < newpos THEN FromDiff(new[k]) \/ FromExtra(new[k])
                            ELSE new[k] = Unset

LEMMA OldIndexInside ==
  ASSUME oldpos \in Int, NEW i \in Int
  PROVE  OldIndex(i) \in -1 .. OldSize - 1
<1> DEFINE p == AddInt64(oldpos, i)
<1>1. p \in Int
  BY AddIsInt64, Constants DEF ConstFacts, Int64
<1>2. OldIndex(i) = IF p >= 0 /\ p < OldSize THEN p ELSE -1
  BY DEF OldIndex, Outside
<1> HIDE DEF p
<1> QED BY <1>1, <1>2, Constants DEF ConstFacts

LEMMA NextMade == Inside /\ Made /\ [Next]_vars => Made'
<1> SUFFICES ASSUME Inside, Made, [Next]_vars PROVE Made'
  OBVIOUS
<1>1. /\ patch \in Patches /\ patch.newSize \in Int /\ newpos \in Nat /\ oldpos \in Int
      /\ entry \in 0 .. Len(patch.ctrl) /\ Len(patch.ctrl) \in Nat
      /\ result = "ok" => pc = "done"
  BY CtrlFacts, Constants DEF ConstFacts, Inside, TypeInv, Int64
<1>2. ASSUME NEW reason, reason # "ok", Refuse(reason) PROVE Made'
  BY <1>2 DEF Refuse, Made
<1>3. ASSUME patch' = patch PROVE Positions' = Positions
  BY <1>3 DEF Positions
<1>4. ASSUME UNCHANGED <<patch, newpos, new>>, pc \notin {"header", "done"}
      PROVE  Made'
  BY <1>3, <1>4 DEF Made
<1>5. CASE Header
  <2>1. CASE HeaderError # "none"
    <3>1. HeaderError # "ok"
      BY DEF HeaderError
    <3> QED BY <1>2, <1>5, <2>1, <3>1 DEF Header
  <2>2. CASE HeaderError = "none"
    <3>1. /\ new' = [k \in Positions |-> Unset] /\ newpos' = newpos /\ patch' = patch
          /\ newpos = 0
      BY <1>5, <2>2 DEF Header, Inside
    <3>2. \A k \in Positions : ~ (k < 0) /\ new'[k] = Unset
      BY <1>1, <3>1 DEF Positions
    <3> QED BY <1>3, <3>1, <3>2 DEF Made
  <2> QED BY <2>1, <2>2
<1>6. CASE ReadControl
  <2>1. CASE Refuse("stream") \/ Refuse("negative size") \/ Refuse("past end")
    BY <1>2, <2>1
  <2>2. CASE UNCHANGED <<patch, oldpos, newpos, diffAt, extraAt, new, result>>
    BY <1>4, <1>6, <2>2 DEF ReadControl
  <2> QED BY <1>6, <2>1, <2>2 DEF ReadControl
<1>7. ASSUME pc \in {"diff", "extra"}
      PROVE  Ctrl.diff \in Nat /\ Ctrl.extra \in Nat
  <2>1. entry \in 1 .. Len(patch.ctrl) /\ Ctrl.diff >= 0 /\ Ctrl.extra >= 0
    BY <1>1, <1>7 DEF Inside, TypeInv
  <2>2. Ctrl.diff \in Int /\ Ctrl.extra \in Int
    BY <1>1, <2>1, CtrlFacts DEF Ctrl
  <2> QED BY <2>1, <2>2
<1>8. CASE ReadDiff
  <2>1. CASE newpos' = newpos + Ctrl.diff /\ pc' = "extra"
    <3> DEFINE d == Ctrl.diff
    <3>1. /\ pc = "diff" /\ patch' = patch
          /\ new' = [k \in Positions |->
                       IF k >= newpos /\ k < newpos + d
                       THEN <<"diff", diffAt + k - newpos, OldIndex(k - newpos)>> ELSE new[k]]
      BY <1>8, <2>1 DEF ReadDiff, Refuse
    <3>2. d \in Nat
      BY <1>7, <3>1
    <3>3. ASSUME NEW k \in Positions
          PROVE  IF k < newpos + d THEN FromDiff(new'[k]) \/ FromExtra(new'[k])
                 ELSE new'[k] = Unset
      <4>1. k \in Int
        BY <1>1 DEF Positions
      <4>2. CASE k >= newpos /\ k < newpos + d
        <5>1. new'[k] = <<"diff", diffAt + k - newpos, OldIndex(k - newpos)>>
          BY <3>1, <4>2
        <5>2. OldIndex(k - newpos) \in -1 .. OldSize - 1
          <6>1. k - newpos \in Int
            BY <1>1, <4>1
          <6> QED BY ONLY <1>1, <6>1, OldIndexInside
        <5> QED BY <4>2, <5>1, <5>2 DEF FromDiff
      <4>3. CASE ~ (k >= newpos /\ k < newpos + d)
        <5>1. new'[k] = new[k]
          BY <3>1, <4>3
        <5>2. IF k < newpos THEN FromDiff(new[k]) \/ FromExtra(new[k]) ELSE new[k] = Unset
          BY <3>1 DEF Made
        <5> HIDE DEF d
        <5> QED BY <1>1, <3>2, <4>1, <4>3, <5>1, <5>2
      <4> QED BY <4>2, <4>3
    <3> QED BY <1>3, <2>1, <3>1, <3>3 DEF Made
  <2>2. CASE Refuse("stream") \/ Refuse("position")
    BY <1>2, <2>2
  <2> QED BY <1>8, <2>1, <2>2 DEF ReadDiff
<1>9. CASE ReadExtra
  <2>1. CASE newpos' = newpos + Ctrl.extra /\ pc' = "seek"
    <3> DEFINE d == Ctrl.extra
    <3>1. /\ pc = "extra" /\ patch' = patch
          /\ new' = [k \in Positions |->
                       IF k >= newpos /\ k < newpos + d
                       THEN <<"extra", extraAt + k - newpos>> ELSE new[k]]
      BY <1>9, <2>1 DEF ReadExtra, Refuse
    <3>2. d \in Nat
      BY <1>7, <3>1
    <3>3. ASSUME NEW k \in Positions
          PROVE  IF k < newpos + d THEN FromDiff(new'[k]) \/ FromExtra(new'[k])
                 ELSE new'[k] = Unset
      <4>1. k \in Int
        BY <1>1 DEF Positions
      <4>2. CASE k >= newpos /\ k < newpos + d
        <5>1. new'[k] = <<"extra", extraAt + k - newpos>>
          BY <3>1, <4>2
        <5> QED BY <4>2, <5>1 DEF FromExtra
      <4>3. CASE ~ (k >= newpos /\ k < newpos + d)
        <5>1. new'[k] = new[k]
          BY <3>1, <4>3
        <5>2. IF k < newpos THEN FromDiff(new[k]) \/ FromExtra(new[k]) ELSE new[k] = Unset
          BY <3>1 DEF Made
        <5> HIDE DEF d
        <5> QED BY <1>1, <3>2, <4>1, <4>3, <5>1, <5>2
      <4> QED BY <4>2, <4>3
    <3> QED BY <1>3, <2>1, <3>1, <3>3 DEF Made
  <2>2. CASE Refuse("stream") \/ Refuse("past end")
    BY <1>2, <2>2
  <2> QED BY <1>9, <2>1, <2>2 DEF ReadExtra
<1>10. CASE Seek
  <2>1. CASE Refuse("position")
    BY <1>2, <2>1
  <2>2. CASE UNCHANGED <<patch, entry, newpos, diffAt, extraAt, new, result>>
    BY <1>4, <1>10, <2>2 DEF Seek
  <2> QED BY <1>10, <2>1, <2>2 DEF Seek
<1>11. CASE Return
  BY <1>4, <1>11 DEF Return
<1>12. CASE UNCHANGED vars
  BY <1>3, <1>12 DEF vars, Made
<1> QED BY <1>5, <1>6, <1>8, <1>9, <1>10, <1>11, <1>12 DEF Next

LEMMA AlwaysMade == Spec => []Made
<1>1. Init => Made
  BY DEF Init, Made
<1> QED BY <1>1, AlwaysInside, NextMade, PTL DEF Spec

\* A patch is accepted only when every byte of the output has been made, from the
\* two streams and from old bytes that exist: no control stream, however it moves
\* the two positions, leaves a hole of the output or reads past the old data.
AcceptedOutputIsMade ==
  result = "ok" => \A k \in Positions : FromDiff(new[k]) \/ FromExtra(new[k])

\* No hole in an accepted output.
THEOREM OutputIsMade == Spec => []AcceptedOutputIsMade
<1>1. ASSUME Inside, Made PROVE AcceptedOutputIsMade
  <2> SUFFICES ASSUME result = "ok", NEW k \in Positions
               PROVE  FromDiff(new[k]) \/ FromExtra(new[k])
    BY DEF AcceptedOutputIsMade
  <2>1. newpos = patch.newSize
    BY <1>1 DEF Inside
  <2>2. patch.newSize \in Int
    BY <1>1, CtrlFacts DEF Inside
  <2>3. k < newpos
    BY <2>1, <2>2 DEF Positions
  <2> QED BY <1>1, <2>3 DEF Made
<1> QED BY <1>1, AlwaysInside, AlwaysMade, PTL

--------------------------------------------------------------------------------
(* The patch as a function                                                  *)

SumType == [new : Int, diff : Int, extra : Int, old : Int]

\* Sums is what its recursive definition says.
LEMMA SumsFacts ==
  ASSUME patch \in Patches
  PROVE  /\ Sums \in [0 .. Len(patch.ctrl) -> SumType]
         /\ Sums[0] = [new |-> 0, diff |-> 0, extra |-> 0, old |-> 0]
         /\ \A n \in 1 .. Len(patch.ctrl) :
              Sums[n] = [new |-> Sums[n - 1].new + patch.ctrl[n].diff + patch.ctrl[n].extra,
                         diff |-> Sums[n - 1].diff + patch.ctrl[n].diff,
                         extra |-> Sums[n - 1].extra + patch.ctrl[n].extra,
                         old |-> Sums[n - 1].old + patch.ctrl[n].diff + patch.ctrl[n].seek]
<1> DEFINE N == Len(patch.ctrl)
           zero == [new |-> 0, diff |-> 0, extra |-> 0, old |-> 0]
           After(s, e) == [new |-> s.new + e.diff + e.extra, diff |-> s.diff + e.diff,
                           extra |-> s.extra + e.extra, old |-> s.old + e.diff + e.seek]
           step == [n \in 1 .. N |-> [s \in SumType |-> After(s, patch.ctrl[n])]]
<1>1. /\ N \in Nat
      /\ \A n \in 1 .. N : /\ patch.ctrl[n].diff \in Int /\ patch.ctrl[n].extra \in Int
                           /\ patch.ctrl[n].seek \in Int
  BY CtrlFacts
<1>2. ASSUME NEW n \in 1 .. N, NEW s \in SumType PROVE After(s, patch.ctrl[n]) \in SumType
  <2>1. s.new \in Int /\ s.diff \in Int /\ s.extra \in Int /\ s.old \in Int
    BY DEF SumType
  <2>2. /\ s.new + patch.ctrl[n].diff + patch.ctrl[n].extra \in Int
        /\ s.diff + patch.ctrl[n].diff \in Int /\ s.extra + patch.ctrl[n].extra \in Int
        /\ s.old + patch.ctrl[n].diff + patch.ctrl[n].seek \in Int
    <3> DEFINE e == patch.ctrl[n]
    <3>1. e.diff \in Int /\ e.extra \in Int /\ e.seek \in Int
      BY <1>1
    <3>2. \A a, b, c \in Int : a + b \in Int /\ a + b + c \in Int
      OBVIOUS
    <3> HIDE DEF e
    <3>3. /\ s.new + e.diff + e.extra \in Int /\ s.diff + e.diff \in Int
          /\ s.extra + e.extra \in Int /\ s.old + e.diff + e.seek \in Int
      BY <2>1, <3>1, <3>2, Zenon
    <3> QED BY <3>3 DEF e
  <2> QED BY <2>2 DEF SumType
<1>3. zero \in SumType
  BY DEF SumType
<1>4. step \in [1 .. N -> [SumType -> SumType]]
  BY <1>2
<1>5. ASSUME NEW f \in [0 .. N -> SumType], NEW n \in 0 .. N, n # 0
      PROVE  step[n][f[n - 1]] = After(f[n - 1], patch.ctrl[n])
  <2>1. n \in 1 .. N /\ n - 1 \in 0 .. N
    BY <1>1, <1>5
  <2>2. f[n - 1] \in SumType
    BY <2>1
  <2> HIDE DEF N, After
  <2> QED BY <2>1, <2>2
<1> DEFINE IsSums(f) ==
             f = [n \in 0 .. N |-> IF n = 0 THEN zero ELSE After(f[n - 1], patch.ctrl[n])]
<1>6. PICK g \in [0 .. N -> SumType] :
        g[0] = zero /\ \A n \in 1 .. N : g[n] = step[n][g[n - 1]]
  <2>1. N \in Nat
    BY <1>1
  <2>2. step \in Shared!Steps(N, SumType)
    BY <1>4 DEF Shared!Steps
  <2> HIDE DEF zero, step, N
  <2>3. Shared!Solutions(N, SumType, zero, step) # {}
    BY ONLY <2>1, <2>2, <1>3, Shared!Recursion
  <2> QED BY <2>3 DEF Shared!Solutions
<1>7. IsSums(g)
  <2>1. \A n \in 0 .. N :
          g[n] = IF n = 0 THEN zero ELSE After(g[n - 1], patch.ctrl[n])
    <3>1. N \in Nat
      BY <1>1
    <3> HIDE DEF step, zero, After, N
    <3> QED BY <1>5, <1>6, <3>1
  <2> HIDE DEF zero, After, N
  <2> QED BY <1>6, <2>1
<1>8. Sums = CHOOSE f : IsSums(f)
  BY DEF Sums
<1>9. IsSums(Sums)
  <2> HIDE DEF IsSums
  <2> QED BY <1>7, <1>8
<1>10. /\ DOMAIN Sums = 0 .. N /\ Sums[0] = zero
       /\ \A n \in 1 .. N : Sums[n] = After(Sums[n - 1], patch.ctrl[n])
       /\ Sums = [n \in 0 .. N |-> Sums[n]]
  <2> HIDE DEF zero, After
  <2> QED BY <1>1, <1>9
<1>11. Sums \in [0 .. N -> SumType]
  <2> DEFINE T == {n \in 0 .. N : Sums[n] \notin SumType}
  <2>1. ASSUME T # {} PROVE FALSE
    <3>1. PICK n \in T : \A m \in T : n <= m
      <4>1. T \in SUBSET Nat
        OBVIOUS
      <4> HIDE DEF T
      <4> QED BY <2>1, <4>1, Shared!Least
    <3>2. n \in 0 .. N /\ Sums[n] \notin SumType
      OBVIOUS
    <3>3. n # 0
      BY <1>3, <1>10, <3>2
    <3>4. n \in 1 .. N /\ n - 1 \in 0 .. N /\ ~ (n <= n - 1)
      BY <1>1, <3>2, <3>3
    <3>5. Sums[n - 1] \in SumType
      BY <3>1, <3>4
    <3>6. Sums[n] = After(Sums[n - 1], patch.ctrl[n])
      BY <1>10, <3>4
    <3> HIDE DEF After
    <3> QED BY <1>2, <3>2, <3>4, <3>5, <3>6
  <2> QED BY <1>10, <2>1
<1> QED BY <1>10, <1>11

\* The sums before and after one entry.
LEMMA SumsStep ==
  ASSUME patch \in Patches, NEW n \in 1 .. Len(patch.ctrl)
  PROVE  /\ Sums[n - 1].new \in Int /\ Sums[n - 1].diff \in Int
         /\ Sums[n - 1].extra \in Int /\ Sums[n - 1].old \in Int
         /\ Sums[n].new = Sums[n - 1].new + patch.ctrl[n].diff + patch.ctrl[n].extra
         /\ Sums[n].diff = Sums[n - 1].diff + patch.ctrl[n].diff
         /\ Sums[n].extra = Sums[n - 1].extra + patch.ctrl[n].extra
         /\ Sums[n].old = Sums[n - 1].old + patch.ctrl[n].diff + patch.ctrl[n].seek
<1>1. n - 1 \in 0 .. Len(patch.ctrl)
  BY CtrlFacts
<1>2. Sums[n - 1] \in SumType
  BY <1>1, SumsFacts
<1>3. /\ Sums[n - 1].new \in Int /\ Sums[n - 1].diff \in Int
      /\ Sums[n - 1].extra \in Int /\ Sums[n - 1].old \in Int
  BY <1>2 DEF SumType
<1>4. Sums[n] = [new |-> Sums[n - 1].new + patch.ctrl[n].diff + patch.ctrl[n].extra,
                 diff |-> Sums[n - 1].diff + patch.ctrl[n].diff,
                 extra |-> Sums[n - 1].extra + patch.ctrl[n].extra,
                 old |-> Sums[n - 1].old + patch.ctrl[n].diff + patch.ctrl[n].seek]
  BY SumsFacts
<1> QED BY <1>3, <1>4

LEMMA SumsNew ==
  ASSUME patch \in Patches, NEW n \in 0 .. Len(patch.ctrl)
  PROVE  Sums[n].new \in Int
<1>1. Sums[n] \in SumType
  BY SumsFacts
<1> QED BY <1>1 DEF SumType

LEMMA SamePatch == ASSUME patch' = patch PROVE Sums' = Sums
BY DEF Sums

LEMMA UsedGrows ==
  ASSUME NEW n \in Nat
  PROVE  /\ Used(n) \subseteq Used(n + 1)
         /\ PositionsFit(n + 1) => PositionsFit(n)
BY DEF Used, PositionsFit

\* Without overflow the sum is exact.
LEMMA AddIsExact ==
  ASSUME NEW a \in Int, NEW b \in Int, a + b \in Int64
  PROVE  AddInt64(a, b) = a + b
<1> DEFINE s == a + b + MaxInt + 1
           m == 2 * (MaxInt + 1)
<1>1. MaxInt \in Nat
  BY Constants DEF ConstFacts
<1>2. s \in Nat /\ m \in Nat \ {0} /\ s < m /\ s < m + m
  BY <1>1 DEF Int64
<1>3. s % m = s
  <2> HIDE DEF s, m
  <2> QED BY <1>2, 1 \in Nat /\ 1 \in 1 .. 1, Zenon, Shared!RemainderOfSum
<1>4. AddInt64(a, b) = (s % m) - (MaxInt + 1)
  BY DEF AddInt64
<1> QED BY <1>1, <1>3, <1>4

--------------------------------------------------------------------------------
(* Apply keeps to the patch                                                 *)

\* Each position is where the entries read so far have brought it: the new position
\* and the two streams always, the old position while no sum has wrapped.
Track ==
  /\ pc = "header" => diffAt = 0 /\ extraAt = 0 /\ oldpos = 0
  /\ \A j \in 0 .. entry - 1 : Sums[j].new < patch.newSize
  /\ pc \in {"ctrl", "seek"} \/ result = "ok" =>
       /\ newpos = Sums[entry].new /\ diffAt = Sums[entry].diff /\ extraAt = Sums[entry].extra
  /\ pc = "diff" =>
       /\ newpos = Sums[entry - 1].new /\ diffAt = Sums[entry - 1].diff
       /\ extraAt = Sums[entry - 1].extra
  /\ pc = "extra" =>
       /\ newpos = Sums[entry - 1].new + Ctrl.diff /\ diffAt = Sums[entry].diff
       /\ extraAt = Sums[entry - 1].extra
  /\ PositionsFit(entry) =>
       /\ pc = "ctrl" => oldpos = Sums[entry].old
       /\ pc = "diff" => oldpos = Sums[entry - 1].old
       /\ pc \in {"extra", "seek"} => oldpos = Sums[entry - 1].old + Ctrl.diff

\* The entry being executed is one whose positions are asked to fit.
LEMMA EntryUsed ==
  ASSUME Inside, Track
  PROVE  /\ Used(entry) = 1 .. entry
         /\ entry > 0 /\ PositionsFit(entry) =>
              /\ Sums[entry].old \in Int64
              /\ Sums[entry - 1].old + patch.ctrl[entry].diff \in Int64
<1>1. entry \in Nat
  BY CtrlFacts DEF Inside, TypeInv
<1>2. Used(entry) = 1 .. entry
  BY <1>1 DEF Used, Track
<1> QED BY <1>1, <1>2 DEF PositionsFit

LEMMA NextTrack == Inside /\ Track /\ [Next]_vars => Track'
<1> SUFFICES ASSUME Inside, Track, [Next]_vars PROVE Track'
  OBVIOUS
<1> DEFINE N == Len(patch.ctrl)
<1>1. /\ patch \in Patches /\ patch.newSize \in Int /\ N \in Nat /\ entry \in 0 .. N
      /\ newpos \in Nat /\ diffAt \in Nat /\ extraAt \in Nat /\ oldpos \in Int64
      /\ result = "ok" => pc = "done"
  BY CtrlFacts DEF Inside, TypeInv
<1>2. ASSUME patch' = patch, entry' = entry
      PROVE  /\ Sums' = Sums /\ Ctrl' = Ctrl /\ (PositionsFit(entry)' <=> PositionsFit(entry))
             /\ \A j \in 0 .. entry' - 1 : Sums'[j].new < patch'.newSize
  <2>1. Sums' = Sums
    BY <1>2, SamePatch
  <2> QED BY <1>2, <2>1 DEF Ctrl, PositionsFit, Used, Track
<1>3. ASSUME NEW reason, reason # "ok", Refuse(reason) PROVE Track'
  BY <1>2, <1>3 DEF Refuse, Track
<1>4. CASE Header
  <2>1. CASE HeaderError # "none"
    <3>1. HeaderError # "ok"
      BY DEF HeaderError
    <3> QED BY <1>3, <1>4, <2>1, <3>1 DEF Header
  <2>2. CASE HeaderError = "none"
    <3>1. /\ pc' = "ctrl" /\ pc = "header"
          /\ UNCHANGED <<patch, entry, oldpos, newpos, diffAt, extraAt, result>>
      BY <1>4, <2>2 DEF Header
    <3>2. entry = 0 /\ newpos = 0 /\ diffAt = 0 /\ extraAt = 0 /\ oldpos = 0
      BY <3>1 DEF Inside, Track
    <3>3. Sums[0].new = 0 /\ Sums[0].diff = 0 /\ Sums[0].extra = 0 /\ Sums[0].old = 0
      BY <1>1, SumsFacts
    <3> QED BY <1>1, <1>2, <3>1, <3>2, <3>3 DEF Track
  <2> QED BY <2>1, <2>2
<1>5. CASE ReadControl
  <2>1. CASE Refuse("stream") \/ Refuse("negative size") \/ Refuse("past end")
    BY <1>3, <2>1
  <2>2. CASE ~ (Refuse("stream") \/ Refuse("negative size") \/ Refuse("past end"))
    <3>1. /\ pc = "ctrl" /\ newpos < patch.newSize /\ entry' = entry + 1 /\ pc' = "diff"
          /\ UNCHANGED <<patch, oldpos, newpos, diffAt, extraAt, new, result>>
      BY <1>5, <2>2 DEF ReadControl
    <3>2. Sums' = Sums
      BY <3>1, SamePatch
    <3>3. /\ newpos = Sums[entry].new /\ diffAt = Sums[entry].diff
          /\ extraAt = Sums[entry].extra
          /\ PositionsFit(entry) => oldpos = Sums[entry].old
      BY <3>1 DEF Track
    <3>4. \A j \in 0 .. entry' - 1 : Sums'[j].new < patch'.newSize
      BY <1>1, <3>1, <3>2, <3>3 DEF Track
    <3>5. PositionsFit(entry)' => PositionsFit(entry)
      <4>1. PositionsFit(entry)' <=> PositionsFit(entry + 1)
        BY <3>1, <3>2 DEF PositionsFit, Used
      <4> QED BY <1>1, <4>1, UsedGrows
    <3>6. entry' - 1 = entry
      BY <1>1, <3>1
    <3> QED BY <1>1, <3>1, <3>2, <3>3, <3>4, <3>5, <3>6 DEF Track
  <2> QED BY <2>1, <2>2
<1>6. ASSUME pc \in {"diff", "extra", "seek"}
      PROVE  /\ entry \in 1 .. N /\ Ctrl = patch.ctrl[entry]
             /\ Ctrl.diff \in Nat /\ Ctrl.extra \in Nat /\ Ctrl.seek \in Int
  <2>1. entry \in 1 .. N /\ Ctrl.diff >= 0 /\ Ctrl.extra >= 0
    BY <1>1, <1>6 DEF Inside, TypeInv
  <2> QED BY <2>1, <1>1, CtrlFacts DEF Ctrl
<1>7. CASE ReadDiff
  <2>1. CASE Refuse("stream") \/ Refuse("position")
    BY <1>3, <2>1
  <2>2. CASE ~ (Refuse("stream") \/ Refuse("position"))
    <3>1. /\ pc = "diff" /\ pc' = "extra" /\ newpos' = newpos + Ctrl.diff
          /\ diffAt' = diffAt + Ctrl.diff /\ oldpos' = oldpos + Ctrl.diff
          /\ UNCHANGED <<patch, entry, extraAt, result>>
      BY <1>7, <2>2 DEF ReadDiff
    <3>2. diffAt' = Sums[entry].diff
      BY <1>1, <1>6, <3>1, SumsStep DEF Track
    <3> QED BY <1>1, <1>2, <1>6, <3>1, <3>2 DEF Track
  <2> QED BY <1>7, <2>1, <2>2 DEF ReadDiff
<1>8. CASE ReadExtra
  <2>1. CASE Refuse("stream") \/ Refuse("past end")
    BY <1>3, <2>1
  <2>2. CASE ~ (Refuse("stream") \/ Refuse("past end"))
    <3>1. /\ pc = "extra" /\ pc' = "seek" /\ newpos' = newpos + Ctrl.extra
          /\ extraAt' = extraAt + Ctrl.extra
          /\ UNCHANGED <<patch, entry, oldpos, diffAt, result>>
      BY <1>8, <2>2 DEF ReadExtra
    <3>2. newpos' = Sums[entry].new /\ extraAt' = Sums[entry].extra
      BY <1>1, <1>6, <3>1, SumsStep DEF Track
    <3> QED BY <1>1, <1>2, <1>6, <3>1, <3>2 DEF Track
  <2> QED BY <1>8, <2>1, <2>2 DEF ReadExtra
<1>9. CASE Seek
  <2>1. CASE Refuse("position")
    BY <1>3, <2>1
  <2>2. CASE ~ Refuse("position")
    <3>1. /\ pc = "seek" /\ pc' = "ctrl" /\ oldpos' = AddInt64(oldpos, Ctrl.seek)
          /\ UNCHANGED <<patch, entry, newpos, diffAt, extraAt, new, result>>
      BY <1>9, <2>2 DEF Seek
    <3>2. ASSUME PositionsFit(entry) PROVE oldpos' = Sums[entry].old
      <4>1. oldpos = Sums[entry - 1].old + Ctrl.diff
        BY <3>1, <3>2 DEF Track
      <4>2. Sums[entry].old = oldpos + Ctrl.seek
        BY <1>1, <1>6, <3>1, <4>1, SumsStep
      <4>3. Sums[entry].old \in Int64
        BY <1>6, <3>1, <3>2, EntryUsed
      <4>4. oldpos \in Int
        BY <1>1, Constants DEF ConstFacts, Int64
      <4> QED BY <1>6, <3>1, <4>2, <4>3, <4>4, AddIsExact
    <3> QED BY <1>1, <1>2, <3>1, <3>2 DEF Track
  <2> QED BY <1>9, <2>1, <2>2 DEF Seek
<1>10. CASE Return
  BY <1>2, <1>10 DEF Return, Track
<1>11. CASE UNCHANGED vars
  BY <1>2, <1>11 DEF vars, Track
<1> QED BY <1>4, <1>5, <1>7, <1>8, <1>9, <1>10, <1>11 DEF Next


--------------------------------------------------------------------------------
(* The bytes of the output                                                  *)

\* Byte k is what the patch says, made once, or not yet made.
ByteIsRight(k) ==
  /\ k >= newpos => new[k] = Unset
  /\ (k < newpos /\ PositionsFit(entry)) =>
       \E n \in Used(entry) :
         k \in Sums[n - 1].new .. Sums[n].new - 1 /\ new[k] = Patched(k, n)
  /\ new[k][1] = "diff" => new[k][3] \in -1 .. OldSize - 1

BytesAreRight ==
  /\ pc = "header" => new = <<>>
  /\ pc \notin {"header", "done"} => DOMAIN new = Positions
  /\ \A k \in DOMAIN new : ByteIsRight(k)

LEMMA NextBytes == Inside /\ Track /\ BytesAreRight /\ [Next]_vars => BytesAreRight'
<1> SUFFICES ASSUME Inside, Track, BytesAreRight, [Next]_vars PROVE BytesAreRight'
  OBVIOUS
<1> DEFINE N == Len(patch.ctrl)
<1>1. /\ patch \in Patches /\ patch.newSize \in Int /\ N \in Nat /\ entry \in 0 .. N
      /\ newpos \in Nat /\ diffAt \in Nat /\ extraAt \in Nat /\ oldpos \in Int
  BY CtrlFacts, Constants DEF Inside, TypeInv, Int64, ConstFacts
<1>2. ASSUME patch' = patch
      PROVE  Sums' = Sums /\ Positions' = Positions /\ \A k, n : Patched(k, n)' = Patched(k, n)
  <2>1. Sums' = Sums
    BY <1>2, SamePatch
  <2> QED BY <1>2, <2>1 DEF Positions, Patched
<1>3. ASSUME patch' = patch, entry' = entry, newpos' = newpos, NEW k, new'[k] = new[k],
             ByteIsRight(k)
      PROVE  ByteIsRight(k)'
  BY <1>2, <1>3 DEF ByteIsRight, PositionsFit, Used, Patched
<1>4. ASSUME patch' = patch, entry' = entry, newpos' = newpos, new' = new, pc' # "header",
             pc' = "done" \/ pc \notin {"header", "done"}
      PROVE  BytesAreRight'
  BY <1>2, <1>3, <1>4 DEF BytesAreRight
<1>5. ASSUME NEW reason, Refuse(reason) PROVE BytesAreRight'
  BY <1>4, <1>5 DEF Refuse
<1>6. CASE Header
  <2>1. CASE HeaderError # "none"
    BY <1>5, <1>6, <2>1 DEF Header
  <2>2. CASE HeaderError = "none"
    <3>1. /\ new' = [k \in Positions |-> Unset] /\ newpos' = newpos /\ patch' = patch
          /\ entry' = entry /\ newpos = 0 /\ pc' = "ctrl"
      BY <1>6, <2>2 DEF Header, Inside
    <3>2. ASSUME NEW k \in Positions PROVE ByteIsRight(k)'
      <4>1. k \in Nat /\ new'[k] = <<"unset">>
        BY <1>1, <3>1 DEF Positions, Unset
      <4>2. ~ (k < newpos') /\ new'[k][1] # "diff" /\ new'[k] = Unset
        BY <3>1, <4>1 DEF Unset
      <4> QED BY <4>2 DEF ByteIsRight, Unset
    <3> QED BY <1>2, <3>1, <3>2 DEF BytesAreRight
  <2> QED BY <2>1, <2>2
<1>7. CASE ReadControl
  <2>1. CASE Refuse("stream") \/ Refuse("negative size") \/ Refuse("past end")
    BY <1>5, <2>1
  <2>2. CASE ~ (Refuse("stream") \/ Refuse("negative size") \/ Refuse("past end"))
    <3>1. /\ pc = "ctrl" /\ entry' = entry + 1 /\ pc' = "diff"
          /\ UNCHANGED <<patch, oldpos, newpos, diffAt, extraAt, new, result>>
      BY <1>7, <2>2 DEF ReadControl
    <3>2. ASSUME NEW k \in DOMAIN new PROVE ByteIsRight(k)'
      <4>1. ByteIsRight(k)
        BY DEF BytesAreRight
      <4>2. Used(entry) \subseteq Used(entry + 1) /\ (PositionsFit(entry + 1) => PositionsFit(entry))
        BY <1>1, UsedGrows
      <4>3. Used(entry)' = Used(entry + 1) /\ PositionsFit(entry)' = PositionsFit(entry + 1)
        BY <1>2, <3>1 DEF Used, PositionsFit
      <4>4. CASE k < newpos /\ PositionsFit(entry)'
        <5>1. PICK n \in Used(entry) :
                k \in Sums[n - 1].new .. Sums[n].new - 1 /\ new[k] = Patched(k, n)
          BY <4>1, <4>2, <4>3, <4>4 DEF ByteIsRight
        <5>2. n \in Used(entry)' /\ Patched(k, n)' = Patched(k, n)
          BY <1>2, <3>1, <4>2, <4>3, <5>1
        <5>3. k \in Sums'[n - 1].new .. Sums'[n].new - 1 /\ new'[k] = Patched(k, n)'
          BY <1>2, <3>1, <5>1, <5>2
        <5> QED BY <3>1, <4>1, <5>2, <5>3 DEF ByteIsRight
      <4>5. CASE ~ (k < newpos /\ PositionsFit(entry)')
        BY <3>1, <4>1, <4>5 DEF ByteIsRight
      <4> QED BY <4>4, <4>5
    <3> QED BY <1>2, <3>1, <3>2 DEF BytesAreRight
  <2> QED BY <2>1, <2>2
<1>8. ASSUME pc \in {"diff", "extra"}
      PROVE  /\ entry \in 1 .. N /\ Ctrl = patch.ctrl[entry] /\ entry \in Used(entry)
             /\ Ctrl.diff \in Nat /\ Ctrl.extra \in Nat
             /\ Sums[entry - 1].new \in Int /\ Sums[entry - 1].old \in Int
             /\ Sums[entry].new = Sums[entry - 1].new + Ctrl.diff + Ctrl.extra
  <2>1. entry \in 1 .. N /\ Ctrl.diff >= 0 /\ Ctrl.extra >= 0
    BY <1>1, <1>8 DEF Inside, TypeInv
  <2>2. Ctrl = patch.ctrl[entry]
    BY DEF Ctrl
  <2>3. Ctrl.diff \in Nat /\ Ctrl.extra \in Nat
    BY <1>1, <2>1, <2>2, CtrlFacts
  <2>4. entry \in Used(entry)
    BY <1>1, <2>1, EntryUsed
  <2> QED BY <1>1, <2>1, <2>2, <2>3, <2>4, SumsStep
<1>9. ASSUME UNCHANGED <<patch, entry>>, NEW k, newpos' > k,
             k \in Sums[entry - 1].new .. Sums[entry].new - 1,
             PositionsFit(entry) => new'[k] = Patched(k, entry),
             newpos' \in Int, k \in Int, entry \in Used(entry),
             new'[k][1] = "diff" => new'[k][3] \in -1 .. OldSize - 1
      PROVE  ByteIsRight(k)'
  <2>1. Sums' = Sums /\ Patched(k, entry)' = Patched(k, entry)
    BY <1>2, <1>9
  <2>2. Used(entry)' = Used(entry) /\ PositionsFit(entry)' = PositionsFit(entry)
    BY <1>9, <2>1 DEF Used, PositionsFit
  <2>3. PositionsFit(entry)' =>
          /\ entry \in Used(entry)' /\ k \in Sums'[entry - 1].new .. Sums'[entry].new - 1
          /\ new'[k] = Patched(k, entry)'
    BY <1>9, <2>1, <2>2
  <2>4. ~ (k >= newpos')
    BY <1>9
  <2> QED BY <1>9, <2>3, <2>4 DEF ByteIsRight
<1>10. ASSUME UNCHANGED <<patch, entry>>, NEW k, k \in Int, newpos' \in Int,
              newpos' >= newpos, k < newpos \/ k >= newpos', new'[k] = new[k],
              ByteIsRight(k)
       PROVE  ByteIsRight(k)'
  <2>1. Sums' = Sums /\ \A n : Patched(k, n)' = Patched(k, n)
    BY <1>2, <1>10
  <2>2. Used(entry)' = Used(entry) /\ PositionsFit(entry)' = PositionsFit(entry)
    BY <1>10, <2>1 DEF Used, PositionsFit
  <2>3. k < newpos' => k < newpos
    BY <1>1, <1>10
  <2>4. k >= newpos' => k >= newpos
    BY <1>1, <1>10
  <2> QED BY <1>10, <2>1, <2>2, <2>3, <2>4 DEF ByteIsRight
<1>11. CASE ReadDiff
  <2>1. CASE Refuse("stream") \/ Refuse("position")
    BY <1>5, <2>1
  <2>2. CASE ~ (Refuse("stream") \/ Refuse("position"))
    <3> DEFINE d == Ctrl.diff
    <3>1. /\ pc = "diff" /\ pc' = "extra" /\ newpos' = newpos + d
          /\ UNCHANGED <<patch, entry>>
          /\ new' = [k \in Positions |->
                       IF k >= newpos /\ k < newpos + d
                       THEN <<"diff", diffAt + k - newpos, OldIndex(k - newpos)>> ELSE new[k]]
          /\ ~ (oldpos > MaxInt - d)
      BY <1>11, <2>2 DEF ReadDiff
    <3>2. d \in Nat /\ Ctrl.extra \in Nat
      BY <1>8, <3>1
    <3>3. ASSUME NEW k \in Positions PROVE ByteIsRight(k)'
      <4>1. k \in Int
        BY <1>1 DEF Positions
      <4>2. CASE k >= newpos /\ k < newpos + d
        <5> DEFINE i == k - newpos
        <5>1. i \in Nat /\ i < d /\ k = newpos + i /\ newpos' > k /\ newpos' \in Int
          <6> HIDE DEF d
          <6> QED BY <1>1, <3>1, <3>2, <4>1, <4>2
        <5>2. new'[k] = <<"diff", diffAt + i, OldIndex(i)>>
          <6>1. diffAt + k - newpos = diffAt + i
            BY <1>1, <4>1
          <6> QED BY <3>1, <4>2, <6>1
        <5>3. /\ newpos = Sums[entry - 1].new /\ diffAt = Sums[entry - 1].diff
              /\ PositionsFit(entry) => oldpos = Sums[entry - 1].old
          BY <3>1 DEF Track
        <5>4. k \in Sums[entry - 1].new .. Sums[entry].new - 1
          <6> DEFINE b == Sums[entry - 1].new
                     s == Sums[entry].new
                     x == Ctrl.extra
          <6>1. s = newpos + d + x /\ b = newpos /\ x \in Nat
            BY <1>8, <3>1, <3>2, <5>3
          <6> HIDE DEF d, i, b, s, x
          <6>2. k \in b .. s - 1
            BY <1>1, <3>2, <5>1, <6>1
          <6> QED BY <6>2 DEF b, s
        <5>5. OldIndex(i) \in -1 .. OldSize - 1
          BY <1>1, <5>1, OldIndexInside
        <5>6. ASSUME PositionsFit(entry) PROVE new'[k] = Patched(k, entry)
          <6>1. oldpos = Sums[entry - 1].old /\ oldpos + d \in Int64
            BY <1>8, <3>1, <5>3, <5>6, EntryUsed
          <6>2. oldpos + i \in Int64 /\ oldpos + i \in Int
            <7>1. /\ oldpos \in Int64 /\ MaxInt \in Nat /\ oldpos + d \in Int64
                  /\ d \in Nat /\ i \in Nat /\ i < d
              BY <3>2, <5>1, <6>1, Constants DEF ConstFacts, Inside, TypeInv
            <7> HIDE DEF d, i
            <7> QED BY ONLY <7>1 DEF Int64
          <6>3. AddInt64(oldpos, i) = oldpos + i
            BY <1>1, <5>1, <6>2, AddIsExact
          <6>4. OldIndex(i) = IF oldpos + i \in 0 .. OldSize - 1 THEN oldpos + i ELSE Outside
            <7>1. OldSize \in Nat
              BY Constants DEF ConstFacts
            <7> HIDE DEF i
            <7> QED BY <6>2, <6>3, <7>1 DEF OldIndex
          <6>5. Patched(k, entry) =
                  <<"diff", diffAt + i,
                    IF oldpos + i \in 0 .. OldSize - 1 THEN oldpos + i ELSE Outside>>
            <7>1. k - Sums[entry - 1].new = i /\ patch.ctrl[entry].diff = d
              BY <1>8, <3>1, <5>3
            <7> HIDE DEF i, d
            <7> QED BY <5>1, <5>3, <6>1, <7>1 DEF Patched
          <6> QED BY <5>2, <6>4, <6>5
        <5>7. new'[k][1] = "diff" => new'[k][3] \in -1 .. OldSize - 1
          <6> HIDE DEF i
          <6> QED BY <5>2, <5>5
        <5> QED BY <1>8, <1>9, <3>1, <4>1, <5>1, <5>4, <5>6, <5>7
      <4>3. CASE ~ (k >= newpos /\ k < newpos + d)
        <5>1. new'[k] = new[k]
          BY <3>1, <4>3
        <5>2. ByteIsRight(k)
          BY <3>1 DEF BytesAreRight
        <5>3. newpos' \in Int /\ newpos' >= newpos /\ (k < newpos \/ k >= newpos')
          <6> HIDE DEF d
          <6> QED BY <1>1, <3>1, <3>2, <4>1, <4>3
        <5> QED BY <1>10, <3>1, <4>1, <5>1, <5>2, <5>3
      <4> QED BY <4>2, <4>3
    <3> QED BY <1>2, <3>1, <3>3 DEF BytesAreRight
  <2> QED BY <1>11, <2>1, <2>2 DEF ReadDiff
<1>12. CASE ReadExtra
  <2>1. CASE Refuse("stream") \/ Refuse("past end")
    BY <1>5, <2>1
  <2>2. CASE ~ (Refuse("stream") \/ Refuse("past end"))
    <3> DEFINE x == Ctrl.extra
    <3>1. /\ pc = "extra" /\ pc' = "seek" /\ newpos' = newpos + x
          /\ UNCHANGED <<patch, entry>>
          /\ new' = [k \in Positions |->
                       IF k >= newpos /\ k < newpos + x
                       THEN <<"extra", extraAt + k - newpos>> ELSE new[k]]
      BY <1>12, <2>2 DEF ReadExtra
    <3>2. x \in Nat /\ Ctrl.diff \in Nat
      BY <1>8, <3>1
    <3>3. ASSUME NEW k \in Positions PROVE ByteIsRight(k)'
      <4>1. k \in Int
        BY <1>1 DEF Positions
      <4>2. CASE k >= newpos /\ k < newpos + x
        <5> DEFINE b == Sums[entry - 1].new
                   s == Sums[entry].new
                   d == Ctrl.diff
        <5>1. /\ newpos = b + d /\ extraAt = Sums[entry - 1].extra
              /\ b \in Int /\ s = b + d + x /\ d \in Nat
              /\ patch.ctrl[entry].diff = d
          BY <1>8, <3>1 DEF Track
        <5>2. /\ newpos' > k /\ newpos' \in Int /\ k \in b .. s - 1
              /\ ~ (k - b < d) /\ extraAt + k - newpos = extraAt + (k - b) - d
          <6>1. newpos' = newpos + x /\ x \in Nat /\ newpos = b + d
            BY <3>1, <3>2, <5>1
          <6> HIDE DEF b, d, x, s
          <6> QED BY <1>1, <4>1, <4>2, <5>1, <6>1
        <5>3. new'[k] = <<"extra", extraAt + (k - b) - d>>
          BY <3>1, <4>2, <5>2
        <5>4. Patched(k, entry) = <<"extra", extraAt + (k - b) - d>>
          BY <5>1, <5>2 DEF Patched
        <5>5. new'[k][1] # "diff"
          BY <5>3
        <5> QED BY <1>8, <1>9, <3>1, <4>1, <5>2, <5>3, <5>4, <5>5
      <4>3. CASE ~ (k >= newpos /\ k < newpos + x)
        <5>1. new'[k] = new[k]
          BY <3>1, <4>3
        <5>2. ByteIsRight(k)
          BY <3>1 DEF BytesAreRight
        <5>3. newpos' \in Int /\ newpos' >= newpos /\ (k < newpos \/ k >= newpos')
          <6> HIDE DEF x
          <6> QED BY <1>1, <3>1, <3>2, <4>1, <4>3
        <5> QED BY <1>10, <3>1, <4>1, <5>1, <5>2, <5>3
      <4> QED BY <4>2, <4>3
    <3> QED BY <1>2, <3>1, <3>3 DEF BytesAreRight
  <2> QED BY <1>12, <2>1, <2>2 DEF ReadExtra
<1>13. CASE Seek
  <2>1. CASE Refuse("position")
    BY <1>5, <2>1
  <2>2. CASE ~ Refuse("position")
    BY <1>4, <1>13, <2>2 DEF Seek
  <2> QED BY <2>1, <2>2
<1>14. CASE Return
  BY <1>4, <1>14 DEF Return
<1>15. CASE UNCHANGED vars
  BY <1>2, <1>3, <1>15 DEF vars, BytesAreRight
<1> QED BY <1>6, <1>7, <1>11, <1>12, <1>13, <1>14, <1>15 DEF Next

LEMMA AlwaysRight == Spec => [](Inside /\ Track /\ BytesAreRight)
<1>1. Init => Track /\ BytesAreRight
  <2> SUFFICES ASSUME Init PROVE Track /\ BytesAreRight
    OBVIOUS
  <2>1. Track
    BY DEF Init, Track
  <2>2. BytesAreRight
    BY DEF Init, BytesAreRight
  <2> QED BY <2>1, <2>2
<1> QED BY <1>1, InitInside, NextInside, NextTrack, NextBytes, PTL DEF Spec

\* Apply computes the patch: whatever has been written of the output is what the
\* control entries say, in exact arithmetic, until a position no longer fits an int64.
THEOREM AppliesThePatch == Spec => []OutputIsThePatch
<1>1. ASSUME Inside, BytesAreRight PROVE OutputIsThePatch
  <2>1. result = "ok" => newpos = patch.newSize
    BY <1>1 DEF Inside
  <2> QED BY <1>1, <2>1 DEF OutputIsThePatch, BytesAreRight, ByteIsRight
<1> QED BY <1>1, AlwaysRight, PTL

--------------------------------------------------------------------------------
(* What Apply accepts                                                       *)

EntryFits(m) ==
  /\ patch.ctrl[m].diff >= 0 /\ patch.ctrl[m].extra >= 0
  /\ Sums[m].new <= patch.newSize
  /\ Sums[m].diff <= patch.diffBytes /\ Sums[m].extra <= patch.extraBytes

\* The entries read so far fit, and a refusal has a reason in the patch itself.
Judged ==
  /\ pc = "done" <=> result # "none"
  /\ pc \notin {"header", "done"} \/ result = "ok" => HeaderError = "none"
  /\ \A m \in 1 .. entry :
       m < entry \/ pc \in {"ctrl", "seek"} \/ result = "ok" => EntryFits(m)
  /\ pc = "extra" => diffAt <= patch.diffBytes
  /\ result \notin {"none", "ok"} /\ PositionsFit(entry) => ~ WellFormed

\* The entries read are among those a well-formed patch must get right.
LEMMA ReadIsUsed ==
  ASSUME Inside, Track
  PROVE  /\ 1 .. entry \subseteq Used(Len(patch.ctrl))
         /\ (entry < Len(patch.ctrl) /\ Sums[entry].new < patch.newSize) =>
              entry + 1 \in Used(Len(patch.ctrl))
<1>1. entry \in 0 .. Len(patch.ctrl) /\ Len(patch.ctrl) \in Nat
  BY CtrlFacts DEF Inside, TypeInv
<1>2. \A j \in 0 .. entry - 1 : Sums[j].new < patch.newSize
  BY DEF Track
<1> QED BY <1>1, <1>2 DEF Used

LEMMA NextJudged == Inside /\ Track /\ Judged /\ [Next]_vars => Judged'
<1> SUFFICES ASSUME Inside, Track, Judged, [Next]_vars PROVE Judged'
  OBVIOUS
<1> DEFINE N == Len(patch.ctrl)
<1>1. /\ patch \in Patches /\ patch.newSize \in Int /\ N \in Nat /\ entry \in 0 .. N
      /\ patch.diffBytes \in Nat /\ patch.extraBytes \in Nat /\ MaxInt \in Nat
      /\ newpos \in Nat /\ diffAt \in Nat /\ extraAt \in Nat /\ oldpos \in Int64
      /\ oldpos \in Int
  BY CtrlFacts, Constants DEF Inside, TypeInv, ConstFacts, Int64
<1>2. ASSUME patch' = patch
      PROVE  /\ Sums' = Sums /\ (WellFormed' <=> WellFormed) /\ HeaderError' = HeaderError
             /\ \A m : EntryFits(m)' <=> EntryFits(m)
  <2>1. Sums' = Sums
    BY <1>2, SamePatch
  <2> QED BY <1>2, <2>1 DEF WellFormed, HeaderError, Used, PositionsFit, EntryFits
<1>3. ASSUME patch' = patch, entry' = entry
      PROVE  PositionsFit(entry)' <=> PositionsFit(entry)
  BY <1>2, <1>3 DEF PositionsFit, Used
<1>4. ASSUME NEW reason, reason \notin {"none", "ok"}, Refuse(reason), pc # "done",
             PositionsFit(entry) => ~ WellFormed
      PROVE  Judged'
  BY <1>2, <1>3, <1>4 DEF Refuse, Judged
<1>5. CASE Header
  <2>1. CASE HeaderError # "none"
    <3>1. HeaderError # "ok" /\ ~ WellFormed
      BY <2>1 DEF HeaderError, WellFormed
    <3> QED BY <1>4, <1>5, <2>1, <3>1 DEF Header
  <2>2. CASE HeaderError = "none"
    <3>1. /\ pc = "header" /\ pc' = "ctrl" /\ UNCHANGED <<patch, entry, result>> /\ entry = 0
      BY <1>5, <2>2 DEF Header, Inside
    <3> QED BY <1>2, <2>2, <3>1 DEF Judged
  <2> QED BY <2>1, <2>2
<1>6. CASE ReadControl
  <2> DEFINE e == patch.ctrl[entry + 1]
  <2>1. /\ pc = "ctrl" /\ newpos < patch.newSize /\ newpos = Sums[entry].new
    BY <1>6 DEF ReadControl, Track
  <2>2. CASE entry = N
    <3>1. \A m \in 0 .. N : Sums[m].new < patch.newSize
      BY <1>1, <2>1, <2>2 DEF Track
    <3>2. ~ WellFormed
      BY <1>1, <3>1 DEF WellFormed, Used
    <3> QED BY <1>4, <1>6, <2>1, <2>2, <3>2 DEF ReadControl
  <2>3. CASE entry # N
    <3>1. entry + 1 \in 1 .. N /\ entry + 1 \in Used(N) /\ entry + 1 - 1 = entry
      BY <1>1, <2>1, <2>3, ReadIsUsed
    <3>2. /\ e.diff \in Int /\ e.extra \in Int /\ Sums[entry].new \in Int
          /\ Sums[entry + 1].new = Sums[entry].new + e.diff + e.extra
      <4> DEFINE n == entry + 1
      <4>1. n \in 1 .. N /\ n - 1 = entry
        BY <1>1, <3>1
      <4> HIDE DEF n
      <4>2. patch.ctrl[n].diff \in Int /\ patch.ctrl[n].extra \in Int
        BY <1>1, <4>1, CtrlFacts
      <4>3. /\ Sums[n - 1].new \in Int
            /\ Sums[n].new = Sums[n - 1].new + patch.ctrl[n].diff + patch.ctrl[n].extra
        BY <1>1, <4>1, SumsStep
      <4> QED BY <4>1, <4>2, <4>3 DEF n
    <3>3. CASE e.diff < 0 \/ e.extra < 0
      <4>1. ~ WellFormed
        BY <3>1, <3>2, <3>3 DEF WellFormed
      <4> QED BY <1>4, <1>6, <2>1, <2>3, <3>3, <4>1 DEF ReadControl
    <3>4. CASE ~ (e.diff < 0 \/ e.extra < 0) /\ e.diff > patch.newSize - newpos
      <4>1. ~ (Sums[entry + 1].new <= patch.newSize)
        BY <1>1, <2>1, <3>2, <3>4
      <4>2. ~ WellFormed
        BY <3>1, <4>1 DEF WellFormed
      <4> QED BY <1>4, <1>6, <2>1, <2>3, <3>4, <4>2 DEF ReadControl
    <3>5. CASE ~ (e.diff < 0 \/ e.extra < 0) /\ ~ (e.diff > patch.newSize - newpos)
      <4>1. /\ entry' = entry + 1 /\ pc' = "diff"
            /\ UNCHANGED <<patch, oldpos, newpos, diffAt, extraAt, new, result>>
        BY <1>6, <2>3, <3>5 DEF ReadControl
      <4>2. ASSUME NEW m \in 1 .. entry', m < entry' PROVE EntryFits(m)
        BY <1>1, <2>1, <4>1, <4>2 DEF Judged
      <4>3. result = "none" /\ HeaderError = "none"
        BY <2>1 DEF Judged
      <4> QED BY <1>2, <4>1, <4>2, <4>3 DEF Judged
    <3> QED BY <3>3, <3>4, <3>5
  <2> QED BY <2>2, <2>3
<1>7. ASSUME pc \in {"diff", "extra", "seek"}
      PROVE  /\ entry \in 1 .. N /\ entry \in Used(N) /\ Ctrl = patch.ctrl[entry]
             /\ Ctrl.diff \in Nat /\ Ctrl.extra \in Nat /\ Ctrl.seek \in Int
             /\ result = "none" /\ HeaderError = "none"
  <2>1. entry \in 1 .. N /\ Ctrl.diff >= 0 /\ Ctrl.extra >= 0
    BY <1>1, <1>7 DEF Inside, TypeInv
  <2>2. Ctrl.diff \in Int /\ Ctrl.extra \in Int /\ Ctrl.seek \in Int
    BY <1>1, <2>1, CtrlFacts DEF Ctrl
  <2>3. entry \in Used(N)
    BY <2>1, ReadIsUsed
  <2>4. result = "none" /\ HeaderError = "none"
    BY <1>7 DEF Judged
  <2> QED BY <2>1, <2>2, <2>3, <2>4 DEF Ctrl
<1>8. CASE ReadDiff
  <2> DEFINE d == Ctrl.diff
             total == Sums[entry].diff
             before == Sums[entry - 1].old
  <2>1. pc = "diff"
    BY <1>8 DEF ReadDiff
  <2>2. /\ d \in Nat /\ total = diffAt + d
        /\ PositionsFit(entry) => oldpos = before /\ before + d \in Int64
    <3>1. d \in Nat /\ d = patch.ctrl[entry].diff /\ entry > 0
      BY <1>1, <1>7, <2>1
    <3>2. total = diffAt + d
      BY <1>1, <1>7, <2>1, SumsStep DEF Track
    <3>3. PositionsFit(entry) => before + d \in Int64
      BY <3>1, EntryUsed
    <3> QED BY <2>1, <3>1, <3>2, <3>3 DEF Track
  <2>3. CASE patch.diffBytes - diffAt < d
    <3>1. ~ (total <= patch.diffBytes)
      <4> HIDE DEF d, total
      <4> QED BY <1>1, <2>2, <2>3
    <3>2. ~ WellFormed
      BY <1>7, <2>1, <3>1 DEF WellFormed
    <3> QED BY <1>4, <1>8, <2>1, <2>3, <3>2 DEF ReadDiff
  <2>4. CASE ~ (patch.diffBytes - diffAt < d) /\ oldpos > MaxInt - d
    <3>1. ~ PositionsFit(entry)
      <4>1. oldpos + d \notin Int64
        <5> HIDE DEF d
        <5> QED BY <1>1, <2>2, <2>4 DEF Int64
      <4> QED BY <2>2, <4>1
    <3> QED BY <1>4, <1>8, <2>1, <2>4, <3>1 DEF ReadDiff
  <2>5. CASE ~ (patch.diffBytes - diffAt < d) /\ ~ (oldpos > MaxInt - d)
    <3>1. /\ pc' = "extra" /\ diffAt' = diffAt + d /\ UNCHANGED <<patch, entry, result>>
      BY <1>8, <2>5 DEF ReadDiff
    <3>2. diffAt' <= patch.diffBytes
      <4> HIDE DEF d
      <4> QED BY <1>1, <2>2, <2>5, <3>1
    <3> QED BY <1>2, <1>7, <2>1, <3>1, <3>2 DEF Judged
  <2> QED BY <2>3, <2>4, <2>5
<1>9. CASE ReadExtra
  <2> DEFINE x == Ctrl.extra
             end == Sums[entry].new
             total == Sums[entry].extra
  <2>1. pc = "extra"
    BY <1>9 DEF ReadExtra
  <2>2. x \in Nat /\ end = newpos + x /\ total = extraAt + x
    BY <1>1, <1>7, <2>1, SumsStep DEF Track
  <2>3. CASE ~ ExtraFits
    <3>1. ~ (end <= patch.newSize)
      <4>1. ~ (x <= patch.newSize - newpos)
        BY <2>3 DEF ExtraFits
      <4> HIDE DEF x, end
      <4> QED BY <1>1, <2>2, <4>1
    <3>2. ~ WellFormed
      BY <1>7, <2>1, <3>1 DEF WellFormed
    <3> QED BY <1>4, <1>9, <2>1, <2>3, <3>2 DEF ReadExtra
  <2>4. CASE ExtraFits /\ patch.extraBytes - extraAt < x
    <3>1. ~ (total <= patch.extraBytes)
      <4> HIDE DEF x, total
      <4> QED BY <1>1, <2>2, <2>4
    <3>2. ~ WellFormed
      BY <1>7, <2>1, <3>1 DEF WellFormed
    <3> QED BY <1>4, <1>9, <2>1, <2>4, <3>2 DEF ReadExtra
  <2>5. CASE ExtraFits /\ ~ (patch.extraBytes - extraAt < x)
    <3>1. pc' = "seek" /\ UNCHANGED <<patch, entry, diffAt, result>>
      BY <1>9, <2>5 DEF ReadExtra
    <3>2. end <= patch.newSize /\ total <= patch.extraBytes
      <4>1. x <= patch.newSize - newpos
        BY <2>5 DEF ExtraFits
      <4> HIDE DEF x, end, total
      <4> QED BY <1>1, <2>2, <2>5, <4>1
    <3>3. Sums[entry].diff <= patch.diffBytes
      BY <2>1 DEF Judged, Track
    <3>4. EntryFits(entry)
      BY <1>7, <2>1, <3>2, <3>3 DEF EntryFits
    <3>5. \A m \in 1 .. entry : EntryFits(m)
      <4>1. \A m \in 1 .. entry : m < entry \/ m = entry
        BY <1>1
      <4> QED BY <3>4, <4>1 DEF Judged
    <3> QED BY <1>2, <1>7, <2>1, <3>1, <3>5 DEF Judged
  <2> QED BY <2>3, <2>4, <2>5
<1>10. CASE Seek
  <2> DEFINE k == Ctrl.seek
             after == Sums[entry].old
  <2>1. pc = "seek"
    BY <1>10 DEF Seek
  <2>2. k \in Int /\ (PositionsFit(entry) => after = oldpos + k /\ after \in Int64)
    BY <1>1, <1>7, <2>1, SumsStep, EntryUsed DEF Track
  <2>3. CASE SeekOverflows
    <3>1. ~ PositionsFit(entry)
      <4>1. oldpos > MaxInt - k
        BY <2>3 DEF SeekOverflows
      <4>2. oldpos + k \notin Int64
        <5> HIDE DEF k
        <5> QED BY <1>1, <2>2, <4>1 DEF Int64
      <4> QED BY <2>2, <4>2
    <3> QED BY <1>4, <1>10, <2>1, <2>3, <3>1 DEF Seek
  <2>4. CASE ~ SeekOverflows
    <3>1. pc' = "ctrl" /\ UNCHANGED <<patch, entry, result>>
      BY <1>10, <2>4 DEF Seek
    <3> QED BY <1>2, <1>7, <2>1, <3>1 DEF Judged
  <2> QED BY <2>3, <2>4
<1>11. CASE Return
  <2>1. /\ pc = "ctrl" /\ pc' = "done" /\ result' = "ok" /\ UNCHANGED <<patch, entry>>
    BY <1>11 DEF Return
  <2> QED BY <1>2, <2>1 DEF Judged
<1>12. CASE UNCHANGED vars
  BY <1>2, <1>3, <1>12 DEF vars, Judged
<1> QED BY <1>5, <1>6, <1>8, <1>9, <1>10, <1>11, <1>12 DEF Next

LEMMA AlwaysJudged == Spec => []Judged
<1>1. Init => Judged
  BY DEF Init, Judged
<1> QED BY <1>1, AlwaysRight, NextJudged, PTL DEF Spec

\* Apply accepts exactly the well-formed patches, as long as no position wraps: it
\* neither refuses a patch that could be applied nor accepts one that could not.
THEOREM AcceptsExactly == Spec => []AcceptsTheWellFormed
<1>1. ASSUME Inside, Track, Judged PROVE AcceptsTheWellFormed
  <2> SUFFICES ASSUME pc = "done", PositionsFit(entry) PROVE result = "ok" <=> WellFormed
    BY DEF AcceptsTheWellFormed
  <2> DEFINE N == Len(patch.ctrl)
  <2>1. CASE result # "ok"
    BY <1>1, <2>1 DEF Judged
  <2>2. CASE result = "ok"
    <3>1. entry \in 0 .. N /\ N \in Nat /\ patch.newSize \in Int
      BY <1>1, CtrlFacts DEF Inside, TypeInv
    <3>2. Sums[entry].new = patch.newSize
      BY <1>1, <2>2 DEF Inside, Track
    <3>3. \A j \in 0 .. entry - 1 : Sums[j].new < patch.newSize
      BY <1>1 DEF Track
    <3>4. Used(N) = 1 .. entry /\ Used(entry) = 1 .. entry
      <4>1. \A m \in 1 .. N : m > entry => entry \in 0 .. m - 1
        BY <3>1
      <4> QED BY <3>1, <3>2, <3>3, <4>1 DEF Used
    <3>5. \A m \in 1 .. entry : EntryFits(m)
      BY <1>1, <2>2 DEF Judged
    <3>6. HeaderError = "none"
      BY <1>1, <2>2 DEF Judged
    <3>7. PositionsFit(N)
      BY <3>4 DEF PositionsFit
    <3>8. entry \in Used(N) \cup {0}
      BY <3>1, <3>4
    <3> QED BY <2>2, <3>2, <3>4, <3>5, <3>6, <3>7, <3>8 DEF WellFormed, EntryFits
  <2> QED BY <2>1, <2>2
<1> QED BY <1>1, AlwaysRight, AlwaysJudged, PTL
================================================================================
