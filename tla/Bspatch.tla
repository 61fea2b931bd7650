-------------------------------- MODULE Bspatch --------------------------------
(***************************************************************************)
(* bspatch.Apply (internal/bspatch/bspatch.go): the header checks and the  *)
(* control loop, with int64 positions.  A control entry [diff, extra,      *)
(* seek] adds diff bytes of the diff stream to the old data, copies extra  *)
(* bytes of the extra stream and moves the old position by seek.           *)
(*                                                                         *)
(* A byte of the result is known by what it was made of:                   *)
(* <<"diff", d, p>> is byte d of the diff stream plus old[p] (or plus      *)
(* nothing when p is Outside), <<"extra", x>> byte x of the extra stream.  *)
(***************************************************************************)
EXTENDS Integers, Sequences

CONSTANTS
  MaxInt,     \* math.MaxInt64
  Patches,    \* patches, as decompressed
  OldSize,    \* len(old)
  MaxNewSize  \* the capacity of the destination extents

\* parseInt64 reads sign and magnitude: -2^63 does not occur.
Parsed == -MaxInt .. MaxInt

PatchType ==
  [magic : {"BSDIFF40", "BSDF2", "other"}, compressors : {"known", "unknown"},
   ctrlLen : Parsed, diffLen : Parsed, newSize : Parsed, body : 0 .. MaxInt, whole : BOOLEAN,
   ctrl : Seq([diff : Parsed, extra : Parsed, seek : Parsed]), diffBytes : Nat, extraBytes : Nat]

ASSUME BspatchAssumption ==
  /\ MaxInt \in Nat \ {0} /\ OldSize \in 0 .. MaxInt /\ MaxNewSize \in -MaxInt - 1 .. MaxInt
  /\ \A p \in Patches : p \in PatchType

VARIABLES
  patch,    \* the patch being applied
  pc,       \* "header", "ctrl", "diff", "extra", "seek" or "done"
  entry,    \* control entries read
  oldpos, newpos,
  diffAt, extraAt,  \* bytes taken of the two streams
  new,      \* [0 .. newSize - 1 -> what a byte is made of]
  result    \* "none", "ok" or the reason Apply refused the patch

vars == <<patch, pc, entry, oldpos, newpos, diffAt, extraAt, new, result>>

Int64 == -MaxInt - 1 .. MaxInt

\* int64 addition.
AddInt64(a, b) == ((a + b + MaxInt + 1) % (2 * (MaxInt + 1))) - (MaxInt + 1)

Unset == <<"unset">>
Outside == -1

Ctrl == patch.ctrl[entry]

Positions == 0 .. patch.newSize - 1

Init ==
  /\ patch \in Patches
  /\ pc = "header" /\ entry = 0
  /\ oldpos = 0 /\ newpos = 0 /\ diffAt = 0 /\ extraAt = 0
  /\ new = <<>> /\ result = "none"

Refuse(reason) ==
  /\ pc' = "done" /\ result' = reason
  /\ UNCHANGED <<patch, entry, oldpos, newpos, diffAt, extraAt, new>>

\* The length checks of lines 28-50, then one decompressor per stream.
HeaderError ==
  IF ~ patch.whole THEN "too small"
  ELSE IF patch.magic = "other" THEN "magic"
  ELSE IF \/ patch.ctrlLen < 0 \/ patch.diffLen < 0 \/ patch.newSize < 0
          \/ patch.body < patch.ctrlLen \/ patch.body - patch.ctrlLen < patch.diffLen
  THEN "header"
  ELSE IF patch.newSize > MaxNewSize THEN "capacity"
  ELSE IF patch.magic = "BSDF2" /\ patch.compressors = "unknown" THEN "compressor"
  ELSE "none"

Header ==
  /\ pc = "header"
  /\ IF HeaderError # "none" THEN Refuse(HeaderError)
     ELSE /\ pc' = "ctrl" /\ new' = [k \in Positions |-> Unset]
          /\ UNCHANGED <<patch, entry, oldpos, newpos, diffAt, extraAt, result>>

ReadControl ==
  /\ pc = "ctrl" /\ newpos < patch.newSize
  /\ IF entry = Len(patch.ctrl) THEN Refuse("stream")
     ELSE LET e == patch.ctrl[entry + 1] IN
          IF e.diff < 0 \/ e.extra < 0 THEN Refuse("negative size")
          ELSE IF e.diff > patch.newSize - newpos THEN Refuse("past end")
          ELSE /\ entry' = entry + 1 /\ pc' = "diff"
               /\ UNCHANGED <<patch, oldpos, newpos, diffAt, extraAt, new, result>>

\* Mutant of OldIndex: only the upper bound is tested.
OldIndexAbove(i) ==
  LET p == AddInt64(oldpos, i) IN IF p < OldSize THEN p ELSE Outside

\* Where in the old data byte i of a diff block reads, if anywhere.
OldIndex(i) ==
  LET p == AddInt64(oldpos, i) IN IF p >= 0 /\ p < OldSize THEN p ELSE Outside

ReadDiff ==
  /\ pc = "diff"
  /\ IF patch.diffBytes - diffAt < Ctrl.diff THEN Refuse("stream")
     ELSE IF oldpos > MaxInt - Ctrl.diff THEN Refuse("position")
     ELSE /\ new' = [k \in Positions |->
                       IF k >= newpos /\ k < newpos + Ctrl.diff
                       THEN <<"diff", diffAt + k - newpos, OldIndex(k - newpos)>> ELSE new[k]]
          /\ newpos' = newpos + Ctrl.diff
          /\ diffAt' = diffAt + Ctrl.diff
          /\ oldpos' = oldpos + Ctrl.diff
          /\ pc' = "extra"
          /\ UNCHANGED <<patch, entry, extraAt, result>>

\* Mutant of ExtraFits: compared with the whole output, as a slip would have it.
ExtraFitsWhole == Ctrl.extra <= patch.newSize

ExtraFits == Ctrl.extra <= patch.newSize - newpos

ReadExtra ==
  /\ pc = "extra"
  /\ IF ~ ExtraFits THEN Refuse("past end")
     ELSE IF patch.extraBytes - extraAt < Ctrl.extra THEN Refuse("stream")
     ELSE /\ new' = [k \in Positions |->
                       IF k >= newpos /\ k < newpos + Ctrl.extra
                       THEN <<"extra", extraAt + k - newpos>> ELSE new[k]]
          /\ newpos' = newpos + Ctrl.extra
          /\ extraAt' = extraAt + Ctrl.extra
          /\ pc' = "seek"
          /\ UNCHANGED <<patch, entry, oldpos, diffAt, result>>

\* Mutant of SeekOverflows: off by one.
SeekOverflowsEarly == Ctrl.seek > 0 /\ oldpos >= MaxInt - Ctrl.seek

\* Only increments upwards are checked.
SeekOverflows == Ctrl.seek > 0 /\ oldpos > MaxInt - Ctrl.seek

Seek ==
  /\ pc = "seek"
  /\ IF SeekOverflows THEN Refuse("position")
     ELSE /\ oldpos' = AddInt64(oldpos, Ctrl.seek)
          /\ pc' = "ctrl"
          /\ UNCHANGED <<patch, entry, newpos, diffAt, extraAt, new, result>>

Return ==
  /\ pc = "ctrl" /\ newpos >= patch.newSize
  /\ pc' = "done" /\ result' = "ok"
  /\ UNCHANGED <<patch, entry, oldpos, newpos, diffAt, extraAt, new>>

Next == Header \/ ReadControl \/ ReadDiff \/ ReadExtra \/ Seek \/ Return

Spec == Init /\ [][Next]_vars

--------------------------------------------------------------------------------
(* The patch as a function, in exact arithmetic                             *)

\* Sums over the first n control entries.
Sums ==
  LET sum[n \in 0 .. Len(patch.ctrl)] ==
        IF n = 0 THEN [new |-> 0, diff |-> 0, extra |-> 0, old |-> 0]
        ELSE LET e == patch.ctrl[n] s == sum[n - 1]
             IN  [new |-> s.new + e.diff + e.extra, diff |-> s.diff + e.diff,
                  extra |-> s.extra + e.extra, old |-> s.old + e.diff + e.seek]
  IN  sum

\* Byte k of the new data, made by entry n.
Patched(k, n) ==
  LET e == patch.ctrl[n] before == Sums[n - 1] i == k - before.new IN
  IF i < e.diff
  THEN <<"diff", before.diff + i,
         IF before.old + i \in 0 .. OldSize - 1 THEN before.old + i ELSE Outside>>
  ELSE <<"extra", before.extra + i - e.diff>>

\* The entries up to the n-th that Apply reads: those before the output is full.
Used(n) == {m \in 1 .. n : \A j \in 0 .. m - 1 : Sums[j].new < patch.newSize}

PositionsFit(n) ==
  \A m \in Used(n) : Sums[m].old \in Int64 /\ Sums[m - 1].old + patch.ctrl[m].diff \in Int64

WellFormed ==
  LET used == Used(Len(patch.ctrl)) IN
  /\ HeaderError = "none"
  /\ \A m \in used : /\ patch.ctrl[m].diff >= 0 /\ patch.ctrl[m].extra >= 0
                     /\ Sums[m].new <= patch.newSize
                     /\ Sums[m].diff <= patch.diffBytes /\ Sums[m].extra <= patch.extraBytes
  /\ \E m \in used \cup {0} : Sums[m].new = patch.newSize
  /\ PositionsFit(Len(patch.ctrl))

--------------------------------------------------------------------------------
(* Properties                                                               *)

\* Positions are int64 values, the new position stays inside the output, and so
\* do the two slices ReadFull fills (bspatch.go:81 and 97): Apply never panics.
TypeInv ==
  /\ pc \in {"header", "ctrl", "diff", "extra", "seek", "done"}
  /\ entry \in 0 .. Len(patch.ctrl)
  /\ oldpos \in Int64
  /\ newpos \in Nat /\ diffAt \in Nat /\ extraAt \in Nat
  /\ pc \notin {"header", "done"} => newpos <= patch.newSize
  /\ pc = "diff" => Ctrl.diff >= 0 /\ newpos + Ctrl.diff <= patch.newSize
  /\ pc \in {"diff", "extra", "seek"} => entry > 0 /\ Ctrl.diff >= 0 /\ Ctrl.extra >= 0

\* What is in the output so far is the mathematical patch, each byte made once,
\* from the right bytes of both streams and of the old data, as long as the old
\* position fits an int64; and a byte of old data is read inside its bounds only.
OutputIsThePatch ==
  /\ result = "ok" => newpos = patch.newSize
  /\ pc = "header" \/ \A k \in DOMAIN new :
       /\ k >= newpos => new[k] = Unset
       /\ (k < newpos /\ PositionsFit(entry)) =>
            \E n \in Used(entry) :
              k \in Sums[n - 1].new .. Sums[n].new - 1 /\ new[k] = Patched(k, n)
       /\ new[k][1] = "diff" => new[k][3] \in -1 .. OldSize - 1

\* Apply accepts a patch if and only if its entries, up to the one that fills the
\* output, fit the header, both streams, the output and the int64 positions; what
\* follows in the control stream is of no interest. Positions are taken to fit:
\* one that wraps downwards is not noticed (bspatch.go:101).
AcceptsTheWellFormed ==
  pc = "done" /\ PositionsFit(entry) => (result = "ok" <=> WellFormed)
================================================================================
