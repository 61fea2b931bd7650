------------------------------- MODULE MCBspatch -------------------------------
(* Instances of Bspatch for TLC: int64 is -8 .. 7.                           *)
EXTENDS Bspatch

Entries(diffs, extras, seeks) ==
  {[diff |-> d, extra |-> x, seek |-> s] : d \in diffs, x \in extras, s \in seeks}

Plain ==
  [magic |-> "BSDF2", compressors |-> "known", ctrlLen |-> 2, diffLen |-> 2, newSize |-> 3,
   body |-> 5, whole |-> TRUE, ctrl |-> <<>>, diffBytes |-> 3, extraBytes |-> 3]

With(ctrls, diffs, extras, sizes) ==
  {[Plain EXCEPT !.ctrl = c, !.diffBytes = d, !.extraBytes = x, !.newSize = n] :
     c \in ctrls, d \in diffs, x \in extras, n \in sizes}

Long == Entries({0, 1}, {0, 1}, {-7, 1, 7})
Wide == Entries({-1, 0, 1, 3}, {-1, 0, 2}, {-6, 0, 7})

Headers ==
  {[Plain EXCEPT !.ctrl = <<[diff |-> 2, extra |-> 1, seek |-> 0]>>, !.magic = m, !.compressors = t,
                 !.ctrlLen = c, !.diffLen = d, !.body = b, !.whole = w, !.newSize = n] :
     m \in {"BSDIFF40", "BSDF2", "other"}, t \in {"known", "unknown"},
     c \in {-1, 0, 4}, d \in {-2, 0, 7}, b \in {0, 4, 7}, w \in BOOLEAN, n \in {-1, 0, 3, 5}}

MCPatches ==
  With([1 .. 3 -> Long], {2}, {3}, {3})
    \cup With([1 .. 2 -> Wide], {0, 3}, {2}, {4})
    \cup Headers
================================================================================
