------------------------------ MODULE MCInstallOps ------------------------------
(* Instances of InstallOps for TLC: 32-value words, blocks of two bytes.     *)
EXTENDS InstallOps

Ext(s, n) == [start |-> s, num |-> n]

UpTo(n, S) == UNION {[1 .. k -> S] : k \in 0 .. n}

Plain == [kind |-> "zero", src |-> <<>>, dst |-> <<>>, srcHash |-> "right",
          dataHash |-> "right", yields |-> 0, length |-> 1]

Ops(kind, srcs, dsts, yields, srcHashes, dataHashes) ==
  {[kind |-> kind, src |-> s, dst |-> d, srcHash |-> sh, dataHash |-> dh,
    yields |-> y, length |-> 1] :
     s \in srcs, d \in dsts, y \in yields, sh \in srcHashes, dh \in dataHashes}

NeedsSource(ops) == \E i \in DOMAIN ops : ops[i].kind \in {"copy", "bsdiff"}

Jobs1(opSeqs, srcSizes, newSizes, skips) ==
  {[ops |-> s, hasSrc |-> NeedsSource(s), srcSize |-> z, newSize |-> n, skipVerify |-> v] :
     s \in opSeqs, z \in srcSizes, n \in newSizes, v \in skips}

Ones(S) == {<<x>> : x \in S}

Right == {"right"}
Hashes == {"right", "wrong"}

\* Good extents, and all that validateExtents refuses or skips: a sparse hole, an
\* end that wraps, an end beyond the addressable bytes, nothing at all.
Good == {Ext(0, 1), Ext(1, 2), Ext(3, 1), Ext(2, 0)}
Odd == {Ext(31, 0), Ext(30, 4), Ext(6, 2)}

\* Three extents, each valid, whose sum wraps to nothing; two whose sum is negative.
WrapToNothing == <<Ext(0, 7), Ext(0, 7), Ext(0, 2)>>
Negative == <<Ext(0, 4), Ext(3, 4)>>

FullOps ==
  Ops("zero", {<<>>}, UpTo(2, Good \cup Odd) \cup {WrapToNothing, Negative}, {0}, Right, Right)
    \cup Ops("replace", {<<>>}, UpTo(2, Good), {0, 2, 5}, Right, Hashes)
    \cup Ops("replace", {<<>>}, {WrapToNothing, Negative}, {0, 2}, Right, Right)

Small == {Ext(0, 1), Ext(2, 2), Ext(1, 0)}

DeltaOps ==
  Ops("copy", UpTo(2, Small), UpTo(2, Small \cup {Ext(30, 4)}), {0}, Hashes, Right)
    \cup Ops("bsdiff", UpTo(2, Small) \ {<<>>}, UpTo(2, Small), {2, 3}, Right, Right)
    \cup Ops("bsdiff", {<<Ext(1, 2)>>}, {<<Ext(0, 2)>>}, {4}, Hashes, Hashes)

\* Two operations, their destinations in any order, touching, nested or overlapping.
Dsts == {<<Ext(0, 1)>>, <<Ext(3, 1)>>, <<Ext(1, 2), Ext(0, 1)>>, <<Ext(0, 3)>>, <<Ext(0, 3), Ext(1, 1)>>,
         <<Ext(30, 4)>>}

Pairs ==
  {<<[Plain EXCEPT !.dst = d], [Plain EXCEPT !.kind = "copy", !.src = <<Ext(2, 1)>>, !.dst = e]>> :
     d \in Dsts, e \in {<<Ext(1, 1)>>, <<Ext(4, 1)>>, <<Ext(0, 1)>>}}

MCJobs ==
  Jobs1(Ones(FullOps), {0}, {4}, {FALSE})
    \cup Jobs1(Ones(DeltaOps), {5, 12}, {7}, BOOLEAN)
    \cup Jobs1(Pairs, {5, 12}, {0, 7, 10}, {FALSE})

\* A patch over a source span of two extents, each addressable, together not.
MCJobsWrapped ==
  Jobs1(Ones(Ops("bsdiff", {Negative, <<Ext(0, 2), Ext(1, 1)>>, <<Ext(0, 7), Ext(0, 7)>>},
                 UpTo(2, Small), {2, 3}, Right, Right)), {12, 14}, {7}, {FALSE})
================================================================================
