------------------------------- MODULE MCExtract -------------------------------
(* Instances of Extract for TLC: manifests, requests and prior disk states. *)
EXTENDS Extract, TLC

Reads(kind) == kind \in {"copy", "bsdiff"}

Hashed(kind) ==
  [kind |-> kind, srcExtents |-> Reads(kind), srcHash |-> TRUE, dataHash |-> TRUE,
   dataOk |-> TRUE, fills |-> TRUE]
Unhashed(kind) == [Hashed(kind) EXCEPT !.srcHash = FALSE, !.dataHash = FALSE]
Corrupt(kind) == [Hashed(kind) EXCEPT !.dataOk = FALSE]
TooShort(kind) == [Hashed(kind) EXCEPT !.fills = FALSE]

Full(name, ops) ==
  [name |-> name, ops |-> ops, gaps |-> FALSE, oldSize |-> FALSE, oldHash |-> FALSE,
   newHash |-> TRUE, tree |-> TRUE, fec |-> TRUE]

Delta(name, ops) ==
  [name |-> name, ops |-> ops, gaps |-> TRUE, oldSize |-> TRUE, oldHash |-> TRUE,
   newHash |-> TRUE, tree |-> FALSE, fec |-> FALSE]

\* A full partition with verity, an incremental one with unwritten blocks, one whose
\* patch is too short, one whose operation lacks source extents, and one with corrupted
\* data.
MCManifest ==
  <<Full("boot", <<Hashed("replace")>>), Delta("system", <<Hashed("copy")>>),
    Delta("vendor", <<TooShort("bsdiff")>>),
    Delta("odm", <<[Hashed("copy") EXCEPT !.srcExtents = FALSE]>>),
    [Full("product", <<Corrupt("replace")>>) EXCEPT !.tree = FALSE, !.fec = FALSE]>>

Out(n, regions) == OutPath(n) :> regions
Source(n, regions) == <<"src", n>> :> regions

\* The source images of vendor and odm are as they should be. Those of system in the
\* output directory and in the directory of sources: whole and unlike it; too small
\* and whole; missing and damaged where no operation reads it.
Sources == Source("vendor", OldImage(3)) @@ Source("odm", OldImage(4))

MCDisks ==
  {Sources @@ Out("boot", Image(1)) @@ Out("system", OldImage(2)) @@ Source("system", {}),
   Sources @@ Out("boot", Image(1)) @@ Out("system", {Short}) @@ Source("system", OldImage(2)),
   Sources @@ Source("system", OldImage(2) \ {Old(2, 0)})}

Options(names, sources, skips, nofecs) ==
  [names : names, source : sources, skipVerify : skips, noFEC : nofecs]

MCOptions ==
  Options({<<"boot", "system">>}, {"dir", "output"}, BOOLEAN, BOOLEAN)
    \cup Options({<<"boot", "boot">>}, {"dir"}, {FALSE}, {FALSE})
    \cup Options({<<"system", "system">>}, {"output"}, {FALSE}, {FALSE})
    \cup Options({<<"system">>}, {"none"}, {FALSE}, {FALSE})
    \cup Options({<<"vendor", "odm">>, <<"vendor", "product">>}, {"dir"}, {FALSE}, {FALSE})

\* An incremental update of system over an output directory that has complete
\* images, its source image missing or too small.
MCOptionsRemove == Options({<<"boot", "system">>}, {"dir"}, {FALSE}, {FALSE})

MCDisksRemove ==
  {Out("boot", Image(1)) @@ Out("system", Image(2)), Source("system", OldImage(2))}

\* A partition with a corrupted operation.
MCManifestCorrupt ==
  <<Full("boot", <<Hashed("zero")>>), Full("vendor", <<Unhashed("zero"), Corrupt("replace")>>)>>

MCDisksNone == {<<>>}

MCOptionsNoVerify == Options({<<>>}, {"dir"}, {TRUE}, {FALSE})

\* Three partitions for two slots.  Two of them have one name; the second of these has
\* an operation without data that has source extents all the same.
MCManifest3 ==
  <<[Full("boot", <<Hashed("replace")>>) EXCEPT !.tree = FALSE, !.fec = FALSE],
    Delta("boot", <<[Hashed("zero") EXCEPT !.srcExtents = TRUE]>>),
    [Delta("system", <<Unhashed("copy")>>) EXCEPT !.fec = TRUE, !.gaps = FALSE]>>

MCOptions3 ==
  Options({<<>>}, {"dir"}, {FALSE}, {TRUE})
    \cup Options({<<"boot", "system", "boot">>}, {"dir", "output"}, {FALSE}, {FALSE})
    \cup Options({<<"boot", "nosuch">>}, {"dir"}, {FALSE}, {FALSE})

\* The source is whole in the output directory, and in the directory of sources it is
\* whole or damaged where no operation reads it.
MCDisks3 ==
  {Out("boot", OldImage(2)) @@ Out("system", OldImage(3)) @@ Source("boot", source)
     @@ Source("system", OldImage(3)) : source \in {OldImage(2), OldImage(2) \ {Old(2, 0)}}}
================================================================================
