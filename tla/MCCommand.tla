------------------------------- MODULE MCCommand -------------------------------
(* Instances of Command for TLC: int64 is -16 .. 15, a header has 3 bytes.   *)
EXTENDS Command

Good == [magic |-> TRUE, version |-> TRUE, manifestLen |-> 4, sigLen |-> 2, size |-> 12,
         parses |-> TRUE]

\* Every length of the manifest, from none to the largest uint64.
Sized == {[Good EXCEPT !.manifestLen = m, !.sigLen = s, !.size = n] :
            m \in 0 .. 2 * MaxInt + 1, s \in 0 .. MaxSigLen, n \in {0, 2, 9, MaxInt}}

Bad == {[Good EXCEPT !.magic = FALSE], [Good EXCEPT !.version = FALSE], [Good EXCEPT !.parses = FALSE]}

Entry(exact, base, empty, stored) ==
  [exact |-> exact, base |-> base, empty |-> empty, stored |-> stored]

Entries ==
  {<<>>, <<Entry(FALSE, FALSE, FALSE, TRUE)>>, <<Entry(TRUE, TRUE, TRUE, TRUE)>>}
    \cup {<<Entry(FALSE, TRUE, FALSE, a), Entry(b, TRUE, c, ~ a)>> : a, b, c \in BOOLEAN}

Input(kind, entries, header) == [kind |-> kind, entries |-> entries, header |-> header]

MCInputs ==
  {Input(k, <<>>, Good) : k \in {"missing", "short", "other"}}
    \cup {Input("payload", <<>>, h) : h \in Sized \cup Bad}
    \cup {Input("zip", e, h) : e \in Entries, h \in Bad \cup {Good}}
================================================================================
