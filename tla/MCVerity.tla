------------------------------- MODULE MCVerity -------------------------------
(* Instance of Verity for TLC: blocks of 8 bytes, 31 of them addressable,     *)
(* digests of 3 and 2 bytes, codewords of 5 symbols with 2 or 3 roots.        *)
EXTENDS Verity

Ext(s, n) == [start |-> s, num |-> n]
None == Ext(0, 0)

MCDigestLen == [sha1 |-> 3, sha256 |-> 2]

Part(tree, data, fec, fecData, algorithm, roots, size) ==
  [tree |-> tree, data |-> data, fec |-> fec, fecData |-> fecData,
   algorithm |-> algorithm, roots |-> roots, size |-> size]

\* Trees of one to four levels, with a size that is right or wrong, in front of,
\* behind and inside the data, at the end of the image and beyond.
Trees ==
  {Part(Ext(s, n), Ext(d, m), None, None, a, 2, z) :
     s \in {0, 2, 9, 254}, n \in {1, 3, 4, 6, 11}, d \in {0, 3, 11}, m \in {0, 1, 4, 5, 9},
     a \in {"", "sha256", "md5"}, z \in {96, 160}}

\* The sizes of the parity of 1 to 7 data blocks, right and wrong.
Parities ==
  {Part(t, Ext(1, 2), Ext(s, n), Ext(d, m), "sha256", r, z) :
     t \in {None, Ext(0, 1)}, s \in {0, 7, 12, 25}, n \in {2, 3, 4, 6, 9}, d \in {0, 3},
     m \in {0, 1, 4, 7}, r \in 1 .. 4, z \in {120, 248}}

MCParts == Trees \cup Parities
================================================================================
