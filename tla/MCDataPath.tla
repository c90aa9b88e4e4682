----------------------------- MODULE MCDataPath -----------------------------
(* The instances of the data paths that TLC checks. *)
EXTENDS DataPath, TLC

\* Blocks 0 and 1 lie next to each other, block 2 before them.
Fragmented == (0 :> 4) @@ (1 :> 5) @@ (2 :> 2)

W(off, n)    == [off |-> off, n |-> n]
R(m, off, n) == [mode |-> m, off |-> off, n |-> n]

\* Within a block, across blocks with head and tail, whole blocks, a tail with
\* no head, past the end of the file with a hole, empty.
SomeWrites == {W(1, 2), W(2, 5), W(0, 8), W(8, 3), W(3, 0)}
TwoWrites  == {W(0, 2), W(2, 1), W(5, 2)}

\* Head only, head and middle and tail, a head the middle cannot follow, all
\* extents, nothing, the largest offset; a stream's, with and without a head.
SomeReads ==
  {R("async", 1, 2), R("async", 2, 9), R("async", 3, 6), R("async", 0, 12),
   R("async", 0, 0), R("async", 18, 4), R("stream", 4, 7), R("stream", 2, 4),
   R("stream", 0, 6)}
=============================================================================
