----------------------------- MODULE FileStore -----------------------------
(***************************************************************************)
(* What lies under the data paths and is not part of the repository: one   *)
(* file of a file system on an NVMe namespace, opened O_DIRECT, and the    *)
(* HOMI daemon that tells the aisio backend where the file's blocks are.   *)
(* Modelled from how src/src/opends_common.c and opends_aisio.c use them.  *)
(*                                                                         *)
(* A byte is <<o, k>>: byte k of the buffer operation o writes from, or    *)
(* of the file as it was made when o is 0.                                 *)
(***************************************************************************)
EXTENDS Integers, Sequences, FiniteSets

CONSTANTS Align,     \* OPENDS_DIRECT_ALIGN, and the file system's block
          Lba,       \* lba_size
          NBlocks,   \* bound: blocks of the file
          Place,     \* Place[b]: the LBA where block b is, once allocated
          Sizes      \* the sizes the file may have when the model starts

Blocks    == 0 .. NBlocks - 1
Positions == 0 .. NBlocks * Align - 1
Zero      == <<0, 0>>

ASSUME StoreAssumption ==
  /\ Align \in Nat \ {0} /\ Lba \in Nat \ {0} /\ Align % Lba = 0
  /\ NBlocks \in Nat /\ Place \in [Blocks -> Nat]
  /\ \A b, c \in Blocks : \/ b = c \/ Place[b] + Align \div Lba <= Place[c]
                          \/ Place[c] + Align \div Lba <= Place[b]
  /\ Sizes \subseteq 0 .. NBlocks * Align

Junk      == <<-1, 0>>   \* what a buffer holds before anything is put there

VARIABLES
  data, size,     \* the file's bytes, zero from size on; st_size
  blocks,         \* its allocated blocks
  cache, dirty,   \* the blocks HOMI knows of; marked dirty since
  (* The read an application makes, whichever backend serves it *)
  rpc, rq,        \* where it is; what was asked for
  buf, rret       \* the caller's buffer; what the read returned

fileVars  == <<data, size, blocks>>
homiVars  == <<cache, dirty>>
storeVars == <<fileVars, homiVars>>
readVars  == <<rpc, rq, buf, rret>>

\* Offsets into a caller's buffer, the bytes after it included.
Offsets == 0 .. (NBlocks + 2) * Align

BlocksOf(from, to) == {b \in Blocks : b * Align < to /\ from < (b + 1) * Align}

StoreInit ==
  /\ size \in Sizes
  /\ data = [p \in Positions |-> IF p < size THEN <<0, p + 1>> ELSE Zero]
  /\ blocks = BlocksOf(0, size)
  /\ cache = blocks /\ dirty = FALSE
  /\ rpc = "idle" /\ rq = [mode |-> "async", off |-> 0, n |-> 0]
  /\ buf = [k \in Offsets |-> Junk] /\ rret = -1
-----------------------------------------------------------------------------
(***************************************************************************)
(* The system calls.  A read past the end of the file is short; the caller *)
(* fills up with zeros, which data holds there.                            *)
(***************************************************************************)
\* n bytes at from, out of a buffer whose first byte belongs at base.
Pwrite(from, n, bytes, base) ==
  /\ data' = [p \in Positions |->
                IF p \in from .. from + n - 1 THEN bytes[p - base] ELSE data[p]]
  /\ size' = IF n > 0 /\ from + n > size THEN from + n ELSE size
  /\ blocks' = blocks \cup BlocksOf(from, from + n)

Ftruncate(to) ==
  /\ data' = [p \in Positions |-> IF p < to THEN data[p] ELSE Zero]
  /\ size' = to
  /\ blocks' = blocks \cap BlocksOf(0, to)
-----------------------------------------------------------------------------
(***************************************************************************)
(* HOMI: a write marks the device dirty, homic_get_extents is -ESTALE      *)
(* until the daemon has looked at the file system again.                   *)
(***************************************************************************)
MarkDirty == dirty' = TRUE /\ UNCHANGED cache

Refresh ==
  /\ dirty
  /\ cache' = blocks /\ dirty' = FALSE
  /\ UNCHANGED fileVars

\* An extent begins where a block does not follow the one before it.
Follows(b) == b - 1 \in cache /\ Place[b] = Place[b - 1] + Align \div Lba
RunEnd(b)  == CHOOSE e \in b + 1 .. NBlocks :
                /\ \A c \in b + 1 .. e - 1 : c \in cache /\ Follows(c)
                /\ e \notin cache \/ ~Follows(e)

InOrder(S) == CHOOSE s \in [1 .. Cardinality(S) -> S] :
                \A i, j \in 1 .. Cardinality(S) : i < j => s[i] < s[j]

Extents ==
  LET starts == InOrder({b \in cache : ~Follows(b)})
  IN  [k \in 1 .. Len(starts) |->
         [fo |-> starts[k] * Align, slba |-> Place[starts[k]],
          len |-> (RunEnd(starts[k]) - starts[k]) * Align]]

\* The byte at offset k of an LBA: the file's if a block of it lies there.
OnDevice(lba, k) ==
  LET at == {p \in Positions :
               /\ p \div Align \in blocks
               /\ Place[p \div Align] + (p % Align) \div Lba = lba
               /\ p % Lba = k}
  IN  IF at = {} THEN Zero ELSE data[CHOOSE p \in at : TRUE]
=============================================================================
