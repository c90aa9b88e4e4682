------------------------------ MODULE DirectIo ------------------------------
(***************************************************************************)
(* Unaligned I/O on an O_DIRECT file (src/src/opends_common.c):            *)
(* opends_direct_pwrite, which completes the edge blocks of its range by   *)
(* read-modify-write and cuts the padding off again, and                   *)
(* opends_direct_pread.  Each system call is a step of its own: the aisio  *)
(* backend's workers and the callers of the reference backend run several  *)
(* at once on one file.                                                    *)
(***************************************************************************)
EXTENDS FileStore

CONSTANT NWrites     \* bound: writes of a run
Writes == 1 .. NWrites

ASSUME WritesAssumption == NWrites \in Nat

VARIABLES wpc, wq,      \* where write o is; its offset and size
          bounce, done, \* its aligned buffer; the bytes of it written
          trunc,        \* trunc_to
          wret,         \* what opends_direct_pwrite returned
          stage, got    \* of opends_direct_pread: bounce, got

writeVars == <<wpc, wq, bounce, done, trunc, wret>>
preadVars == <<stage, got>>

Fresh == [k \in Positions |-> Junk]

DirectInit ==
  /\ wpc = [o \in Writes |-> "idle"]
  /\ wq = [o \in Writes |-> [off |-> 0, n |-> 0]]
  /\ bounce = [o \in Writes |-> Fresh]
  /\ done = [o \in Writes |-> 0]
  /\ trunc = [o \in Writes |-> -1]
  /\ wret = [o \in Writes |-> 0]
  /\ stage = Fresh /\ got = 0

\* The aligned range around a request.
HeadBytes(q) == q.off % Align
Start(q)     == q.off - HeadBytes(q)
Span(q)      == ((HeadBytes(q) + q.n + Align - 1) \div Align) * Align
TailBytes(q) == Span(q) - HeadBytes(q) - q.n
-----------------------------------------------------------------------------
(***************************************************************************)
(* opends_direct_pwrite.                                                   *)
(***************************************************************************)
Goto(o, l)   == wpc' = [wpc EXCEPT ![o] = l]
Forget(o)    == /\ bounce' = [bounce EXCEPT ![o] = Fresh]
                /\ done' = [done EXCEPT ![o] = 0]
                /\ trunc' = [trunc EXCEPT ![o] = -1]
Returns(o, n) == Goto(o, "out") /\ wret' = [wret EXCEPT ![o] = n] /\ Forget(o)

\* Any of its system calls fails, the copy included: what was written stays.
PwriteFails(o) ==
  /\ wpc[o] \in {"alloc", "stat", "head", "tail", "copy", "write", "trunc"}
  /\ wq[o].n > 0
  /\ Returns(o, -1)
  /\ UNCHANGED wq

AllocBounce(o) ==
  /\ wpc[o] = "alloc"
  /\ IF wq[o].n = 0 THEN Returns(o, 0)
     ELSE /\ Goto(o, IF TailBytes(wq[o]) > 0 THEN "stat"
                     ELSE IF HeadBytes(wq[o]) > 0 THEN "head" ELSE "copy")
          /\ UNCHANGED <<bounce, done, trunc, wret>>
  /\ UNCHANGED wq

\* Faulty variant of TruncTo: the file's size is not looked at.
TruncToEnd(q) == IF TailBytes(q) > 0 THEN q.off + q.n ELSE -1

\* Where the file ends when the write is done, if the padded write would
\* leave it longer.
TruncTo(q) ==
  LET end == IF size < q.off + q.n THEN q.off + q.n ELSE size
  IN  IF Start(q) + Span(q) > end THEN end ELSE -1

Stat(o) ==
  /\ wpc[o] = "stat"
  /\ trunc' = [trunc EXCEPT ![o] = TruncTo(wq[o])]
  /\ Goto(o, IF HeadBytes(wq[o]) > 0 THEN "head" ELSE "tail")
  /\ UNCHANGED <<wq, bounce, done, wret>>

\* read_block into the block of the bounce buffer at k.
ReadBlock(o, k) ==
  bounce' = [bounce EXCEPT ![o] =
    [i \in Positions |-> IF i \in k .. k + Align - 1
                           THEN data[Start(wq[o]) + i] ELSE bounce[o][i]]]

LastBlock(q) == Span(q) - Align
NeedsTail(q) == TailBytes(q) > 0 /\ (LastBlock(q) > 0 \/ HeadBytes(q) = 0)

FillHead(o) ==
  /\ wpc[o] = "head"
  /\ ReadBlock(o, 0)
  /\ Goto(o, IF NeedsTail(wq[o]) THEN "tail" ELSE "copy")
  /\ UNCHANGED <<wq, done, trunc, wret>>

FillTail(o) ==
  /\ wpc[o] = "tail"
  /\ ReadBlock(o, LastBlock(wq[o]))
  /\ Goto(o, "copy")
  /\ UNCHANGED <<wq, done, trunc, wret>>

\* The caller's bytes go into the bounce buffer after the head.
Copied(o) ==
  [i \in Positions |->
     IF i \in HeadBytes(wq[o]) .. HeadBytes(wq[o]) + wq[o].n - 1
       THEN <<o, i - HeadBytes(wq[o])>> ELSE bounce[o][i]]

Copy(o) ==
  /\ wpc[o] = "copy"
  /\ bounce' = [bounce EXCEPT ![o] = Copied(o)]
  /\ Goto(o, "write")
  /\ UNCHANGED <<wq, done, trunc, wret>>

\* One pwrite, which may write less than asked, in whole blocks.
WriteSome(o) ==
  /\ wpc[o] = "write"
  /\ \E w \in {k \in 1 .. Span(wq[o]) - done[o] : k % Align = 0} :
       /\ Pwrite(Start(wq[o]) + done[o], w, bounce[o], Start(wq[o]))
       /\ IF done[o] + w = Span(wq[o]) /\ trunc[o] < 0
            THEN Returns(o, wq[o].n)
            ELSE /\ done' = [done EXCEPT ![o] = @ + w]
                 /\ Goto(o, IF done[o] + w < Span(wq[o]) THEN "write"
                                                        ELSE "trunc")
                 /\ UNCHANGED <<bounce, trunc, wret>>
  /\ UNCHANGED wq

Truncate(o) ==
  /\ wpc[o] = "trunc"
  /\ Ftruncate(trunc[o])
  /\ Returns(o, wq[o].n)
  /\ UNCHANGED wq

\* What a write does when nothing fails.
DirectGoes(o) ==
  /\ \/ AllocBounce(o) /\ UNCHANGED fileVars
     \/ Stat(o) /\ UNCHANGED fileVars
     \/ FillHead(o) /\ UNCHANGED fileVars
     \/ FillTail(o) /\ UNCHANGED fileVars
     \/ Copy(o) /\ UNCHANGED fileVars
     \/ WriteSome(o) \/ Truncate(o)
  /\ UNCHANGED <<homiVars, readVars, preadVars>>

DirectFails(o) ==
  PwriteFails(o) /\ UNCHANGED <<storeVars, readVars, preadVars>>
-----------------------------------------------------------------------------
(***************************************************************************)
(* opends_direct_pread.                                                    *)
(***************************************************************************)
ReadReturns(n) == rpc' = "ret" /\ rret' = n

\* What a pread at p can return of n bytes: whole blocks, or up to the end.
Readable(p, n) == IF p >= size THEN {0}
                  ELSE {k \in 1 .. n : /\ p + k <= size
                                      /\ (k % Align = 0 \/ p + k = size)}

PreadSome ==
  /\ rpc = "pread" /\ got < Span(rq)
  /\ \E r \in Readable(Start(rq) + got, Span(rq) - got) :
       /\ got' = got + r
       /\ stage' = [i \in Positions |-> IF i \in got .. got + r - 1
                                          THEN data[Start(rq) + i] ELSE stage[i]]
       /\ rpc' = IF r = 0 THEN "copyout" ELSE "pread"
  /\ UNCHANGED <<rq, buf, rret>>

\* got > head: the bytes after the head, no more than were asked for.
Delivered(q) == IF got <= HeadBytes(q) THEN 0
                ELSE IF got - HeadBytes(q) > q.n THEN q.n ELSE got - HeadBytes(q)

CopyOut ==
  /\ rpc = "copyout" \/ (rpc = "pread" /\ got >= Span(rq))
  /\ buf' = [k \in Offsets |-> IF k < Delivered(rq) THEN stage[HeadBytes(rq) + k]
                                                    ELSE buf[k]]
  /\ ReadReturns(Delivered(rq))
  /\ stage' = Fresh /\ UNCHANGED <<rq, got>>

PreadFails ==
  /\ rpc = "pread" /\ ReadReturns(-1)
  /\ UNCHANGED <<rq, buf, preadVars>>

PreadGoes  == (PreadSome \/ CopyOut) /\ UNCHANGED <<storeVars, writeVars>>
PreadFault == PreadFails /\ UNCHANGED <<storeVars, writeVars>>
=============================================================================
