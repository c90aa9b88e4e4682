------------------------------ MODULE DataPath ------------------------------
(***************************************************************************)
(* Reads and writes of a file from the application down to the device, for *)
(* the aisio backend (pwrite_op writes through the file system and marks   *)
(* the device dirty, reads go around the file system by extents) and for   *)
(* the reference backend (ref_async_submit: pread and pwrite, through      *)
(* opends_common.c when something is unaligned).                           *)
(*                                                                         *)
(* Writes may run at the same time; an application reads when its writes   *)
(* have returned.                                                          *)
(***************************************************************************)
EXTENDS DirectIo, ReadPlan

CONSTANTS WriteReqs, ReadReqs,  \* what the application asks for
          Overlap               \* which writes it lets run at the same time

ASSUME OverlapAssumption == Overlap \in {"apart", "disjoint"}

\* The model's file has room for each write, its buffer for each read.
ASSUME RequestAssumption ==
  /\ WriteReqs \subseteq [off : Nat, n : Nat]
  /\ \A q \in WriteReqs : q.off + q.n <= NBlocks * Align
  /\ ReadReqs \subseteq [mode : {"async", "stream"}, off : Nat, n : Nat]
  /\ \A q \in ReadReqs : q.n <= (NBlocks + 2) * Align

VARIABLES backend,            \* the library the process has loaded
          want, wantSize,     \* history: the file the successful writes make
          spoiled, failed     \* history: positions of failed writes; any yet

histVars == <<want, wantSize, spoiled, failed>>
vars     == <<storeVars, readVars, writeVars, preadVars, planVars, backend,
              histVars>>

Init ==
  /\ StoreInit /\ DirectInit /\ PlanInit
  /\ backend \in {"aisio", "ref"}
  /\ want = data /\ wantSize = size /\ spoiled = {} /\ failed = FALSE

\* The positions of a request.
Covers(q) == q.off .. q.off + q.n - 1
InFlight(o) == wpc[o] \notin {"idle", "ret"}
-----------------------------------------------------------------------------
(***************************************************************************)
(* Writes.                                                                 *)
(***************************************************************************)

\* "disjoint": overlapping writes share no byte.  "apart": they share no
\* block either, and none of them makes the file longer.
MayOverlap(q, r) ==
  IF Overlap = "disjoint" THEN Covers(q) \cap Covers(r) = {}
  ELSE /\ BlocksOf(q.off, q.off + q.n) \cap BlocksOf(r.off, r.off + r.n) = {}
       /\ q.off + q.n <= wantSize /\ r.off + r.n <= wantSize

\* direct_aligned: the buffer too, which bufAligned stands for.
DirectAligned(q, bufAligned) ==
  bufAligned /\ q.off % Align = 0 /\ q.n % Align = 0

SubmitWrite(o, q, bufAligned) ==
  /\ rpc = "idle" /\ wpc[o] = "idle"
  /\ \A u \in Writes : /\ u < o => wpc[u] # "idle"
                       /\ InFlight(u) => MayOverlap(q, wq[u])
  /\ wq' = [wq EXCEPT ![o] = q]
  /\ Goto(o, IF backend = "ref" /\ DirectAligned(q, bufAligned)
               THEN "plain" ELSE "alloc")
  /\ UNCHANGED <<storeVars, readVars, bounce, done, trunc, wret, preadVars,
                 planVars, backend, histVars>>

\* ref_async_submit's pwrite of an aligned request: one call.
PlainWrite(o) ==
  /\ wpc[o] = "plain"
  /\ \E w \in {k \in 0 .. wq[o].n : k % Align = 0} :
       /\ Pwrite(wq[o].off, w, [k \in Positions |-> <<o, k>>], wq[o].off)
       /\ Returns(o, w)
  /\ UNCHANGED <<homiVars, readVars, wq, preadVars, planVars, backend, histVars>>

PlainFails(o) ==
  /\ wpc[o] = "plain" /\ Returns(o, -1)
  /\ UNCHANGED <<storeVars, readVars, wq, preadVars, planVars, backend,
                 histVars>>

\* The write has returned to the application: what it now counts on.
Settle(o, ok) ==
  LET n == IF ok THEN wret[o] ELSE 0
  IN  /\ want' = [p \in Positions |->
                    IF p \in wq[o].off .. wq[o].off + n - 1
                      THEN <<o, p - wq[o].off>> ELSE want[p]]
      /\ wantSize' = IF n > 0 THEN GreaterOf(wantSize, wq[o].off + n)
                              ELSE wantSize
      /\ spoiled' = IF ok THEN spoiled \ (wq[o].off .. wq[o].off + n - 1)
                          ELSE spoiled \cup Covers(wq[o])
      /\ failed' = (failed \/ ~ok)

\* Faulty variant of Marks: a write that did not make the file longer does not.
MarksGrowth(o) == backend = "aisio" /\ wret[o] > 0 /\ size > wantSize

\* Only a write of the aisio backend that wrote something marks the device.
Marks(o) == backend = "aisio" /\ wret[o] > 0

\* pwrite_op after opends_direct_pwrite; the end of ref_async_submit.
FinishWrite(o) ==
  /\ wpc[o] = "out" /\ Goto(o, "ret")
  /\ IF Marks(o) THEN MarkDirty ELSE UNCHANGED homiVars
  /\ Settle(o, wret[o] >= 0)
  /\ UNCHANGED <<fileVars, readVars, wq, bounce, done, trunc, wret, preadVars,
                 planVars, backend>>

\* homic_mark_dirty fails: the write is reported failed.
MarkFails(o) ==
  /\ wpc[o] = "out" /\ backend = "aisio" /\ wret[o] > 0
  /\ Goto(o, "ret") /\ wret' = [wret EXCEPT ![o] = -1]
  /\ Settle(o, FALSE)
  /\ UNCHANGED <<storeVars, readVars, wq, bounce, done, trunc, preadVars,
                 planVars, backend>>

WriteGoes(o) ==
  \/ DirectGoes(o) /\ UNCHANGED <<planVars, backend, histVars>>
  \/ PlainWrite(o) \/ FinishWrite(o)

WriteFaults(o) ==
  \/ DirectFails(o) /\ UNCHANGED <<planVars, backend, histVars>>
  \/ PlainFails(o) \/ MarkFails(o)
-----------------------------------------------------------------------------
(***************************************************************************)
(* Reads.                                                                  *)
(***************************************************************************)
SubmitRead(q) ==
  /\ rpc = "idle" /\ \A o \in Writes : ~InFlight(o)
  /\ rq' = q
  /\ backend = "aisio" /\ BeginPlan(q)
  /\ UNCHANGED <<storeVars, buf, rret, writeVars, preadVars, backend, histVars>>

\* ref_async_submit; opends_direct_pread returns at once when n = 0.
SubmitRefRead(q, bufAligned) ==
  /\ rpc = "idle" /\ \A o \in Writes : ~InFlight(o)
  /\ rq' = q
  /\ backend = "ref"
  /\ IF DirectAligned(q, bufAligned) THEN rpc' = "plain" /\ UNCHANGED rret
     ELSE IF q.n = 0 THEN ReadReturns(0) ELSE rpc' = "pread" /\ UNCHANGED rret
  /\ UNCHANGED <<storeVars, buf, writeVars, preadVars, planVars, backend,
                 histVars>>

PlainRead ==
  /\ rpc = "plain"
  /\ \E r \in Readable(rq.off, rq.n) \cup IF rq.n = 0 THEN {0} ELSE {} :
       /\ buf' = [k \in Offsets |-> IF k < r THEN data[rq.off + k] ELSE buf[k]]
       /\ ReadReturns(r)
  /\ UNCHANGED <<storeVars, rq, writeVars, preadVars, planVars, backend,
                 histVars>>

PlainReadFails ==
  /\ rpc = "plain" /\ ReadReturns(-1)
  /\ UNCHANGED <<storeVars, rq, buf, writeVars, preadVars, planVars, backend,
                 histVars>>

ReadGoes ==
  \/ PlanGoes /\ UNCHANGED <<writeVars, preadVars, backend, histVars>>
  \/ PreadGoes /\ UNCHANGED <<planVars, backend, histVars>>
  \/ PlainRead

ReadFaults ==
  \/ PlanFaults /\ UNCHANGED <<writeVars, preadVars, backend, histVars>>
  \/ PreadFault /\ UNCHANGED <<planVars, backend, histVars>>
  \/ PlainReadFails
-----------------------------------------------------------------------------
HomiStep == Refresh /\ UNCHANGED <<readVars, writeVars, preadVars, planVars,
                                   backend, histVars>>

Next ==
  \/ \E o \in Writes, q \in WriteReqs, a \in BOOLEAN : SubmitWrite(o, q, a)
  \/ \E o \in Writes : WriteGoes(o) \/ WriteFaults(o)
  \/ \E q \in ReadReqs : SubmitRead(q)
  \/ \E q \in ReadReqs, a \in BOOLEAN : SubmitRefRead(q, a)
  \/ ReadGoes \/ ReadFaults \/ HomiStep

Spec == Init /\ [][Next]_vars

\* A thread that is in a call runs, and the device answers; nothing has to
\* fail, and HOMI may be silent for ever.
Progress == ReadGoes \/ \E o \in Writes : WriteGoes(o)
FairSpec == Spec /\ WF_vars(Progress)
-----------------------------------------------------------------------------
\* Whatever writes are in progress or have failed halfway, every byte outside
\* their ranges is what the successful writes made it: the read-modify-write
\* of edge blocks and the cutting of the padding touch nobody else's bytes.
\* When none is in progress and none failed, the file has the size POSIX
\* writes of the same ranges would give it.
FileExact ==
  /\ \A p \in Positions :
       \/ p >= wantSize \/ p \in spoiled
       \/ \E o \in Writes : InFlight(o) /\ p \in Covers(wq[o])
       \/ p < size /\ data[p] = want[p]
  /\ ~failed /\ (\A o \in Writes : ~InFlight(o)) => size = wantSize

Mapped(p) == p \in Positions /\ p \div Align \in blocks
Asked     == 0 .. rq.n - 1

\* A read that reports success after writes that all succeeded has delivered
\* them.  aisio: exactly the bytes in allocated blocks, and their number.
\* Reference backend: the first bytes of the range, as many as it reports, and
\* all there are when the request went through opends_direct_pread.
ReadExact ==
  rpc = "ret" /\ rret >= 0 /\ ~failed =>
    IF backend = "aisio"
      THEN LET there == {k \in Asked : Mapped(rq.off + k)}
           IN  /\ rret = Cardinality(there)
               /\ \A k \in Offsets :
                    buf[k] = IF k \in there THEN want[rq.off + k] ELSE Junk
      ELSE LET there == {k \in Asked : rq.off + k < wantSize}
           IN  /\ rret <= Cardinality(there)
               /\ got > 0 => rret = Cardinality(there)
               /\ \A k \in Offsets :
                    buf[k] = IF k < rret THEN want[rq.off + k] ELSE Junk

Targets ==
  {c.dst .. c.dst + (c.nlb + 1) * Lba - 1 : c \in {d \in cmds : d.slot = 0}}
    \cup {slots[i].dst .. slots[i].dst + slots[i].n - 1 : i \in 1 .. Len(slots)}

\* What the device or a copy may still write of a read lies inside the
\* caller's buffer, nothing is written twice, and a copy stays in its slot.
InBuffer ==
  /\ \A T \in Targets : T # {} /\ T \subseteq Asked
  /\ \A T, U \in Targets : T = U \/ T \cap U = {}
  /\ \A i \in 1 .. Len(slots) : slots[i].from + slots[i].n <= Lba

\* Every call returns: short writes go on, a read with failed commands waits
\* for the others, and one whose extents stay stale gives up.
Returned  == rpc \in {"idle", "ret"} /\ \A o \in Writes : ~InFlight(o)
IoReturns == []<>Returned
=============================================================================
