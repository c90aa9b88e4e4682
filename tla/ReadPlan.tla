------------------------------ MODULE ReadPlan ------------------------------
(***************************************************************************)
(* A read of the aisio backend (src/src/opends_aisio.c): start_read_op     *)
(* asks HOMI for the file's extents, cuts the request into a head, a       *)
(* middle of whole LBAs and a tail per extent, and issues NVMe reads into  *)
(* the caller's buffer (the middle) or into bounce slots (head and tail),  *)
(* whose bytes are copied when every command is complete.                  *)
(*                                                                         *)
(* IoEngine has the same operation with its slot, ring and stream and      *)
(* without its bytes; here are the bytes.                                  *)
(***************************************************************************)
EXTENDS FileStore

CONSTANTS MdtsLbas,     \* mdts_nbytes >> lba_shift
          MaxNlb,       \* NVME_MAX_NLB
          PrpAlign,     \* NVME_PRP_OFFSET_ALIGN
          BounceSlots,  \* BOUNCE_SLOTS
          AlignedOnly,  \* assume_aligned_only
          Retries,      \* ESTALE_RETRIES
          OffsetMax     \* UINT64_MAX

ASSUME PlanAssumption ==
  /\ MdtsLbas \in Nat \ {0} /\ MaxNlb \in Nat \ {0} /\ PrpAlign \in Nat \ {0}
  /\ BounceSlots \in Nat \ {0} /\ AlignedOnly \in BOOLEAN
  /\ Retries \in Nat \ {0} /\ OffsetMax \in Nat

VARIABLES tries,                \* attempts of resolve_extents
          ext, xi,              \* the extents; the one to look at next
          slba, dst, left, skip,\* cur_slba, abs_dst, remaining, head_off
          cmds,                 \* commands in the device
          slots,                \* bounces[0 .. n_bounces - 1], with the bytes
          acc, err              \* bytes_acc, err

cursor   == <<xi, slba, dst, left, skip>>
issued   == <<cmds, slots, acc, err>>
planVars == <<tries, ext, cursor, issued>>

PlanInit ==
  /\ tries = 0 /\ ext = <<>> /\ xi = 1
  /\ slba = 0 /\ dst = 0 /\ left = 0 /\ skip = 0
  /\ cmds = {} /\ slots = <<>> /\ acc = 0 /\ err = FALSE

LesserOf(a, b)  == IF a < b THEN a ELSE b
GreaterOf(a, b) == IF a > b THEN a ELSE b
ReqEnd == rq.off + rq.n
-----------------------------------------------------------------------------
\* The early return of start_read_op; dispatch_pending has reset the slot.
BeginPlan(q) ==
  /\ rpc' = IF q.n > OffsetMax - q.off THEN "wait" ELSE "resolve"
  /\ err' = (q.n > OffsetMax - q.off)
  /\ tries' = 0 /\ cmds' = {} /\ slots' = <<>> /\ acc' = 0
  /\ xi' = 1 /\ UNCHANGED <<ext, slba, dst, left, skip>>

\* Faulty variant of Resolve: no limit.
ResolveForever ==
  /\ rpc = "resolve" /\ ~dirty
  /\ ext' = Extents /\ rpc' = "extent"
  /\ UNCHANGED <<rq, buf, rret, tries, cursor, issued>>

\* resolve_extents: retries while HOMI answers -ESTALE, up to a limit.
Resolve ==
  /\ rpc = "resolve"
  /\ IF dirty
       THEN /\ tries' = tries + 1 /\ UNCHANGED ext
            /\ IF tries + 1 = Retries THEN rpc' = "wait" /\ err' = TRUE
                                      ELSE UNCHANGED <<rpc, err>>
       ELSE ext' = Extents /\ rpc' = "extent" /\ UNCHANGED <<tries, err>>
  /\ UNCHANGED <<rq, buf, rret, cursor, cmds, slots, acc>>

\* Any other answer, and no memory for the extents.
ResolveFails ==
  /\ rpc = "resolve"
  /\ rpc' = "wait" /\ err' = TRUE
  /\ UNCHANGED <<rq, buf, rret, tries, ext, cursor, cmds, slots, acc>>

\* The part of the request that lies in extent e.
SpanStart(e) == GreaterOf(rq.off, e.fo)
SpanEnd(e)   == LesserOf(ReqEnd, e.fo + e.len)
NoneLeft     == xi > Len(ext) \/ ext[xi].fo >= ReqEnd

NextExtent ==
  /\ rpc = "extent"
  /\ IF NoneLeft THEN rpc' = "wait" /\ UNCHANGED cursor
     ELSE LET e == ext[xi]
              off == SpanStart(e) - e.fo
          IN  /\ xi' = xi + 1
              /\ IF SpanStart(e) >= SpanEnd(e)
                   THEN UNCHANGED <<rpc, slba, dst, left, skip>>
                   ELSE /\ slba' = e.slba + off \div Lba
                        /\ dst' = SpanStart(e) - rq.off
                        /\ left' = SpanEnd(e) - SpanStart(e)
                        /\ skip' = off % Lba
                        /\ rpc' = IF off % Lba # 0 THEN "head" ELSE "middle"
  /\ UNCHANGED <<rq, buf, rret, tries, ext, issued>>

\* submit_partial refuses a span.
Refused(from, n) ==
  \/ AlignedOnly
  \/ rq.mode = "stream" /\ (from # 0 \/ slots # <<>>)
  \/ Len(slots) >= BounceSlots \/ from + n > Lba

\* submit_bounce_read: one LBA into the next slot, n bytes of it for dst.
Bounce(from, n) ==
  /\ cmds' = cmds \cup {[slot |-> Len(slots) + 1, slba |-> slba, nlb |-> 0,
                         dst |-> 0]}
  /\ slots' = Append(slots, [dst |-> dst, from |-> from, n |-> n,
                             lba |-> [k \in 0 .. Lba - 1 |-> Junk]])
  /\ acc' = acc + n
  /\ UNCHANGED err

HeadLen == LesserOf(Lba - skip, left)
Misplaced == left - HeadLen >= Lba /\ HeadLen % PrpAlign # 0

IssueHead ==
  /\ rpc = "head" /\ ~Misplaced /\ ~Refused(skip, HeadLen)
  /\ Bounce(skip, HeadLen)
  /\ slba' = slba + 1 /\ dst' = dst + HeadLen /\ left' = left - HeadLen
  /\ rpc' = "middle"
  /\ UNCHANGED <<rq, buf, rret, tries, ext, xi, skip>>

\* Faulty variant of ChunkLbas: a last LBA in part is read in whole.
ChunkRoundedUp == LesserOf((left + Lba - 1) \div Lba, MdtsLbas)

\* One turn of submit_read_middle.
ChunkLbas == LesserOf(LesserOf(left \div Lba, MdtsLbas), MaxNlb)

IssueChunk ==
  /\ rpc = "middle" /\ left >= Lba
  /\ cmds' = cmds \cup {[slot |-> 0, slba |-> slba,
                         nlb |-> (ChunkLbas - 1) % MaxNlb, dst |-> dst]}
  /\ slba' = slba + ChunkLbas
  /\ dst' = dst + ChunkLbas * Lba /\ left' = left - ChunkLbas * Lba
  /\ UNCHANGED <<rpc, rq, buf, rret, tries, ext, xi, skip, slots, acc, err>>

IssueTail ==
  /\ rpc = "middle" /\ 0 < left /\ left < Lba /\ ~Refused(0, left)
  /\ Bounce(0, left)
  /\ rpc' = "extent"
  /\ UNCHANGED <<rq, buf, rret, tries, ext, cursor>>

NoTail ==
  /\ rpc = "middle" /\ left = 0
  /\ rpc' = "extent"
  /\ UNCHANGED <<rq, buf, rret, tries, ext, cursor, issued>>

\* goto out: the rest is not planned, what was issued still completes.
GiveUp ==
  /\ rpc' = "wait" /\ err' = TRUE
  /\ UNCHANGED <<rq, buf, rret, tries, ext, cursor, cmds, slots, acc>>

PlanRefuses ==
  /\ \/ rpc = "head" /\ (Misplaced \/ Refused(skip, HeadLen))
     \/ rpc = "middle" /\ 0 < left /\ left < Lba /\ Refused(0, left)
  /\ GiveUp

\* A command cannot be submitted.
SubmitFails == rpc \in {"head", "middle"} /\ left > 0 /\ GiveUp
-----------------------------------------------------------------------------
\* The device completes command c; chunk_cb or bounce_cb runs.
Complete(c) ==
  /\ cmds' = cmds \ {c}
  /\ IF c.slot = 0
       THEN /\ buf' = [k \in Offsets |->
                         IF k \in c.dst .. c.dst + (c.nlb + 1) * Lba - 1
                           THEN OnDevice(c.slba + (k - c.dst) \div Lba,
                                         (k - c.dst) % Lba)
                           ELSE buf[k]]
            /\ acc' = acc + (c.nlb + 1) * Lba
            /\ UNCHANGED slots
       ELSE /\ slots' = [slots EXCEPT ![c.slot].lba =
                           [k \in 0 .. Lba - 1 |-> OnDevice(c.slba, k)]]
            /\ UNCHANGED <<buf, acc>>
  /\ UNCHANGED <<rpc, rq, rret, tries, ext, cursor, err>>

CompleteFails(c) ==
  /\ cmds' = cmds \ {c} /\ err' = TRUE
  /\ UNCHANGED <<rpc, rq, buf, rret, tries, ext, cursor, slots, acc>>

\* run_bounce_copies, or the copy kernel for a stream: byte k of the buffer.
Bounced(k) ==
  LET own == {i \in 1 .. Len(slots) :
                k \in slots[i].dst .. slots[i].dst + slots[i].n - 1}
  IN  IF own = {} THEN buf[k]
      ELSE LET s == slots[CHOOSE i \in own : TRUE]
           IN  s.lba[s.from + k - s.dst]

AllDone == cmds = {}

\* reap_in_flight, complete_read_op.
CompleteRead ==
  /\ rpc = "wait" /\ AllDone
  /\ rpc' = "ret"
  /\ IF err THEN rret' = -1 /\ UNCHANGED buf
            ELSE rret' = acc /\ buf' = [k \in Offsets |-> Bounced(k)]
  /\ UNCHANGED <<rq, planVars>>

\* A copy fails.
CopyBackFails ==
  /\ rpc = "wait" /\ AllDone /\ slots # <<>> /\ rq.mode = "async"
  /\ rpc' = "ret" /\ rret' = -1
  /\ UNCHANGED <<rq, buf, planVars>>

\* What a read does when nothing fails that could succeed.
PlanGoes ==
  /\ \/ Resolve \/ NextExtent \/ IssueHead \/ IssueChunk \/ IssueTail \/ NoTail
     \/ PlanRefuses \/ CompleteRead
     \/ \E c \in cmds : Complete(c)
  /\ UNCHANGED storeVars

PlanFaults ==
  /\ \/ ResolveFails \/ SubmitFails \/ CopyBackFails
     \/ \E c \in cmds : CompleteFails(c)
  /\ UNCHANGED storeVars
=============================================================================
