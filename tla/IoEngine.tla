------------------------------ MODULE IoEngine ------------------------------
(***************************************************************************)
(* The I/O engine of the aisio backend (src/src/opends_aisio.c): threads   *)
(* of the application submit operations into per-worker rings under        *)
(* submit_lock, I/O worker threads scan their ring, issue NVMe commands    *)
(* and settle operations, and stream-ordered operations are ordered        *)
(* against an accelerator stream through a per-stream gate word.           *)
(*                                                                         *)
(* The device (NVMe queue pair) and the accelerator streams are external   *)
(* and modelled from how the code uses them: the device completes each     *)
(* command once, successfully or not, in any order; a stream executes its  *)
(* commands one at a time in enqueue order.                                *)
(*                                                                         *)
(* An operation is named by a number, which stands for what the caller     *)
(* passes (size, offsets, buffer, bytes_p or future).  Each atomic step of *)
(* the model ends at a point where another actor can see the difference: a *)
(* release store, an enqueue, an unlock, or a return.                      *)
(***************************************************************************)
EXTENDS Word32, Sequences, FiniteSets, FiniteSetsExt

CONSTANTS Threads,      \* threads that submit
          Streams,      \* registered accelerator streams
          NWorkers,     \* n_io_threads
          QSize,        \* FILE_OP_QUEUE_SIZE
          QDepth,       \* queue_depth: command contexts of a worker's queue
          BounceSlots,  \* BOUNCE_SLOTS
          AlignedOnly,  \* assume_aligned_only
          CallsOf,      \* CallsOf[t]: the calls thread t may make
          NoThread, NoStream,
          StartSeq,     \* next_seq of every stream when the model starts
          StartCtr,     \* queue_head and queue_tail when the model starts
          Closing,      \* when the driver is closed: "never", "settled", "any"
          NOps,         \* bound: operations submitted in a run
          MaxChunks,    \* bound: middle chunks a read issues
          SQCap         \* capacity of a stream's command queue

Workers == 0 .. NWorkers - 1
Slots   == Workers \X (0 .. QSize - 1)
Ops     == 1 .. NOps
NoOp    == 0

Call == [mode : {"stream"}, wr : BOOLEAN, strm : Streams]
          \cup [mode : {"async", "sync", "none"}, wr : BOOLEAN,
                strm : {NoStream}]

\* No call yet: what an operation number stands for before it is used.
NoCall == [mode |-> "none", wr |-> FALSE, strm |-> NoStream]

ASSUME EngineAssumption ==
  /\ NWorkers \in Nat \ {0}
  /\ QSize \in Nat \ {0}
  /\ QSize <= Half /\ Modulus % QSize = 0
  /\ QDepth \in Nat \ {0}
  /\ BounceSlots \in Nat \ {0}
  /\ AlignedOnly \in BOOLEAN /\ Closing \in {"never", "settled", "any"}
  /\ CallsOf \in [Threads -> SUBSET Call]
  /\ NoThread \notin Threads /\ NoStream \notin Streams
  /\ StartSeq \in Word /\ StartCtr \in Word
  /\ NOps \in Nat /\ MaxChunks \in Nat
  /\ SQCap \in Nat \ {0}

VARIABLES
  (* The rings: opends_aisio.c, struct driver, io_worker, file_op *)
  head, tail,     \* queue_head, queue_tail
  rr,             \* rr_next % n_io_threads
  lock,           \* holder of submit_lock
  state, opOf,    \* file_op.state; the operation a slot was filled for
  seq,            \* file_op.u.stream.seq
  chunks, bounces,\* chunks_remaining, bounces_outstanding
  nb, err,        \* n_bounces, err
  stop,           \* d->stop
  (* The callers *)
  pc,             \* where a thread is in a call
  curOp, curSlot, \* the operation and the slot it is working on
  nextOp, call,   \* operation numbers used; what each stands for
  ret, result,    \* what the submit returned; *bytes_p or the future
  (* The I/O threads *)
  wpc, wi, wsnap, wbusy,
  wleft,          \* chunks the read being started has yet to issue
  (* The device *)
  devC, devB,     \* chunk and bounce commands of a slot, in the device
  cqC, cqB, cqErr,\* ... completed but not polled; whether one failed
  (* The streams *)
  gate, nextSeq,  \* gate word, next_seq
  slog, spos,     \* commands enqueued so far; how many have been executed
  parked,         \* sequence number a host callback spins on
  bounce,         \* the operation whose bytes the bounce buffer holds
  descDst, descN, \* the copy descriptor: destination, whether n_bytes > 0
  (* History *)
  failed, tailed, delivered

slotVars   == <<state, opOf, seq, chunks, bounces, nb, err>>
ringVars   == <<head, tail, rr, lock, slotVars>>
callVars   == <<pc, curOp, curSlot, nextOp, call, ret, result>>
workerVars == <<wpc, wi, wsnap, wbusy, wleft>>
devVars    == <<devC, devB, cqC, cqB, cqErr>>
gateVars   == <<gate, nextSeq>>
streamVars == <<slog, spos, parked>>
tailVars   == <<bounce, descDst, descN>>
histVars   == <<failed, tailed, delivered>>

vars == <<ringVars, stop, callVars, workerVars, devVars, gateVars,
          streamVars, tailVars, histVars>>

NotParked == -1

SlotAt(w, ctr) == <<w, ctr % QSize>>
CallAt(x)      == call[opOf[x]]
IsStream(x)    == CallAt(x).mode = "stream"

\* No command of slot x is in the device or waits to be polled.
NoCommands(x) == devC[x] = 0 /\ devB[x] = 0 /\ cqC[x] = 0 /\ cqB[x] = 0

\* A quiescent engine: every earlier operation has been settled, so each
\* ring is empty and each gate word holds the last release value.
Init ==
  /\ head = [w \in Workers |-> StartCtr]
  /\ tail = [w \in Workers |-> StartCtr]
  /\ rr = 0
  /\ lock = NoThread
  /\ state = [x \in Slots |-> "FREE"]
  /\ opOf = [x \in Slots |-> NoOp]
  /\ seq = [x \in Slots |-> 0]
  /\ chunks = [x \in Slots |-> 0] /\ bounces = [x \in Slots |-> 0]
  /\ nb = [x \in Slots |-> 0] /\ err = [x \in Slots |-> FALSE]
  /\ stop = FALSE
  /\ pc = [t \in Threads |-> "idle"]
  /\ curOp = [t \in Threads |-> NoOp]
  /\ curSlot = [t \in Threads |-> <<0, 0>>]
  /\ nextOp = 1
  /\ call = [o \in Ops |-> NoCall]
  /\ ret = [o \in Ops |-> "none"]
  /\ result = [o \in Ops |-> "none"]
  /\ wpc = [w \in Workers |-> "begin"]
  /\ wi = [w \in Workers |-> StartCtr]
  /\ wsnap = [w \in Workers |-> StartCtr]
  /\ wbusy = [w \in Workers |-> FALSE]
  /\ wleft = [w \in Workers |-> 0]
  /\ devC = [x \in Slots |-> 0] /\ devB = [x \in Slots |-> 0]
  /\ cqC = [x \in Slots |-> 0] /\ cqB = [x \in Slots |-> 0]
  /\ cqErr = [x \in Slots |-> FALSE]
  /\ gate = [s \in Streams |-> IF StartSeq = 0 THEN 0 ELSE Released(StartSeq)]
  /\ nextSeq = [s \in Streams |-> StartSeq]
  /\ slog = [s \in Streams |-> <<>>]
  /\ spos = [s \in Streams |-> 0]
  /\ parked = [s \in Streams |-> NotParked]
  /\ bounce = [s \in Streams |-> NoOp]
  /\ descDst = [s \in Streams |-> NoOp]
  /\ descN = [s \in Streams |-> FALSE]
  /\ failed = {} /\ tailed = {} /\ delivered = {}
-----------------------------------------------------------------------------
(***************************************************************************)
(* Faulty variants of definitions below.  Each is a bug this code could    *)
(* have; PROJECT.json pairs it with the property that catches it.          *)
(***************************************************************************)

\* claim_slot_locked with <= instead of <.
BadHasRoom(w) == WSub(head[w], tail[w]) <= QSize
\* A failed enqueue gives its sequence number back.
GateFailsRollsBack(t) ==
  /\ pc[t] \in {"gate", "wait"}
  /\ lock' = NoThread
  /\ nextSeq' = [nextSeq EXCEPT ![call[curOp[t]].strm] = WSub(@, 1)]
  /\ ret' = [ret EXCEPT ![curOp[t]] = "failed"]
  /\ pc' = [pc EXCEPT ![t] = "idle"]
  /\ UNCHANGED <<head, tail, rr, slotVars, stop, curOp, curSlot, nextOp, call,
                 result, workerVars, devVars, gate, streamVars, tailVars,
                 histVars>>
\* The stream waits for 2 * seq, which it has just written itself.
BadWaitValue(x) == Arrived(seq[x])
\* poll_stream_pending lets an operation start one gate phase early.
EarlyGated(x) ==
  /\ IsStream(x)
  /\ CyclicLess(gate[CallAt(x).strm], WSub(Arrived(seq[x]), 1))
\* release_gate with the stream's newest sequence number.
BadReleaseGate(x) ==
  gate' = IF IsStream(x)
          THEN [gate EXCEPT ![CallAt(x).strm] =
                              Released(nextSeq[CallAt(x).strm])]
          ELSE gate
\* An error path that does not release the gate.
ErrorSkipsRelease(x) ==
  gate' = IF IsStream(x) /\ ~err[x]
          THEN [gate EXCEPT ![CallAt(x).strm] = Released(seq[x])]
          ELSE gate
\* The I/O thread settles a stream operation under submit_lock.
LocksToRelease(x) ==
  /\ IsStream(x) => lock = NoThread
  /\ gate' = IF IsStream(x)
             THEN [gate EXCEPT ![CallAt(x).strm] = Released(seq[x])]
             ELSE gate
\* reap_in_flight looks at the chunks only.
BadAllReaped(x) == chunks[x] = 0
\* The submission loops ask for a context again without polling.
BadPokeWhileStarting(w) == FALSE
\* submit_partial without its checks of n_bounces.
BadMayBounce(x) == ~AlignedOnly
\* The callbacks ignore the completion status.
BadErrAfterCallbacks(x) == err[x]
\* The tail copy is sized only for a second bounce.
BadHasTail(x) == ~err[x] /\ nb[x] > 1
\* queue_tail moves past slots still in use.
BadCanDrain(w) == tail[w] # wsnap[w]
\* queue_tail stops one short of the head.
ShortCanDrain(w) ==
  WAdd(tail[w], 1) # wsnap[w] /\ tail[w] # wsnap[w]
    /\ state[SlotAt(w, tail[w])] = "FREE"
\* A worker leaves as soon as it sees stop.
BadLeavesLoop(busy) == stop
-----------------------------------------------------------------------------
(***************************************************************************)
(* Submission: submit_async_op, submit_stream_op, and the synchronous      *)
(* calls built on the former.                                              *)
(***************************************************************************)

\* A thread enters a call with valid arguments; op is the caller's storage.
StartCall(t) ==
  /\ pc[t] = "idle" /\ ~stop /\ nextOp <= NOps
  /\ \E c \in CallsOf[t] : call' = [call EXCEPT ![nextOp] = c]
  /\ curOp' = [curOp EXCEPT ![t] = nextOp]
  /\ pc' = [pc EXCEPT ![t] = "claim"]
  /\ nextOp' = nextOp + 1
  /\ UNCHANGED <<ringVars, stop, curSlot, ret, result, workerVars, devVars,
                 gateVars, streamVars, tailVars, histVars>>

\* route_op: round robin over the workers.
RouteNext == rr' = (rr + 1) % NWorkers

\* head - tail < FILE_OP_QUEUE_SIZE, in words.
HasRoom(w) == WSub(head[w], tail[w]) < QSize

\* The bound on sequence numbers outstanding on a stream: fewer than 2^30
\* operations between the gate word and the newest sequence number.
SeqInWindow(s) ==
  WSub(Released(WAdd(nextSeq[s], 1)), gate[s]) <= Half

\* claim_slot_locked finds the ring full: rotate, release the lock, retry.
ClaimFull(t) ==
  /\ pc[t] = "claim" /\ lock = NoThread
  /\ ~HasRoom(rr)
  /\ RouteNext
  /\ UNCHANGED <<head, tail, lock, slotVars, stop, callVars, workerVars,
                 devVars, gateVars, streamVars, tailVars, histVars>>

\* submit_async_op, from lock to unlock: claim, fill, publish.  A
\* synchronous call goes on to await its future.
ClaimAsync(t) ==
  LET o == curOp[t]
      x == SlotAt(rr, head[rr])
  IN /\ pc[t] = "claim" /\ lock = NoThread
     /\ call[o].mode \in {"async", "sync"}
     /\ HasRoom(rr)
     /\ opOf' = [opOf EXCEPT ![x] = o]
     /\ state' = [state EXCEPT ![x] = "PENDING"]
     /\ head' = [head EXCEPT ![rr] = WAdd(@, 1)]
     /\ RouteNext
     /\ ret' = [ret EXCEPT ![o] = "ok"]
     /\ pc' = [pc EXCEPT ![t] = IF call[o].mode = "sync" THEN "await"
                                                         ELSE "idle"]
     /\ curSlot' = [curSlot EXCEPT ![t] = x]
     /\ UNCHANGED <<tail, lock, seq, chunks, bounces, nb, err, stop, curOp,
                    nextOp, call, result, workerVars, devVars, gateVars,
                    streamVars, tailVars, histVars>>

\* opends_async_await in a synchronous call: the future is done.
AwaitReturns(t) ==
  /\ pc[t] = "await" /\ result[curOp[t]] # "none"
  /\ pc' = [pc EXCEPT ![t] = "idle"]
  /\ UNCHANGED <<ringVars, stop, curOp, curSlot, nextOp, call, ret, result,
                 workerVars, devVars, gateVars, streamVars, tailVars,
                 histVars>>

\* submit_stream_op up to the first enqueue: lock, claim, ++next_seq, fill.
ClaimStream(t) ==
  LET o == curOp[t]
      x == SlotAt(rr, head[rr])
      s == call[o].strm
      q == WAdd(nextSeq[s], 1)
  IN /\ pc[t] = "claim" /\ lock = NoThread
     /\ call[o].mode = "stream"
     /\ HasRoom(rr) /\ SeqInWindow(s)
     /\ lock' = t
     /\ nextSeq' = [nextSeq EXCEPT ![s] = q]
     /\ opOf' = [opOf EXCEPT ![x] = o]
     /\ seq' = [seq EXCEPT ![x] = q]
     /\ curSlot' = [curSlot EXCEPT ![t] = x]
     /\ RouteNext
     /\ pc' = [pc EXCEPT ![t] = "gate"]
     /\ UNCHANGED <<head, tail, state, chunks, bounces, nb, err, stop, curOp,
                    nextOp, call, ret, result, workerVars, devVars, gate,
                    streamVars, tailVars, histVars>>

\* The stream accepts one more command.
Enqueue(s, k, o, v, x) ==
  /\ Len(slog[s]) - spos[s] < SQCap
  /\ slog' = [slog EXCEPT ![s] =
                 Append(@, [k |-> k, op |-> o, v |-> v, x |-> x])]
  /\ UNCHANGED <<spos, parked>>

\* launch_host_func(park_gate_cb, op), or stream_write_value32(2 * seq).
EnqueueGate(t) ==
  LET o == curOp[t]
      x == curSlot[t]
  IN /\ pc[t] = "gate"
     /\ IF AlignedOnly
        THEN /\ Enqueue(call[o].strm, "host", o, 0, x)
             /\ pc' = [pc EXCEPT ![t] = "publish"]
        ELSE /\ Enqueue(call[o].strm, "write", o, Arrived(seq[x]), x)
             /\ pc' = [pc EXCEPT ![t] = "wait"]
     /\ UNCHANGED <<ringVars, stop, curOp, curSlot, nextOp, call, ret, result,
                    workerVars, devVars, gateVars, tailVars, histVars>>

WaitValue(x) == Released(seq[x])

\* stream_wait_value32_geq(2 * seq + 1)
EnqueueWait(t) ==
  LET o == curOp[t]
      x == curSlot[t]
  IN /\ pc[t] = "wait"
     /\ Enqueue(call[o].strm, "wait", o, WaitValue(x), x)
     /\ pc' = [pc EXCEPT ![t] = "publish"]
     /\ UNCHANGED <<ringVars, stop, curOp, curSlot, nextOp, call, ret, result,
                    workerVars, devVars, gateVars, tailVars, histVars>>

\* Either enqueue fails: unlock and return the error.  The slot stays
\* unpublished and the sequence number stays consumed.
GateFails(t) ==
  /\ pc[t] \in {"gate", "wait"}
  /\ lock' = NoThread
  /\ ret' = [ret EXCEPT ![curOp[t]] = "failed"]
  /\ pc' = [pc EXCEPT ![t] = "idle"]
  /\ UNCHANGED <<head, tail, rr, slotVars, stop, curOp, curSlot, nextOp, call,
                 result, workerVars, devVars, gateVars, streamVars, tailVars,
                 histVars>>

\* state := PENDING, queue_head := head + 1, unlock.  A read that may have a
\* partial tail goes on to enqueue the copy kernel without the lock.
Publish(t) ==
  LET o == curOp[t]
      x == curSlot[t]
      copies == ~AlignedOnly /\ ~call[o].wr
  IN /\ pc[t] = "publish"
     /\ state' = [state EXCEPT ![x] = "PENDING"]
     /\ head' = [head EXCEPT ![x[1]] = WAdd(@, 1)]
     /\ lock' = NoThread
     /\ pc' = [pc EXCEPT ![t] = IF copies THEN "copy" ELSE "idle"]
     /\ ret' = IF copies THEN ret ELSE [ret EXCEPT ![o] = "ok"]
     /\ UNCHANGED <<tail, rr, opOf, seq, chunks, bounces, nb, err, stop, curOp,
                    curSlot, nextOp, call, result, workerVars, devVars,
                    gateVars, streamVars, tailVars, histVars>>

\* copy_stream(bounce_desc_dev)
EnqueueCopy(t) ==
  LET o == curOp[t]
  IN /\ pc[t] = "copy"
     /\ Enqueue(call[o].strm, "copy", o, 0, curSlot[t])
     /\ ret' = [ret EXCEPT ![o] = "ok"]
     /\ pc' = [pc EXCEPT ![t] = "idle"]
     /\ UNCHANGED <<ringVars, stop, curOp, curSlot, nextOp, call, result,
                    workerVars, devVars, gateVars, tailVars, histVars>>

CopyFails(t) ==
  /\ pc[t] = "copy"
  /\ ret' = [ret EXCEPT ![curOp[t]] = "failed"]
  /\ pc' = [pc EXCEPT ![t] = "idle"]
  /\ UNCHANGED <<ringVars, stop, curOp, curSlot, nextOp, call, result,
                 workerVars, devVars, gateVars, streamVars, tailVars,
                 histVars>>

\* opends_driver_close, with no other call in progress: workers_teardown
\* sets stop and joins the workers.
Close ==
  /\ ~stop /\ \A t \in Threads : pc[t] = "idle"
  /\ \/ Closing = "any"
     \/ Closing = "settled" /\ \A x \in Slots : state[x] = "FREE"
  /\ stop' = TRUE
  /\ UNCHANGED <<ringVars, callVars, workerVars, devVars, gateVars, streamVars,
                 tailVars, histVars>>
-----------------------------------------------------------------------------
(***************************************************************************)
(* The I/O threads: io_thread_main and what it calls.                      *)
(***************************************************************************)

\* A pass begins: load queue_head, start scanning at queue_tail.
BeginPass(w) ==
  /\ wpc[w] = "begin"
  /\ wsnap' = [wsnap EXCEPT ![w] = head[w]]
  /\ wi' = [wi EXCEPT ![w] = tail[w]]
  /\ wpc' = [wpc EXCEPT ![w] = "scan"]
  /\ UNCHANGED <<ringVars, stop, callVars, wbusy, wleft, devVars, gateVars,
                 streamVars, tailVars, histVars>>

\* The slot the scan is at, while wpc is "scan", "start" or "pwrite".
Here(w) == SlotAt(w, wi[w])

Scanning(w, states) ==
  wpc[w] = "scan" /\ wi[w] # wsnap[w] /\ state[Here(w)] \in states

Advance(w) == wi' = [wi EXCEPT ![w] = WAdd(@, 1)]

\* poll_stream_pending: the stream has not arrived at this operation.
Gated(x) == /\ IsStream(x)
            /\ CyclicLess(gate[CallAt(x).strm], Arrived(seq[x]))

\* release_gate
ReleaseGate(x) ==
  gate' = IF IsStream(x)
          THEN [gate EXCEPT ![CallAt(x).strm] = Released(seq[x])]
          ELSE gate

\* state := FREE
FreeSlot(x) == state' = [state EXCEPT ![x] = "FREE"]

\* reap_in_flight: every command of the read has been polled.
AllReaped(x) == chunks[x] = 0 /\ bounces[x] = 0

\* A slot the scan has nothing to do for: FREE, or in flight and not done.
PassSlot(w) ==
  /\ Scanning(w, {"FREE", "IN_FLIGHT"})
  /\ state[Here(w)] = "IN_FLIGHT" => ~AllReaped(Here(w))
  /\ Advance(w)
  /\ UNCHANGED <<ringVars, stop, callVars, wpc, wsnap, wbusy, wleft, devVars,
                 gateVars, streamVars, tailVars, histVars>>

LeaveGated(w) ==
  /\ Scanning(w, {"PENDING"}) /\ Gated(Here(w))
  /\ wbusy' = [wbusy EXCEPT ![w] = TRUE]
  /\ Advance(w)
  /\ UNCHANGED <<ringVars, stop, callVars, wpc, wsnap, wleft, devVars,
                 gateVars, streamVars, tailVars, histVars>>

\* dispatch_pending for a read, up to start_read_op.
DispatchRead(w) ==
  LET x == Here(w)
  IN /\ Scanning(w, {"PENDING"}) /\ ~Gated(x) /\ ~CallAt(x).wr
     /\ chunks' = [chunks EXCEPT ![x] = 0]
     /\ bounces' = [bounces EXCEPT ![x] = 0]
     /\ err' = [err EXCEPT ![x] = FALSE]
     /\ nb' = [nb EXCEPT ![x] = 0]
     /\ state' = [state EXCEPT ![x] = "IN_FLIGHT"]
     /\ wpc' = [wpc EXCEPT ![w] = "start"]
     /\ \E n \in 0 .. MaxChunks : wleft' = [wleft EXCEPT ![w] = n]
     /\ UNCHANGED <<head, tail, rr, lock, opOf, seq, stop, callVars, wi, wsnap,
                    wbusy, devVars, gateVars, streamVars, tailVars, histVars>>

\* Commands of worker w that hold a context of its queue.
Outstanding(w) ==
  MapThenSumSet(LAMBDA x : devC[x] + devB[x] + cqC[x] + cqB[x],
                {w} \X (0 .. QSize - 1))

\* submit_read_middle issues one chunk.
IssueChunk(w) ==
  LET x == Here(w)
  IN /\ wpc[w] = "start" /\ Outstanding(w) < QDepth
     /\ wleft[w] > 0 /\ wleft' = [wleft EXCEPT ![w] = @ - 1]
     /\ chunks' = [chunks EXCEPT ![x] = @ + 1]
     /\ devC' = [devC EXCEPT ![x] = @ + 1]
     /\ UNCHANGED <<head, tail, rr, lock, state, opOf, seq, bounces, nb, err,
                    stop, callVars, wpc, wi, wsnap, wbusy, devB, cqC, cqB,
                    cqErr, gateVars, streamVars, tailVars, histVars>>

\* submit_partial refuses: no partial LBA is allowed, or no slot is left.
MayBounce(x) ==
  /\ ~AlignedOnly
  /\ nb[x] < (IF IsStream(x) THEN 1 ELSE BounceSlots)

\* submit_bounce_read issues a one-LBA read into the stream's bounce buffer
\* (submit_stream_bounce, which also fills the descriptor) or the slot's own
\* (submit_host_bounce).
IssueBounce(w) ==
  LET x == Here(w)
      o == opOf[x]
      s == CallAt(x).strm
  IN /\ wpc[w] = "start" /\ Outstanding(w) < QDepth
     /\ MayBounce(x)
     /\ bounces' = [bounces EXCEPT ![x] = @ + 1]
     /\ nb' = [nb EXCEPT ![x] = @ + 1]
     /\ devB' = [devB EXCEPT ![x] = @ + 1]
     /\ IF IsStream(x)
        THEN /\ bounce' = [bounce EXCEPT ![s] = NoOp]
             /\ descDst' = [descDst EXCEPT ![s] = o]
             /\ tailed' = tailed \cup {o}
        ELSE UNCHANGED <<bounce, descDst, tailed>>
     /\ UNCHANGED <<head, tail, rr, lock, state, opOf, seq, chunks, err, stop,
                    callVars, workerVars, devC, cqC, cqB, cqErr, gateVars,
                    streamVars, descN, failed, delivered>>

\* start_read_op gives up: a rejected range, an alignment rule, no extents, a
\* failed allocation or submission.  What was issued stays in flight.
StartFails(w) ==
  LET x == Here(w)
  IN /\ wpc[w] = "start"
     /\ err' = [err EXCEPT ![x] = TRUE]
     /\ failed' = failed \cup {opOf[x]}
     /\ wpc' = [wpc EXCEPT ![w] = "scan"]
     /\ wleft' = [wleft EXCEPT ![w] = 0]
     /\ Advance(w)
     /\ UNCHANGED <<head, tail, rr, lock, state, opOf, seq, chunks, bounces,
                    nb, stop, callVars, wsnap, wbusy, devVars, gateVars,
                    streamVars, tailVars, tailed, delivered>>

\* start_read_op has issued every span of the read.
StartDone(w) ==
  /\ wpc[w] = "start" /\ wleft[w] = 0
  /\ wpc' = [wpc EXCEPT ![w] = "scan"]
  /\ Advance(w)
  /\ UNCHANGED <<ringVars, stop, callVars, wsnap, wbusy, wleft, devVars,
                 gateVars, streamVars, tailVars, histVars>>

\* chunk_cb and bounce_cb record a failed status and keep an earlier error.
ErrAfterCallbacks(x) == err[x] \/ cqErr[x]

\* xnvme_queue_poke: run chunk_cb and bounce_cb for every completion.
Poll(w) ==
  /\ chunks' = [x \in Slots |-> IF x[1] = w THEN chunks[x] - cqC[x]
                                            ELSE chunks[x]]
  /\ bounces' = [x \in Slots |-> IF x[1] = w THEN bounces[x] - cqB[x]
                                             ELSE bounces[x]]
  /\ err' = [x \in Slots |-> IF x[1] = w THEN ErrAfterCallbacks(x) ELSE err[x]]
  /\ cqC' = [x \in Slots |-> IF x[1] = w THEN 0 ELSE cqC[x]]
  /\ cqB' = [x \in Slots |-> IF x[1] = w THEN 0 ELSE cqB[x]]
  /\ cqErr' = [x \in Slots |-> IF x[1] = w THEN FALSE ELSE cqErr[x]]

HasCompletions(w) ==
  \E i \in 0 .. QSize - 1 : cqC[<<w, i>>] + cqB[<<w, i>>] > 0

\* The pokes inside the submission loops: no free context, or -EBUSY.
PokeWhileStarting(w) ==
  /\ wpc[w] = "start" /\ HasCompletions(w)
  /\ Poll(w)
  /\ UNCHANGED <<head, tail, rr, lock, state, opOf, seq, nb, stop, callVars,
                 workerVars, devC, devB, gateVars, streamVars, tailVars,
                 histVars>>

\* dispatch_pending for a write: dispatch_write enters pwrite_op.
DispatchWrite(w) ==
  LET x == Here(w)
  IN /\ Scanning(w, {"PENDING"}) /\ ~Gated(x) /\ CallAt(x).wr
     /\ wpc' = [wpc EXCEPT ![w] = "pwrite"]
     /\ UNCHANGED <<ringVars, stop, callVars, wi, wsnap, wbusy, wleft, devVars,
                    gateVars, streamVars, tailVars, histVars>>

\* The rest of dispatch_write: report, release the gate, free the slot.
FinishWrite(w) ==
  LET x == Here(w)
  IN /\ wpc[w] = "pwrite"
     /\ \E r \in {"ok", "err"} :
          /\ result' = [result EXCEPT ![opOf[x]] = r]
          /\ failed' = IF r = "err" THEN failed \cup {opOf[x]} ELSE failed
     /\ ReleaseGate(x)
     /\ FreeSlot(x)
     /\ wpc' = [wpc EXCEPT ![w] = "scan"]
     /\ Advance(w)
     /\ UNCHANGED <<head, tail, rr, lock, opOf, seq, chunks, bounces, nb, err,
                    stop, pc, curOp, curSlot, nextOp, call, ret, wsnap, wbusy,
                    wleft, devVars, nextSeq, streamVars, tailVars, tailed,
                    delivered>>

\* bounce_desc_host->n_bytes is not zero.
HasTail(x) == ~err[x] /\ nb[x] > 0

\* complete_read_op for a stream read: report, size the tail copy, release
\* the gate, free the slot.
CompleteStreamRead(w) ==
  LET x == Here(w)
      s == CallAt(x).strm
  IN /\ Scanning(w, {"IN_FLIGHT"}) /\ AllReaped(x) /\ IsStream(x)
     /\ result' = [result EXCEPT ![opOf[x]] = IF err[x] THEN "err"
                                                              ELSE "ok"]
     /\ descN' = [descN EXCEPT ![s] = HasTail(x)]
     /\ ReleaseGate(x)
     /\ FreeSlot(x)
     /\ Advance(w)
     /\ UNCHANGED <<head, tail, rr, lock, opOf, seq, chunks, bounces, nb, err,
                    stop, pc, curOp, curSlot, nextOp, call, ret, wpc, wsnap,
                    wbusy, wleft, devVars, nextSeq, streamVars, bounce,
                    descDst, histVars>>

\* complete_read_op for an asynchronous read; run_bounce_copies may fail.
CompleteAsyncRead(w) ==
  LET x == Here(w)
  IN /\ Scanning(w, {"IN_FLIGHT"}) /\ AllReaped(x) /\ ~IsStream(x)
     /\ \E copied \in IF nb[x] > 0 /\ ~err[x] THEN BOOLEAN ELSE {TRUE} :
          /\ result' = [result EXCEPT ![opOf[x]] =
                          IF err[x] \/ ~copied THEN "err" ELSE "ok"]
          /\ failed' = IF copied THEN failed ELSE failed \cup {opOf[x]}
     /\ FreeSlot(x)
     /\ Advance(w)
     /\ UNCHANGED <<head, tail, rr, lock, opOf, seq, chunks, bounces, nb, err,
                    stop, pc, curOp, curSlot, nextOp, call, ret, wpc, wsnap,
                    wbusy, wleft, devVars, gateVars, streamVars, tailVars,
                    tailed, delivered>>

ScanEnded(w) == wpc[w] = "scan" /\ wi[w] = wsnap[w]

\* queue_tail moves past a settled slot of the pass.
CanDrain(w) ==
  tail[w] # wsnap[w] /\ state[SlotAt(w, tail[w])] = "FREE"

Drain(w) ==
  /\ ScanEnded(w) /\ CanDrain(w)
  /\ tail' = [tail EXCEPT ![w] = WAdd(@, 1)]
  /\ UNCHANGED <<head, rr, lock, slotVars, stop, callVars, workerVars, devVars,
                 gateVars, streamVars, tailVars, histVars>>

\* stop && !busy
LeavesLoop(busy) == stop /\ ~busy

\* The pass ends: leave when stopping and not busy, poke when busy.
EndPass(w) ==
  LET busy == wbusy[w] \/ tail[w] # wsnap[w]
  IN /\ ScanEnded(w) /\ ~CanDrain(w)
     /\ wpc' = [wpc EXCEPT ![w] = IF LeavesLoop(busy) THEN "exit"
                                  ELSE IF busy THEN "poke" ELSE "begin"]
     /\ wbusy' = [wbusy EXCEPT ![w] = FALSE]
     /\ UNCHANGED <<ringVars, stop, callVars, wi, wsnap, wleft, devVars,
                    gateVars, streamVars, tailVars, histVars>>

Poke(w) ==
  /\ wpc[w] = "poke"
  /\ Poll(w)
  /\ wpc' = [wpc EXCEPT ![w] = "begin"]
  /\ UNCHANGED <<head, tail, rr, lock, state, opOf, seq, nb, stop, callVars,
                 wi, wsnap, wbusy, wleft, devC, devB, gateVars, streamVars,
                 tailVars, histVars>>
-----------------------------------------------------------------------------
(***************************************************************************)
(* The device: each command completes once, with or without an error.      *)
(***************************************************************************)

CompleteChunk(x) ==
  /\ devC[x] > 0
  /\ devC' = [devC EXCEPT ![x] = @ - 1]
  /\ cqC' = [cqC EXCEPT ![x] = @ + 1]
  /\ \E ok \in BOOLEAN :
       /\ cqErr' = [cqErr EXCEPT ![x] = @ \/ ~ok]
       /\ failed' = IF ok THEN failed ELSE failed \cup {opOf[x]}
  /\ UNCHANGED <<ringVars, stop, callVars, workerVars, devB, cqB, gateVars,
                 streamVars, tailVars, tailed, delivered>>

\* A bounce read lands in the bounce buffer it was issued for.
CompleteBounce(x) ==
  /\ devB[x] > 0
  /\ devB' = [devB EXCEPT ![x] = @ - 1]
  /\ cqB' = [cqB EXCEPT ![x] = @ + 1]
  /\ \E ok \in BOOLEAN :
       /\ cqErr' = [cqErr EXCEPT ![x] = @ \/ ~ok]
       /\ failed' = IF ok THEN failed ELSE failed \cup {opOf[x]}
       /\ bounce' = IF IsStream(x) /\ ok
                    THEN [bounce EXCEPT ![CallAt(x).strm] = opOf[x]]
                    ELSE bounce
  /\ UNCHANGED <<ringVars, stop, callVars, workerVars, devC, cqC, gateVars,
                 streamVars, descDst, descN, tailed, delivered>>
-----------------------------------------------------------------------------
(***************************************************************************)
(* The streams: commands execute one at a time, in enqueue order.          *)
(***************************************************************************)

HasCommand(s, k) == spos[s] < Len(slog[s]) /\ slog[s][spos[s] + 1].k = k
Command(s) == slog[s][spos[s] + 1]
Step(s) == spos' = [spos EXCEPT ![s] = @ + 1]

RunWrite(s) ==
  /\ HasCommand(s, "write")
  /\ gate' = [gate EXCEPT ![s] = Command(s).v]
  /\ Step(s)
  /\ UNCHANGED <<ringVars, stop, callVars, workerVars, devVars, nextSeq, slog,
                 parked, tailVars, histVars>>

RunWait(s) ==
  /\ HasCommand(s, "wait")
  /\ ~CyclicLess(gate[s], Command(s).v)
  /\ Step(s)
  /\ UNCHANGED <<ringVars, stop, callVars, workerVars, devVars, gateVars, slog,
                 parked, tailVars, histVars>>

\* park_gate_cb: publish the arrival, then spin.  It reads the slot when it
\* runs, not when it is enqueued.
Park(s) ==
  LET x == Command(s).x
  IN /\ HasCommand(s, "host") /\ parked[s] = NotParked
     /\ gate' = [gate EXCEPT ![CallAt(x).strm] = Arrived(seq[x])]
     /\ parked' = [parked EXCEPT ![s] = seq[x]]
     /\ UNCHANGED <<ringVars, stop, callVars, workerVars, devVars, nextSeq,
                    slog, spos, tailVars, histVars>>

\* The condition the callback spins on.
SpinEnds(s) == ~CyclicLess(gate[s], Released(parked[s]))

Unpark(s) ==
  /\ parked[s] # NotParked /\ SpinEnds(s)
  /\ parked' = [parked EXCEPT ![s] = NotParked]
  /\ Step(s)
  /\ UNCHANGED <<ringVars, stop, callVars, workerVars, devVars, gateVars, slog,
                 tailVars, histVars>>

\* The copy kernel: n_bytes from the bounce buffer to the descriptor's
\* destination.
RunCopy(s) ==
  /\ HasCommand(s, "copy")
  /\ delivered' = IF descN[s] /\ bounce[s] = descDst[s]
                  THEN delivered \cup {descDst[s]} ELSE delivered
  /\ Step(s)
  /\ UNCHANGED <<ringVars, stop, callVars, workerVars, devVars, gateVars, slog,
                 parked, tailVars, failed, tailed>>
-----------------------------------------------------------------------------
\* The steps that bring a call, or an I/O thread, further.  Beside them an
\* enqueue and the start of a read can fail.
ThreadGoesOn(t) ==
  \/ ClaimFull(t) \/ ClaimAsync(t) \/ AwaitReturns(t) \/ ClaimStream(t)
  \/ EnqueueGate(t) \/ EnqueueWait(t) \/ Publish(t) \/ EnqueueCopy(t)

WorkerGoesOn(w) ==
  \/ BeginPass(w) \/ PassSlot(w) \/ LeaveGated(w) \/ DispatchRead(w)
  \/ IssueChunk(w) \/ IssueBounce(w) \/ StartDone(w)
  \/ PokeWhileStarting(w) \/ DispatchWrite(w) \/ FinishWrite(w)
  \/ CompleteStreamRead(w) \/ CompleteAsyncRead(w) \/ Drain(w)
  \/ EndPass(w) \/ Poke(w)

ThreadStep(t) == ThreadGoesOn(t) \/ GateFails(t) \/ CopyFails(t)
WorkerStep(w) == WorkerGoesOn(w) \/ StartFails(w)

DeviceStep(x) == CompleteChunk(x) \/ CompleteBounce(x)

StreamStep(s) ==
  RunWrite(s) \/ RunWait(s) \/ Park(s) \/ Unpark(s) \/ RunCopy(s)

Next ==
  \/ \E t \in Threads : StartCall(t) \/ ThreadStep(t)
  \/ Close
  \/ \E w \in Workers : WorkerStep(w)
  \/ \E x \in Slots : DeviceStep(x)
  \/ \E s \in Streams : StreamStep(s)

Spec == Init /\ [][Next]_vars

\* A thread inside a call, an I/O thread, the device and a stream each keep
\* running; nobody has to make a call or to close the driver.  An enqueue or
\* the start of a read may fail but need not: who waits for room in a stream's
\* queue or for a command context waits until there is some.
Fairness ==
  /\ \A t \in Threads : WF_vars(ThreadGoesOn(t))
  /\ \A w \in Workers : WF_vars(WorkerGoesOn(w))
  /\ \A x \in Slots : WF_vars(DeviceStep(x))
  /\ \A s \in Streams : WF_vars(StreamStep(s))

FairSpec == Spec /\ Fairness
-----------------------------------------------------------------------------
(***************************************************************************)
(* Properties.                                                             *)
(***************************************************************************)

CommandType == [k : {"write", "wait", "host", "copy"}, op : Ops, v : Word,
                x : Slots]

RingType ==
  /\ head \in [Workers -> Word] /\ tail \in [Workers -> Word]
  /\ rr \in Workers
  /\ lock \in Threads \cup {NoThread}
  /\ stop \in BOOLEAN

SlotType ==
  /\ state \in [Slots -> {"FREE", "PENDING", "IN_FLIGHT"}]
  /\ opOf \in [Slots -> Ops \cup {NoOp}]
  /\ seq \in [Slots -> Word]
  /\ chunks \in [Slots -> Int] /\ bounces \in [Slots -> Int]
  /\ nb \in [Slots -> 0 .. BounceSlots] /\ err \in [Slots -> BOOLEAN]

CallerType ==
  /\ pc \in [Threads -> {"idle", "claim", "gate", "wait", "publish", "copy",
                         "await"}]
  /\ curOp \in [Threads -> Ops \cup {NoOp}] /\ curSlot \in [Threads -> Slots]
  /\ nextOp \in 1 .. NOps + 1
  /\ call \in [Ops -> Call]
  /\ ret \in [Ops -> {"none", "ok", "failed"}]
  /\ result \in [Ops -> {"none", "ok", "err"}]

WorkerType ==
  /\ wpc \in [Workers -> {"begin", "scan", "start", "pwrite", "poke", "exit"}]
  /\ wi \in [Workers -> Word] /\ wsnap \in [Workers -> Word]
  /\ wbusy \in [Workers -> BOOLEAN] /\ wleft \in [Workers -> 0 .. MaxChunks]

DeviceType ==
  /\ devC \in [Slots -> Nat] /\ devB \in [Slots -> Nat]
  /\ cqC \in [Slots -> Nat] /\ cqB \in [Slots -> Nat]
  /\ cqErr \in [Slots -> BOOLEAN]

StreamType ==
  /\ gate \in [Streams -> Word] /\ nextSeq \in [Streams -> Word]
  /\ slog \in [Streams -> Seq(CommandType)]
  /\ spos \in [Streams -> Nat]
  /\ parked \in [Streams -> Word \cup {NotParked}]
  /\ bounce \in [Streams -> Ops \cup {NoOp}]
  /\ descDst \in [Streams -> Ops \cup {NoOp}] /\ descN \in [Streams -> BOOLEAN]

HistoryType ==
  /\ failed \subseteq Ops /\ tailed \subseteq Ops
  /\ delivered \subseteq Ops \cup {NoOp}

\* Every variable has its type; in particular the uint32_t counters stay
\* words when they wrap and n_bounces never runs past the bounces array.
TypeOK == RingType /\ SlotType /\ CallerType /\ WorkerType /\ DeviceType
            /\ StreamType /\ HistoryType

\* A worker is executing the operation in slot x: its commands are in flight
\* or it is inside pwrite_op.
Executing(x) ==
  \/ state[x] = "IN_FLIGHT"
  \/ wpc[x[1]] = "pwrite" /\ x = Here(x[1])

\* The stream stands at operation o's wait, or in its host callback.
HeldAt(s, o) ==
  /\ spos[s] < Len(slog[s])
  /\ Command(s).op = o
  /\ \/ Command(s).k = "wait"
     \/ Command(s).k = "host" /\ parked[s] # NotParked

\* Deferred evaluation and stream order: while a worker executes a stream
\* operation (and reads its size and offset pointers), the stream stands
\* exactly at that operation's gate.
ExecutesAtGate ==
  \A x \in Slots : Executing(x) /\ IsStream(x)
                     => HeldAt(CallAt(x).strm, opOf[x])

\* A stream passes an operation's gate only after the operation is settled:
\* what the user enqueues next sees its result and its data.
HeldUntilSettled ==
  \A s \in Streams : \A i \in 1 .. spos[s] :
    slog[s][i].k \in {"wait", "host"} => result[slog[s][i].op] # "none"

\* The counters of a slot account for every command in the device: no DMA is
\* outstanding for a slot that is not in flight, so none lands in a buffer
\* after its operation was settled, and none is credited to a later one.
CommandsAccounted ==
  \A x \in Slots :
    IF state[x] = "IN_FLIGHT"
    THEN /\ chunks[x] = devC[x] + cqC[x]
         /\ bounces[x] = devB[x] + cqB[x]
    ELSE NoCommands(x)

\* The slots in use are those between tail and head, across counter wrap,
\* and there are never more of them than the ring has.
RingWindow ==
  \A w \in Workers :
    LET n == WSub(head[w], tail[w])
    IN /\ n <= QSize
       /\ \A i \in 0 .. QSize - 1 :
            state[<<w, i>>] # "FREE"
              => \E k \in 0 .. n - 1 : <<w, i>> = SlotAt(w, WAdd(tail[w], k))

\* The submit of operation o went as far as publishing it.
Published(o) ==
  \/ ret[o] = "ok"
  \/ \E t \in Threads : curOp[t] = o /\ pc[t] = "copy"

\* No operation is lost and none is done twice: a published operation is
\* unsettled exactly while one slot holds it.
OneSlotPerOp ==
  /\ \A o \in Ops :
       Published(o) /\ result[o] = "none"
         => \E x \in Slots : state[x] # "FREE" /\ opOf[x] = o
  /\ \A x \in Slots : state[x] # "FREE" => result[opOf[x]] = "none"
  /\ \A x, y \in Slots :
       state[x] # "FREE" /\ state[y] # "FREE" /\ opOf[x] = opOf[y]
         => x = y

\* A result tells the truth: success only when every command, copy and
\* pwrite of the operation succeeded, failure only when one did not.
ResultHonest ==
  \A o \in Ops : /\ result[o] = "ok" => o \notin failed
                 /\ result[o] = "err" => o \in failed

\* Once the copy kernel of a successful read with a partial tail has run,
\* the tail is in the user's buffer.
TailDelivered ==
  \A s \in Streams : \A i \in 1 .. spos[s] :
    LET o == slog[s][i].op
    IN slog[s][i].k = "copy" /\ result[o] = "ok" /\ o \in tailed
         => o \in delivered

\* When the workers have been joined, no command is left in the device and
\* no operation half done: teardown frees queues and buffers safely.
JoinedIsQuiet ==
  stop /\ (\A w \in Workers : wpc[w] = "exit")
    => \A x \in Slots : state[x] # "IN_FLIGHT" /\ NoCommands(x)

\* The gate word only moves forward, in cyclic order.
GateMovesForward ==
  [][\A s \in Streams :
       gate'[s] # gate[s] => CyclicLess(gate[s], gate'[s])]_vars

\* The promise of the public header, in terms of the engine's state: the
\* commands an operation waits at stand for it in its stream.
Promise == INSTANCE StreamOrder WITH
  Other   <- NoOp,
  order   <- [s \in Streams |->
               [i \in 1 .. Len(slog[s]) |->
                  IF slog[s][i].k \in {"wait", "host"} THEN slog[s][i].op
                                                       ELSE NoOp]],
  passed  <- spos,
  free    <- {o \in Ops : call[o].mode \in {"async", "sync"} /\ ret[o] = "ok"},
  running <- {opOf[x] : x \in {y \in Slots : Executing(y)}},
  done    <- {o \in Ops : result[o] # "none"}

\* The engine keeps that promise: operations run one at a time per stream,
\* in stream order, when the stream has reached them, and once.
KeepsPromise == Promise!OSpec

\* An accepted operation is settled, unless the driver is closed first.
AcceptedSettles ==
  \A o \in Ops : ret[o] = "ok" ~> result[o] # "none" \/ stop

\* A stream gets past every command enqueued on it: it is never held at a
\* gate for good, so (as NOps bounds what is enqueued) it catches up.
StreamsAdvance ==
  \A s \in Streams : spos[s] < Len(slog[s]) ~> spos[s] = Len(slog[s]) \/ stop

\* A submit returns: a full ring and a full stream are back-pressure only.
CallsReturn == \A t \in Threads : pc[t] # "idle" ~> pc[t] = "idle"

\* opends_driver_close joins every worker.
CloseJoins == stop ~> \A w \in Workers : wpc[w] = "exit"
=============================================================================
