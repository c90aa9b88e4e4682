# TLA+ models of opends

opends is a C library for I/O between NVMe storage and accelerator memory.
Its `aisio` backend drives NVMe queue pairs from user space with its own I/O
threads and orders operations against accelerator streams. This directory
models that backend, the reference and GDS backends behind the same interface,
the batches, the file I/O and the Python binding in TLA+, checks them with TLC
on small instances and proves properties of them with TLAPS for every value of
the constants.

## Inventory

| Component | State | Operations | Source |
|---|---|---|---|
| I/O engine: rings and submission | per worker `queue_head`, `queue_tail`, `file_op_queue`; `rr_next`, `submit_lock` | `submit_async_op`, `submit_stream_op`, `claim_slot_locked`, `opends_async_await` | `src/src/opends_aisio.c` |
| I/O engine: I/O threads | scan position, `busy`, the slots' `state`, `chunks_remaining`, `bounces_outstanding`, `n_bounces`, `err` | `io_thread_main`, `dispatch_pending`, `start_read_op`, `dispatch_write`, `reap_in_flight`, `complete_read_op`, callbacks | same |
| Stream gate | per stream gate word, `next_seq`, bounce buffer, copy descriptor | arrival write or host callback, wait, `release_gate`, tail copy kernel | same, `ds_bounce_kernel_cuda.cu` |
| Driver lifecycle | `drv`, `workers_ready`, `stop`, the homi attachment | `opends_driver_open`, `opends_driver_close`, `workers_setup`, `workers_teardown` | same |
| File handles | a counter per backend | `opends_handle_register`, `opends_handle_deregister` | same, `opends_ref.c`, `opends_gds.c` |
| Buffers | `bufs`, `buf_count` under `reg_lock` | `opends_alloc`, `opends_free`, `opends_buf_register`, `opends_buf_deregister` | same |
| Stream registration | `streams`, `n_streams`, the stream map | `opends_stream_register`, `opends_stream_deregister`, `ds_stream_map_get`, `ds_stream_map_put` | same, `ds_stream_map.h` |
| Read planning | extents, LBA arithmetic | `resolve_extents`, `start_read_op`, `submit_read_middle`, `submit_partial` | same |
| Batch | entries, `used`, `inflight`, `capacity` | `opends_batch_setup`, `_submit`, `_get_status`, `_cancel`, `_destroy` | `src/src/opends_batch_async.c` |
| Synchronous calls | none | submit, then await | `src/src/opends_sync_async.c` |
| Direct file I/O | an aligned bounce buffer per call, `trunc_to` | `opends_direct_pwrite`, `opends_direct_pread`, read-modify-write of edge blocks | `src/src/opends_common.c` |
| Reference backend | `driver_open`, `ref_registered`, `use_count` | registration, POSIX I/O | `src/src/opends_ref.c` |
| GDS backend | `driver_open`, `use_count`; the rest inside cuFile | lifecycle, registration, wrapper calls | `src/src/opends_gds.c` |
| Python binding | driver reference count, registry of files and buffers | open, close, register, cleanup at exit and on signals | `src/python/opends/_file.py` |

How they interact. Application threads call the submit functions, which fill
a slot of some worker's ring under `submit_lock` and, for a stream operation,
enqueue commands on the user's stream. Each worker scans its own ring without
the lock. Worker and submitter share the ring counters and the slots' `state`
(release/acquire); worker and stream share the gate word; worker and device
share the queue pair, whose completions run callbacks only when the worker
itself polls. Registrations run under `reg_lock`, device allocations under
`alloc_lock` inside it. Batch and synchronous calls are built on the
asynchronous ones. Writes go through the file system and mark the device dirty
at the HOMI daemon; reads of the aisio backend go around the file system, by
the extents HOMI has cached.

What is hard: operations of one stream are handled by different workers and
only the gate word keeps them in order; every counter is a free-running
`uint32_t`; an enqueue, a command, a copy or a pwrite can fail halfway;
slots are reused while a pass with an older head is still scanning; the
submitter works with the lock, then without it; the driver can be closed while
workers run; the stream map is read without its lock; an allocation may wait for
streams that wait for the I/O threads; a write of part of a block is several
system calls, each of which can be short or fail; the extents a read goes by can
be stale; Python signal handlers run inside whatever the main thread is
doing. `PROJECT.json` lists these hazards at their lines.

## Modules

* `Word32`: unsigned words of `2 * Half` values, the cyclic comparison, and
  the two gate phases `Arrived(q) = 2q` and `Released(q) = 2q + 1`. The code's
  word has 2^32 values; the runs use 8 so that everything wraps.
* `IoEngine`: the engine, with the device and the streams as its environment.
* `StreamOrder`: what `opends.h` promises of submitted operations.
* `MCIoEngine`: the calls the threads of each TLC instance make.
* `StreamRegistry` (`MCStreamRegistry`: a colliding hash): registration under
  `reg_lock` and the map's lock-free readers.
* `Batch`: `opends_batch_async.c` over futures the backend completes.
* `Contract`: what `opends.h` promises of opening, closing, registering and
  allocating, whichever library is loaded.
* `Calls`: the threads of an application and the handle counters. `Driver` (the
  aisio backend: open, close, buffer table, everything the process holds),
  `RefBackend` and `GdsBackend` build on it; `Backends` composes the three.
* `FileStore`: the file, its blocks on the device, and HOMI's cache (external).
  `DirectIo` (`opends_common.c`) and `ReadPlan` (`start_read_op` with its bytes)
  build on it; `DataPath` composes them into the reads and writes of an
  application, `MCDataPath` has the requests of the TLC instances.
* `PyBinding`: the Python binding's reference count, registry and cleanup.
* `IoEngineProofs`, `RingProofs`, `GateProofs` (about `IoEngine`, each building
  on the one before), `StreamRegistryProofs`, `BatchProofs`, `BackendsProofs`,
  `PyBindingProofs`, `DataPathProofs`: the theorems.

`StreamOrder` is implemented by `IoEngine` (`Promise` is the mapping),
`Contract` by `Backends` (`C` is the mapping). The compositions are `Backends`
and `DataPath`; the others share no state that either would change. `Batch`
needs of `IoEngine` that a future is completed once and after the submit,
`Driver` that its threads end after `stop`. `ReadPlan` and `IoEngine` are two
views of `start_read_op`: `IoEngine` has its slot, ring, gate and counters and
leaves free which spans it issues; `ReadPlan` has spans, LBAs and bytes, for one
read at a time.

### How `IoEngine` corresponds to the code

The variables are the fields of `struct driver`, `io_worker`, `file_op` and
`opends_stream`, one TLA+ function per field, plus each actor's program
counter. `SlotAt(w, ctr)` is `&w->file_op_queue[ctr & FILE_OP_QUEUE_MASK]`.
An operation is a number that stands for the caller's parameters and result
storage; `result` is `*bytes_p` or the future.

A step ends where another actor can see it: at a release store, an enqueue, an
unlock, a return. `submit_async_op` from lock to unlock is one step, because a
worker sees nothing of it before the publishing store of `queue_head` (its
store of `state` is behind that head). `submit_stream_op` is
`ClaimStream`, `EnqueueGate`, `EnqueueWait`, `Publish`, `EnqueueCopy`, with
`GateFails` and `CopyFails` for its error returns; a blocked enqueue is a
disabled step, with the lock held. `io_thread_main` is `BeginPass`, one step
per slot of the scan, `Drain`, `EndPass`, `Poke`. `start_read_op` is
`DispatchRead`, any number of `IssueChunk` and `IssueBounce` steps, and
`StartFails` or `StartDone`: which spans it issues depends on extents and
offsets, which the model leaves free, within `MaxChunks`. The device and the
streams run between any two of these steps.

Stores that settle an operation (result, descriptor, gate, `FREE`) form one
step: the reader of each later store acquires it, and between them only the
gate's release is visible to the stream, whose next step does not touch the
slot.

External, modelled from the code's use: the device completes each command
once, in any order, with or without an error, and a bounce read fills its
buffer when it succeeds; a stream runs its commands one at a time in enqueue
order and its queue holds `SQCap` of them.

### How the other modules correspond to the code

* `StreamRegistry`. `opends_stream_register` is `Register`, then one of
  `AlreadyThere`, `NoRoom`, or `SetUp` followed by `AllocFails` or by
  `PutIndex` and `PublishKey`: `ds_stream_map_put` stores the index and then
  releases the key, and readers may come between. A lookup is `Lookup`, one
  `ProbePast` per cell, `ProbeEnds`. The hash is an arbitrary function.
* `Batch`. One step per turn of each loop of `opends_batch_submit`,
  `_get_status`, `_cancel` and `_destroy`; `Complete` is the backend. A batch
  belongs to one thread, as the header requires.
* `DirectIo`. `opends_direct_pwrite` is `AllocBounce`, `Stat`, `FillHead`,
  `FillTail`, `Copy`, one `WriteSome` per `pwrite` (short ones included) and
  `Truncate`; `PwriteFails` is the failure of any of them. Several writes run
  at once, one step per system call. `opends_direct_pread` is `PreadSome` and
  `CopyOut`. A retry after `EINTR` changes nothing and is left out.
* `ReadPlan`. `Resolve` is one turn of the loop of `resolve_extents`;
  `NextExtent`, `IssueHead`, `IssueChunk`, `IssueTail` and `PlanRefuses` are the loops of
  `start_read_op` and `submit_read_middle`; commands complete in any order and
  put the bytes of the device into the buffer or a bounce slot; `CompleteRead`
  is `complete_read_op`. A command's NLB field is zero-based, as on the wire.
  A command context that runs out is in `IoEngine`.
* `DataPath`. `want` and `wantSize` are the file POSIX writes of the successful
  requests would make. A byte is the pair of the write it came from and its
  place in that write's buffer, so no byte passes for another. An application
  reads when its writes have returned: what a read concurrent with a write of
  the same bytes returns is nowhere promised.
* `RefBackend`, `GdsBackend`. `use_count++` and the table's changes are a load
  and a store, with no lock, as in the code; aisio's counter is atomic. A call
  that fails and changes nothing is not a step. `mine` and `heap` are what the
  answers told the application.
* `Driver`. `pc` is the place inside `opends_driver_open` or `_close`; every
  call that can fail has a failing alternative and the label it jumps to. The
  four buffer operations and stream registration hold `reg_lock` throughout and
  are one step each. The resources (`conn`, `attached`, `xdev`, `queues`,
  `threads`, `words`, `bounces`, `opBufs`, `allocs`, `maps`) are what the calls
  took and have not given back, independent of what the driver believes. Two
  simplifications: the connection's end is taken to end the attachment
  (`Disconnect`; `open_device` does not detach), and a thread that sees `stop`
  leaves (`ThreadExits`): the model assumes that every operation has settled
  before a close, so its pass is not busy. `IoEngine` has the condition `!busy` and checks `CloseJoins`.
* `PyBinding`. A thread is a stack of frames; a signal pushes one on the main
  thread's stack. A frame's `pc` names the next lock or C call (`c_...`).
  `_lock` is reentrant, the registry's lock is not. Threads and buffers share
  names: thread `t` owns buffer `t`. `opends_driver_close` may fail
  (`CloseFails`; it does in `opends_gds.c`, which stays open then):
  `_release_driver` raises with the count at zero, `_cleanup` takes no notice.
  `closeFailed` remembers it.

## Properties and runs

| Run | Instance | Properties |
|---|---|---|
| `stream_gate` | 1 thread, 3 reads or writes on 1 stream, 2 workers with 1 slot each, write/wait gate | `TypeOK`, `ExecutesAtGate`, `HeldUntilSettled`, `TailDelivered`, `ResultHonest`, `CommandsAccounted`, `GateMovesForward` |
| `rings` | 2 threads on one stream, one of which also makes asynchronous reads, 3 operations, 1 worker with 2 slots, host-callback gate, closed at any time | `RingWindow`, `OneSlotPerOp`, `JoinedIsQuiet`, `KeepsPromise` |
| `liveness` | 1 worker, 2 slots, one command context, a two-command stream queue, 2 threads with stream and synchronous calls, 2 operations, write/wait gate | `KeepsPromise`, `AcceptedSettles`, `StreamsAdvance`, `CallsReturn`, `CloseJoins` |
| `shared_tail` | 2 threads reading on one stream, write/wait gate | `TailDelivered`, violated |
| `batch` | 4 operations through a batch of 2 entries | `InflightExact`, `ReportedOnce`, `ReportHonest`, `FutureOwned`, `BatchCallsReturn` |
| `registry` | 2 threads, 3 streams whose walks collide and wrap | `TypeOK`, `OnPath`, `RegisteredIsFound`, `HitIsOwn`, `OneStatePerStream`, `StateIsKept` |
| `backends` | each backend: 3 addresses, tables of 2, 2 I/O threads, 2 streams, 2 handles, any number of opens and closes | `Grounded`, `NothingLeft`, `RecordsExact`, `OpenCloseReturn`, `KeepsContract` |
| `data_path` | aisio and reference: 2 writes, then a read, of a fragmented file of up to 3 blocks | `FileExact`, `ReadExact`, `InBuffer`, `IoReturns` |
| `rmw_race` | 2 writes of different bytes at once | `FileExact`, violated |
| `python` | 2 threads, 5 calls, 2 signals outside the main thread's calls, C calls that fail, exit | `RefsExact`, `DriverCounted`, `IoHasDriver`, `PyCallsReturn` |
| `py_signal_close` | 1 thread, a signal anywhere, the default action | `DeadIsClosed`, violated |
| `py_handle_fails` | 1 thread, `opends_handle_register` fails | `RefsExact`, violated |

What they say:

* `ExecutesAtGate`: while a worker executes a stream operation, and reads the
  caller's size and offset pointers, the stream stands at that operation's
  gate. `HeldUntilSettled`: the stream goes on only once the result is there.
  `KeepsPromise` states both, with one-at-a-time and once-only, as
  refinement of `StreamOrder`.
* `TailDelivered`: when the copy kernel of a successful read with a partial
  last block has run, the tail is in the user's buffer.
* `ResultHonest`: success is reported exactly when nothing failed.
* `CommandsAccounted`: a slot's counters equal its commands in the device and
  the completion queue, and a slot that is not in flight has none.
* `RingWindow`, `OneSlotPerOp`: the used slots lie between tail and head across
  the wrap; no operation is lost or doubled, and none is held once settled.
* `JoinedIsQuiet`, `CloseJoins`: a joined worker leaves nothing in the device
  whenever close came; and close does join when operations had settled.
* `AcceptedSettles`, `CallsReturn`: an accepted operation gets its result, also
  when its start waits for a command context that another operation holds, and
  a call returns, also when its enqueue waits under `submit_lock` for room in a
  stream that stands at an earlier operation's gate. Neither is helped by a
  failure (see Fairness).
* `StreamsAdvance`: a stream with commands left reaches the end of what was
  enqueued, failed operations included, unless the driver is closed.
* `RegisteredIsFound`, `HitIsOwn`: a lookup without the lock finds a stream
  registered before it began and never another one's state; `OnPath` is why.
* `FutureOwned`: no future is written once its batch entry was given to another
  operation or freed. `InflightExact`, `ReportedOnce`, `ReportHonest`: each
  operation is delivered once, with its own status.
* `Grounded`, `NothingLeft`: nothing outlives what it stands on, and a failed
  open and a close give back everything.
* `RecordsExact`: tables and counters of the loaded library are what its answers
  told the application, and a failed call left nothing in cuFile or in device
  memory. `KeepsContract`: all three implement `Contract`; a close of several
  steps is one close, a failed open is none.
* `FileExact`: outside the ranges of writes that are in progress or failed, the
  file is what POSIX writes of the successful ranges make it, at every moment:
  the read-modify-write and the cutting of the padding touch nobody else's
  bytes; and the size is right when nothing is in progress.
* `ReadExact`: a successful read delivers those bytes and no others, in head,
  middle and tail, across extents, after writes that allocated blocks.
* `InBuffer`: no command or copy that is still to come writes outside the
  caller's buffer or twice. `IoReturns`: short writes, failed commands and
  extents that stay stale for ever do not keep a call from returning.
* `RefsExact`, `DriverCounted`, `IoHasDriver`: the binding's count, its cache
  and the C driver agree. Once an `opends_driver_close` has failed,
  `DriverCounted` says instead that the driver stays open with a count of zero.
  `RefsExact` and `IoHasDriver` are stated until the first signal: `_cleanup`
  takes the driver from files that are still open.

**Bounds.** Engine: `NOps` operations per run, `MaxChunks = 1` chunk and up to
`BounceSlots` bounces per read, `SQCap = 2` commands in a stream's queue,
`QDepth = 2` command contexts (one in `liveness`), `Half = 4` (3-bit words). Counters start one
short of their wrap (`StartSeq = 3`: the gate word `2 * 4` is 0; `StartCtr =
7`), so each run crosses it. Three operations are enough for a slot to be
reused while its stream's earlier operation is unsettled, for a failed enqueue
between two good ones, and for a ring to be full. `SeqInWindow` bounds the
sequence numbers between a stream's gate word and its newest operation by half
the word, which in the code is 2^30 operations: the rings hold fewer than
2^17, so only a run of 2^30 consecutive failed enqueues would reach it.
Batch: twice as many operations as entries, so each entry is used again.
Registry: a table of which the colliding walks cross the end. Backends: one
address more than the tables hold, one calling thread; opens and closes are not
bounded. Data path: blocks of 4 bytes and 3 of them, so that a request has a
head, a middle and a tail; `Fragmented` puts two blocks next to each other and
the third elsewhere, so that a read has one or two extents; the file starts
empty, ends inside a block or ends inside the last one; `MdtsLbas = 2` makes a
middle of three LBAs two commands, `Retries = 2` stands for 6000. Writes at the
same time are "apart": they share no block and do not make the file longer
(`rmw_race` shows why).
`PyBinding` bounds calls (`NCalls`) and signals (`NSignals`): open, read, close,
open, read fits, in which a stale cache entry would be used.

**Fairness.** Weak fairness for each thread inside a call, each worker, the
device per slot, and each stream: POSIX schedules runnable threads, a worker
loops without blocking on anything, and device and accelerator make progress.
It covers the steps that go on (`ThreadGoesOn`, `WorkerGoesOn`) and none of the
failures (`GateFails`, `CopyFails`, `StartFails`): these may happen at any time
and never have to, since neither an enqueue that finds the stream full nor the
loop that asks for a command context gives up by itself. So a thread that holds
`submit_lock` at a full stream can only go on when the stream does, and a worker
without a context only when it polls. Two slots in the ring let a second
operation reach its gate while the first is unsettled, and the single context is
held by one read while another starts. That a worker needs no lock to settle is
what makes it work: with one (`LocksToRelease`), or with no poll in the
submission loop (`BadPokeWhileStarting`), TLC finds the deadlock.
In `DataPath` whoever is in a call runs and the device answers (`Progress`); no
failure has to happen, and HOMI may be silent for ever; in `Backends` an open or
close in progress and a thread told to stop run, and in `PyBinding` whoever is
in a call: there each C call returns, with success or an error.
Nobody has to make a call, submit, register or close. The mutexes need no strong
fairness at these bounds: a waiting thread finds the lock free in the end
because every thread makes finitely many calls.

## Findings

* `shared_tail`: the tail copy is enqueued after `submit_lock` is released
  (`opends_aisio.c:1607-1615`), so another thread's operation on the same
  stream can come between a read's gate and its copy. Both share the stream's
  single bounce buffer and descriptor, and a tail is lost while both reads
  report success, although `opends_aisio.c:269` says one slot suffices because
  the gate serialises operations. With one thread per stream, or in the
  host-callback mode, the property holds. In the same instance
  `ExecutesAtGate` fails: one thread's copy can be enqueued between the gate
  write and the wait of the other's operation, which then runs while the stream
  is still at that copy.
* `rmw_race`: `opends_direct_pwrite` reads the edge blocks of its range, merges
  and writes them back (`opends_common.c:137-164`) with nothing to keep another
  write out. Two successful writes of different bytes of one block, by two
  workers or two callers, can leave only one of them in the file, although
  `opends.h:39-51` lets I/O run concurrently and start and end anywhere. In the
  same way `ftruncate` to an end computed from an earlier `fstat`
  (`opends_common.c:131-166`) cuts off what another write has appended since.
* `py_signal_close`: `_release_driver` counts to zero before it closes; a
  signal in between finds nothing to clean up and ends the process with the
  driver open.
* `py_handle_fails`: a file whose handle is refused keeps its driver reference.

Seen while modelling, not among the runs:

* With `SignalAt = "anywhere"` `PyCallsReturn` fails: a signal handled while the
  main thread is in `_Registry.ensure` or `drop` makes `_cleanup` wait for a
  lock its own thread holds.
* With `SignalAt = "anywhere"` `DriverCounted` fails: a signal handled inside
  `_ensure_driver`, after it has found the driver open and before it counts,
  runs `_cleanup`, which closes the driver; the count is then one with the driver
  closed, and every later call believes it is open.
* With `Chained = {"kills"}` and `NSignals = 2`, `DeadIsClosed` also fails
  without the window of `py_signal_close`: a second signal's `_cleanup` is a
  no-op and its handler then ends the process inside the first one's, although
  `_file.py:124-128` says the first completes.
* An `opends_driver_close` that fails (`opends_gds.c:67-68` leaves the driver open
  then) leaves the binding with an open driver and `_driver_refs` at 0, because
  `_release_driver` counts before it closes and `_cleanup` ignores the error.
  `_ensure_driver` then calls `opends_driver_open`, which refuses an open driver,
  so every later open or `register_buffer` raises, and nothing ever calls
  `opends_driver_close` again. `DriverCounted` states this end state, which
  `python` checks; `RefsExact`, `IoHasDriver` and `PyCallsReturn` hold in spite
  of it, `DeadIsClosed` does not.
* With `SharedBuffers = TRUE` `RefsExact` fails: two threads that register one
  buffer at once take two references for one registration.
* `submit_host_bounce` allocates on the I/O thread, which the comment at
  `opends_aisio.c:246` warns against: if an allocation is the device-wide sync
  it describes, the I/O thread can wait for a stream gated on itself. What
  `xnvme_buf_alloc` does is outside the repository.
* `opends_stream_deregister` frees nothing, so the limit of 8192 is on streams
  ever registered; `opends.h:243-245` says registered at once.
* With `Threads = {t1, t2}` `RecordsExact` fails for the reference backend (its
  table) and for it and GDS (`use_count`): they register without a lock, while
  `opends.h:39-41` lets registrations run concurrently.
* A write that fails after part of its padded range was written, or whose
  `ftruncate` fails, leaves the padding in the file, and the device is not
  marked dirty although blocks were allocated. `FileExact` is therefore silent
  on the size, and `ReadExact` on everything, after a failed write.
* A read of the aisio backend over a hole leaves that part of the buffer as it
  was and returns the number of bytes in allocated blocks, which is then not a
  prefix; in the last block it returns bytes past the end of the file.
  `ReadExact` states it so; the reference backend returns zeros for a hole.
* `resolve_extents` sleeps on the I/O thread, up to 6000 times 50 ms: every other
  operation of that worker waits.
* `HostBuffer` takes no reference to the driver: with the aisio backend its
  memory goes with the close of the last file while the object still exists.
* `opends_free` of the reference backend does nothing for a registered buffer,
  and a later deregistration does not free it.

## Proofs

All theorems hold for every number of threads, streams, workers and slots,
every word size, hash function, table size, batch capacity and number of
operations, every block size, placement of the blocks, file and request.
Where one has a hypothesis, its entry says which and why the code needs it.

* `IoEngineProofs`, `TypeCorrect`: `Spec => []TypeOK`. `TypeOK` is not
  inductive: a worker that records a failure for `opOf[x]`, or a thread that
  reads `call[curOp[t]]`, needs that name to be an operation. `Named` adds that
  for threads inside a call, slots in use, reads being started, commands in the
  device and slots being claimed. One lemma per actor shows that its actions
  keep `TypeInv == TypeOK /\ Named`.
* `RingProofs`, `RingsInWindow`, `CommandsCounted`, `JoinedQuiet` (combined in
  `RingsCorrect`): the invariants `RingWindow`, `CommandsAccounted` and
  `JoinedIsQuiet`. The inductive invariant `RingInv` adds to `TypeInv` what ties
  the counters to the actors: a claimed slot is the one at the head and its
  claimer holds the lock; a worker's scan position and head snapshot lie in the
  window; a command in the device belongs to a slot its worker has in flight or
  is starting; a worker that leaves has none. `WrapRemainder` and `SlotsApart`,
  that the ring size divides the word and so distinct counters of a window name
  distinct slots, carry the argument across the wrap.
* `GateProofs`, `OpsInOneSlot` and `ResultsHonest`: the invariants
  `OneSlotPerOp` and `ResultHonest`. `OpInv` adds to `RingInv` that two threads
  never submit one operation, that an operation still being submitted is in no
  slot in use and has no result, that a claimed slot names its claimer's
  operation, and that `err` together with the completions not yet polled says
  whether something of the slot's operation has failed.
* `GateProofs`, `StreamsHeld` and `GatesForward` (from `GatesCorrect`):
  `HeldUntilSettled` and `GateMovesForward`. Cyclic order is no order, so the
  argument measures everything by its lag: how far a gate value is behind the
  release value of the stream's newest sequence number. `GateInv` says that
  the gate word's lag is within half the word (`InWindow`), that the values the
  commands still to come will write or wait for lag strictly less and less
  (`Sorted`) and none is behind the gate word (`Ahead`), that what a claim is
  about to enqueue comes after all of them (`LastClaim`), that the slot of an
  unsettled operation has a release value the gate word has not reached
  (`Unreleased`), that such a slot and the command that holds the stream for it
  belong together (`Tied`, `Backed`), and that an operation runs only with the
  gate word at its arrival value (`AtGate`). It covers the gap a failed enqueue
  leaves in the numbers, which the gate word jumps over, and the host callback
  that reads its slot only when it runs: the slot is not filled again before.
  Arrivals have odd and releases even lags, which is
  what tells the two phases apart.
* `GateProofs`, `RunsAtGate`: `ExecutesAtGate`. With host callbacks it follows
  from `GateInv`. With a write and a wait it needs that nothing comes between
  the two (`Paired`), and the code guarantees that only against other gates:
  the tail copy is enqueued without `submit_lock`. Hence the hypothesis
  `Unshared`: host callbacks, or no thread uses a stream that another submits
  reads to. Without it the property fails (see Findings), so the theorem says
  where the code is safe.
* `GateProofs`, `PromiseKept`: `KeepsPromise`, the refinement of `StreamOrder`,
  under the same hypothesis. Each step of the engine is a step of the promise
  or is not seen in it: a claim accepts an asynchronous operation, the host
  callback or the wait puts a stream operation on its stream, a dispatch runs
  it, settling finishes it, and a stream passes what is done. `OnceInv` adds
  that an operation is put on a stream once and that what a slot holds has been
  accepted.
* `GateProofs`, `TailsDelivered`: `TailDelivered`, under the same hypothesis.
  Bounce buffer and copy descriptor belong to the stream, not to the read, so
  the argument is about who may use them when. `TailInv` says that an operation
  holds its stream with one command (`GatesOnce`) and that what is enqueued
  behind the command a stream stands at has no result yet (`LaterUnsettled`),
  hence no other read of the stream runs between a read's end and its copy
  (`NoneRuns`); that the copy of a read follows its wait at once (`CopyPlaced`,
  `CopyNext`: here `Unshared` is needed, as the copy is enqueued without
  `submit_lock`); that while a read with a tail is in flight the descriptor
  names it, and once its bounce is read without an error so does the buffer
  (`TailReads`); and that both stay so until the copy runs, with the size set
  when the read was settled (`TailKept`).
* `StreamRegistryProofs`, `LookupComplete`, `LookupSound`, `MapOnPath`,
  `StatesKept`. The inductive invariant says that every key in the map lies on
  the walk from its hash with no empty cell before it, that cells are never
  emptied, and, for a reader, that every cell it has passed was occupied by
  another key: so a key present when it began is still ahead of it.
  `RegistryTyped` and `OneState`: the types, and one entry for one stream; the
  latter needs that every entry of the table is named by a cell of the map.
* `BatchProofs`, `BatchCountExact`, `BatchReportsOnce`, `BatchReportsHonest`,
  `BatchFutureOwned`: the safety properties of `Batch`. `BatchInv` says what a
  busy entry, one whose completion is not delivered, knows about its operation
  (`Told`), that each operation not yet reported is in exactly one of them
  (`Apart`, `Kept`), that the backend owes results only to such entries
  (`Pending`), that a submit in progress has checked the room it needs (`Room`)
  and that a destroy has outwaited the entries behind it (`Outwaited`).
* `BackendsProofs`, `DriverGrounded` and `DriverLeavesNothing`: `Grounded` and
  `NothingLeft` of the aisio driver, from `DriverInv`, which says for each step
  of an open, of its error ladder and of a close what is held (`Ladder`),
  which workers have a queue and a thread (`Crew`) and when buffers exist
  (`Lent`).
* `BackendsProofs`, `BackendsRecords` and `BackendsContract`: `RecordsExact` and
  the refinement `KeepsContract` for all three backends. The hypothesis `Sole`,
  one calling thread or the aisio backend, is what the code needs: the
  reference and GDS backends keep their records without a lock, and with two
  threads TLC refutes `RecordsExact` (see Findings). In the middle of
  `use_count++` a thread holds the value the count is about to get
  (`Counting`).
* `PyBindingProofs`, `DriverIsCounted`: `DriverCounted`. `FramesInv` says what
  each frame on a thread's stack knows: whether it holds `_lock`, what the count
  and the C driver are at that step, and that of the cleanups stacked by signals
  on the main thread at most one is past the reentrancy guard (`OneCleans`); and
  that a close in progress is the first to fail, if it fails: after a failed one
  the count is zero for good (`Counted`).
  The hypothesis: no signal is handled inside a call of the main thread. With
  `SignalAt = "anywhere"` a handler's cleanup enters a critical section its own
  thread is in the middle of, because `_lock` is reentrant, and TLC refutes the
  property (see Findings).
* `PyBindingProofs`, `RefsAreExact` and `IoIsOnDriver`: `RefsExact` and
  `IoHasDriver`. The count is changed in one step and what it counts in another,
  so `HeldInv` (`Held`) says to whom each reference belongs: to an open file,
  to a pinned buffer, or to a call that is about to make one of these or to give
  the reference back; the count is the number of the files plus that of the
  buffers so accounted for. A thread that does I/O has a file, so nobody counts
  to zero under it. Once a
  process is in its cleanup at exit `Joined` takes over: the other threads have
  ended. The hypotheses: finitely many threads, buffers not shared by threads,
  and for `RefsExact` handles that are not refused; TLC refutes it without the
  second and the third (see Findings).
* `DataPathProofs`, `FileIsExact`: `FileExact`, for writes that are "apart".
  `FileInv` says of each write in progress what its bounce buffer holds at
  each step: the bytes of the file around its range, as they still are, and
  those of the caller within it (`WriteInv`); which bytes of its padded range it
  has written; that no other write shares a block with it (`ApartInv`); and that
  a file longer than it should be is one write's padding, which that write is
  about to cut (`LengthInv`). The hypothesis `Overlap = "apart"` is needed:
  `rmw_race` violates the property without it.
* `DataPathProofs`, `ReadsInBuffer`: `InBuffer`, without a hypothesis. `PlanInv`
  follows the cursor of `start_read_op`: what is left of the current extent lies
  in the request and in no earlier extent (`CursorInv`), and the ranges of the
  commands and copies issued so far are apart and among the bytes passed
  (`IssueInv`).
* `DataPathProofs`, `ReadsAreExact`: `ReadExact` of both backends, also after
  writes that are "apart". `SteadyInv` is what a read can rely on: no write is
  in progress, and HOMI's cache has the file's blocks, or is marked dirty, or a
  write is about to mark it. For a read of the aisio backend `AisioInv` says, as
  long as nothing has failed: the extents locate exactly the allocated blocks
  (`Locates`, from how HOMI cuts the block map into runs); the device address of
  the cursor is where its extent puts the byte it stands for (`PlacedInv`); each
  command will fetch the file's bytes for the places it fills (`AnswerInv`);
  what has arrived, in the buffer or in a bounce slot that is still to be
  copied, is right, nothing else has been touched, and the count is the number
  of bytes arrived (`ArrivedInv`). At the end the bytes passed are those in
  extents. `RefInv` does the same for `opends_direct_pread` with its short
  reads.

Assumptions: `HalfAssumption` (a word has more than four values, so that a
gate value and its successors are apart; the code's has 2^32),
`EngineAssumption` (positive sizes, the ring size divides the word, the
sentinels are not threads or streams), the registry's assumption on its hash
and sizes, those of `Batch`, `Driver`, `Calls` and `DirectIo` (sizes are
numbers), `StoreAssumption` (the block size is a multiple of `lba_size`, no two
blocks of the file overlap on the device, the file starts no longer than its
blocks) and `RequestAssumption` (offsets and sizes are numbers, and the model's
file and buffers have room for them); TLC evaluates them in every run that uses
the modules. `SeqInWindow`, the bound on
outstanding sequence numbers (see Bounds), is a guard of `ClaimStream` and the
gate theorems rest on it. `NOps` bounds the operations of a behaviour, and the
theorems hold for every `NOps`.

Only model-checked: the liveness properties (`AcceptedSettles`,
`StreamsAdvance`, `CallsReturn`, `CloseJoins`, `BatchCallsReturn`,
`OpenCloseReturn`, `IoReturns`, `PyCallsReturn`), as fairness and ENABLED are
outside the prover. Every invariant that a passing run checks is proved, with
the hypotheses named above.

## Not modelled

* `opends_gds.c`: its I/O, stream and batch calls hand their arguments to
  cuFile and keep no state.
* The CUDA calls behind `ds_accel` and xNVMe: external, modelled from their use.
* Environment parsing, CPU affinity, idle spinning, property and version
  queries, error texts: no shared state.
* A close while a call is in progress: the header leaves it undefined.
* A read at the same time as a write of the same file; blocks that another
  program moves or frees.
* Python: `HostBuffer`, the saving of the CUDA context, and a previous signal
  handler that raises.
* Tests, benchmarks, examples, task scripts.

## Plan

1. Engine core (`IoEngine`), its promise, its type and ring theorems: done.
2. `StreamRegistry` with its theorems, `Batch`, `Driver`, `PyBinding`:
   done.
3. `ReadPlan`, `DirectIo` and their composition `DataPath`: done.
4. `Contract` and the three backends behind it: done.
5. Theorems of the registry, the batch, the backends and their contract, the
   operations, the gates and the engine's promise: done.
6. Theorems of the binding, of the read plan and of the data path: done.
7. Theorem of the tail copy, on top of the gate's invariant: done.
8. If the allocator's behaviour becomes known: device allocation as an actor
   beside gated streams.
