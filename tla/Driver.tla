------------------------------- MODULE Driver -------------------------------
(***************************************************************************)
(* The life of the aisio driver (src/src/opends_aisio.c): opening it, with *)
(* a failure possible at every step, registering buffers and streams, and  *)
(* closing it.  Buffer and stream registrations run under reg_lock from    *)
(* start to end, so each is one step whichever thread makes it; opening    *)
(* and closing overlap only with the I/O threads they start and join.      *)
(***************************************************************************)
EXTENDS Calls, Sequences

CONSTANTS NThreads,   \* n_io_threads
          MaxBufs,    \* MAX_BUF_ENTRIES
          MaxStreams  \* bound: streams registered

ASSUME DriverAssumption ==
  NThreads \in Nat \ {0} /\ MaxBufs \in Nat /\ MaxStreams \in Nat

Workers == 0 .. NThreads - 1

VARIABLES
  (* struct driver *)
  drv,            \* the global is set
  bufs,           \* bufs[0 .. buf_count - 1]
  ready, stop,    \* workers_ready, stop
  nStreams,
  pc, at,         \* where an open or a close is; the worker it is at
  (* What the process holds *)
  conn, attached, \* of the HOMI daemon
  xdev, queues,   \* the device, its queues
  threads,        \* the I/O threads
  words,          \* the gate words
  bounces,        \* streams with a bounce buffer and a copy descriptor
  opBufs,         \* workers with a slot that has a bounce buffer
  allocs, maps    \* user buffers: xnvme_buf_alloc, xnvme_mem_map

own        == <<drv, bufs, ready, stop, nStreams>>
homi       == <<conn, attached>>
buffers    == <<bounces, opBufs, allocs, maps>>
driverVars == <<own, pc, at, homi, xdev, queues, threads, words, buffers>>

DriverInit ==
  /\ drv = FALSE /\ bufs = <<>> /\ ready = FALSE /\ stop = FALSE
  /\ nStreams = 0 /\ pc = "idle" /\ at = 0
  /\ conn = FALSE /\ attached = FALSE /\ xdev = FALSE /\ queues = {}
  /\ threads = [w \in Workers |-> "none"] /\ words = FALSE
  /\ bounces = {} /\ opBufs = {} /\ allocs = {} /\ maps = {}
-----------------------------------------------------------------------------
(***************************************************************************)
(* Faulty variants of definitions below, paired with the property that     *)
(* catches each in PROJECT.json.                                           *)
(***************************************************************************)
\* An allocation is entered in the table as a registration.
BadEntry(b, owned) == [base |-> b, owned |-> FALSE]
\* The threads are not joined.
BadJoined == TRUE
\* A close that joins without having set stop.
JoinsOnly ==
  /\ pc = "idle" /\ drv /\ ready
  /\ pc' = "join"
  /\ UNCHANGED <<own, at, homi, xdev, queues, threads, words, buffers>>
-----------------------------------------------------------------------------
(***************************************************************************)
(* opends_driver_open: homic_connect, open_device, workers_setup.          *)
(***************************************************************************)

\* From a zeroed struct driver; what fails before changes nothing.
Connect ==
  /\ pc = "idle" /\ ~drv
  /\ drv' = TRUE /\ conn' = TRUE /\ pc' = "attach"
  /\ bufs' = <<>> /\ ready' = FALSE /\ stop' = FALSE /\ nStreams' = 0
  /\ UNCHANGED <<at, attached, xdev, queues, threads, words, buffers>>

Attach ==
  /\ pc = "attach"
  /\ \/ attached' = TRUE /\ pc' = "device"
     \/ UNCHANGED attached /\ pc' = "disconnect"
  /\ UNCHANGED <<own, at, conn, xdev, queues, threads, words, buffers>>

\* xnvme_dev_open; it fails, or the geometry is refused and the device
\* closed again.
OpenXdev ==
  /\ pc = "device"
  /\ \/ xdev' = TRUE /\ pc' = "words"
     \/ UNCHANGED xdev /\ pc' = "disconnect"
  /\ UNCHANGED <<own, at, homi, queues, threads, words, buffers>>

\* open_device failed.  It does not call homic_detach_qpair: the attachment
\* goes with the connection.
Disconnect ==
  /\ pc = "disconnect"
  /\ conn' = FALSE /\ attached' = FALSE /\ drv' = FALSE /\ pc' = "idle"
  /\ UNCHANGED <<bufs, ready, stop, nStreams, at, xdev, queues, threads, words,
                 buffers>>

\* The gate words and the array of workers; without the latter the words
\* are freed again.
AllocWords ==
  /\ pc = "words"
  /\ \/ words' = TRUE /\ pc' = "queue"
     \/ UNCHANGED words /\ pc' = "undo"
  /\ at' = 0 /\ stop' = FALSE
  /\ UNCHANGED <<drv, bufs, ready, nStreams, homi, xdev, queues, threads,
                 buffers>>

AllStarted == at = NThreads

InitQueue ==
  /\ pc = "queue" /\ ~AllStarted
  /\ \/ queues' = queues \cup {at} /\ pc' = "thread"
     \/ UNCHANGED queues /\ pc' = "fail"
  /\ UNCHANGED <<own, at, homi, xdev, threads, words, buffers>>

CreateThread ==
  /\ pc = "thread"
  /\ \/ /\ threads' = [threads EXCEPT ![at] = "running"]
        /\ at' = at + 1 /\ pc' = "queue" /\ UNCHANGED queues
     \/ /\ queues' = queues \ {at}
        /\ pc' = "fail" /\ UNCHANGED <<threads, at>>
  /\ UNCHANGED <<own, homi, xdev, words, buffers>>

\* workers_ready: the driver is open.
Opened ==
  /\ pc = "queue" /\ AllStarted
  /\ ready' = TRUE /\ pc' = "idle"
  /\ UNCHANGED <<drv, bufs, stop, nStreams, at, homi, xdev, queues, threads,
                 words, buffers>>

\* The label fail: stop, join what was started, free queues and words.
StopStarted ==
  /\ pc = "fail"
  /\ stop' = TRUE /\ pc' = "failjoin"
  /\ UNCHANGED <<drv, bufs, ready, nStreams, at, homi, xdev, queues, threads,
                 words, buffers>>

\* pthread_join has returned for every thread.
Joined == \A w \in Workers : threads[w] # "running"
Reaped == [w \in Workers |-> IF threads[w] = "exited" THEN "none"
                                                      ELSE threads[w]]

FreeStarted ==
  /\ pc = "failjoin" /\ Joined
  /\ threads' = Reaped /\ queues' = {} /\ words' = FALSE
  /\ pc' = "undo"
  /\ UNCHANGED <<own, at, homi, xdev, buffers>>

\* workers_setup failed: close the device, detach, disconnect.
Undo ==
  /\ pc = "undo"
  /\ xdev' = FALSE /\ attached' = FALSE /\ conn' = FALSE /\ drv' = FALSE
  /\ pc' = "idle"
  /\ UNCHANGED <<bufs, ready, stop, nStreams, at, queues, threads, words,
                 buffers>>
-----------------------------------------------------------------------------
(***************************************************************************)
(* opends_driver_close.                                                    *)
(***************************************************************************)

\* workers_teardown does nothing unless workers_ready, which an open driver
\* is; it sets stop and joins.
Close ==
  /\ pc = "idle" /\ drv /\ ready
  /\ stop' = TRUE /\ pc' = "join"
  /\ UNCHANGED <<drv, bufs, ready, nStreams, at, homi, xdev, queues, threads,
                 words, buffers>>

\* workers_teardown after the joins.
Teardown ==
  /\ pc = "join" /\ Joined
  /\ threads' = Reaped
  /\ bounces' = {k \in bounces : k >= nStreams}
  /\ opBufs' = {} /\ queues' = {} /\ words' = FALSE
  /\ ready' = FALSE /\ pc' = "buffers"
  /\ UNCHANGED <<drv, bufs, stop, nStreams, at, homi, xdev, allocs, maps>>

Bases(owned) ==
  {bufs[i].base : i \in {j \in 1 .. Len(bufs) : bufs[j].owned = owned}}

ReleaseBuffers ==
  /\ pc = "buffers"
  /\ allocs' = allocs \ Bases(TRUE) /\ maps' = maps \ Bases(FALSE)
  /\ bufs' = <<>> /\ pc' = "undo"
  /\ UNCHANGED <<drv, ready, stop, nStreams, at, homi, xdev, queues, threads,
                 words, bounces, opBufs>>
-----------------------------------------------------------------------------
(***************************************************************************)
(* The open driver.                                                        *)
(***************************************************************************)
InService == pc = "idle" /\ drv

HasRoom == Len(bufs) < MaxBufs

Entry(b, owned) == [base |-> b, owned |-> owned]

\* The entry of b, and the table without it: the last one takes its place.
Find(b) == {i \in 1 .. Len(bufs) : bufs[i].base = b}
Without(i) == SubSeq([bufs EXCEPT ![i] = bufs[Len(bufs)]], 1, Len(bufs) - 1)

\* opends_alloc; the allocator returns memory nobody uses.
AllocBuf(b) ==
  /\ InService /\ HasRoom /\ b \notin allocs \cup maps
  /\ allocs' = allocs \cup {b}
  /\ bufs' = Append(bufs, Entry(b, TRUE))
  /\ UNCHANGED <<drv, ready, stop, nStreams, pc, at, homi, xdev, queues,
                 threads, words, bounces, opBufs, maps>>

\* opends_free: only what opends_alloc returned.
FreeBuf(b) ==
  \E i \in Find(b) :
    /\ InService /\ bufs[i].owned
    /\ allocs' = allocs \ {b}
    /\ bufs' = Without(i)
    /\ UNCHANGED <<drv, ready, stop, nStreams, pc, at, homi, xdev, queues,
                   threads, words, bounces, opBufs, maps>>

\* opends_buf_register.
RegisterBuf(b) ==
  /\ InService /\ Find(b) = {} /\ HasRoom
  /\ maps' = maps \cup {b}
  /\ bufs' = Append(bufs, Entry(b, FALSE))
  /\ UNCHANGED <<drv, ready, stop, nStreams, pc, at, homi, xdev, queues,
                 threads, words, bounces, opBufs, allocs>>

\* opends_buf_deregister: only what opends_buf_register entered.
DeregisterBuf(b) ==
  \E i \in Find(b) :
    /\ InService /\ ~bufs[i].owned
    /\ maps' = maps \ {b}
    /\ bufs' = Without(i)
    /\ UNCHANGED <<drv, ready, stop, nStreams, pc, at, homi, xdev, queues,
                   threads, words, bounces, opBufs, allocs>>

\* opends_stream_register of a new stream, with its bounce buffer.
RegisterStream ==
  /\ InService /\ ready /\ nStreams < MaxStreams
  /\ bounces' = bounces \cup {nStreams}
  /\ nStreams' = nStreams + 1
  /\ UNCHANGED <<drv, bufs, ready, stop, pc, at, homi, xdev, queues, threads,
                 words, opBufs, allocs, maps>>

\* submit_host_bounce on the I/O thread.
SlotBounce(w) ==
  /\ threads[w] = "running" /\ ready
  /\ opBufs' = opBufs \cup {w}
  /\ UNCHANGED <<own, pc, at, homi, xdev, queues, threads, words, bounces,
                 allocs, maps>>

\* io_thread_main leaves its loop.  Its pass is taken not to be busy: the model
\* assumes that every operation has settled before the close, which the header
\* does not ask for in so many words, and a failed open has had none.  IoEngine
\* has the passes and a stop in the middle of them.
ThreadExits(w) ==
  /\ threads[w] = "running" /\ stop
  /\ threads' = [threads EXCEPT ![w] = "exited"]
  /\ UNCHANGED <<own, pc, at, homi, xdev, queues, words, buffers>>
-----------------------------------------------------------------------------
OpenStep ==
  \/ Attach \/ OpenXdev \/ Disconnect \/ AllocWords \/ InitQueue
  \/ CreateThread \/ Opened \/ StopStarted \/ FreeStarted \/ Undo
CloseStep == Teardown \/ ReleaseBuffers

DriverNext ==
  \/ Connect \/ OpenStep \/ Close \/ CloseStep \/ RegisterStream
  \/ \E b \in Addrs :
       AllocBuf(b) \/ FreeBuf(b) \/ RegisterBuf(b) \/ DeregisterBuf(b)
  \/ \E w \in Workers : SlotBounce(w) \/ ThreadExits(w)
-----------------------------------------------------------------------------
\* Everything held stands on something held: queues, buffers and mappings on
\* the open device, the device on its attachment, a running I/O thread on
\* its queue and the gate words.
Grounded ==
  /\ queues \cup opBufs \cup bounces # {} \/ allocs \cup maps # {} => xdev
  /\ xdev => attached
  /\ attached => conn
  /\ \A w \in Workers : threads[w] = "running" => w \in queues /\ words

\* After a failed open and after a close nothing is left: no connection, no
\* device, no thread and no buffer the driver handed out or mapped.
NothingLeft ==
  pc = "idle" /\ ~drv =>
    /\ ~conn /\ ~attached /\ ~xdev /\ ~words
    /\ queues = {} /\ opBufs = {} /\ bounces = {}
    /\ allocs = {} /\ maps = {}
    /\ \A w \in Workers : threads[w] = "none"

\* The table is exactly what is allocated and mapped, each address once: an
\* address can be freed once, and close releases each in the way it was made.
TableExact ==
  /\ allocs = Bases(TRUE) /\ maps = Bases(FALSE)
  /\ \A i, j \in 1 .. Len(bufs) : bufs[i].base = bufs[j].base => i = j

\* opends_driver_open and opends_driver_close return, failed opens too.
OpenCloseReturn == pc # "idle" ~> pc = "idle"
=============================================================================
