--------------------------- MODULE BackendsProofs ---------------------------
(***************************************************************************)
(* Each of the three libraries keeps the contract of opends.h: the aisio   *)
(* driver for any number of application and I/O threads, and whatever step *)
(* of an open fails; the reference and the GDS backend, which take no      *)
(* lock, for an application that calls them from one thread.               *)
(***************************************************************************)
EXTENDS Backends, FiniteSetTheorems, TLAPS

OneThread == \A t, u \in Threads : t = u

\* The case in which the library's records are protected: the aisio driver
\* has its lock, the other two rely on the application.
Sole == OneThread \/ backend = "aisio"
-----------------------------------------------------------------------------
DriverTyped ==
  /\ pc \in {"idle", "attach", "device", "disconnect", "words", "queue",
             "thread", "fail", "failjoin", "undo", "join", "buffers"}
  /\ drv \in BOOLEAN /\ conn \in BOOLEAN /\ attached \in BOOLEAN
  /\ xdev \in BOOLEAN /\ words \in BOOLEAN /\ ready \in BOOLEAN
  /\ at \in 0 .. NThreads /\ nStreams \in Nat
  /\ queues \subseteq Workers /\ opBufs \subseteq Workers
  /\ bounces \subseteq 0 .. nStreams - 1
  /\ threads \in [Workers -> {"none", "running", "exited"}]
  /\ bufs \in Seq([base : Addrs, owned : BOOLEAN])

\* Where an open or a close is says what it has acquired and not released.
Ladder ==
  /\ conn <=> drv
  /\ attached => drv
  /\ drv /\ pc \notin {"attach", "disconnect"} => attached
  /\ pc # "idle" => drv
  /\ xdev <=> drv /\ pc \notin {"attach", "device", "disconnect"}
  /\ words <=> \/ pc \in {"queue", "thread", "fail", "failjoin", "join"}
               \/ pc = "idle" /\ drv
  /\ ready <=> pc = "join" \/ (pc = "idle" /\ drv)

\* Workers up to at have a queue, and a thread only with it.
Crew ==
  /\ pc \in {"queue", "fail", "failjoin"} =>
       /\ queues = 0 .. at - 1
       /\ \A w \in Workers : threads[w] # "none" => w < at
  /\ pc = "thread" =>
       /\ at < NThreads /\ queues = 0 .. at
       /\ \A w \in Workers : threads[w] # "none" => w < at
  /\ ready => queues = Workers
  /\ ~words => queues = {} /\ \A w \in Workers : threads[w] = "none"

\* Buffers exist only while the driver is in service or being closed.
Lent ==
  /\ opBufs # {} \/ bounces # {} => ready
  /\ bufs # <<>> => ready \/ pc = "buffers"

DriverInv == DriverTyped /\ Ladder /\ Crew /\ Lent /\ TableExact
-----------------------------------------------------------------------------
\* The counter: a thread in the middle of use_count++ will store what the
\* application holds.
Counting ==
  /\ live \in Nat /\ useCount \in Nat
  /\ \A t \in Threads :
       call[t].op = "count" => /\ call[t].n = live
                               /\ call[t].n \in {useCount - 1, useCount + 1}
  /\ (\A t \in Threads : call[t].op # "count") => useCount = live

AisioInv == DriverInv /\ Quiet /\ live \in Nat /\ useCount = live

RefCalls == [op : {"idle"}] \cup [op : {"count"}, n : Nat]
              \cup [op : {"enter"}, b : Addrs, n : Nat]
              \cup [op : {"remove"}, b : Addrs, i : Nat, n : Nat]

RefInv ==
  /\ call \in [Threads -> RefCalls]
  /\ Counting
  /\ refOpen \in BOOLEAN /\ count \in 0 .. RefMaxBufs
  /\ slot \in [0 .. RefMaxBufs - 1 -> Addrs \cup {None}]
  /\ \A i, j \in 0 .. count - 1 : slot[i] = slot[j] => i = j
  /\ Entered = mine /\ mine \subseteq Addrs
  /\ IsFiniteSet(mine) /\ count = Cardinality(mine)
  /\ \A t \in Threads :
       /\ call[t].op = "enter" => /\ refOpen /\ call[t].b \notin Entered
                                  /\ call[t].n = count /\ count < RefMaxBufs
       /\ call[t].op = "remove" => /\ refOpen /\ call[t].i \in 0 .. count - 1
                                   /\ call[t].n = count - 1
                                   /\ slot[call[t].i] = call[t].b

GdsCalls == [op : {"idle"}] \cup [op : {"count"}, n : Nat]
              \cup [op : {"malloc"}, b : Addrs]

GdsInv ==
  /\ call \in [Threads -> GdsCalls]
  /\ Counting
  /\ gdsOpen \in BOOLEAN /\ gdsOpen = cuOpen
  /\ mine \subseteq cuBufs /\ cuBufs \subseteq mine \cup heap
  /\ cuHandles = live
  /\ \A t \in Threads :
       call[t].op = "malloc" => /\ gpu = heap \cup {call[t].b}
                                /\ call[t].b \notin heap \cup mine
  /\ (\A t \in Threads : call[t].op # "malloc") => gpu = heap

BackendsInv ==
  /\ Sole
  /\ backend \in {"aisio", "ref", "gds"}
  /\ backend = "aisio" => AisioInv
  /\ backend # "aisio" => DriverInit
  /\ backend = "ref" => RefInv
  /\ backend = "gds" => GdsInv
-----------------------------------------------------------------------------
(***************************************************************************)
(* The aisio driver.                                                       *)
(***************************************************************************)
Rows == [base : Addrs, owned : BOOLEAN]

\* What an entry appended to the table of buffers adds to what the table says.
LEMMA TableAppend ==
  ASSUME bufs \in Seq(Rows), NEW e \in Rows, bufs' = Append(bufs, e)
  PROVE  /\ bufs' \in Seq(Rows) /\ Len(bufs') = Len(bufs) + 1
         /\ bufs'[Len(bufs) + 1] = e
         /\ \A i \in 1 .. Len(bufs) : bufs'[i] = bufs[i]
         /\ \A o \in BOOLEAN :
              Bases(o)' = IF e.owned = o THEN Bases(o) \cup {e.base}
                                         ELSE Bases(o)
<1>1. /\ bufs' \in Seq(Rows) /\ Len(bufs') = Len(bufs) + 1
      /\ bufs'[Len(bufs) + 1] = e
      /\ \A i \in 1 .. Len(bufs) : bufs'[i] = bufs[i]
      /\ Len(bufs) \in Nat
  OBVIOUS
<1>2. ASSUME NEW o \in BOOLEAN
      PROVE  Bases(o)' = IF e.owned = o THEN Bases(o) \cup {e.base}
                                        ELSE Bases(o)
  <2>1. 1 .. Len(bufs') = (1 .. Len(bufs)) \cup {Len(bufs) + 1}
    BY <1>1
  <2>2. Bases(o)' = {bufs'[i].base : i \in {j \in 1 .. Len(bufs') : bufs'[j].owned = o}}
    BY DEF Bases
  <2>3. \A i \in 1 .. Len(bufs) : /\ bufs'[i].base = bufs[i].base
                                  /\ bufs'[i].owned = bufs[i].owned
    BY <1>1
  <2>4. \A x : x \in Bases(o)' <=> x \in Bases(o) \/ (e.owned = o /\ x = e.base)
    BY <1>1, <2>1, <2>2, <2>3 DEF Bases
  <2> QED BY <2>4
<1> QED BY <1>1, <1>2

\* Removing entry k with the last one put in its place takes away exactly
\* entry k, when every address is in the table once.
LEMMA TableWithout ==
  ASSUME bufs \in Seq(Rows), NEW k \in 1 .. Len(bufs), bufs' = Without(k),
         \A i, j \in 1 .. Len(bufs) : bufs[i].base = bufs[j].base => i = j
  PROVE  /\ bufs' \in Seq(Rows)
         /\ \A i, j \in 1 .. Len(bufs') : bufs'[i].base = bufs'[j].base => i = j
         /\ \A o \in BOOLEAN :
              Bases(o)' = IF bufs[k].owned = o THEN Bases(o) \ {bufs[k].base}
                                               ELSE Bases(o)
<1> DEFINE n == Len(bufs)
           s == [bufs EXCEPT ![k] = bufs[n]]
<1>1. n \in Nat /\ n >= 1 /\ bufs[n] \in Rows /\ s \in Seq(Rows) /\ Len(s) = n
  OBVIOUS
<1>2. bufs' = SubSeq(s, 1, n - 1)
  BY DEF Without
<1>3. /\ bufs' \in Seq(Rows) /\ Len(bufs') = n - 1
      /\ \A i \in 1 .. n - 1 : bufs'[i] = s[i]
  BY <1>1, <1>2
<1>4. \A i \in 1 .. n - 1 : bufs'[i] = bufs[IF i = k THEN n ELSE i]
  BY <1>1, <1>3
<1> HIDE DEF s
<1>5. \A i, j \in 1 .. n - 1 : bufs'[i].base = bufs'[j].base => i = j
  BY <1>1, <1>4
<1>6. ASSUME NEW o \in BOOLEAN
      PROVE  Bases(o)' = IF bufs[k].owned = o THEN Bases(o) \ {bufs[k].base}
                                              ELSE Bases(o)
  <2>1. Bases(o)' = {bufs'[i].base : i \in {j \in 1 .. n - 1 : bufs'[j].owned = o}}
    BY <1>3 DEF Bases
  <2>2. ASSUME NEW x \in Bases(o)' PROVE x \in Bases(o) /\ x # bufs[k].base
    <3>1. PICK i \in 1 .. n - 1 : bufs'[i].owned = o /\ x = bufs'[i].base
      BY <2>1, <2>2
    <3>2. PICK j \in 1 .. n : j # k /\ bufs'[i] = bufs[j]
      BY <1>1, <1>4
    <3> QED BY <3>1, <3>2 DEF Bases
  <2>3. ASSUME NEW x \in Bases(o), x # bufs[k].base PROVE x \in Bases(o)'
    <3>1. PICK i \in 1 .. n : bufs[i].owned = o /\ x = bufs[i].base
      BY DEF Bases
    <3>2. i # k
      BY <2>3, <3>1
    <3>3. PICK j \in 1 .. n - 1 : bufs'[j] = bufs[i]
      <4>1. CASE i = n
        BY <1>1, <1>4, <3>2, <4>1
      <4>2. CASE i # n
        BY <1>1, <1>4, <3>2, <4>2
      <4> QED BY <4>1, <4>2
    <3> QED BY <2>1, <3>1, <3>3
  <2>4. bufs[k].owned # o => bufs[k].base \notin Bases(o)
    BY DEF Bases
  <2> QED BY <2>2, <2>3, <2>4
<1> QED BY <1>3, <1>5, <1>6

\* A closed driver.
LEMMA DriverStarts == DriverInit => DriverInv
<1> SUFFICES ASSUME DriverInit PROVE DriverInv
  OBVIOUS
<1> USE DriverAssumption DEF DriverInit
<1>1. DriverTyped
  <2>1. bufs \in Seq([base : Addrs, owned : BOOLEAN])
    OBVIOUS
  <2>2. at \in 0 .. NThreads /\ nStreams \in Nat
    OBVIOUS
  <2>3. threads \in [Workers -> {"none", "running", "exited"}]
    OBVIOUS
  <2> QED BY <2>1, <2>2, <2>3 DEF DriverTyped
<1>2. Ladder /\ Crew /\ Lent
  BY DEF Ladder, Crew, Lent
<1>3. TableExact
  BY DEF TableExact, Bases
<1> QED BY <1>1, <1>2, <1>3 DEF DriverInv

\* While no step touches the table, it stays exact.
LEMMA TableKept ==
  ASSUME TableExact, UNCHANGED <<bufs, allocs, maps>>
  PROVE  TableExact'
BY DEF TableExact, Bases

\* The steps of an open up to the creation of the workers, and the undoing of
\* one that failed.
LEMMA OpenKeeps ==
  ASSUME DriverInv,
         \/ Connect \/ Attach \/ OpenXdev \/ Disconnect \/ AllocWords \/ Undo
  PROVE  DriverInv'
<1> USE DriverAssumption
    DEF Connect, Attach, OpenXdev, Disconnect, AllocWords, Undo, own, homi,
        buffers
<1>1. bufs' = bufs /\ UNCHANGED <<allocs, maps, queues, threads, bounces, opBufs>>
  <2>1. pc = "idle" /\ ~drv => bufs = <<>>
    BY DEF DriverInv, Lent, Ladder
  <2> QED BY <2>1
<1>2. TableExact'
  BY <1>1, TableKept DEF DriverInv
<1>3. Ladder'
  BY DEF DriverInv, DriverTyped, Ladder
<1>4. DriverTyped'
  <2>1. bounces \subseteq 0 .. nStreams' - 1 /\ nStreams' \in Nat
    BY DEF DriverInv, DriverTyped, Ladder, Lent
  <2>2. at' \in 0 .. NThreads
    BY DEF DriverInv, DriverTyped
  <2>3. /\ drv' \in BOOLEAN /\ conn' \in BOOLEAN /\ attached' \in BOOLEAN
        /\ xdev' \in BOOLEAN /\ words' \in BOOLEAN /\ ready' \in BOOLEAN
        /\ pc' \in {"idle", "attach", "device", "disconnect", "words", "queue",
                    "thread", "fail", "failjoin", "undo", "join", "buffers"}
    BY DEF DriverInv, DriverTyped
  <2> QED BY <1>1, <2>1, <2>2, <2>3 DEF DriverInv, DriverTyped
<1>5. Crew'
  <2>1. ~words /\ ~ready'
    BY DEF DriverInv, Ladder
  <2>2. queues' = {} /\ \A w \in Workers : threads'[w] = "none"
    BY <1>1, <2>1 DEF DriverInv, Crew
  <2>3. pc' = "queue" => at' = 0
    OBVIOUS
  <2>4. pc' \notin {"thread", "fail", "failjoin"}
    OBVIOUS
  <2>5. pc' = "queue" => queues' = 0 .. at' - 1
    BY <2>2, <2>3
  <2> QED BY <2>1, <2>2, <2>4, <2>5 DEF Crew
<1>6. Lent'
  BY <1>1 DEF DriverInv, Lent, Ladder
<1> QED BY <1>2, <1>3, <1>4, <1>5, <1>6 DEF DriverInv

\* The steps that start the workers, stop the ones a failed open has started,
\* and begin a close.
LEMMA StartKeeps ==
  ASSUME DriverInv,
         InitQueue \/ CreateThread \/ Opened \/ StopStarted \/ FreeStarted
           \/ Close
  PROVE  DriverInv'
<1> USE DriverAssumption
    DEF InitQueue, CreateThread, Opened, StopStarted, FreeStarted, Close, own,
        homi, buffers, AllStarted
<1>1. /\ UNCHANGED <<bufs, nStreams, drv, conn, attached, xdev>>
      /\ UNCHANGED <<allocs, maps, bounces, opBufs>>
  OBVIOUS
<1>2. TableExact'
  BY <1>1, TableKept DEF DriverInv
<1>3. Ladder'
  BY <1>1 DEF DriverInv, Ladder
<1>4. Lent'
  BY <1>1 DEF DriverInv, Lent, Ladder
<1>5. /\ at \in 0 .. NThreads /\ queues \subseteq Workers
      /\ threads \in [Workers -> {"none", "running", "exited"}]
      /\ words \in BOOLEAN /\ ready \in BOOLEAN
  BY DEF DriverInv, DriverTyped
<1>6. at' \in 0 .. NThreads /\ queues' \subseteq Workers
  BY <1>5 DEF DriverInv, Crew, Workers
<1>7. threads' \in [Workers -> {"none", "running", "exited"}]
  BY <1>5 DEF Reaped
<1>8. DriverTyped'
  <2>1. words' \in BOOLEAN /\ ready' \in BOOLEAN
    BY <1>5
  <2>2. pc' \in {"idle", "attach", "device", "disconnect", "words", "queue",
                 "thread", "fail", "failjoin", "undo", "join", "buffers"}
    OBVIOUS
  <2> QED BY <1>1, <1>6, <1>7, <2>1, <2>2 DEF DriverInv, DriverTyped
<1>9. Crew'
  <2>1. CASE InitQueue
    <3>1. /\ queues = 0 .. at - 1 /\ at < NThreads /\ words /\ ~ready
          /\ \A w \in Workers : threads[w] # "none" => w < at
      BY <1>5, <2>1 DEF DriverInv, Crew, Ladder
    <3>2. threads' = threads /\ at' = at /\ words' = words /\ ready' = ready
      BY <2>1
    <3>3. CASE pc' = "thread"
      <4>1. queues' = 0 .. at
        <5>1. queues' = queues \cup {at}
          BY <2>1, <3>3
        <5>2. (0 .. at - 1) \cup {at} = 0 .. at
          BY <1>5
        <5> QED BY <3>1, <5>1, <5>2
      <4> QED BY <3>1, <3>2, <3>3, <4>1 DEF Crew
    <3>4. CASE pc' = "fail"
      BY <2>1, <3>1, <3>2, <3>4 DEF Crew
    <3> QED BY <2>1, <3>3, <3>4
  <2>2. CASE CreateThread
    <3>1. /\ queues = 0 .. at /\ at < NThreads /\ words /\ ~ready
          /\ \A w \in Workers : threads[w] # "none" => w < at
      BY <1>5, <2>2 DEF DriverInv, Crew, Ladder
    <3>2. at \in Workers
      BY <1>5, <3>1 DEF Workers
    <3>3. CASE pc' = "queue"
      <4>1. /\ threads' = [threads EXCEPT ![at] = "running"]
            /\ at' = at + 1 /\ queues' = queues /\ words' = words /\ ready' = ready
        BY <2>2, <3>3
      <4>2. \A w \in Workers : threads'[w] # "none" => w < at'
        BY <1>5, <3>1, <3>2, <4>1 DEF Workers
      <4>3. queues' = 0 .. at' - 1
        BY <1>5, <3>1, <4>1
      <4> QED BY <3>1, <3>3, <4>1, <4>2, <4>3 DEF Crew
    <3>4. CASE pc' = "fail"
      <4>1. /\ threads' = threads /\ at' = at /\ queues' = queues \ {at}
            /\ words' = words /\ ready' = ready
        BY <2>2, <3>4
      <4>2. queues' = 0 .. at' - 1
        BY <1>5, <3>1, <4>1
      <4> QED BY <3>1, <3>4, <4>1, <4>2 DEF Crew
    <3> QED BY <2>2, <3>3, <3>4
  <2>3. CASE Opened
    <3>1. queues = 0 .. NThreads - 1 /\ words
      BY <2>3 DEF DriverInv, Crew, Ladder
    <3> QED BY <2>3, <3>1 DEF Crew, Workers
  <2>4. CASE StopStarted
    BY <2>4 DEF DriverInv, Crew, Ladder
  <2>5. CASE FreeStarted
    <3>1. queues' = {} /\ pc' = "undo" /\ ready' = ready /\ ~ready
      BY <2>5 DEF DriverInv, Ladder
    <3>2. \A w \in Workers : threads'[w] = "none"
      BY <1>5, <2>5 DEF Joined, Reaped
    <3> QED BY <3>1, <3>2 DEF Crew
  <2>6. CASE Close
    BY <2>6 DEF DriverInv, Crew, Ladder
  <2> QED BY <2>1, <2>2, <2>3, <2>4, <2>5, <2>6
<1> QED BY <1>2, <1>3, <1>4, <1>8, <1>9 DEF DriverInv

\* A close that has joined the threads: the streams' bounce buffers, the
\* slots' and the queues go, then what the application left in the table.
LEMMA CloseKeeps ==
  ASSUME DriverInv, Teardown \/ ReleaseBuffers
  PROVE  DriverInv'
<1> USE DriverAssumption
<1>1. CASE Teardown
  <2> USE <1>1 DEF Teardown, homi
  <2>1. TableExact'
    BY TableKept DEF DriverInv
  <2>2. bounces' = {}
    <3>1. bounces \subseteq 0 .. nStreams - 1 /\ nStreams \in Nat
      BY DEF DriverInv, DriverTyped
    <3>2. \A k \in bounces : ~(k >= nStreams)
      BY <3>1
    <3> QED BY <3>2
  <2>3. /\ threads' \in [Workers -> {"none", "running", "exited"}]
        /\ \A w \in Workers : threads'[w] = "none"
    BY DEF Joined, Reaped, DriverInv, DriverTyped
  <2>4. Ladder'
    BY DEF DriverInv, Ladder
  <2>5. Crew' /\ Lent'
    BY <2>2, <2>3 DEF Crew, Lent
  <2>6. DriverTyped'
    BY <2>2, <2>3 DEF DriverInv, DriverTyped
  <2> QED BY <2>1, <2>4, <2>5, <2>6 DEF DriverInv
<1>2. CASE ReleaseBuffers
  <2> USE <1>2 DEF ReleaseBuffers, homi
  <2>1. TableExact'
    <3>1. allocs' = {} /\ maps' = {}
      BY DEF DriverInv, TableExact
    <3>2. \A o \in BOOLEAN : Bases(o)' = {}
      BY DEF Bases
    <3>3. 1 .. Len(bufs') = {}
      OBVIOUS
    <3>4. allocs' = Bases(TRUE)' /\ maps' = Bases(FALSE)'
      BY <3>1, <3>2
    <3> QED BY <3>3, <3>4 DEF TableExact
  <2>2. Ladder' /\ Lent'
    BY DEF DriverInv, Ladder, Lent
  <2>3. Crew'
    BY DEF DriverInv, Ladder, Crew
  <2>4. DriverTyped'
    <3>1. bufs' \in Seq([base : Addrs, owned : BOOLEAN])
      OBVIOUS
    <3> QED BY <3>1 DEF DriverInv, DriverTyped
  <2> QED BY <2>1, <2>2, <2>3, <2>4 DEF DriverInv
<1> QED BY <1>1, <1>2

\* Streams, slots and threads of an open driver.
LEMMA WorkKeeps ==
  ASSUME DriverInv,
         RegisterStream \/ \E w \in Workers : SlotBounce(w) \/ ThreadExits(w)
  PROVE  DriverInv'
<1> USE DriverAssumption DEF own, homi, buffers
<1>1. /\ UNCHANGED <<bufs, drv, conn, attached, xdev, words, ready, pc, at>>
      /\ UNCHANGED <<allocs, maps, queues>>
  BY DEF RegisterStream, SlotBounce, ThreadExits
<1>2. TableExact' /\ Ladder'
  BY <1>1, TableKept DEF DriverInv, Ladder
<1>3. CASE RegisterStream
  <2> USE <1>3 DEF RegisterStream, InService
  <2>1. DriverTyped'
    BY DEF DriverInv, DriverTyped
  <2>2. Crew' /\ Lent'
    BY DEF DriverInv, Crew, Lent
  <2> QED BY <1>2, <2>1, <2>2 DEF DriverInv
<1>4. ASSUME NEW w \in Workers, SlotBounce(w) PROVE DriverInv'
  <2> USE <1>4 DEF SlotBounce
  <2>1. DriverTyped'
    BY DEF DriverInv, DriverTyped
  <2>2. Crew' /\ Lent'
    BY DEF DriverInv, Crew, Lent
  <2> QED BY <1>2, <2>1, <2>2 DEF DriverInv
<1>5. ASSUME NEW w \in Workers, ThreadExits(w) PROVE DriverInv'
  <2> USE <1>5 DEF ThreadExits
  <2>1. threads \in [Workers -> {"none", "running", "exited"}]
    BY DEF DriverInv, DriverTyped
  <2>2. /\ threads' \in [Workers -> {"none", "running", "exited"}]
        /\ \A u \in Workers : threads'[u] # "none" => threads[u] # "none"
    BY <2>1
  <2>3. DriverTyped'
    BY <2>2 DEF DriverInv, DriverTyped
  <2>4. Crew' /\ Lent'
    BY <1>1, <2>2 DEF DriverInv, Crew, Lent
  <2> QED BY <1>2, <2>3, <2>4 DEF DriverInv
<1> QED BY <1>3, <1>4, <1>5

\* Allocating, freeing, registering and deregistering buffers: the table and
\* what the process holds change together.
LEMMA BuffersKeep ==
  ASSUME DriverInv, NEW b \in Addrs,
         AllocBuf(b) \/ FreeBuf(b) \/ RegisterBuf(b) \/ DeregisterBuf(b)
  PROVE  DriverInv'
<1> USE DEF homi
<1>1. /\ UNCHANGED <<drv, ready, stop, nStreams, pc, at, conn, attached, xdev>>
      /\ UNCHANGED <<queues, threads, words, bounces, opBufs>>
      /\ pc = "idle" /\ drv
  BY DEF AllocBuf, FreeBuf, RegisterBuf, DeregisterBuf, InService
<1>2. Ladder' /\ Crew' /\ Lent'
  BY <1>1 DEF DriverInv, Ladder, Crew, Lent
<1>3. /\ bufs \in Seq(Rows) /\ allocs = Bases(TRUE) /\ maps = Bases(FALSE)
      /\ \A i, j \in 1 .. Len(bufs) : bufs[i].base = bufs[j].base => i = j
  BY DEF DriverInv, DriverTyped, TableExact, Rows
<1>4. ASSUME NEW o \in BOOLEAN, bufs' = Append(bufs, Entry(b, o)),
             \A i \in 1 .. Len(bufs) : bufs[i].base # b
      PROVE  /\ bufs' \in Seq(Rows)
             /\ Bases(o)' = Bases(o) \cup {b} /\ Bases(~o)' = Bases(~o)
             /\ \A i, j \in 1 .. Len(bufs') :
                  bufs'[i].base = bufs'[j].base => i = j
  <2>1. Entry(b, o) \in Rows /\ Entry(b, o).base = b /\ Entry(b, o).owned = o
    BY DEF Entry, Rows
  <2>2. /\ bufs' \in Seq(Rows) /\ Len(bufs') = Len(bufs) + 1
        /\ bufs'[Len(bufs) + 1] = Entry(b, o)
        /\ \A i \in 1 .. Len(bufs) : bufs'[i] = bufs[i]
        /\ \A p \in BOOLEAN :
             Bases(p)' = IF Entry(b, o).owned = p THEN Bases(p) \cup {Entry(b, o).base}
                                                  ELSE Bases(p)
    BY <1>3, <1>4, <2>1, TableAppend
  <2>3. Len(bufs) \in Nat
    BY <1>3
  <2>4. Bases(o)' = Bases(o) \cup {b} /\ Bases(~o)' = Bases(~o)
    BY <2>1, <2>2
  <2>5. \A i, j \in 1 .. Len(bufs') : bufs'[i].base = bufs'[j].base => i = j
    BY <1>3, <1>4, <2>1, <2>2, <2>3
  <2> QED BY <2>2, <2>4, <2>5
<1>5. ASSUME NEW k \in Find(b), bufs' = Without(k)
      PROVE  /\ bufs' \in Seq(Rows)
             /\ \A o \in BOOLEAN :
                  Bases(o)' = IF bufs[k].owned = o THEN Bases(o) \ {b}
                                                   ELSE Bases(o)
             /\ \A i, j \in 1 .. Len(bufs') :
                  bufs'[i].base = bufs'[j].base => i = j
  <2>1. k \in 1 .. Len(bufs) /\ bufs[k].base = b /\ bufs[k] \in Rows
    BY <1>3 DEF Find
  <2> QED BY <1>3, <1>5, <2>1, TableWithout
<1>6. /\ bufs' \in Seq(Rows) /\ allocs' = Bases(TRUE)' /\ maps' = Bases(FALSE)'
      /\ \A i, j \in 1 .. Len(bufs') : bufs'[i].base = bufs'[j].base => i = j
  <2>1. CASE AllocBuf(b)
    <3>1. \A i \in 1 .. Len(bufs) : bufs[i].base # b
      <4> SUFFICES ASSUME NEW i \in 1 .. Len(bufs), bufs[i].base = b
                   PROVE  FALSE
        OBVIOUS
      <4>1. bufs[i].owned = TRUE \/ bufs[i].owned = FALSE
        BY <1>3 DEF Rows
      <4>2. b \in Bases(TRUE) \/ b \in Bases(FALSE)
        BY <4>1 DEF Bases
      <4> QED BY <1>3, <2>1, <4>2 DEF AllocBuf
    <3>2. bufs' = Append(bufs, Entry(b, TRUE))
      BY <2>1 DEF AllocBuf
    <3> QED BY <1>3, <1>4, <2>1, <3>1, <3>2 DEF AllocBuf
  <2>2. CASE RegisterBuf(b)
    <3>1. \A i \in 1 .. Len(bufs) : bufs[i].base # b
      BY <2>2 DEF RegisterBuf, Find
    <3>2. bufs' = Append(bufs, Entry(b, FALSE))
      BY <2>2 DEF RegisterBuf
    <3> QED BY <1>3, <1>4, <2>2, <3>1, <3>2 DEF RegisterBuf
  <2>3. CASE FreeBuf(b)
    <3>1. PICK k \in Find(b) : /\ bufs[k].owned /\ bufs' = Without(k)
                               /\ allocs' = allocs \ {b} /\ maps' = maps
      BY <2>3 DEF FreeBuf
    <3>2. bufs[k].owned = TRUE
      BY <1>3, <3>1 DEF Find, Rows
    <3> QED BY <1>3, <1>5, <3>1, <3>2
  <2>4. CASE DeregisterBuf(b)
    <3>1. PICK k \in Find(b) : /\ ~bufs[k].owned /\ bufs' = Without(k)
                               /\ maps' = maps \ {b} /\ allocs' = allocs
      BY <2>4 DEF DeregisterBuf
    <3>2. bufs[k].owned = FALSE
      BY <1>3, <3>1 DEF Find, Rows
    <3> QED BY <1>3, <1>5, <3>1, <3>2
  <2> QED BY <2>1, <2>2, <2>3, <2>4
<1>7. TableExact'
  BY <1>6 DEF TableExact
<1>8. DriverTyped'
  BY <1>1, <1>6 DEF DriverInv, DriverTyped, Rows
<1> QED BY <1>2, <1>7, <1>8 DEF DriverInv

\* Every step of the aisio library keeps its invariant.
LEMMA DriverKeeps == ASSUME DriverInv, DriverNext PROVE DriverInv'
BY OpenKeeps, StartKeeps, CloseKeeps, WorkKeeps, BuffersKeep
DEF DriverNext, OpenStep, CloseStep
-----------------------------------------------------------------------------
(***************************************************************************)
(* The reference backend, called from one thread.                          *)
(***************************************************************************)

\* With no registration in progress.
LEMMA RefStarts == ASSUME RefInit, CallsInit PROVE RefInv
<1> USE RefAssumption DEF RefInit, CallsInit
<1>1. call \in [Threads -> RefCalls]
  BY DEF Idle, RefCalls
<1>2. \A t \in Threads : call[t].op = "idle"
  BY DEF Idle
<1>3. Counting
  BY <1>2 DEF Counting
<1>4. Entered = {} /\ 0 .. count - 1 = {}
  BY DEF Entered
<1>5. IsFiniteSet(mine) /\ count = Cardinality(mine)
  BY FS_EmptySet
<1>6. slot \in [0 .. RefMaxBufs - 1 -> Addrs \cup {None}]
  OBVIOUS
<1>7. count \in 0 .. RefMaxBufs /\ refOpen \in BOOLEAN
  <2>1. 0 \in 0 .. RefMaxBufs
    OBVIOUS
  <2>2. count = 0 /\ refOpen = FALSE
    OBVIOUS
  <2> QED BY <2>1, <2>2
<1>8. Entered = mine /\ mine \subseteq Addrs
  BY <1>4
<1>9. \A i, j \in 0 .. count - 1 : slot[i] = slot[j] => i = j
  BY <1>4
<1> HIDE DEF RefInit, CallsInit
<1> QED BY <1>1, <1>2, <1>3, <1>5, <1>6, <1>7, <1>8, <1>9 DEF RefInv

\* The load and the store of use_count, and the calls that do not count.
LEMMA CountKept ==
  ASSUME OneThread, NEW t \in Threads, Counting,
         DOMAIN call = Threads,
         \/ \E d \in {1, -1} : LoadCount(t, d)
         \/ StoreCount(t)
         \/ /\ UNCHANGED <<live, useCount>>
            /\ call[t].op # "count" /\ call'[t].op # "count"
  PROVE  Counting'
<1> USE DEF Counting, OneThread, Now
<1>1. CASE \E d \in {1, -1} : LoadCount(t, d)
  <2>1. PICK d \in {1, -1} : LoadCount(t, d)
    BY <1>1
  <2>2. call[t].op # "count" /\ useCount = live
    BY <2>1 DEF LoadCount, Idle
  <2>3. /\ call'[t].op = "count" /\ call'[t].n = useCount + d
        /\ live' = live + d /\ live + d \in Nat /\ useCount' = useCount
    BY <2>1, CallsAssumption DEF LoadCount, Allowed
  <2> QED BY <2>2, <2>3
<1>2. CASE StoreCount(t)
  <2>1. /\ call[t].op = "count" /\ useCount' = call[t].n /\ live' = live
        /\ call'[t].op = "idle"
    BY <1>2 DEF StoreCount, Idle
  <2> QED BY <2>1
<1>3. CASE /\ UNCHANGED <<live, useCount>>
           /\ call[t].op # "count" /\ call'[t].op # "count"
  BY <1>3
<1> QED BY <1>1, <1>2, <1>3

\* What a call loads it finds unchanged when it stores.
LEMMA RefKeeps == ASSUME OneThread, RefInv, RefNext PROVE RefInv'
<1> USE RefAssumption
<1>0. /\ call \in [Threads -> RefCalls] /\ Counting
      /\ refOpen \in BOOLEAN /\ count \in 0 .. RefMaxBufs
      /\ slot \in [0 .. RefMaxBufs - 1 -> Addrs \cup {None}]
      /\ \A i, j \in 0 .. count - 1 : slot[i] = slot[j] => i = j
      /\ Entered = mine /\ mine \subseteq Addrs
      /\ IsFiniteSet(mine) /\ count = Cardinality(mine)
  BY DEF RefInv
<1>1. \A t \in Threads : \A u \in Threads : u = t
  BY DEF OneThread
<1>2. CASE RefDriverOpen \/ RefDriverClose
  <2>1. UNCHANGED <<call, live, useCount>> /\ \A t \in Threads : call[t].op = "idle"
    BY <1>2 DEF RefDriverOpen, RefDriverClose, callVars, appVars, Quiet, Idle
  <2>2. Counting'
    BY <1>0, <2>1 DEF Counting
  <2>3. CASE RefDriverOpen
    BY <1>0, <2>1, <2>2, <2>3 DEF RefDriverOpen, appVars, RefInv, Entered
  <2>4. CASE RefDriverClose
    <3>1. /\ count' = 0 /\ mine' = {} /\ refOpen' = FALSE /\ slot' = slot
          /\ 0 .. count' - 1 = {}
      BY <2>4 DEF RefDriverClose
    <3>2. Entered' = {} /\ Cardinality(mine') = 0 /\ IsFiniteSet(mine')
      BY <3>1, FS_EmptySet DEF Entered
    <3>3. \A t \in Threads : call'[t].op = "idle"
      BY <2>1
    <3>4. /\ call' \in [Threads -> RefCalls] /\ refOpen' \in BOOLEAN
          /\ count' \in 0 .. RefMaxBufs
          /\ slot' \in [0 .. RefMaxBufs - 1 -> Addrs \cup {None}]
      <4>1. call' = call /\ slot' = slot /\ refOpen' = FALSE
        BY <2>1, <3>1
      <4>2. count' \in 0 .. RefMaxBufs
        BY <3>1
      <4> QED BY <1>0, <4>1, <4>2
    <3>5. Entered' = mine' /\ mine' \subseteq Addrs /\ count' = Cardinality(mine')
      BY <3>1, <3>2
    <3>6. \A i, j \in 0 .. count' - 1 : slot'[i] = slot'[j] => i = j
      BY <3>1
    <3> QED BY <2>2, <3>2, <3>3, <3>4, <3>5, <3>6 DEF RefInv
  <2> QED BY <1>2, <2>3, <2>4
<1>3. ASSUME NEW t \in Threads,
             RefHandleRegister(t) \/ RefHandleDeregister(t) \/ RefCounted(t)
      PROVE  RefInv'
  <2>1. /\ \/ \E d \in {1, -1} : LoadCount(t, d)
           \/ StoreCount(t)
        /\ UNCHANGED <<refOpen, slot, count, mine, heap>>
    BY <1>3 DEF RefHandleRegister, RefHandleDeregister, RefCounted, refVars
  <2>2. Counting'
    BY <1>0, <2>1, CountKept
  <2>3. call' \in [Threads -> RefCalls] /\ call'[t].op \in {"idle", "count"}
    <3>1. CASE StoreCount(t)
      BY <1>0, <3>1 DEF StoreCount, Now, Idle, RefCalls
    <3>2. CASE \E d \in {1, -1} : LoadCount(t, d)
      <4>1. PICK d \in {1, -1} : LoadCount(t, d)
        BY <3>2
      <4>2. useCount = live
        BY <1>0, <1>1, <4>1 DEF LoadCount, Counting, Idle
      <4>3. useCount + d \in Nat
        BY <4>1, <4>2, CallsAssumption DEF LoadCount, Allowed
      <4> QED BY <1>0, <4>1, <4>3 DEF LoadCount, Now, RefCalls
    <3> QED BY <2>1, <3>1, <3>2
  <2>4. Entered' = Entered
    BY <2>1 DEF Entered
  <2>5. \A u \in Threads : call'[u].op \in {"idle", "count"}
    BY <1>1, <2>3
  <2> QED BY <1>0, <2>1, <2>2, <2>3, <2>4, <2>5 DEF RefInv
<1>4. ASSUME NEW t \in Threads, NEW b \in Addrs, RefAlloc(t, b) \/ RefFree(t, b)
      PROVE  RefInv'
  <2>1. UNCHANGED <<refOpen, slot, count, call, live, useCount, mine>>
    BY <1>4 DEF RefAlloc, RefFree, refVars, callVars
  <2> QED BY <2>1 DEF RefInv, Counting, Entered
<1>5. ASSUME NEW t \in Threads, NEW b \in Addrs, RefBufRegister(t, b)
      PROVE  RefInv'
  <2>1. /\ UNCHANGED <<refOpen, slot, count, live, useCount, mine, heap>>
        /\ refOpen /\ b \notin Entered /\ count < RefMaxBufs
        /\ call[t] = Idle
        /\ call' = [call EXCEPT ![t] = [op |-> "enter", b |-> b, n |-> count]]
    BY <1>5 DEF RefBufRegister, refVars, Now
  <2>2. call'[t] = [op |-> "enter", b |-> b, n |-> count]
    BY <1>0, <2>1
  <2>3. call' \in [Threads -> RefCalls]
    BY <1>0, <2>1 DEF RefCalls
  <2>4. Counting'
    BY <1>0, <2>1, <2>2, CountKept DEF Idle
  <2>5. Entered' = Entered
    BY <2>1 DEF Entered
  <2> QED BY <1>0, <1>1, <2>1, <2>2, <2>3, <2>4, <2>5 DEF RefInv
<1>6. ASSUME NEW t \in Threads, NEW b \in Addrs, RefBufDeregister(t, b)
      PROVE  RefInv'
  <2>1. PICK k \in 0 .. count - 1 :
          /\ slot[k] = b
          /\ call' = [call EXCEPT ![t] = [op |-> "remove", b |-> b, i |-> k,
                                          n |-> count - 1]]
    BY <1>6 DEF RefBufDeregister, Now
  <2>2. /\ UNCHANGED <<refOpen, slot, count, live, useCount, mine, heap>>
        /\ refOpen /\ call[t] = Idle
    BY <1>6 DEF RefBufDeregister, refVars
  <2>3. call'[t] = [op |-> "remove", b |-> b, i |-> k, n |-> count - 1]
    BY <1>0, <2>1
  <2>4. call' \in [Threads -> RefCalls]
    <3>1. k \in Nat /\ count - 1 \in Nat
      BY <1>0
    <3> QED BY <1>0, <2>1, <3>1 DEF RefCalls
  <2>5. Counting'
    BY <1>0, <2>2, <2>3, CountKept DEF Idle
  <2>6. Entered' = Entered
    BY <2>2 DEF Entered
  <2>7. \A u \in Threads : call'[u] = [op |-> "remove", b |-> b, i |-> k, n |-> count - 1]
    BY <1>1, <2>3
  <2> QED BY <1>0, <2>1, <2>2, <2>4, <2>5, <2>6, <2>7 DEF RefInv
<1>7. ASSUME NEW t \in Threads, RefEnter(t) PROVE RefInv'
  <2> DEFINE b == call[t].b
  <2>1. /\ refOpen /\ b \notin Entered /\ call[t].n = count /\ count < RefMaxBufs
        /\ b \in Addrs /\ call[t].op = "enter"
    BY <1>0, <1>7 DEF RefEnter, RefInv, RefCalls
  <2>2. /\ slot' = [slot EXCEPT ![count] = b] /\ count' = count + 1
        /\ mine' = mine \cup {b} /\ call' = [call EXCEPT ![t] = Idle]
        /\ UNCHANGED <<refOpen, live, useCount, heap>>
    BY <1>7, <2>1 DEF RefEnter, Now
  <2> HIDE DEF b
  <2>3. call' \in [Threads -> RefCalls] /\ call'[t].op = "idle"
    BY <1>0, <2>2 DEF RefCalls, Idle
  <2>4. Counting'
    BY <1>0, <2>1, <2>2, <2>3, CountKept
  <2>5. /\ slot' \in [0 .. RefMaxBufs - 1 -> Addrs \cup {None}]
        /\ slot'[count] = b /\ \A i \in 0 .. count - 1 : slot'[i] = slot[i]
        /\ count' \in 0 .. RefMaxBufs
        /\ \A i \in 0 .. count' - 1 : i = count \/ i \in 0 .. count - 1
        /\ 0 .. count' - 1 = (0 .. count - 1) \cup {count}
    BY <1>0, <2>1, <2>2
  <2>6. \A i \in 0 .. count - 1 : slot[i] # b
    BY <2>1 DEF Entered
  <2>7. Entered' = Entered \cup {b}
    <3>1. \A x : x \in Entered' <=> \E i \in 0 .. count' - 1 : x = slot'[i]
      BY DEF Entered
    <3>2. \A x : x \in Entered <=> \E i \in 0 .. count - 1 : x = slot[i]
      BY DEF Entered
    <3>3. \A x : (\E i \in 0 .. count' - 1 : x = slot'[i])
                 <=> x = b \/ \E i \in 0 .. count - 1 : x = slot[i]
      BY <2>5
    <3> QED BY <3>1, <3>2, <3>3
  <2>8. \A i, j \in 0 .. count' - 1 : slot'[i] = slot'[j] => i = j
    <3> SUFFICES ASSUME NEW i \in 0 .. count' - 1, NEW j \in 0 .. count' - 1,
                        slot'[i] = slot'[j]
                 PROVE  i = j
      OBVIOUS
    <3>1. /\ i = count \/ i \in 0 .. count - 1
          /\ j = count \/ j \in 0 .. count - 1
      BY <2>5
    <3> QED BY <1>0, <2>5, <2>6, <3>1
  <2>9. IsFiniteSet(mine') /\ count' = Cardinality(mine')
    BY <1>0, <2>1, <2>2, FS_AddElement
  <2>10. \A u \in Threads : call'[u].op = "idle"
    BY <1>1, <2>3
  <2>11. Entered' = mine' /\ mine' \subseteq Addrs
    BY <1>0, <2>1, <2>2, <2>7
  <2> QED BY <1>0, <2>2, <2>3, <2>4, <2>5, <2>8, <2>9, <2>10, <2>11 DEF RefInv
<1>8. ASSUME NEW t \in Threads, RefRemove(t) PROVE RefInv'
  <2> DEFINE b == call[t].b
             k == call[t].i
  <2>1. /\ refOpen /\ k \in 0 .. count - 1 /\ call[t].n = count - 1
        /\ slot[k] = b /\ call[t].op = "remove"
    BY <1>8 DEF RefRemove, RefInv
  <2>2. /\ slot' = [slot EXCEPT ![k] = slot[count - 1]] /\ count' = count - 1
        /\ mine' = mine \ {b} /\ call' = [call EXCEPT ![t] = Idle]
        /\ UNCHANGED <<refOpen, live, useCount, heap>>
    BY <1>8, <2>1 DEF RefRemove, Now
  <2> HIDE DEF b, k
  <2>3. call' \in [Threads -> RefCalls] /\ call'[t].op = "idle"
    BY <1>0, <2>2 DEF RefCalls, Idle
  <2>4. Counting'
    BY <1>0, <2>1, <2>2, <2>3, CountKept
  <2>5. /\ slot' \in [0 .. RefMaxBufs - 1 -> Addrs \cup {None}]
        /\ count' \in 0 .. RefMaxBufs /\ count' \in Int
        /\ \A i \in 0 .. count' - 1 :
             slot'[i] = slot[IF i = k THEN count - 1 ELSE i]
    BY <1>0, <2>1, <2>2
  <2>6. \A i, j \in 0 .. count' - 1 : slot'[i] = slot'[j] => i = j
    BY <1>0, <2>1, <2>2, <2>5
  <2>7. Entered' = Entered \ {b}
    <3>1. ASSUME NEW x \in Entered' PROVE x \in Entered /\ x # b
      <4>1. PICK i \in 0 .. count' - 1 : x = slot'[i]
        BY <3>1 DEF Entered
      <4>2. PICK j \in 0 .. count - 1 : j # k /\ x = slot[j]
        BY <1>0, <2>1, <2>2, <2>5, <4>1
      <4> QED BY <1>0, <2>1, <4>2 DEF Entered
    <3>2. ASSUME NEW x \in Entered, x # b PROVE x \in Entered'
      <4>1. PICK j \in 0 .. count - 1 : x = slot[j]
        BY DEF Entered
      <4>2. j # k
        BY <2>1, <3>2, <4>1
      <4>3. PICK i \in 0 .. count' - 1 : x = slot'[i]
        <5>1. CASE j = count - 1
          BY <1>0, <2>1, <2>2, <2>5, <4>1, <4>2, <5>1
        <5>2. CASE j # count - 1
          BY <1>0, <2>1, <2>2, <2>5, <4>1, <4>2, <5>2
        <5> QED BY <5>1, <5>2
      <4> QED BY <4>3 DEF Entered
    <3> QED BY <3>1, <3>2
  <2>8. IsFiniteSet(mine') /\ count' = Cardinality(mine')
    <3>1. b \in mine
      BY <1>0, <2>1 DEF Entered
    <3> QED BY <1>0, <2>2, <3>1, FS_RemoveElement
  <2>9. \A u \in Threads : call'[u].op = "idle"
    BY <1>1, <2>3
  <2>10. Entered' = mine' /\ mine' \subseteq Addrs
    BY <1>0, <2>2, <2>7
  <2> QED BY <1>0, <2>2, <2>3, <2>4, <2>5, <2>6, <2>8, <2>9, <2>10 DEF RefInv
<1> QED BY <1>2, <1>3, <1>4, <1>5, <1>6, <1>7, <1>8 DEF RefNext
-----------------------------------------------------------------------------
(***************************************************************************)
(* The GDS backend, called from one thread.                                *)
(***************************************************************************)

\* Nothing is open, and cuFile has nothing.
LEMMA GdsStarts == ASSUME GdsInit, CallsInit PROVE GdsInv
<1> USE DEF GdsInit, CallsInit
<1>1. call \in [Threads -> GdsCalls]
  BY DEF Idle, GdsCalls
<1>2. \A t \in Threads : call[t].op = "idle"
  BY DEF Idle
<1>3. Counting
  BY <1>2 DEF Counting
<1> QED BY <1>1, <1>2, <1>3 DEF GdsInv

\* A failed allocation is undone, and every other call changes cuFile's
\* records and the application's together.
LEMMA GdsKeeps == ASSUME OneThread, GdsInv, GdsNext PROVE GdsInv'
<1>0. /\ call \in [Threads -> GdsCalls] /\ Counting
      /\ gdsOpen \in BOOLEAN /\ gdsOpen = cuOpen
      /\ mine \subseteq cuBufs /\ cuBufs \subseteq mine \cup heap
      /\ cuHandles = live
  BY DEF GdsInv
<1>1. \A t \in Threads : \A u \in Threads : u = t
  BY DEF OneThread
<1>2. CASE GdsDriverOpen \/ GdsDriverClose
  <2>1. /\ UNCHANGED <<call, live, useCount, heap, gpu, cuHandles>>
        /\ \A t \in Threads : call[t].op = "idle"
    BY <1>2 DEF GdsDriverOpen, GdsDriverClose, callVars, appVars, Quiet, Idle
  <2>2. Counting'
    BY <1>0, <2>1 DEF Counting
  <2>3. gpu = heap
    BY <2>1 DEF GdsInv
  <2>4. /\ gdsOpen' \in BOOLEAN /\ gdsOpen' = cuOpen' /\ mine' \subseteq cuBufs'
        /\ cuBufs' \subseteq mine' \cup heap'
    BY <1>0, <1>2 DEF GdsDriverOpen, GdsDriverClose, appVars, callVars
  <2> QED BY <1>0, <2>1, <2>2, <2>3, <2>4 DEF GdsInv
<1>3. ASSUME NEW t \in Threads,
             GdsHandleRegister(t) \/ GdsHandleDeregister(t) \/ GdsCounted(t)
      PROVE  GdsInv'
  <2>1. UNCHANGED <<gdsOpen, cuOpen, cuBufs, gpu, mine, heap>>
    BY <1>3 DEF GdsHandleRegister, GdsHandleDeregister, GdsCounted, gdsVars
  <2>2. \/ \E d \in {1, -1} : LoadCount(t, d) /\ cuHandles' = cuHandles + d
        \/ StoreCount(t) /\ cuHandles' = cuHandles
    <3>1. CASE GdsHandleRegister(t)
      BY <3>1 DEF GdsHandleRegister
    <3>2. CASE GdsHandleDeregister(t)
      <4>1. LoadCount(t, -1) /\ cuHandles' = cuHandles - 1
        BY <3>2 DEF GdsHandleDeregister
      <4>2. cuHandles - 1 = cuHandles + (-1)
        BY <1>0 DEF Counting
      <4> QED BY <4>1, <4>2
    <3>3. CASE GdsCounted(t)
      BY <3>3 DEF GdsCounted, gdsVars
    <3> QED BY <1>3, <3>1, <3>2, <3>3
  <2>3. Counting'
    BY <1>0, <2>2, CountKept
  <2>4. /\ call' \in [Threads -> GdsCalls] /\ call'[t].op \in {"idle", "count"}
        /\ call[t].op \in {"idle", "count"} /\ cuHandles' = live'
    <3>1. CASE StoreCount(t)
      BY <1>0, <2>2, <3>1 DEF StoreCount, LoadCount, Now, Idle, GdsCalls
    <3>2. CASE \E d \in {1, -1} : LoadCount(t, d) /\ cuHandles' = cuHandles + d
      <4>1. PICK d \in {1, -1} : LoadCount(t, d) /\ cuHandles' = cuHandles + d
        BY <3>2
      <4>2. useCount = live
        BY <1>0, <1>1, <4>1 DEF LoadCount, Counting, Idle
      <4>3. useCount + d \in Nat
        BY <4>1, <4>2, CallsAssumption DEF LoadCount, Allowed
      <4> QED BY <1>0, <4>1, <4>3 DEF LoadCount, Now, GdsCalls, Idle
    <3> QED BY <2>2, <3>1, <3>2
  <2>5. \A u \in Threads : /\ call'[u].op \in {"idle", "count"}
                           /\ call[u].op \in {"idle", "count"}
    BY <1>1, <2>4
  <2>6. gpu = heap
    BY <2>5 DEF GdsInv
  <2> QED BY <1>0, <2>1, <2>3, <2>4, <2>5, <2>6 DEF GdsInv
<1>4. ASSUME NEW t \in Threads, NEW b \in Addrs, GdsMalloc(t, b)
      PROVE  GdsInv'
  <2>1. /\ UNCHANGED <<gdsOpen, cuOpen, cuBufs, cuHandles, live, useCount, mine,
                       heap>>
        /\ b \notin gpu \cup cuBufs /\ gpu' = gpu \cup {b} /\ call[t] = Idle
        /\ call' = [call EXCEPT ![t] = [op |-> "malloc", b |-> b]]
    BY <1>4 DEF GdsMalloc, Now
  <2>2. call' \in [Threads -> GdsCalls] /\ call'[t] = [op |-> "malloc", b |-> b]
    BY <1>0, <2>1 DEF GdsCalls
  <2>3. Counting'
    BY <1>0, <2>1, <2>2, CountKept DEF Idle
  <2>4. gpu = heap
    BY <1>1, <2>1 DEF GdsInv, Idle
  <2>5. \A u \in Threads : call'[u] = [op |-> "malloc", b |-> b]
    BY <1>1, <2>2
  <2> QED BY <1>0, <2>1, <2>2, <2>3, <2>4, <2>5 DEF GdsInv
<1>5. ASSUME NEW t \in Threads, GdsAllocRegister(t) PROVE GdsInv'
  <2> DEFINE b == call[t].b
  <2>1. /\ call[t].op = "malloc" /\ gpu = heap \cup {b} /\ b \notin heap \cup mine
        /\ UNCHANGED <<gdsOpen, cuOpen, cuHandles, live, useCount, mine>>
        /\ call' = [call EXCEPT ![t] = Idle]
    BY <1>5 DEF GdsAllocRegister, GdsInv, Now
  <2>2. \/ cuBufs' = cuBufs \cup {b} /\ heap' = heap \cup {b} /\ gpu' = gpu
        \/ gpu' = gpu \ {b} /\ cuBufs' = cuBufs /\ heap' = heap
    BY <1>5 DEF GdsAllocRegister
  <2> HIDE DEF b
  <2>3. call' \in [Threads -> GdsCalls] /\ call'[t].op = "idle"
    BY <1>0, <2>1 DEF GdsCalls, Idle
  <2>4. Counting'
    BY <1>0, <2>1, <2>3, CountKept
  <2>5. \A u \in Threads : call'[u].op = "idle"
    BY <1>1, <2>3
  <2>6. /\ gpu' = heap' /\ mine' \subseteq cuBufs'
        /\ cuBufs' \subseteq mine' \cup heap'
    BY <1>0, <2>1, <2>2
  <2> QED BY <1>0, <2>1, <2>3, <2>4, <2>5, <2>6 DEF GdsInv
<1>6. ASSUME NEW t \in Threads, NEW b \in Addrs,
             GdsFree(t, b) \/ GdsBufRegister(t, b) \/ GdsBufDeregister(t, b)
      PROVE  GdsInv'
  <2>1. /\ UNCHANGED <<gdsOpen, cuOpen, cuHandles, call, live, useCount>>
        /\ call[t] = Idle
    BY <1>6 DEF GdsFree, GdsBufRegister, GdsBufDeregister, callVars
  <2>2. Counting'
    BY <1>0, <2>1 DEF Counting
  <2>3. \A u \in Threads : call'[u].op = "idle"
    BY <1>1, <2>1 DEF Idle
  <2>4. gpu = heap
    BY <2>1, <2>3 DEF GdsInv
  <2>5. /\ gpu' = heap' /\ mine' \subseteq cuBufs'
        /\ cuBufs' \subseteq mine' \cup heap'
    BY <1>0, <1>6, <2>4 DEF GdsFree, GdsBufRegister, GdsBufDeregister
  <2> QED BY <1>0, <2>1, <2>2, <2>3, <2>5 DEF GdsInv
<1> QED BY <1>2, <1>3, <1>4, <1>5, <1>6 DEF GdsNext
-----------------------------------------------------------------------------
(***************************************************************************)
(* The three together.                                                     *)
(***************************************************************************)

\* Whichever library is linked, it starts empty.
LEMMA BackendsStart == Init /\ Sole => BackendsInv
<1> SUFFICES ASSUME Init, Sole PROVE BackendsInv
  OBVIOUS
<1>1. DriverInit /\ RefInv /\ GdsInv
  BY RefStarts, GdsStarts DEF Init
<1>2. AisioInv
  BY <1>1, DriverStarts DEF Init, AisioInv, CallsInit, Quiet
<1> QED BY <1>1, <1>2 DEF BackendsInv, Init

\* Every step of the linked library keeps its invariant.
LEMMA BackendsKeep == BackendsInv /\ [Next]_backVars => BackendsInv'
<1> SUFFICES ASSUME BackendsInv, [Next]_backVars PROVE BackendsInv'
  OBVIOUS
<1>0. backend' = backend /\ backend \in {"aisio", "ref", "gds"} /\ Sole'
  BY DEF BackendsInv, Next, backVars, Sole
<1>1. CASE backend = "aisio"
  <2>1. DriverInv /\ Quiet /\ live \in Nat /\ useCount = live
    BY <1>1 DEF BackendsInv, AisioInv
  <2>2. CASE DriverNext /\ UNCHANGED appVars
    <3>1. DriverInv'
      BY <2>1, <2>2, DriverKeeps
    <3>2. Quiet' /\ live' \in Nat /\ useCount' = live'
      BY <2>1, <2>2 DEF appVars, callVars, Quiet
    <3> QED BY <1>0, <1>1, <3>1, <3>2 DEF BackendsInv, AisioInv
  <2>3. CASE (\E t \in Threads : AisioHandle(t)) /\ UNCHANGED <<driverVars, mine, heap>>
    <3>1. DriverInv'
      BY <2>1, <2>3 DEF DriverInv, driverVars, own, homi, buffers, DriverTyped,
         Ladder, Crew, Lent, TableExact, Bases
    <3>2. Quiet' /\ live' \in Nat /\ useCount' = live'
      BY <2>1, <2>3, CallsAssumption DEF AisioHandle, AtomicCount, Allowed, Quiet
    <3> QED BY <1>0, <1>1, <3>1, <3>2 DEF BackendsInv, AisioInv
  <2>4. CASE UNCHANGED backVars
    <3>1. DriverInv'
      BY <2>1, <2>4 DEF DriverInv, backVars, driverVars, own, homi, buffers,
         DriverTyped, Ladder, Crew, Lent, TableExact, Bases
    <3>2. Quiet' /\ live' \in Nat /\ useCount' = live'
      BY <2>1, <2>4 DEF backVars, appVars, callVars, Quiet
    <3> QED BY <1>0, <1>1, <3>1, <3>2 DEF BackendsInv, AisioInv
  <2> QED BY <1>1, <2>2, <2>3, <2>4 DEF Next
<1>2. CASE backend # "aisio"
  <2>1. OneThread /\ DriverInit
    BY <1>2 DEF BackendsInv, Sole
  <2>2. DriverInit'
    BY <1>2, <2>1 DEF Next, backVars, driverVars, own, homi, buffers, DriverInit
  <2>3. CASE backend = "ref"
    <3>1. RefInv
      BY <2>3 DEF BackendsInv
    <3>2. CASE RefNext
      BY <1>0, <2>1, <2>2, <2>3, <3>1, <3>2, RefKeeps DEF BackendsInv
    <3>3. CASE UNCHANGED backVars
      <4>1. RefInv'
        BY <3>1, <3>3 DEF RefInv, Counting, Entered, backVars, refVars, appVars,
           callVars
      <4> QED BY <1>0, <2>2, <2>3, <4>1 DEF BackendsInv
    <3> QED BY <2>3, <3>2, <3>3 DEF Next
  <2>4. CASE backend = "gds"
    <3>1. GdsInv
      BY <2>4 DEF BackendsInv
    <3>2. CASE GdsNext
      BY <1>0, <2>1, <2>2, <2>4, <3>1, <3>2, GdsKeeps DEF BackendsInv
    <3>3. CASE UNCHANGED backVars
      <4>1. GdsInv'
        BY <3>1, <3>3 DEF GdsInv, Counting, backVars, gdsVars, appVars, callVars
      <4> QED BY <1>0, <2>2, <2>4, <4>1 DEF BackendsInv
    <3> QED BY <2>4, <3>2, <3>3 DEF Next
  <2> QED BY <1>0, <1>2, <2>3, <2>4
<1> QED BY <1>1, <1>2

\* The inductive invariant holds of every reachable state.
LEMMA BackendsSafe == Spec /\ Sole => []BackendsInv
BY BackendsStart, BackendsKeep, PTL DEF Spec

\* The driver needs no assumption on the application: with another library it
\* is never opened.
LEMMA DriverSafe == Spec => [](DriverInv /\ backend \in {"aisio", "ref", "gds"})
<1> DEFINE I == DriverInv /\ backend \in {"aisio", "ref", "gds"}
<1>1. Init => I
  BY DriverStarts DEF Init
<1>2. I /\ [Next]_backVars => I'
  <2> SUFFICES ASSUME I, [Next]_backVars PROVE I'
    OBVIOUS
  <2>1. backend' = backend
    BY DEF Next, backVars
  <2>2. CASE DriverNext
    BY <2>1, <2>2, DriverKeeps
  <2>3. CASE UNCHANGED driverVars
    BY <2>1, <2>3 DEF DriverInv, driverVars, own, homi, buffers, DriverTyped,
       Ladder, Crew, Lent, TableExact, Bases
  <2> QED BY <2>2, <2>3 DEF Next, backVars
<1> HIDE DEF I
<1>3. Spec => []I
  BY <1>1, <1>2, PTL DEF Spec
<1> QED BY <1>3 DEF I
-----------------------------------------------------------------------------
\* Whatever step of an open fails and whatever the I/O threads do meanwhile,
\* nothing is held without what it stands on: no queue, buffer or mapping
\* without its device, no running thread without its queue and gate words.
THEOREM DriverGrounded == Spec => []Grounded
<1>1. DriverInv => Grounded
  <2> SUFFICES ASSUME DriverInv PROVE Grounded
    OBVIOUS
  <2>1. words \/ ready \/ pc = "buffers" => xdev
    BY DEF DriverInv, Ladder
  <2>2. queues \cup opBufs \cup bounces # {} => xdev
    BY <2>1 DEF DriverInv, Crew, Lent
  <2>3. allocs \cup maps # {} => xdev
    <3>1. bufs = <<>> => Bases(TRUE) = {} /\ Bases(FALSE) = {}
      BY DEF Bases
    <3> QED BY <2>1, <3>1 DEF DriverInv, TableExact, Lent
  <2>4. ASSUME NEW w \in Workers, threads[w] = "running"
        PROVE  w \in queues /\ words
    <3>1. words
      BY <2>4 DEF DriverInv, Crew
    <3>2. at \in Nat /\ w \in Nat
      BY DriverAssumption DEF DriverInv, DriverTyped, Workers
    <3> QED BY <2>4, <3>1, <3>2 DEF DriverInv, Ladder, Crew
  <2> QED BY <2>2, <2>3, <2>4 DEF DriverInv, Ladder, Grounded
<1> QED BY <1>1, DriverSafe, PTL

\* An open that failed at any step and a close leave nothing behind.
THEOREM DriverLeavesNothing == Spec => []NothingLeft
<1>1. DriverInv => NothingLeft
  <2> SUFFICES ASSUME DriverInv, pc = "idle", ~drv
               PROVE  /\ ~conn /\ ~attached /\ ~xdev /\ ~words
                      /\ queues = {} /\ opBufs = {} /\ bounces = {}
                      /\ allocs = {} /\ maps = {}
                      /\ \A w \in Workers : threads[w] = "none"
    BY DEF NothingLeft
  <2>1. ~conn /\ ~attached /\ ~xdev /\ ~words /\ ~ready
    BY DEF DriverInv, Ladder
  <2>2. /\ queues = {} /\ opBufs = {} /\ bounces = {} /\ bufs = <<>>
        /\ \A w \in Workers : threads[w] = "none"
    BY <2>1 DEF DriverInv, Crew, Lent
  <2>3. Bases(TRUE) = {} /\ Bases(FALSE) = {}
    BY <2>2 DEF Bases
  <2> QED BY <2>1, <2>2, <2>3 DEF DriverInv, TableExact
<1> QED BY <1>1, DriverSafe, PTL

\* What each library has on record is what its answers told the application.
THEOREM BackendsRecords == Spec /\ Sole => []RecordsExact
<1>1. BackendsInv => RecordsExact
  <2> SUFFICES ASSUME BackendsInv PROVE RecordsExact
    OBVIOUS
  <2>1. CASE backend = "aisio"
    BY <2>1 DEF BackendsInv, AisioInv, DriverInv, RecordsExact
  <2>2. CASE backend = "ref"
    BY <2>2 DEF BackendsInv, RefInv, Counting, RecordsExact, RefExact, Quiet, Idle
  <2>3. CASE backend = "gds"
    BY <2>3 DEF BackendsInv, GdsInv, Counting, RecordsExact, GdsExact, Quiet, Idle
  <2> QED BY <2>1, <2>2, <2>3 DEF BackendsInv
<1> QED BY <1>1, BackendsSafe, PTL
-----------------------------------------------------------------------------
(***************************************************************************)
(* The contract.                                                           *)
(***************************************************************************)

\* What the application sees of a step of the aisio library is a step of the
\* contract or nothing.
LEMMA AisioRefines ==
  ASSUME AisioInv, backend = "aisio", backend' = "aisio",
         \/ DriverNext /\ UNCHANGED appVars
         \/ (\E t \in Threads : AisioHandle(t)) /\ UNCHANGED driverVars
  PROVE  C!Next \/ UNCHANGED C!vars
<1>0. DriverInv /\ live \in Nat /\ useCount = live
  BY DEF AisioInv
<1>1. CASE (\E t \in Threads : AisioHandle(t)) /\ UNCHANGED driverVars
  <2>1. /\ useCount' \in {useCount - 1, useCount + 1} /\ useCount' >= 0
        /\ UNCHANGED <<ready, maps, allocs>>
    BY <1>0, <1>1, CallsAssumption
    DEF AisioHandle, AtomicCount, Allowed, driverVars, own, buffers
  <2>2. C!CountHandle
    BY <2>1 DEF C!CountHandle
  <2> QED BY <2>2 DEF C!Next
<1>2. CASE DriverNext /\ UNCHANGED appVars
  <2>0. useCount' = useCount /\ ready \in BOOLEAN
    BY <1>0, <1>2 DEF appVars, callVars, DriverInv, DriverTyped
  <2>1. ASSUME ready' = ready, ready => UNCHANGED <<maps, allocs>>
        PROVE  UNCHANGED C!vars
    BY <2>0, <2>1 DEF C!vars
  <2>2. CASE Opened
    <3>1. ~ready /\ maps = {} /\ allocs = {}
      <4>1. ~ready /\ bufs = <<>>
        BY <1>0, <2>2 DEF Opened, DriverInv, Ladder, Lent
      <4>2. Bases(TRUE) = {} /\ Bases(FALSE) = {}
        BY <4>1 DEF Bases
      <4> QED BY <1>0, <4>1, <4>2 DEF DriverInv, TableExact
    <3>2. ready' = TRUE /\ maps' = {} /\ allocs' = {}
      BY <2>2, <3>1 DEF Opened, buffers
    <3>3. C!Open
      BY <2>0, <3>1, <3>2 DEF C!Open
    <3> QED BY <3>3 DEF C!Next
  <2>3. CASE Teardown
    <3>1. ready /\ ready' = FALSE
      BY <1>0, <2>3 DEF Teardown, DriverInv, Ladder
    <3>2. C!Close
      BY <2>0, <3>1 DEF C!Close
    <3> QED BY <3>2 DEF C!Next
  <2>4. CASE \E b \in Addrs :
               AllocBuf(b) \/ FreeBuf(b) \/ RegisterBuf(b) \/ DeregisterBuf(b)
    <3>1. PICK b \in Addrs :
            AllocBuf(b) \/ FreeBuf(b) \/ RegisterBuf(b) \/ DeregisterBuf(b)
      BY <2>4
    <3>2. ready /\ ready' = TRUE
      BY <1>0, <2>0, <3>1 DEF AllocBuf, FreeBuf, RegisterBuf, DeregisterBuf,
         InService, DriverInv, Ladder
    <3>3. /\ allocs = Bases(TRUE) /\ maps = Bases(FALSE)
          /\ \A i, j \in 1 .. Len(bufs) : bufs[i].base = bufs[j].base => i = j
          /\ \A i \in 1 .. Len(bufs) : bufs[i].owned \in BOOLEAN
      <4>1. bufs \in Seq(Rows)
        BY <1>0 DEF DriverInv, DriverTyped, Rows
      <4>2. \A i \in 1 .. Len(bufs) : bufs[i] \in Rows
        BY <4>1
      <4>3. \A i \in 1 .. Len(bufs) : bufs[i].owned \in BOOLEAN
        BY <4>2 DEF Rows
      <4> QED BY <1>0, <4>3 DEF DriverInv, TableExact
    <3>4. CASE AllocBuf(b)
      <4>1. b \notin allocs /\ allocs' = allocs \cup {b} /\ maps' = maps
        BY <3>4 DEF AllocBuf
      <4>2. C!Alloc(b)
        BY <2>0, <3>2, <4>1 DEF C!Alloc
      <4> QED BY <4>2 DEF C!Next
    <3>5. CASE FreeBuf(b)
      <4>1. PICK k \in Find(b) : /\ bufs[k].owned
                                 /\ allocs' = allocs \ {b} /\ maps' = maps
        BY <3>5 DEF FreeBuf
      <4>2. k \in 1 .. Len(bufs) /\ bufs[k].base = b /\ bufs[k].owned = TRUE
        BY <3>3, <4>1 DEF Find
      <4>3. b \in allocs \ maps
        BY <3>3, <4>2 DEF Bases
      <4>4. C!Free(b)
        BY <2>0, <3>2, <4>1, <4>3 DEF C!Free
      <4> QED BY <4>4 DEF C!Next
    <3>6. CASE RegisterBuf(b)
      <4>1. maps' = maps \cup {b} /\ allocs' = allocs /\ Find(b) = {}
        BY <3>6 DEF RegisterBuf
      <4>2. b \notin maps
        BY <3>3, <4>1 DEF Bases, Find
      <4>3. C!Register(b)
        BY <2>0, <3>2, <4>1, <4>2 DEF C!Register
      <4> QED BY <4>3 DEF C!Next
    <3>7. CASE DeregisterBuf(b)
      <4>1. PICK k \in Find(b) : /\ ~bufs[k].owned
                                 /\ maps' = maps \ {b} /\ allocs' = allocs
        BY <3>7 DEF DeregisterBuf
      <4>2. k \in 1 .. Len(bufs) /\ bufs[k].base = b /\ bufs[k].owned = FALSE
        BY <3>3, <4>1 DEF Find
      <4>3. b \in maps
        BY <3>3, <4>2 DEF Bases
      <4>4. C!Deregister(b)
        BY <2>0, <3>2, <4>1, <4>3 DEF C!Deregister
      <4> QED BY <4>4 DEF C!Next
    <3> QED BY <3>1, <3>4, <3>5, <3>6, <3>7
  <2>5. CASE Connect
    <3>1. ready' = ready /\ UNCHANGED <<maps, allocs>>
      BY <1>0, <2>5 DEF Connect, buffers, DriverInv, Ladder, DriverTyped
    <3> QED BY <2>1, <3>1
  <2>6. CASE ReleaseBuffers
    <3>1. ready' = ready /\ ~ready
      BY <1>0, <2>6 DEF ReleaseBuffers, DriverInv, Ladder
    <3> QED BY <2>1, <3>1
  <2>7. CASE \/ Attach \/ OpenXdev \/ Disconnect \/ AllocWords \/ InitQueue
             \/ CreateThread \/ StopStarted \/ FreeStarted \/ Undo \/ Close
             \/ RegisterStream \/ \E w \in Workers : SlotBounce(w) \/ ThreadExits(w)
    <3>1. UNCHANGED <<ready, maps, allocs>>
      BY <2>7 DEF Attach, OpenXdev, Disconnect, AllocWords, InitQueue,
         CreateThread, StopStarted, FreeStarted, Undo, Close, RegisterStream,
         SlotBounce, ThreadExits, own, buffers
    <3> QED BY <2>1, <3>1
  <2> QED BY <1>2, <2>2, <2>3, <2>4, <2>5, <2>6, <2>7
      DEF DriverNext, OpenStep, CloseStep
<1> QED BY <1>1, <1>2

\* So is a step of the reference backend: a call takes effect when it stores.
LEMMA RefRefines ==
  ASSUME OneThread, RefInv, RefNext, backend = "ref", backend' = "ref"
  PROVE  C!Next \/ UNCHANGED C!vars
<1> USE DEF Now
<1>1. CASE RefDriverOpen
  <2>1. UNCHANGED <<slot, count, heap, useCount>> /\ ~refOpen /\ refOpen' = TRUE
    BY <1>1 DEF RefDriverOpen, appVars, callVars
  <2>2. Entered' = Entered
    BY <2>1 DEF Entered
  <2>3. C!Open
    BY <2>1, <2>2 DEF C!Open
  <2> QED BY <2>3 DEF C!Next
<1>2. CASE RefDriverClose
  <2>1. UNCHANGED <<heap, useCount>> /\ refOpen /\ refOpen' = FALSE /\ count' = 0
    BY <1>2 DEF RefDriverClose, callVars
  <2>2. Entered' = {}
    BY <2>1 DEF Entered
  <2>3. C!Close
    BY <2>1, <2>2 DEF C!Close
  <2> QED BY <2>3 DEF C!Next
<1>3. ASSUME NEW t \in Threads, RefCounted(t) PROVE C!Next
  <2>1. /\ UNCHANGED <<refOpen, slot, count, heap>>
        /\ useCount' \in {useCount - 1, useCount + 1} /\ useCount' >= 0
    BY <1>3 DEF RefCounted, StoreCount, refVars, RefInv, Counting
  <2>2. Entered' = Entered
    BY <2>1 DEF Entered
  <2>3. C!CountHandle
    BY <2>1, <2>2 DEF C!CountHandle
  <2> QED BY <2>3 DEF C!Next
<1>4. ASSUME NEW t \in Threads, RefEnter(t) PROVE C!Next
  <2> DEFINE b == call[t].b
  <2>1. /\ call[t] \in RefCalls /\ call[t].op = "enter"
        /\ refOpen /\ b \notin Entered /\ refOpen' = refOpen
        /\ UNCHANGED <<heap, useCount>> /\ mine' = mine \cup {b}
    BY <1>4 DEF RefEnter, RefInv
  <2>2. b \in Addrs
    BY <2>1 DEF RefCalls
  <2>3. Entered' = Entered \cup {b}
    <3>1. RefInv'
      BY <1>4, RefKeeps DEF RefNext
    <3> QED BY <2>1, <3>1 DEF RefInv
  <2> HIDE DEF b
  <2>4. C!Register(b)
    BY <2>1, <2>3 DEF C!Register
  <2> QED BY <2>2, <2>4 DEF C!Next
<1>5. ASSUME NEW t \in Threads, RefRemove(t) PROVE C!Next
  <2> DEFINE b == call[t].b
  <2>1. /\ call[t] \in RefCalls /\ call[t].op = "remove"
        /\ refOpen /\ call[t].i \in 0 .. count - 1 /\ slot[call[t].i] = b
        /\ refOpen' = refOpen /\ UNCHANGED <<heap, useCount>>
        /\ mine' = mine \ {b}
    BY <1>5 DEF RefRemove, RefInv
  <2>2. b \in Addrs /\ b \in Entered
    BY <2>1 DEF RefCalls, Entered
  <2>3. Entered' = Entered \ {b}
    <3>1. RefInv'
      BY <1>5, RefKeeps DEF RefNext
    <3> QED BY <2>1, <3>1 DEF RefInv
  <2> HIDE DEF b
  <2>4. C!Deregister(b)
    BY <2>1, <2>2, <2>3 DEF C!Deregister
  <2> QED BY <2>2, <2>4 DEF C!Next
<1>6. ASSUME NEW t \in Threads, NEW b \in Addrs, RefAlloc(t, b) PROVE C!Next
  <2>1. /\ UNCHANGED <<refOpen, slot, count, useCount>>
        /\ b \notin heap /\ heap' = heap \cup {b}
    BY <1>6 DEF RefAlloc, refVars, callVars
  <2>2. Entered' = Entered
    BY <2>1 DEF Entered
  <2>3. C!Alloc(b)
    BY <2>1, <2>2 DEF C!Alloc
  <2> QED BY <2>3 DEF C!Next
<1>7. ASSUME NEW t \in Threads, NEW b \in Addrs, RefFree(t, b) PROVE C!Next
  <2>1. /\ UNCHANGED <<refOpen, slot, count, useCount>>
        /\ b \in heap \ Entered /\ heap' = heap \ {b}
    BY <1>7 DEF RefFree, refVars, callVars
  <2>2. Entered' = Entered
    BY <2>1 DEF Entered
  <2>3. C!Free(b)
    BY <2>1, <2>2 DEF C!Free
  <2> QED BY <2>3 DEF C!Next
<1>8. ASSUME NEW t \in Threads,
             \/ RefHandleRegister(t) \/ RefHandleDeregister(t)
             \/ \E b \in Addrs : RefBufRegister(t, b) \/ RefBufDeregister(t, b)
      PROVE  UNCHANGED C!vars
  <2>1. UNCHANGED <<refOpen, slot, count, heap, useCount>>
    BY <1>8 DEF RefHandleRegister, RefHandleDeregister, RefBufRegister,
       RefBufDeregister, LoadCount, refVars
  <2>2. Entered' = Entered
    BY <2>1 DEF Entered
  <2> QED BY <2>1, <2>2 DEF C!vars
<1> QED BY <1>1, <1>2, <1>3, <1>4, <1>5, <1>6, <1>7, <1>8 DEF RefNext

\* And a step of the GDS backend.
LEMMA GdsRefines ==
  ASSUME GdsInv, GdsNext, backend = "gds", backend' = "gds"
  PROVE  C!Next \/ UNCHANGED C!vars
<1> USE DEF Now
<1>0. gdsOpen \in BOOLEAN /\ mine \subseteq cuBufs
  BY DEF GdsInv
<1>1. CASE GdsDriverOpen
  <2>1. UNCHANGED <<mine, heap, useCount>> /\ ~gdsOpen /\ gdsOpen' = TRUE
    BY <1>1 DEF GdsDriverOpen, appVars, callVars
  <2>2. C!Open
    BY <2>1 DEF C!Open
  <2> QED BY <2>2 DEF C!Next
<1>2. CASE GdsDriverClose
  <2>1. UNCHANGED <<heap, useCount>> /\ gdsOpen /\ gdsOpen' = FALSE /\ mine' = {}
    BY <1>2 DEF GdsDriverClose, callVars
  <2>2. C!Close
    BY <2>1 DEF C!Close
  <2> QED BY <2>2 DEF C!Next
<1>3. ASSUME NEW t \in Threads, GdsCounted(t) PROVE C!Next
  <2>1. /\ UNCHANGED <<gdsOpen, mine, heap>>
        /\ useCount' \in {useCount - 1, useCount + 1} /\ useCount' >= 0
    BY <1>3 DEF GdsCounted, StoreCount, gdsVars, GdsInv, Counting
  <2>2. C!CountHandle
    BY <2>1 DEF C!CountHandle
  <2> QED BY <2>2 DEF C!Next
<1>4. ASSUME NEW t \in Threads, GdsAllocRegister(t)
      PROVE  C!Next \/ UNCHANGED C!vars
  <2> DEFINE b == call[t].b
  <2>1. /\ call[t] \in GdsCalls /\ call[t].op = "malloc" /\ b \notin heap
        /\ UNCHANGED <<gdsOpen, mine, useCount>>
        /\ heap' = heap \cup {b} \/ heap' = heap
    BY <1>4 DEF GdsAllocRegister, GdsInv
  <2>2. b \in Addrs
    BY <2>1 DEF GdsCalls
  <2> HIDE DEF b
  <2>3. CASE heap' = heap \cup {b}
    <3>1. C!Alloc(b)
      BY <2>1, <2>3 DEF C!Alloc
    <3> QED BY <2>2, <3>1 DEF C!Next
  <2>4. CASE heap' = heap
    BY <2>1, <2>4 DEF C!vars
  <2> QED BY <2>1, <2>3, <2>4
<1>5. ASSUME NEW t \in Threads, NEW b \in Addrs, GdsFree(t, b) PROVE C!Next
  <2>1. C!Free(b)
    BY <1>5 DEF GdsFree, callVars, C!Free
  <2> QED BY <2>1 DEF C!Next
<1>6. ASSUME NEW t \in Threads, NEW b \in Addrs, GdsBufRegister(t, b)
      PROVE  C!Next
  <2>1. C!Register(b)
    BY <1>0, <1>6 DEF GdsBufRegister, callVars, C!Register
  <2> QED BY <2>1 DEF C!Next
<1>7. ASSUME NEW t \in Threads, NEW b \in Addrs, GdsBufDeregister(t, b)
      PROVE  C!Next \/ UNCHANGED C!vars
  <2>1. CASE b \in mine
    <3>1. C!Deregister(b)
      BY <1>7, <2>1 DEF GdsBufDeregister, callVars, C!Deregister
    <3> QED BY <3>1 DEF C!Next
  <2>2. CASE b \notin mine
    <3>1. mine' = mine /\ UNCHANGED <<gdsOpen, heap, useCount>>
      BY <1>7, <2>2 DEF GdsBufDeregister, callVars
    <3> QED BY <3>1 DEF C!vars
  <2> QED BY <2>1, <2>2
<1>8. ASSUME NEW t \in Threads,
             \/ GdsHandleRegister(t) \/ GdsHandleDeregister(t)
             \/ \E b \in Addrs : GdsMalloc(t, b)
      PROVE  UNCHANGED C!vars
  <2>1. UNCHANGED <<gdsOpen, mine, heap, useCount>>
    BY <1>8 DEF GdsHandleRegister, GdsHandleDeregister, GdsMalloc, LoadCount
  <2> QED BY <2>1 DEF C!vars
<1> QED BY <1>1, <1>2, <1>3, <1>4, <1>5, <1>6, <1>7, <1>8 DEF GdsNext

\* All three libraries implement what opends.h promises: an open, a close, a
\* registration or an allocation happens at one moment or not at all.
THEOREM BackendsContract == Spec /\ Sole => KeepsContract
<1>1. Init => C!Init
  <2> SUFFICES ASSUME Init PROVE C!Init
    OBVIOUS
  <2>1. Entered = {}
    BY DEF Init, RefInit, Entered
  <2> QED BY <2>1 DEF Init, DriverInit, RefInit, GdsInit, CallsInit, C!Init
<1>2. BackendsInv /\ [Next]_backVars => [C!Next]_(C!vars)
  <2> SUFFICES ASSUME BackendsInv, [Next]_backVars
               PROVE  C!Next \/ UNCHANGED C!vars
    OBVIOUS
  <2>0. backend' = backend
    BY DEF Next, backVars
  <2>1. CASE backend = "aisio" /\ Next
    BY <2>0, <2>1, AisioRefines DEF Next, BackendsInv
  <2>2. CASE backend = "ref" /\ Next
    BY <2>0, <2>2, RefRefines DEF Next, BackendsInv, Sole
  <2>3. CASE backend = "gds" /\ Next
    BY <2>0, <2>3, GdsRefines DEF Next, BackendsInv
  <2>4. CASE UNCHANGED backVars
    <3>1. UNCHANGED <<ready, maps, allocs, refOpen, slot, count, gdsOpen, mine,
                      heap, useCount>>
      BY <2>4 DEF backVars, driverVars, own, buffers, refVars, gdsVars, appVars,
         callVars
    <3>2. Entered' = Entered
      BY <3>1 DEF Entered
    <3> QED BY <2>0, <3>1, <3>2 DEF C!vars
  <2> QED BY <2>1, <2>2, <2>3, <2>4 DEF BackendsInv
<1> QED BY <1>1, <1>2, BackendsSafe, PTL DEF Spec, KeepsContract, C!Spec
=============================================================================
