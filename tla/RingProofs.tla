----------------------------- MODULE RingProofs -----------------------------
(***************************************************************************)
(* The rings and the command counters of the I/O engine, for every number  *)
(* of threads, workers and slots, every word size and every close time.    *)
(***************************************************************************)
EXTENDS IoEngineProofs

\* Division with remainder.
LEMMA Division ==
  ASSUME NEW d \in Nat, d > 0, NEW a \in Nat
  PROVE  /\ a \div d \in Int /\ a % d \in 0 .. d - 1
         /\ a = d * (a \div d) + (a % d)
<1>1. a \div d \in Int /\ a % d \in 0 .. d - 1
  OBVIOUS
<1>2. a = d * (a \div d) + (a % d)
  BY Z3
<1> QED BY <1>1, <1>2

\* Remainders of numbers less than a divisor apart are different.
LEMMA NearRemainders ==
  ASSUME NEW d \in Nat, d > 0, NEW a \in Nat, NEW b \in Nat, a < b, b - a < d
  PROVE  a % d # b % d
<1>1. PICK qa \in Int : a = d * qa + (a % d)
  BY Division
<1>2. PICK qb \in Int : b = d * qb + (b % d)
  BY Division
<1>3. a % d \in Int /\ b % d \in Int
  BY Division
<1> SUFFICES ASSUME a % d = b % d PROVE FALSE
  OBVIOUS
<1>4. b - a = d * qb - d * qa
  BY <1>1, <1>2, <1>3
<1>5. d * qb - d * qa = d * (qb - qa)
  OBVIOUS
<1>6. CASE qb - qa <= 0
  <2>1. d * (qb - qa) <= 0
    BY <1>6
  <2> QED BY <1>4, <1>5, <2>1
<1>7. CASE qb - qa >= 1
  <2>1. d * (qb - qa) >= d
    BY <1>7
  <2> QED BY <1>4, <1>5, <2>1
<1> QED BY <1>6, <1>7

\* Taking away a multiple of the divisor does not change a remainder.
LEMMA WrapRemainder ==
  ASSUME NEW d \in Nat, d > 0, NEW m \in Nat, m % d = 0, NEW a \in Nat, a >= m
  PROVE  (a - m) % d = a % d
<1>1. PICK qm \in Int : m = d * qm
  <2>1. m = d * (m \div d) + (m % d) /\ m \div d \in Int
    BY Division
  <2>2. d * (m \div d) \in Int
    BY <2>1
  <2> QED BY <2>1, <2>2
<1> DEFINE c == a - m
<1>2. c \in Nat
  OBVIOUS
<1>3. PICK qc \in Int : c = d * qc + (c % d)
  BY <1>2, Division
<1>4. c % d \in 0 .. d - 1
  BY <1>2, Division
<1>5. a = c + m
  OBVIOUS
<1> HIDE DEF c
<1>6. a = (d * qm + d * qc) + (c % d)
  BY <1>1, <1>2, <1>3, <1>4, <1>5
<1>7. d * qm + d * qc = d * (qm + qc)
  OBVIOUS
<1>8. ASSUME NEW q \in Int, NEW r \in 0 .. d - 1 PROVE (d * q + r) % d = r
  OBVIOUS
<1>9. (d * (qm + qc) + (c % d)) % d = c % d
  BY <1>4, <1>8
<1> QED BY <1>6, <1>7, <1>9 DEF c

\* Word arithmetic, as distances.
LEMMA WordSteps ==
  ASSUME NEW a \in Word, NEW b \in Word
  PROVE  /\ WSub(a, b) \in 0 .. Modulus - 1
         /\ WSub(a, b) = 0 <=> a = b
         /\ WAdd(b, WSub(a, b)) = a
         /\ WSub(a, b) < Modulus - 1 => WSub(WAdd(a, 1), b) = WSub(a, b) + 1
         /\ a # b => WSub(a, WAdd(b, 1)) = WSub(a, b) - 1
         /\ \A k \in 0 .. Modulus - 2 : WAdd(WAdd(b, 1), k) = WAdd(b, k + 1)
         /\ WAdd(b, 0) = b
  BY HalfAssumption DEF Word, WAdd, WSub, Modulus

\* Counters less than a ring apart name different slots, across the wrap.
LEMMA SlotsApart ==
  ASSUME NEW c \in Word, NEW j \in Nat, NEW k \in Nat, j < k, k < QSize
  PROVE  WAdd(c, j) % QSize # WAdd(c, k) % QSize
<1>1. QSize \in Nat /\ QSize > 0 /\ QSize < Modulus /\ Modulus \in Nat
      /\ Modulus % QSize = 0
  BY HalfAssumption, EngineAssumption DEF Modulus
<1>2. ASSUME NEW i \in Nat, i < Modulus PROVE WAdd(c, i) % QSize = (c + i) % QSize
  <2>1. CASE c + i < Modulus
    BY <1>1, <2>1 DEF WAdd, Word
  <2>2. CASE c + i >= Modulus
    <3>1. WAdd(c, i) = (c + i) - Modulus
      BY <1>1, <2>2 DEF WAdd, Word
    <3>2. c + i \in Nat
      BY <1>1 DEF Word
    <3>3. ((c + i) - Modulus) % QSize = (c + i) % QSize
      BY <1>1, <2>2, <3>2, WrapRemainder
    <3> QED BY <3>1, <3>3
  <2> QED BY <1>1, <2>1, <2>2 DEF Word
<1>3. c + j \in Nat /\ c + k \in Nat /\ c + j < c + k /\ (c + k) - (c + j) < QSize
  BY <1>1 DEF Word
<1>4. (c + j) % QSize # (c + k) % QSize
  BY <1>1, <1>3, NearRemainders
<1>5. j < Modulus /\ k < Modulus
  BY <1>1
<1> QED BY <1>2, <1>4, <1>5
-----------------------------------------------------------------------------
(***************************************************************************)
(* The inductive invariant.                                                *)
(***************************************************************************)

\* A thread between claim and publish holds submit_lock, and its slot is
\* the one at the head of a ring that has room.
Claimed ==
  \A t \in Threads : pc[t] \in {"gate", "wait", "publish"} =>
    /\ lock = t
    /\ curSlot[t] = SlotAt(curSlot[t][1], head[curSlot[t][1]])
    /\ HasRoom(curSlot[t][1])

\* A worker's snapshot of queue_head lies between tail and head, and its
\* scan between tail and the snapshot.
SnapInRing ==
  \A w \in Workers : WSub(wsnap[w], tail[w]) <= WSub(head[w], tail[w])
ScanInRing ==
  \A w \in Workers : wpc[w] \in {"scan", "start", "pwrite"}
                       => WSub(wi[w], tail[w]) <= WSub(wsnap[w], tail[w])

\* The slot a worker is working on, by what it is doing.
Working ==
  \A w \in Workers :
    /\ wpc[w] = "start" => state[Here(w)] = "IN_FLIGHT"
    /\ wpc[w] = "pwrite" => state[Here(w)] = "PENDING"
    /\ wpc[w] \in {"start", "pwrite"} => wi[w] # wsnap[w]

\* What is in flight was in the snapshot; a worker that left has nothing.
Scanned ==
  \A x \in Slots : state[x] = "IN_FLIGHT" =>
    /\ \E k \in 0 .. WSub(wsnap[x[1]], tail[x[1]]) - 1 :
         x = SlotAt(x[1], WAdd(tail[x[1]], k))
    /\ wpc[x[1]] # "exit"

RingInv == Claimed /\ SnapInRing /\ ScanInRing /\ Working /\ RingWindow
             /\ Scanned /\ CommandsAccounted

\* The slot at the head of a ring with room is free.
LEMMA HeadFree ==
  ASSUME TypeInv, RingWindow, NEW w \in Workers, HasRoom(w)
  PROVE  state[SlotAt(w, head[w])] = "FREE"
<1> DEFINE d == WSub(head[w], tail[w])
<1>1. head[w] \in Word /\ tail[w] \in Word
  BY DEF TypeInv, TypeOK, RingType
<1>2. d \in Nat /\ d < QSize /\ WAdd(tail[w], d) = head[w]
  BY <1>1, WordSteps DEF HasRoom
<1>3. SlotAt(w, head[w]) \in Slots
  BY <1>1, SlotAtType
<1>4. head[w] % QSize \in 0 .. QSize - 1
  BY <1>3 DEF SlotAt, Slots
<1> SUFFICES ASSUME state[SlotAt(w, head[w])] # "FREE" PROVE FALSE
  OBVIOUS
<1>5. PICK k \in 0 .. d - 1 :
        <<w, head[w] % QSize>> = SlotAt(w, WAdd(tail[w], k))
  BY <1>4 DEF RingWindow, SlotAt
<1>6. WAdd(tail[w], k) % QSize = WAdd(tail[w], d) % QSize
  BY <1>2, <1>5 DEF SlotAt
<1> QED BY <1>1, <1>2, <1>6, SlotsApart

\* Initially every ring is empty and nothing is in flight.
LEMMA RingInit == Init => RingInv
<1> SUFFICES ASSUME Init PROVE RingInv
  OBVIOUS
<1> USE HalfAssumption, EngineAssumption, WordSteps DEF Init
<1>1. RingWindow
  <2>1. \A w \in Workers : WSub(head[w], tail[w]) = 0
    OBVIOUS
  <2> QED BY <2>1 DEF RingWindow, Slots
<1>2. CommandsAccounted
  BY DEF CommandsAccounted, NoCommands
<1> QED BY <1>1, <1>2
        DEF RingInv, Claimed, SnapInRing, ScanInRing, Working, Scanned

\* What the worker's parts of the invariant are about.
seen == <<head, tail, state, wpc, wi, wsnap, chunks, bounces, devC, devB, cqC,
          cqB>>

\* Steps of a submitter before it publishes touch only its own progress.
LEMMA QuietSubmit ==
  ASSUME RingInv, TypeInv, NEW t \in Threads,
         \/ StartCall(t) \/ ClaimFull(t) \/ AwaitReturns(t) \/ ClaimStream(t)
         \/ EnqueueGate(t) \/ EnqueueWait(t) \/ GateFails(t)
         \/ EnqueueCopy(t) \/ CopyFails(t)
  PROVE  RingInv'
<1> USE DEF StartCall, ClaimFull, AwaitReturns, ClaimStream, EnqueueGate,
        EnqueueWait, GateFails, EnqueueCopy, CopyFails, ringVars, slotVars,
        callVars, workerVars, devVars
<1>1. UNCHANGED seen
  BY DEF seen
<1>2. (SnapInRing /\ ScanInRing /\ Working /\ RingWindow /\ Scanned
         /\ CommandsAccounted)'
  BY <1>1 DEF seen, RingInv, SnapInRing, ScanInRing, Working, RingWindow,
              Scanned, CommandsAccounted, NoCommands, Here
<1>3. /\ lock \in Threads \cup {NoThread} /\ NoThread \notin Threads
      /\ pc \in [Threads -> {"idle", "claim", "gate", "wait", "publish",
                             "copy", "await"}]
      /\ curSlot \in [Threads -> Slots] /\ rr \in Workers
  BY EngineAssumption DEF TypeInv, TypeOK, RingType, CallerType
<1>4. Claimed'
  <2>1. CASE ClaimStream(t)
    <3> DEFINE x == SlotAt(rr, head[rr])
    <3>1. /\ lock = NoThread /\ lock' = t /\ HasRoom(rr)
          /\ pc' = [pc EXCEPT ![t] = "gate"]
          /\ curSlot' = [curSlot EXCEPT ![t] = x]
          /\ UNCHANGED <<head, tail>>
      BY <2>1
    <3>2. curSlot'[t] = x /\ curSlot'[t][1] = rr
      BY <1>3, <3>1 DEF SlotAt
    <3>3. \A r \in Threads : r # t =>
            pc'[r] = pc[r] /\ pc[r] \notin {"gate", "wait", "publish"}
      BY <1>3, <3>1 DEF RingInv, Claimed
    <3>4. HasRoom(rr)'  = (WSub(head'[rr'], tail'[rr']) < QSize)
      BY DEF HasRoom
    <3> QED BY <3>1, <3>2, <3>3 DEF Claimed, HasRoom, SlotAt
  <2>2. CASE ~ClaimStream(t)
    <3>1. UNCHANGED <<head, tail, curSlot>>
      BY <2>2
    <3>2. /\ pc'[t] \in {"gate", "wait", "publish"}
               => pc[t] \in {"gate", "wait", "publish"} /\ lock' = lock
          /\ \A r \in Threads : r # t => pc'[r] = pc[r]
          /\ lock' # lock => lock = t
      <4>1. CASE StartCall(t) \/ ClaimFull(t) \/ AwaitReturns(t)
        BY <4>1, <1>3
      <4>2. CASE EnqueueGate(t) \/ EnqueueWait(t)
        BY <4>2, <1>3
      <4>3. CASE GateFails(t)
        BY <4>3, <1>3 DEF RingInv, Claimed
      <4>4. CASE EnqueueCopy(t) \/ CopyFails(t)
        BY <4>4, <1>3
      <4> QED BY <2>2, <4>1, <4>2, <4>3, <4>4
    <3>3. SUFFICES ASSUME NEW r \in Threads,
                          pc'[r] \in {"gate", "wait", "publish"}
          PROVE /\ lock' = r
                /\ curSlot[r] = SlotAt(curSlot[r][1], head[curSlot[r][1]])
                /\ WSub(head[curSlot[r][1]], tail[curSlot[r][1]]) < QSize
      BY <3>1 DEF Claimed, HasRoom, SlotAt
    <3>4. pc[r] \in {"gate", "wait", "publish"} /\ lock = r
      BY <3>2, <3>3 DEF RingInv, Claimed
    <3>5. lock' = r
      BY <3>2, <3>3, <3>4
    <3> QED BY <3>4, <3>5 DEF RingInv, Claimed, HasRoom
  <2> QED BY <2>1, <2>2
<1> QED BY <1>2, <1>4 DEF RingInv

\* A slot is filled at the head of a ring that has room.
LEMMA Filling ==
  ASSUME RingInv, TypeInv, NEW w \in Workers, HasRoom(w),
         state' = [state EXCEPT ![SlotAt(w, head[w])] = "PENDING"],
         head' = [head EXCEPT ![w] = WAdd(head[w], 1)],
         UNCHANGED <<tail, wpc, wi, wsnap, chunks, bounces, devC, devB, cqC,
                     cqB>>
  PROVE  (SnapInRing /\ ScanInRing /\ Working /\ RingWindow /\ Scanned
            /\ CommandsAccounted)'
<1> DEFINE x == SlotAt(w, head[w])
           d == WSub(head[w], tail[w])
<1>1. /\ head \in [Workers -> Word] /\ tail \in [Workers -> Word]
      /\ wi \in [Workers -> Word] /\ wsnap \in [Workers -> Word]
      /\ state \in [Slots -> {"FREE", "PENDING", "IN_FLIGHT"}]
  BY DEF TypeInv, TypeOK, RingType, SlotType, WorkerType
<1>2. x \in Slots /\ state[x] = "FREE"
  BY <1>1, SlotAtType, HeadFree DEF RingInv
<1>3. d \in Nat /\ d < QSize /\ WAdd(tail[w], d) = head[w]
      /\ WSub(head'[w], tail[w]) = d + 1
  BY <1>1, WordSteps, HalfAssumption, EngineAssumption DEF HasRoom, Modulus
<1>4. \A v \in Workers : v # w => head'[v] = head[v]
  BY <1>1
<1>5. state'[x] = "PENDING" /\ \A y \in Slots : y # x => state'[y] = state[y]
  BY <1>1, <1>2
<1>6. SnapInRing'
  <2> SUFFICES ASSUME NEW v \in Workers
               PROVE  WSub(wsnap[v], tail[v]) <= WSub(head'[v], tail[v])
    BY DEF SnapInRing
  <2>1. WSub(wsnap[v], tail[v]) <= WSub(head[v], tail[v])
    BY DEF RingInv, SnapInRing
  <2>2. WSub(wsnap[v], tail[v]) \in Int
    BY <1>1, WordSteps
  <2> QED BY <1>3, <1>4, <2>1, <2>2
<1>7. ScanInRing'
  BY DEF RingInv, ScanInRing
<1>8. Working'
  <2>1. \A v \in Workers : Here(v) \in Slots /\ Here(v)' = Here(v)
    BY <1>1, SlotAtType DEF Here
  <2> QED BY <1>2, <1>5, <2>1 DEF RingInv, Working
<1>9. RingWindow'
  <2> SUFFICES ASSUME NEW v \in Workers
               PROVE /\ WSub(head'[v], tail[v]) <= QSize
                     /\ \A i \in 0 .. QSize - 1 : state'[<<v, i>>] # "FREE" =>
                          \E k \in 0 .. WSub(head'[v], tail[v]) - 1 :
                            <<v, i>> = SlotAt(v, WAdd(tail[v], k))
    BY DEF RingWindow, SlotAt
  <2>1. CASE v # w
    <3>1. \A i \in 0 .. QSize - 1 : <<v, i>> \in Slots /\ <<v, i>> # x
      BY <2>1 DEF Slots, SlotAt
    <3> QED BY <1>4, <1>5, <2>1, <3>1 DEF RingInv, RingWindow
  <2>2. CASE v = w
    <3>1. d + 1 <= QSize
      BY <1>3, EngineAssumption
    <3>2. ASSUME NEW i \in 0 .. QSize - 1, state'[<<w, i>>] # "FREE"
          PROVE  \E k \in 0 .. d : <<w, i>> = SlotAt(w, WAdd(tail[w], k))
      <4>1. CASE <<w, i>> = x
        <5>1. d \in 0 .. d
          BY <1>3
        <5> QED BY <1>3, <4>1, <5>1
      <4>2. CASE <<w, i>> # x
        <5>1. <<w, i>> \in Slots
          BY DEF Slots
        <5>2. state[<<w, i>>] # "FREE"
          BY <1>5, <3>2, <4>2, <5>1
        <5>3. PICK k \in 0 .. d - 1 : <<w, i>> = SlotAt(w, WAdd(tail[w], k))
          BY <5>2 DEF RingInv, RingWindow
        <5>4. k \in 0 .. d
          BY <1>3
        <5> QED BY <5>3, <5>4
      <4> QED BY <4>1, <4>2
    <3>3. 0 .. WSub(head'[w], tail[w]) - 1 = 0 .. d
      BY <1>3
    <3> QED BY <1>3, <2>2, <3>1, <3>2, <3>3
  <2> QED BY <2>1, <2>2
<1>10. Scanned'
  <2>1. \A y \in Slots : state'[y] = "IN_FLIGHT" => state[y] = "IN_FLIGHT"
    BY <1>5
  <2> QED BY <2>1 DEF RingInv, Scanned
<1>11. CommandsAccounted'
  BY <1>2, <1>5 DEF RingInv, CommandsAccounted, NoCommands
<1> QED BY <1>6, <1>7, <1>8, <1>9, <1>10, <1>11

\* submit_async_op, and the publication of a stream operation.
LEMMA PublishRings ==
  ASSUME RingInv, TypeInv, NEW t \in Threads, ClaimAsync(t) \/ Publish(t)
  PROVE  RingInv'
<1>0. /\ lock \in Threads \cup {NoThread} /\ NoThread \notin Threads
      /\ pc \in [Threads -> {"idle", "claim", "gate", "wait", "publish",
                             "copy", "await"}]
      /\ curSlot \in [Threads -> Slots] /\ rr \in Workers
      /\ head \in [Workers -> Word]
  BY EngineAssumption DEF TypeInv, TypeOK, RingType, CallerType
<1>1. CASE ClaimAsync(t)
  <2>1. (SnapInRing /\ ScanInRing /\ Working /\ RingWindow /\ Scanned
           /\ CommandsAccounted)'
    <3>1. HasRoom(rr) /\ rr \in Workers
      BY <1>0, <1>1 DEF ClaimAsync
    <3>2. /\ state' = [state EXCEPT ![SlotAt(rr, head[rr])] = "PENDING"]
          /\ head' = [head EXCEPT ![rr] = WAdd(head[rr], 1)]
          /\ UNCHANGED <<tail, wpc, wi, wsnap, chunks, bounces, devC, devB,
                         cqC, cqB>>
      BY <1>0, <1>1 DEF ClaimAsync, workerVars, devVars
    <3> QED BY <3>1, <3>2, Filling
  <2>2. \A r \in Threads : pc'[r] \notin {"gate", "wait", "publish"}
    <3>1. lock = NoThread /\ pc' = [pc EXCEPT ![t] =
             IF call[curOp[t]].mode = "sync" THEN "await" ELSE "idle"]
      BY <1>1 DEF ClaimAsync
    <3>2. \A r \in Threads : pc[r] \notin {"gate", "wait", "publish"}
      BY <1>0, <3>1 DEF RingInv, Claimed
    <3> QED BY <1>0, <3>1, <3>2
  <2> QED BY <2>1, <2>2 DEF RingInv, Claimed
<1>2. CASE Publish(t)
  <2> DEFINE x == curSlot[t]
             w == x[1]
  <2>1. lock = t /\ x = SlotAt(w, head[w]) /\ HasRoom(w)
    BY <1>2 DEF RingInv, Claimed, Publish
  <2>2. w \in Workers
    BY <1>0 DEF Slots
  <2>3. (SnapInRing /\ ScanInRing /\ Working /\ RingWindow /\ Scanned
           /\ CommandsAccounted)'
    <3>1. /\ state' = [state EXCEPT ![SlotAt(w, head[w])] = "PENDING"]
          /\ head' = [head EXCEPT ![w] = WAdd(head[w], 1)]
          /\ UNCHANGED <<tail, wpc, wi, wsnap, chunks, bounces, devC, devB,
                         cqC, cqB>>
      BY <1>0, <1>2, <2>1, <2>2 DEF Publish, workerVars, devVars
    <3> HIDE DEF w, x
    <3> QED BY <2>1, <2>2, <3>1, Filling
  <2>4. \A r \in Threads : pc'[r] \notin {"gate", "wait", "publish"}
    <3>1. \A r \in Threads : r # t => pc[r] \notin {"gate", "wait", "publish"}
      BY <1>0, <2>1 DEF RingInv, Claimed
    <3>2. pc'[t] \in {"copy", "idle"} /\ \A r \in Threads : r # t => pc'[r] = pc[r]
      BY <1>0, <1>2 DEF Publish
    <3> QED BY <3>1, <3>2
  <2> QED BY <2>3, <2>4 DEF RingInv, Claimed
<1> QED BY <1>1, <1>2

\* The types the steps below rest on.
LEMMA RingTypes ==
  ASSUME TypeInv
  PROVE  /\ head \in [Workers -> Word] /\ tail \in [Workers -> Word]
         /\ wi \in [Workers -> Word] /\ wsnap \in [Workers -> Word]
         /\ wpc \in [Workers -> {"begin", "scan", "start", "pwrite", "poke",
                                 "exit"}]
         /\ state \in [Slots -> {"FREE", "PENDING", "IN_FLIGHT"}]
         /\ chunks \in [Slots -> Int] /\ bounces \in [Slots -> Int]
         /\ devC \in [Slots -> Nat] /\ devB \in [Slots -> Nat]
         /\ cqC \in [Slots -> Nat] /\ cqB \in [Slots -> Nat]
         /\ \A w \in Workers : Here(w) \in Slots /\ Here(w)[1] = w
         /\ \A x \in Slots : x[1] \in Workers
<1>1. \A w \in Workers : Here(w) \in Slots /\ Here(w)[1] = w
  BY HereType DEF TypeInv, TypeOK, Here, SlotAt
<1> QED BY <1>1 DEF TypeInv, TypeOK, RingType, WorkerType, SlotType, DeviceType,
                    Slots

\* Equally distant from one counter means equal.
LEMMA SameDistance ==
  ASSUME NEW a \in Word, NEW b \in Word, NEW c \in Word
  PROVE  WSub(a, c) = WSub(b, c) <=> a = b
  BY WordSteps

\* Nothing but the submitters and Drain touches what a claim depends on.
LEMMA ClaimKept ==
  ASSUME Claimed, UNCHANGED <<pc, lock, curSlot, head, tail>>
  PROVE  Claimed'
  BY DEF Claimed, HasRoom, SlotAt

\* The scan moves past a slot, which it leaves alone or frees.
LEMMA Moving ==
  ASSUME RingInv, TypeInv, NEW w \in Workers,
         wpc[w] \in {"scan", "start", "pwrite"}, wi[w] # wsnap[w],
         \/ state' = state
         \/ state' = [state EXCEPT ![Here(w)] = "FREE"] /\ NoCommands(Here(w)),
         wi' = [wi EXCEPT ![w] = WAdd(wi[w], 1)],
         wpc' = [wpc EXCEPT ![w] = "scan"],
         UNCHANGED <<pc, lock, curSlot, head, tail, wsnap, chunks, bounces,
                     devC, devB, cqC, cqB>>
  PROVE  RingInv'
<1> USE RingTypes
<1>1. Claimed'
  BY ClaimKept DEF RingInv
<1>2. SnapInRing'
  BY DEF RingInv, SnapInRing
<1>3. ScanInRing'
  <2>1. ASSUME NEW v \in Workers, v # w,
               wpc'[v] \in {"scan", "start", "pwrite"}
        PROVE  WSub(wi'[v], tail[v]) <= WSub(wsnap[v], tail[v])
    <3>1. wi'[v] = wi[v] /\ wpc'[v] = wpc[v]
      BY <2>1
    <3> QED BY <2>1, <3>1 DEF RingInv, ScanInRing
  <2>2. WSub(wi'[w], tail[w]) <= WSub(wsnap[w], tail[w])
    <3> DEFINE a == WSub(wi[w], tail[w])
               b == WSub(wsnap[w], tail[w])
    <3>1. a <= b
      BY DEF RingInv, ScanInRing
    <3>2. a # b
      BY SameDistance
    <3>3. a \in 0 .. Modulus - 1 /\ b \in 0 .. Modulus - 1 /\ Modulus \in Nat
      BY WordSteps, HalfAssumption DEF Modulus
    <3>4. a < Modulus - 1 => WSub(WAdd(wi[w], 1), tail[w]) = a + 1
      BY WordSteps
    <3>5. wi'[w] = WAdd(wi[w], 1)
      OBVIOUS
    <3> HIDE DEF a, b
    <3>6. WSub(WAdd(wi[w], 1), tail[w]) <= b
      BY <3>1, <3>2, <3>3, <3>4
    <3> QED BY <3>5, <3>6 DEF b
  <2> QED BY <2>1, <2>2 DEF ScanInRing
<1>4. \A x \in Slots : x[1] # w \/ x # Here(w) => state'[x] = state[x]
  OBVIOUS
<1>5. \A x \in Slots : state'[x] = state[x] \/ (x = Here(w) /\ state'[x] = "FREE"
                                                 /\ NoCommands(x))
  OBVIOUS
<1>6. wpc'[w] = "scan" /\ \A v \in Workers : v # w =>
          wpc'[v] = wpc[v] /\ wi'[v] = wi[v]
  OBVIOUS
<1>7. Working'
  <2>1. \A v \in Workers : v # w => Here(v)' = Here(v) /\ state'[Here(v)] = state[Here(v)]
    BY <1>4, <1>6 DEF Here
  <2> QED BY <1>6, <2>1 DEF RingInv, Working
<1>8. RingWindow'
  <2>1. \A v \in Workers, i \in 0 .. QSize - 1 :
          state'[<<v, i>>] # "FREE" => state[<<v, i>>] # "FREE"
    <3>1. \A v \in Workers, i \in 0 .. QSize - 1 : <<v, i>> \in Slots
      BY DEF Slots
    <3> QED BY <1>5, <3>1
  <2> QED BY <2>1 DEF RingInv, RingWindow, SlotAt
<1>9. Scanned'
  <2>1. \A x \in Slots : state'[x] = "IN_FLIGHT" => state[x] = "IN_FLIGHT"
    BY <1>5
  <2>2. \A x \in Slots : wpc'[x[1]] = "exit" => wpc[x[1]] = "exit"
    BY <1>6
  <2> QED BY <2>1, <2>2 DEF RingInv, Scanned, SlotAt
<1>10. CommandsAccounted'
  <2> SUFFICES ASSUME NEW x \in Slots
               PROVE  IF state'[x] = "IN_FLIGHT"
                      THEN /\ chunks[x] = devC[x] + cqC[x]
                           /\ bounces[x] = devB[x] + cqB[x]
                      ELSE NoCommands(x)
    BY DEF CommandsAccounted, NoCommands
  <2> QED BY <1>5 DEF RingInv, CommandsAccounted
<1> QED BY <1>1, <1>2, <1>3, <1>7, <1>8, <1>9, <1>10 DEF RingInv

\* Steps that only count commands, or go on after a poke.
LEMMA Counting ==
  ASSUME RingInv, TypeInv, CommandsAccounted',
         \/ wpc' = wpc
         \/ \E w \in Workers : wpc[w] = "poke" /\ wpc' = [wpc EXCEPT ![w] = "begin"],
         UNCHANGED <<pc, lock, curSlot, head, tail, state, wi, wsnap>>
  PROVE  RingInv'
<1> USE RingTypes
<1>1. Claimed'
  BY ClaimKept DEF RingInv
<1>2. SnapInRing' /\ RingWindow'
  BY DEF RingInv, SnapInRing, RingWindow, SlotAt
<1>3. \A w \in Workers : /\ wpc'[w] \in {"scan", "start", "pwrite"} => wpc'[w] = wpc[w]
                         /\ wpc'[w] = "exit" => wpc[w] = "exit"
  OBVIOUS
<1>4. ScanInRing'
  BY <1>3 DEF RingInv, ScanInRing
<1>5. Working'
  BY <1>3 DEF RingInv, Working, Here
<1>6. Scanned'
  BY <1>3 DEF RingInv, Scanned, SlotAt
<1> QED BY <1>1, <1>2, <1>4, <1>5, <1>6 DEF RingInv

\* The steps of the scan that go on to the next slot.
LEMMA ScanMoves ==
  ASSUME RingInv, TypeInv, NEW w \in Workers,
         \/ PassSlot(w) \/ LeaveGated(w) \/ StartFails(w) \/ StartDone(w)
         \/ FinishWrite(w) \/ CompleteStreamRead(w) \/ CompleteAsyncRead(w)
  PROVE  RingInv'
<1> USE DEF ringVars, slotVars, callVars, workerVars, devVars
<1>1. /\ wpc[w] \in {"scan", "start", "pwrite"} /\ wi[w] # wsnap[w]
      /\ wi' = [wi EXCEPT ![w] = WAdd(wi[w], 1)]
      /\ wpc' = [wpc EXCEPT ![w] = "scan"]
      /\ UNCHANGED <<pc, lock, curSlot, head, tail, wsnap, chunks, bounces,
                     devC, devB, cqC, cqB>>
  <2> USE RingTypes DEF Scanning, Advance, RingInv, Working
  <2>1. CASE PassSlot(w) \/ LeaveGated(w)
    BY <2>1 DEF PassSlot, LeaveGated
  <2>2. CASE StartFails(w) \/ StartDone(w)
    BY <2>2 DEF StartFails, StartDone
  <2>3. CASE FinishWrite(w)
    BY <2>3 DEF FinishWrite
  <2>4. CASE CompleteStreamRead(w) \/ CompleteAsyncRead(w)
    <3>1. /\ wpc[w] = "scan" /\ wi[w] # wsnap[w] /\ wpc' = wpc
          /\ wi' = [wi EXCEPT ![w] = WAdd(wi[w], 1)]
          /\ UNCHANGED <<pc, lock, curSlot, head, tail, wsnap, chunks, bounces,
                         devC, devB, cqC, cqB>>
      <4>1. CASE CompleteStreamRead(w)
        BY <4>1 DEF CompleteStreamRead
      <4>2. CASE CompleteAsyncRead(w)
        BY <4>2 DEF CompleteAsyncRead
      <4> QED BY <2>4, <4>1, <4>2
    <3> QED BY <3>1
  <2> QED BY <2>1, <2>2, <2>3, <2>4
<1>2. \/ state' = state
      \/ state' = [state EXCEPT ![Here(w)] = "FREE"] /\ NoCommands(Here(w))
  <2>1. CASE PassSlot(w) \/ LeaveGated(w) \/ StartFails(w) \/ StartDone(w)
    BY <2>1 DEF PassSlot, LeaveGated, StartFails, StartDone
  <2>2. CASE FinishWrite(w)
    <3>1. state' = [state EXCEPT ![Here(w)] = "FREE"] /\ wpc[w] = "pwrite"
      BY <2>2 DEF FinishWrite, FreeSlot
    <3>2. NoCommands(Here(w))
      BY <3>1, RingTypes DEF RingInv, Working, CommandsAccounted
    <3> QED BY <3>1, <3>2
  <2>3. CASE CompleteStreamRead(w) \/ CompleteAsyncRead(w)
    <3>1. /\ state' = [state EXCEPT ![Here(w)] = "FREE"]
          /\ state[Here(w)] = "IN_FLIGHT" /\ AllReaped(Here(w))
      BY <2>3 DEF CompleteStreamRead, CompleteAsyncRead, FreeSlot, Scanning
    <3>2. NoCommands(Here(w))
      BY <3>1, RingTypes DEF RingInv, CommandsAccounted, AllReaped, NoCommands
    <3> QED BY <3>1, <3>2
  <2> QED BY <2>1, <2>2, <2>3
<1> QED BY <1>1, <1>2, Moving

\* Issuing, completing and polling a command keep its slot's count.
LEMMA DeviceCounts ==
  ASSUME RingInv, TypeInv,
         \/ \E w \in Workers : \/ IssueChunk(w) \/ IssueBounce(w)
                               \/ PokeWhileStarting(w) \/ Poke(w)
         \/ \E x \in Slots : CompleteChunk(x) \/ CompleteBounce(x)
  PROVE  RingInv'
<1> USE RingTypes
    DEF ringVars, slotVars, callVars, workerVars, devVars, CommandsAccounted,
        NoCommands
<1>1. ASSUME NEW w \in Workers, IssueChunk(w) PROVE RingInv'
  <2>1. state[Here(w)] = "IN_FLIGHT"
    BY <1>1 DEF IssueChunk, RingInv, Working
  <2>2. CommandsAccounted'
    BY <1>1, <2>1 DEF IssueChunk, RingInv
  <2>3. UNCHANGED <<pc, lock, curSlot, head, tail, state, wi, wsnap, wpc>>
    BY <1>1 DEF IssueChunk
  <2> QED BY <2>2, <2>3, Counting
<1>2. ASSUME NEW w \in Workers, IssueBounce(w) PROVE RingInv'
  <2>1. state[Here(w)] = "IN_FLIGHT"
    BY <1>2 DEF IssueBounce, RingInv, Working
  <2>2. CommandsAccounted'
    <3>1. /\ bounces' = [bounces EXCEPT ![Here(w)] = @ + 1]
          /\ devB' = [devB EXCEPT ![Here(w)] = @ + 1]
          /\ UNCHANGED <<state, chunks, devC, cqC, cqB>>
      BY <1>2 DEF IssueBounce
    <3> QED BY <2>1, <3>1 DEF RingInv
  <2>3. UNCHANGED <<pc, lock, curSlot, head, tail, state, wi, wsnap, wpc>>
    BY <1>2 DEF IssueBounce
  <2> QED BY <2>2, <2>3, Counting
<1>3. ASSUME NEW w \in Workers, Poll(w), UNCHANGED <<state, devC, devB>>
      PROVE  CommandsAccounted'
  <2>1. SUFFICES ASSUME NEW x \in Slots
        PROVE IF state[x] = "IN_FLIGHT"
              THEN /\ chunks'[x] = devC[x] + cqC'[x]
                   /\ bounces'[x] = devB[x] + cqB'[x]
              ELSE devC[x] = 0 /\ devB[x] = 0 /\ cqC'[x] = 0 /\ cqB'[x] = 0
    BY <1>3
  <2>2. CASE x[1] = w
    BY <1>3, <2>2 DEF Poll, RingInv
  <2>3. CASE x[1] # w
    BY <1>3, <2>3 DEF Poll, RingInv
  <2> QED BY <2>2, <2>3
<1>4. ASSUME NEW w \in Workers, PokeWhileStarting(w) PROVE RingInv'
  <2>1. CommandsAccounted'
    BY <1>3, <1>4 DEF PokeWhileStarting
  <2>2. UNCHANGED <<pc, lock, curSlot, head, tail, state, wi, wsnap, wpc>>
    BY <1>4 DEF PokeWhileStarting
  <2> QED BY <2>1, <2>2, Counting
<1>5. ASSUME NEW w \in Workers, Poke(w) PROVE RingInv'
  <2>1. CommandsAccounted'
    BY <1>3, <1>5 DEF Poke
  <2>2. /\ wpc[w] = "poke" /\ wpc' = [wpc EXCEPT ![w] = "begin"]
        /\ UNCHANGED <<pc, lock, curSlot, head, tail, state, wi, wsnap>>
    BY <1>5 DEF Poke
  <2> QED BY <2>1, <2>2, Counting
<1>6. ASSUME NEW x \in Slots, CompleteChunk(x) PROVE RingInv'
  <2>1. CommandsAccounted'
    <3>1. /\ devC[x] > 0
          /\ devC' = [devC EXCEPT ![x] = @ - 1]
          /\ cqC' = [cqC EXCEPT ![x] = @ + 1]
          /\ UNCHANGED <<state, chunks, bounces, devB, cqB>>
      BY <1>6 DEF CompleteChunk
    <3>2. state[x] = "IN_FLIGHT"
      BY <3>1 DEF RingInv
    <3>3. SUFFICES ASSUME NEW y \in Slots
          PROVE IF state[y] = "IN_FLIGHT"
                THEN /\ chunks[y] = devC'[y] + cqC'[y]
                     /\ bounces[y] = devB'[y] + cqB'[y]
                ELSE devC'[y] = 0 /\ devB'[y] = 0 /\ cqC'[y] = 0 /\ cqB'[y] = 0
      BY <3>1
    <3>4. CASE y = x
      BY <3>1, <3>2, <3>4 DEF RingInv
    <3>5. CASE y # x
      BY <3>1, <3>5 DEF RingInv
    <3> QED BY <3>4, <3>5
  <2>2. UNCHANGED <<pc, lock, curSlot, head, tail, state, wi, wsnap, wpc>>
    BY <1>6 DEF CompleteChunk
  <2> QED BY <2>1, <2>2, Counting
<1>7. ASSUME NEW x \in Slots, CompleteBounce(x) PROVE RingInv'
  <2>1. CommandsAccounted'
    <3>1. /\ devB[x] > 0
          /\ devB' = [devB EXCEPT ![x] = @ - 1]
          /\ cqB' = [cqB EXCEPT ![x] = @ + 1]
          /\ UNCHANGED <<state, chunks, bounces, devC, cqC>>
      BY <1>7 DEF CompleteBounce
    <3>2. state[x] = "IN_FLIGHT"
      BY <3>1 DEF RingInv
    <3>3. SUFFICES ASSUME NEW y \in Slots
          PROVE IF state[y] = "IN_FLIGHT"
                THEN /\ chunks[y] = devC'[y] + cqC'[y]
                     /\ bounces[y] = devB'[y] + cqB'[y]
                ELSE devC'[y] = 0 /\ devB'[y] = 0 /\ cqC'[y] = 0 /\ cqB'[y] = 0
      BY <3>1
    <3>4. CASE y = x
      BY <3>1, <3>2, <3>4 DEF RingInv
    <3>5. CASE y # x
      BY <3>1, <3>5 DEF RingInv
    <3> QED BY <3>4, <3>5
  <2>2. UNCHANGED <<pc, lock, curSlot, head, tail, state, wi, wsnap, wpc>>
    BY <1>7 DEF CompleteBounce
  <2> QED BY <2>1, <2>2, Counting
<1> QED BY <1>1, <1>2, <1>4, <1>5, <1>6, <1>7

\* The slot the scan stands at is in the snapshot.
LEMMA HereScanned ==
  ASSUME RingInv, TypeInv, NEW w \in Workers, wi[w] # wsnap[w],
         wpc[w] \in {"scan", "start", "pwrite"}
  PROVE  \E k \in 0 .. WSub(wsnap[w], tail[w]) - 1 :
           Here(w) = SlotAt(w, WAdd(tail[w], k))
<1> DEFINE a == WSub(wi[w], tail[w])
           b == WSub(wsnap[w], tail[w])
<1>1. a <= b
  BY DEF RingInv, ScanInRing
<1>2. a # b /\ a \in Nat /\ b \in Nat /\ WAdd(tail[w], a) = wi[w]
  BY RingTypes, SameDistance, WordSteps
<1> HIDE DEF a, b
<1>3. a \in 0 .. b - 1
  BY <1>1, <1>2
<1> QED BY <1>2, <1>3 DEF b, Here

\* A pass begins with everything published so far.
LEMMA BeginRings ==
  ASSUME RingInv, TypeInv, NEW w \in Workers, BeginPass(w)
  PROVE  RingInv'
<1> USE RingTypes DEF ringVars, slotVars, callVars, workerVars, devVars
<1>1. /\ wpc[w] = "begin"
      /\ wsnap' = [wsnap EXCEPT ![w] = head[w]]
      /\ wi' = [wi EXCEPT ![w] = tail[w]]
      /\ wpc' = [wpc EXCEPT ![w] = "scan"]
      /\ UNCHANGED <<pc, lock, curSlot, head, tail, state, chunks, bounces,
                     devC, devB, cqC, cqB>>
  BY DEF BeginPass
<1>2. Claimed' /\ RingWindow' /\ CommandsAccounted'
  BY <1>1, ClaimKept DEF RingInv, RingWindow, SlotAt, CommandsAccounted, NoCommands
<1>3. /\ wsnap'[w] = head[w] /\ wi'[w] = tail[w] /\ wpc'[w] = "scan"
      /\ \A v \in Workers : v # w =>
           wsnap'[v] = wsnap[v] /\ wi'[v] = wi[v] /\ wpc'[v] = wpc[v]
  BY <1>1
<1>4. \A v \in Workers : /\ WSub(wsnap[v], tail[v]) \in Nat
                         /\ WSub(head[v], tail[v]) \in Nat
                         /\ WSub(tail[v], tail[v]) = 0
  BY WordSteps
<1>5. SnapInRing'
  BY <1>1, <1>3, <1>4 DEF RingInv, SnapInRing
<1>6. ScanInRing'
  BY <1>1, <1>3, <1>4 DEF RingInv, ScanInRing
<1>7. Working'
  BY <1>1, <1>3 DEF RingInv, Working, Here
<1>8. Scanned'
  <2> SUFFICES ASSUME NEW x \in Slots, state[x] = "IN_FLIGHT"
               PROVE /\ \E k \in 0 .. WSub(wsnap'[x[1]], tail[x[1]]) - 1 :
                          x = SlotAt(x[1], WAdd(tail[x[1]], k))
                     /\ wpc'[x[1]] # "exit"
    BY <1>1 DEF Scanned, SlotAt
  <2>1. PICK k \in 0 .. WSub(wsnap[x[1]], tail[x[1]]) - 1 :
               x = SlotAt(x[1], WAdd(tail[x[1]], k))
    BY DEF RingInv, Scanned
  <2>2. WSub(wsnap[x[1]], tail[x[1]]) <= WSub(wsnap'[x[1]], tail[x[1]])
    BY <1>3, <1>4 DEF RingInv, SnapInRing
  <2>3. WSub(wsnap'[x[1]], tail[x[1]]) \in Nat
    BY <1>3, <1>4
  <2>4. k \in 0 .. WSub(wsnap'[x[1]], tail[x[1]]) - 1
    BY <1>4, <2>2, <2>3
  <2>5. wpc'[x[1]] # "exit"
    BY <1>3 DEF RingInv, Scanned
  <2> QED BY <2>1, <2>4, <2>5
<1> QED BY <1>2, <1>5, <1>6, <1>7, <1>8 DEF RingInv

\* A read is taken up, or a write entered, at the scan's position.
LEMMA DispatchRings ==
  ASSUME RingInv, TypeInv, NEW w \in Workers, DispatchRead(w) \/ DispatchWrite(w)
  PROVE  RingInv'
<1> USE RingTypes DEF ringVars, slotVars, callVars, workerVars, devVars
<1> DEFINE x == Here(w)
<1>1. /\ wpc[w] = "scan" /\ wi[w] # wsnap[w] /\ state[x] = "PENDING"
      /\ UNCHANGED <<pc, lock, curSlot, head, tail, wi, wsnap, devC, devB, cqC,
                     cqB>>
  BY DEF DispatchRead, DispatchWrite, Scanning
<1>2. \/ /\ wpc' = [wpc EXCEPT ![w] = "start"]
         /\ state' = [state EXCEPT ![x] = "IN_FLIGHT"]
         /\ chunks' = [chunks EXCEPT ![x] = 0]
         /\ bounces' = [bounces EXCEPT ![x] = 0]
      \/ /\ wpc' = [wpc EXCEPT ![w] = "pwrite"]
         /\ UNCHANGED <<state, chunks, bounces>>
  BY DEF DispatchRead, DispatchWrite
<1>3. x \in Slots /\ x[1] = w
  OBVIOUS
<1> HIDE DEF x
<1>4. /\ wpc'[w] \in {"start", "pwrite"}
      /\ wpc'[w] = "start" => state'[x] = "IN_FLIGHT"
      /\ wpc'[w] = "pwrite" => state'[x] = "PENDING"
      /\ \A v \in Workers : v # w => wpc'[v] = wpc[v]
      /\ \A y \in Slots : y # x => state'[y] = state[y]
  BY <1>1, <1>2, <1>3
<1>5. Claimed'
  BY <1>1, ClaimKept DEF RingInv
<1>6. SnapInRing' /\ ScanInRing'
  BY <1>1, <1>4 DEF RingInv, SnapInRing, ScanInRing
<1>7. Working'
  <2>1. \A v \in Workers : Here(v)' = Here(v) /\ (v # w => Here(v) # x)
    BY <1>1, <1>3 DEF Here
  <2> QED BY <1>1, <1>4, <2>1 DEF RingInv, Working, x
<1>8. RingWindow'
  <2>1. \A y \in Slots : state'[y] # "FREE" => state[y] # "FREE"
    BY <1>1, <1>4
  <2>2. \A v \in Workers, i \in 0 .. QSize - 1 : <<v, i>> \in Slots
    BY DEF Slots
  <2> QED BY <1>1, <2>1, <2>2 DEF RingInv, RingWindow, SlotAt
<1>9. Scanned'
  <2> SUFFICES ASSUME NEW y \in Slots, state'[y] = "IN_FLIGHT"
               PROVE /\ \E k \in 0 .. WSub(wsnap[y[1]], tail[y[1]]) - 1 :
                          y = SlotAt(y[1], WAdd(tail[y[1]], k))
                     /\ wpc'[y[1]] # "exit"
    BY <1>1 DEF Scanned, SlotAt
  <2>1. CASE y = x
    <3>1. \E k \in 0 .. WSub(wsnap[w], tail[w]) - 1 :
            x = SlotAt(w, WAdd(tail[w], k))
      BY <1>1, HereScanned DEF x
    <3> QED BY <1>3, <1>4, <2>1, <3>1
  <2>2. CASE y # x
    BY <1>4, <2>2 DEF RingInv, Scanned
  <2> QED BY <2>1, <2>2
<1>10. CommandsAccounted'
  <2> SUFFICES ASSUME NEW y \in Slots
               PROVE  IF state'[y] = "IN_FLIGHT"
                      THEN /\ chunks'[y] = devC[y] + cqC[y]
                           /\ bounces'[y] = devB[y] + cqB[y]
                      ELSE NoCommands(y)
    BY <1>1 DEF CommandsAccounted, NoCommands
  <2>1. CASE y = x
    <3>1. NoCommands(x)
      BY <1>1, <1>3 DEF RingInv, CommandsAccounted
    <3> QED BY <1>1, <1>2, <1>3, <2>1, <3>1 DEF NoCommands
  <2>2. CASE y # x
    <3>1. state'[y] = state[y] /\ chunks'[y] = chunks[y] /\ bounces'[y] = bounces[y]
      BY <1>2, <2>2
    <3> QED BY <3>1 DEF RingInv, CommandsAccounted
  <2> QED BY <2>1, <2>2
<1> QED BY <1>5, <1>6, <1>7, <1>8, <1>9, <1>10 DEF RingInv

\* queue_tail passes a settled slot.
LEMMA DrainRings ==
  ASSUME RingInv, TypeInv, NEW w \in Workers, Drain(w)
  PROVE  RingInv'
<1> USE RingTypes DEF ringVars, slotVars, callVars, workerVars, devVars
<1>1. /\ wpc[w] = "scan" /\ wi[w] = wsnap[w] /\ tail[w] # wsnap[w]
      /\ state[SlotAt(w, tail[w])] = "FREE"
      /\ tail' = [tail EXCEPT ![w] = WAdd(tail[w], 1)]
      /\ UNCHANGED <<pc, lock, curSlot, head, state, wi, wsnap, wpc, chunks,
                     bounces, devC, devB, cqC, cqB>>
  BY DEF Drain, ScanEnded, CanDrain
<1>2. tail'[w] = WAdd(tail[w], 1) /\ \A v \in Workers : v # w => tail'[v] = tail[v]
  BY <1>1
<1> DEFINE n == WSub(head[w], tail[w])
           m == WSub(wsnap[w], tail[w])
<1>3. /\ n \in Nat /\ m \in Nat /\ m <= n /\ m # 0 /\ n < Modulus
      /\ Modulus \in Nat
  BY <1>1, WordSteps, HalfAssumption DEF RingInv, SnapInRing, Modulus
<1>4. WSub(wsnap[w], tail'[w]) = m - 1
  BY <1>1, <1>2, WordSteps
<1>5. head[w] # tail[w]
  BY <1>3, WordSteps
<1>6. WSub(head[w], tail'[w]) = n - 1
  BY <1>2, <1>5, WordSteps
<1>7. ASSUME NEW y \in Slots, y[1] = w, state[y] # "FREE", NEW c \in Nat, c <= n,
             NEW k \in 0 .. c - 1, y = SlotAt(w, WAdd(tail[w], k))
      PROVE  \E j \in 0 .. (c - 1) - 1 : y = SlotAt(w, WAdd(tail'[w], j))
  <2>1. k # 0
    BY <1>1, <1>7, WordSteps
  <2>2. k - 1 \in 0 .. (c - 1) - 1 /\ k - 1 \in 0 .. Modulus - 2 /\ (k - 1) + 1 = k
    BY <1>3, <1>7, <2>1
  <2>3. WAdd(WAdd(tail[w], 1), k - 1) = WAdd(tail[w], k)
    BY <2>2, WordSteps
  <2> QED BY <1>2, <1>7, <2>2, <2>3
<1> HIDE DEF n, m
<1>8. Claimed'
  <2> SUFFICES ASSUME NEW t \in Threads, pc[t] \in {"gate", "wait", "publish"}
               PROVE /\ lock = t
                     /\ curSlot[t] = SlotAt(curSlot[t][1], head[curSlot[t][1]])
                     /\ WSub(head[curSlot[t][1]], tail'[curSlot[t][1]]) < QSize
    BY <1>1 DEF Claimed, HasRoom, SlotAt
  <2>1. /\ lock = t
        /\ curSlot[t] = SlotAt(curSlot[t][1], head[curSlot[t][1]])
        /\ WSub(head[curSlot[t][1]], tail[curSlot[t][1]]) < QSize
    BY DEF RingInv, Claimed, HasRoom
  <2>2. curSlot[t][1] \in Workers
    BY DEF TypeInv, TypeOK, CallerType
  <2>3. n < QSize => n - 1 < QSize
    BY <1>3, EngineAssumption
  <2> QED BY <1>2, <1>6, <2>1, <2>2, <2>3 DEF n
<1>9. SnapInRing'
  <2>1. m - 1 <= n - 1
    BY <1>3
  <2> QED BY <1>1, <1>2, <1>4, <1>6, <2>1 DEF RingInv, SnapInRing
<1>10. ScanInRing'
  <2>1. m - 1 <= m - 1
    BY <1>3
  <2> QED BY <1>1, <1>2, <1>4, <2>1 DEF RingInv, ScanInRing
<1>11. Working'
  BY <1>1 DEF RingInv, Working, Here
<1>12. RingWindow'
  <2> SUFFICES ASSUME NEW v \in Workers
               PROVE /\ WSub(head[v], tail'[v]) <= QSize
                     /\ \A i \in 0 .. QSize - 1 : state[<<v, i>>] # "FREE" =>
                          \E k \in 0 .. WSub(head[v], tail'[v]) - 1 :
                            <<v, i>> = SlotAt(v, WAdd(tail'[v], k))
    BY <1>1 DEF RingWindow, SlotAt
  <2>1. CASE v # w
    BY <1>2, <2>1 DEF RingInv, RingWindow
  <2>2. CASE v = w
    <3>1. n <= QSize
      BY DEF n, RingInv, RingWindow
    <3>2. n - 1 <= QSize
      BY <1>3, <3>1, EngineAssumption
    <3>3. ASSUME NEW i \in 0 .. QSize - 1, state[<<w, i>>] # "FREE"
          PROVE  \E k \in 0 .. (n - 1) - 1 : <<w, i>> = SlotAt(w, WAdd(tail'[w], k))
      <4>1. <<w, i>> \in Slots /\ <<w, i>>[1] = w
        BY DEF Slots
      <4>2. PICK k \in 0 .. n - 1 : <<w, i>> = SlotAt(w, WAdd(tail[w], k))
        BY <3>3 DEF n, RingInv, RingWindow
      <4>3. n <= n
        BY <1>3
      <4> QED BY <1>3, <1>7, <3>3, <4>1, <4>2, <4>3
    <3> QED BY <1>6, <2>2, <3>2, <3>3
  <2> QED BY <2>1, <2>2
<1>13. Scanned'
  <2> SUFFICES ASSUME NEW x \in Slots, state[x] = "IN_FLIGHT"
               PROVE /\ \E k \in 0 .. WSub(wsnap[x[1]], tail'[x[1]]) - 1 :
                          x = SlotAt(x[1], WAdd(tail'[x[1]], k))
                     /\ wpc[x[1]] # "exit"
    BY <1>1 DEF Scanned, SlotAt
  <2>1. PICK k \in 0 .. WSub(wsnap[x[1]], tail[x[1]]) - 1 :
               x = SlotAt(x[1], WAdd(tail[x[1]], k))
    BY DEF RingInv, Scanned
  <2>2. wpc[x[1]] # "exit"
    BY DEF RingInv, Scanned
  <2>3. CASE x[1] # w
    BY <1>2, <2>1, <2>2, <2>3
  <2>4. CASE x[1] = w
    <3>1. k \in 0 .. m - 1 /\ x = SlotAt(w, WAdd(tail[w], k))
      BY <2>1, <2>4 DEF m
    <3>2. \E j \in 0 .. (m - 1) - 1 : x = SlotAt(w, WAdd(tail'[w], j))
      BY <1>3, <1>7, <2>4, <3>1
    <3> QED BY <1>4, <2>2, <2>4, <3>2
  <2> QED BY <2>3, <2>4
<1>14. CommandsAccounted'
  BY <1>1 DEF RingInv, CommandsAccounted, NoCommands
<1> QED BY <1>8, <1>9, <1>10, <1>11, <1>12, <1>13, <1>14 DEF RingInv

\* A pass ends; a worker leaves only when everything it saw is settled.
LEMMA EndRings ==
  ASSUME RingInv, TypeInv, NEW w \in Workers, EndPass(w)
  PROVE  RingInv'
<1> USE RingTypes DEF ringVars, slotVars, callVars, workerVars, devVars
<1>1. /\ wpc[w] = "scan"
      /\ UNCHANGED <<pc, lock, curSlot, head, tail, state, wi, wsnap, chunks,
                     bounces, devC, devB, cqC, cqB>>
  BY DEF EndPass, ScanEnded
<1>2. /\ wpc'[w] \in {"exit", "poke", "begin"}
      /\ wpc'[w] = "exit" => tail[w] = wsnap[w]
      /\ \A v \in Workers : v # w => wpc'[v] = wpc[v]
  BY DEF EndPass, LeavesLoop
<1>3. Claimed' /\ SnapInRing' /\ RingWindow' /\ CommandsAccounted'
  BY <1>1, ClaimKept DEF RingInv, SnapInRing, RingWindow, CommandsAccounted,
                         NoCommands, SlotAt
<1>4. ScanInRing' /\ Working'
  BY <1>1, <1>2 DEF RingInv, ScanInRing, Working, Here
<1>5. Scanned'
  <2> SUFFICES ASSUME NEW x \in Slots, state[x] = "IN_FLIGHT"
               PROVE  wpc'[x[1]] # "exit"
    BY <1>1 DEF RingInv, Scanned, SlotAt
  <2>1. CASE x[1] # w
    BY <1>2, <2>1 DEF RingInv, Scanned
  <2>2. CASE x[1] = w
    <3>1. WSub(wsnap[w], tail[w]) # 0
      BY <2>2, WordSteps DEF RingInv, Scanned
    <3> QED BY <1>2, <2>2, <3>1, WordSteps
  <2> QED BY <2>1, <2>2
<1> QED BY <1>3, <1>4, <1>5 DEF RingInv

\* The streams and the closing of the driver do not touch the rings.
LEMMA OtherRings ==
  ASSUME RingInv, TypeInv,
         \/ \E s \in Streams : StreamStep(s)
         \/ Close
         \/ UNCHANGED vars
  PROVE  RingInv'
<1>1. UNCHANGED <<seen, pc, lock, curSlot>>
  BY DEF StreamStep, RunWrite, RunWait, Park, Unpark, RunCopy, Close, vars, seen,
         ringVars, slotVars, callVars, workerVars, devVars
<1>2. CommandsAccounted'
  BY <1>1 DEF seen, RingInv, CommandsAccounted, NoCommands
<1> QED BY <1>1, <1>2, Counting DEF seen

\* Every step keeps the invariant.
LEMMA RingNext == TypeInv /\ RingInv /\ [Next]_vars => RingInv'
<1> SUFFICES ASSUME TypeInv, RingInv, [Next]_vars PROVE RingInv'
  OBVIOUS
<1>1. ASSUME NEW t \in Threads, StartCall(t) \/ ThreadStep(t) PROVE RingInv'
  BY <1>1, QuietSubmit, PublishRings DEF ThreadStep, ThreadGoesOn
<1>2. ASSUME NEW w \in Workers, WorkerStep(w) PROVE RingInv'
  BY <1>2, BeginRings, ScanMoves, DeviceCounts, DispatchRings, DrainRings, EndRings
     DEF WorkerStep, WorkerGoesOn
<1>3. ASSUME NEW x \in Slots, DeviceStep(x) PROVE RingInv'
  BY <1>3, DeviceCounts DEF DeviceStep
<1> QED BY <1>1, <1>2, <1>3, OtherRings DEF Next
-----------------------------------------------------------------------------
\* The two invariants together are inductive.
THEOREM RingsCorrect == Spec => [](TypeInv /\ RingInv)
<1>1. Init => TypeInv /\ RingInv
  BY TypeInit, RingInit
<1>2. (TypeInv /\ RingInv) /\ [Next]_vars => (TypeInv /\ RingInv)'
  BY TypeNext, RingNext
<1> QED BY <1>1, <1>2, PTL DEF Spec

\* claim_slot_locked never hands out a slot in use: whatever the interleaving
\* of submitters and workers, and across the wrap of the uint32_t counters,
\* the slots in use are those between queue_tail and queue_head and there are
\* at most FILE_OP_QUEUE_SIZE of them.
THEOREM RingsInWindow == Spec => []RingWindow
<1>1. TypeInv /\ RingInv => RingWindow
  BY DEF RingInv
<1> QED BY <1>1, RingsCorrect, PTL

\* chunks_remaining and bounces_outstanding account for every NVMe command:
\* no DMA is outstanding for a slot complete_read_op has freed, whichever
\* commands failed and in whatever order they completed.
THEOREM CommandsCounted == Spec => []CommandsAccounted
<1>1. TypeInv /\ RingInv => CommandsAccounted
  BY DEF RingInv
<1> QED BY <1>1, RingsCorrect, PTL

\* Once workers_teardown has joined the I/O threads no command is left in
\* the device, even when the driver is closed with operations in flight.
THEOREM JoinedQuiet == Spec => []JoinedIsQuiet
<1>1. TypeInv /\ RingInv => JoinedIsQuiet
  BY RingTypes DEF RingInv, Scanned, CommandsAccounted, JoinedIsQuiet
<1> QED BY <1>1, RingsCorrect, PTL
=============================================================================
