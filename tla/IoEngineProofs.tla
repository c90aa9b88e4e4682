--------------------------- MODULE IoEngineProofs ---------------------------
(***************************************************************************)
(* Proofs about the I/O engine for every value of its constants.           *)
(***************************************************************************)
EXTENDS IoEngine, TLAPS

\* Word arithmetic stays within the word.
LEMMA WordClosed ==
  ASSUME NEW a \in Word, NEW b \in Word
  PROVE  /\ WAdd(a, b) \in Word
         /\ WSub(a, b) \in Word
         /\ Arrived(a) \in Word
         /\ Released(a) \in Word
  BY HalfAssumption DEF Word, WAdd, WSub, WDouble, Arrived, Released, Modulus

\* A counter names a slot of its worker's ring.
LEMMA SlotAtType ==
  ASSUME NEW w \in Workers, NEW c \in Word
  PROVE  SlotAt(w, c) \in Slots
  BY HalfAssumption, EngineAssumption DEF SlotAt, Slots, Word, Modulus

\* Zero and one are words.
LEMMA SmallWords == 0 \in Word /\ 1 \in Word
  BY HalfAssumption DEF Word, Modulus

\* Round robin names a worker.
LEMMA RouteType == ASSUME NEW r \in Workers PROVE (r + 1) % NWorkers \in Workers
  BY EngineAssumption DEF Workers
-----------------------------------------------------------------------------
(***************************************************************************)
(* Type correctness.  TypeOK alone is not inductive: a step that reads     *)
(* call[curOp[t]] or records opOf[x] needs to know that a thread inside a  *)
(* call, a slot in use and a slot with commands name an operation.         *)
(***************************************************************************)
CallersNamed == \A t \in Threads : pc[t] # "idle" => curOp[t] \in Ops
SlotsNamed   == \A x \in Slots : state[x] # "FREE" => opOf[x] \in Ops
StartsNamed  == \A w \in Workers :
                  wpc[w] \in {"start", "pwrite"} => opOf[Here(w)] \in Ops
DeviceNamed  == \A x \in Slots :
                  devC[x] > 0 \/ devB[x] > 0 => opOf[x] \in Ops
ClaimsNamed  == \A t \in Threads : pc[t] \in {"gate", "wait", "publish"}
                                    => opOf[curSlot[t]] \in Ops
Named == CallersNamed /\ SlotsNamed /\ StartsNamed /\ DeviceNamed /\ ClaimsNamed

TypeInv == TypeOK /\ Named

\* Initially every variable is typed and no name is in use.
LEMMA TypeInit == Init => TypeInv
<1> SUFFICES ASSUME Init PROVE TypeInv
  OBVIOUS
<1> USE HalfAssumption, EngineAssumption, SmallWords DEF Init
<1>0. <<0, 0>> \in Slots /\ 0 \in Workers
  BY DEF Slots, Workers
<1>1. RingType
  BY <1>0 DEF RingType
<1>2. SlotType
  BY DEF SlotType, NoOp
<1>3. CallerType
  BY <1>0 DEF CallerType, Call, NoCall, Ops, NoOp
<1>4. WorkerType /\ DeviceType /\ HistoryType
  BY DEF WorkerType, DeviceType, HistoryType
<1>5. StreamType
  <2>1. (IF StartSeq = 0 THEN 0 ELSE Released(StartSeq)) \in Word
    BY WordClosed
  <2>2. <<>> \in Seq(CommandType)
    OBVIOUS
  <2> QED BY <2>1, <2>2 DEF StreamType, NotParked, NoOp
<1>6. Named
  BY DEF Named, CallersNamed, SlotsNamed, StartsNamed, DeviceNamed,
         ClaimsNamed
<1> QED BY <1>1, <1>2, <1>3, <1>4, <1>5, <1>6 DEF TypeInv, TypeOK

\* A worker's scan position names a slot.
LEMMA HereType == ASSUME WorkerType, NEW w \in Workers PROVE Here(w) \in Slots
  BY SlotAtType DEF Here, WorkerType

\* Appending a command keeps the streams' logs typed.
LEMMA AppendType ==
  ASSUME NEW T, NEW f \in [Streams -> Seq(T)], NEW s, NEW c \in T
  PROVE  [f EXCEPT ![s] = Append(@, c)] \in [Streams -> Seq(T)]
<1> DEFINE g == [f EXCEPT ![s] = Append(@, c)]
<1>1. ASSUME NEW r \in Streams PROVE g[r] \in Seq(T)
  <2>1. CASE r = s
    <3>1. f[r] \in Seq(T)
      OBVIOUS
    <3>2. Append(f[r], c) \in Seq(T)
      BY <3>1
    <3>3. g[r] = Append(f[r], c)
      BY <2>1, Zenon
    <3> QED BY <3>2, <3>3
  <2>2. CASE r # s
    <3>1. g[r] = f[r]
      BY <2>2, Zenon
    <3> QED BY <3>1
  <2> QED BY <2>1, <2>2
<1>2. g = [r \in Streams |-> g[r]]
  BY Zenon
<1> HIDE DEF g
<1>3. g \in [Streams -> Seq(T)]
  BY <1>1, <1>2
<1> QED BY <1>3 DEF g

\* The next command of a stream is a command.
LEMMA CommandTyped ==
  ASSUME StreamType, NEW s \in Streams, spos[s] < Len(slog[s])
  PROVE  Command(s) \in CommandType
  BY DEF StreamType, Command

\* The submit functions keep the types.
LEMMA ThreadTypes ==
  ASSUME TypeInv, NEW t \in Threads, StartCall(t) \/ ThreadStep(t)
  PROVE  TypeInv'
<1> USE HalfAssumption, EngineAssumption, WordClosed, SlotAtType, SmallWords,
        RouteType
    DEF TypeInv, TypeOK, Named, ringVars, slotVars, callVars, workerVars,
        devVars, gateVars, streamVars, tailVars, histVars
<1>1. CASE StartCall(t)
  <2>1. (RingType /\ SlotType /\ WorkerType /\ DeviceType /\ StreamType
         /\ HistoryType /\ SlotsNamed /\ StartsNamed /\ DeviceNamed)'
    BY <1>1 DEF StartCall, RingType, SlotType, WorkerType, DeviceType,
        StreamType, HistoryType, SlotsNamed, StartsNamed, DeviceNamed, Here
  <2>2. CallerType'
    BY <1>1 DEF StartCall, Ops, CallerType, RingType
  <2>3. CallersNamed'
    BY <1>1 DEF StartCall, Ops, CallersNamed, CallerType
  <2>4. ClaimsNamed'
    BY <1>1 DEF StartCall, Ops, ClaimsNamed, SlotType, CallersNamed,
        CallerType
  <2> QED BY <2>1, <2>2, <2>3, <2>4 DEF TypeOK, Named
<1>2. CASE ClaimFull(t)
  <2>1. (SlotType /\ CallerType /\ WorkerType /\ DeviceType
         /\ StreamType /\ HistoryType /\ CallersNamed /\ SlotsNamed /\ StartsNamed /\ DeviceNamed /\ ClaimsNamed)'
    BY <1>2 DEF ClaimFull, SlotType, CallerType, WorkerType, DeviceType,
        StreamType, HistoryType, CallersNamed, SlotsNamed, StartsNamed,
        DeviceNamed, ClaimsNamed, Here
  <2>2. RingType'
    BY <1>2 DEF ClaimFull, RouteNext, Workers, RingType, CallerType
  <2> QED BY <2>1, <2>2 DEF TypeOK, Named
<1>3. CASE ClaimAsync(t)
  <2>1. (WorkerType /\ DeviceType /\ StreamType /\ HistoryType)'
    BY <1>3 DEF ClaimAsync, WorkerType, DeviceType, StreamType, HistoryType
  <2>2. RingType'
    BY <1>3 DEF ClaimAsync, RouteNext, Workers, RingType, CallerType
  <2>3. SlotType'
    BY <1>3 DEF ClaimAsync, RouteNext, Workers, SlotType, CallerType,
        RingType, StreamType, WorkerType, CallersNamed, Here
  <2>4. CallerType'
    BY <1>3 DEF ClaimAsync, RouteNext, Workers, CallerType, RingType
  <2>5. CallersNamed'
    BY <1>3 DEF ClaimAsync, RouteNext, Workers, CallersNamed, CallerType
  <2>6. SlotsNamed'
    BY <1>3 DEF ClaimAsync, RouteNext, Workers, SlotsNamed, ClaimsNamed,
        SlotType, CallersNamed, CallerType
  <2>7. StartsNamed'
    BY <1>3 DEF ClaimAsync, RouteNext, Workers, StartsNamed, SlotsNamed,
        WorkerType, SlotType, CallersNamed, CallerType, Here
  <2>8. DeviceNamed'
    BY <1>3 DEF ClaimAsync, RouteNext, Workers, DeviceNamed, DeviceType,
        SlotType, StartsNamed, CallersNamed, CallerType, Here, WorkerType
  <2>9. ClaimsNamed'
    BY <1>3 DEF ClaimAsync, RouteNext, Workers, ClaimsNamed, SlotType,
        CallersNamed, CallerType
  <2> QED BY <2>1, <2>2, <2>3, <2>4, <2>5, <2>6, <2>7, <2>8, <2>9 DEF TypeOK, Named
<1>4. CASE AwaitReturns(t)
  <2>1. (RingType /\ SlotType /\ WorkerType /\ DeviceType /\ StreamType
         /\ HistoryType /\ SlotsNamed /\ StartsNamed /\ DeviceNamed)'
    BY <1>4 DEF AwaitReturns, RingType, SlotType, WorkerType, DeviceType,
        StreamType, HistoryType, SlotsNamed, StartsNamed, DeviceNamed, Here
  <2>2. CallerType'
    BY <1>4 DEF AwaitReturns, CallerType, RingType
  <2>3. CallersNamed'
    BY <1>4 DEF AwaitReturns, CallersNamed, CallerType
  <2>4. ClaimsNamed'
    BY <1>4 DEF AwaitReturns, ClaimsNamed, SlotType, CallersNamed, CallerType
  <2> QED BY <2>1, <2>2, <2>3, <2>4 DEF TypeOK, Named
<1>5. CASE ClaimStream(t)
  <2>1. (WorkerType /\ DeviceType /\ HistoryType)'
    BY <1>5 DEF ClaimStream, WorkerType, DeviceType, HistoryType
  <2>2. RingType'
    BY <1>5 DEF ClaimStream, RouteNext, Workers, Call, RingType, CallerType
  <2>3. SlotType'
    BY <1>5 DEF ClaimStream, RouteNext, Workers, Call, SlotType, CallerType,
        RingType, StreamType, WorkerType, CallersNamed, Here
  <2>4. CallerType'
    BY <1>5 DEF ClaimStream, RouteNext, Workers, Call, CallerType, RingType
  <2>5. StreamType'
    BY <1>5 DEF ClaimStream, RouteNext, Workers, Call, StreamType, SlotType,
        CallerType, CallersNamed, StartsNamed, WorkerType, Here, NotParked
  <2>6. CallersNamed'
    BY <1>5 DEF ClaimStream, RouteNext, Workers, Call, CallersNamed,
        CallerType
  <2>7. SlotsNamed'
    BY <1>5 DEF ClaimStream, RouteNext, Workers, Call, SlotsNamed,
        ClaimsNamed, SlotType, CallersNamed, CallerType
  <2>8. StartsNamed'
    BY <1>5 DEF ClaimStream, RouteNext, Workers, Call, StartsNamed,
        SlotsNamed, WorkerType, SlotType, CallersNamed, CallerType, Here
  <2>9. DeviceNamed'
    BY <1>5 DEF ClaimStream, RouteNext, Workers, Call, DeviceNamed,
        DeviceType, SlotType, StartsNamed, CallersNamed, CallerType, Here,
        WorkerType
  <2>10. ClaimsNamed'
    <3> DEFINE x == SlotAt(rr, head[rr])
    <3>1. x \in Slots
      BY DEF RingType
    <3>2. curOp[t] \in Ops
      BY <1>5 DEF ClaimStream, CallersNamed
    <3>3. /\ opOf' = [opOf EXCEPT ![x] = curOp[t]]
          /\ curSlot' = [curSlot EXCEPT ![t] = x]
          /\ pc' = [pc EXCEPT ![t] = "gate"]
      BY <1>5 DEF ClaimStream
    <3> HIDE DEF x
    <3> QED BY <3>1, <3>2, <3>3 DEF ClaimsNamed, SlotType, CallerType
  <2> QED BY <2>1, <2>2, <2>3, <2>4, <2>5, <2>6, <2>7, <2>8, <2>9, <2>10 DEF TypeOK, Named
<1>6. CASE EnqueueGate(t)
  <2>1. (RingType /\ SlotType /\ WorkerType /\ DeviceType /\ HistoryType
         /\ SlotsNamed /\ StartsNamed /\ DeviceNamed)'
    BY <1>6 DEF EnqueueGate, RingType, SlotType, WorkerType, DeviceType,
        HistoryType, SlotsNamed, StartsNamed, DeviceNamed, Here
  <2>2. CallerType'
    BY <1>6 DEF EnqueueGate, Enqueue, CommandType, CallerType, RingType
  <2>3. StreamType'
    <3>1. /\ [k |-> "host", op |-> curOp[t], v |-> 0,
              x |-> curSlot[t]] \in CommandType
          /\ [k |-> "write", op |-> curOp[t], v |-> Arrived(seq[curSlot[t]]),
              x |-> curSlot[t]] \in CommandType
      BY <1>6 DEF EnqueueGate, CommandType, CallersNamed, CallerType, SlotType
    <3>2. \E c \in CommandType :
            slog' = [slog EXCEPT ![call[curOp[t]].strm] = Append(@, c)]
      BY <1>6, <3>1 DEF EnqueueGate, Enqueue
    <3>3. PICK c \in CommandType :
            slog' = [slog EXCEPT ![call[curOp[t]].strm] = Append(@, c)]
      BY <3>2
    <3>4. slog \in [Streams -> Seq(CommandType)]
      BY DEF StreamType
    <3>5. [slog EXCEPT ![call[curOp[t]].strm] = Append(@, c)]
            \in [Streams -> Seq(CommandType)]
      BY <3>4, AppendType
    <3>6. slog' \in [Streams -> Seq(CommandType)]
      BY <3>3, <3>5
    <3> QED BY <1>6, <3>6 DEF EnqueueGate, Enqueue, StreamType
  <2>4. CallersNamed'
    BY <1>6 DEF EnqueueGate, Enqueue, CommandType, CallersNamed, CallerType
  <2>5. ClaimsNamed'
    BY <1>6 DEF EnqueueGate, Enqueue, CommandType, ClaimsNamed, SlotType,
        CallersNamed, CallerType
  <2> QED BY <2>1, <2>2, <2>3, <2>4, <2>5 DEF TypeOK, Named
<1>7. CASE EnqueueWait(t)
  <2>1. (RingType /\ SlotType /\ WorkerType /\ DeviceType /\ HistoryType
         /\ SlotsNamed /\ StartsNamed /\ DeviceNamed)'
    BY <1>7 DEF EnqueueWait, RingType, SlotType, WorkerType, DeviceType,
        HistoryType, SlotsNamed, StartsNamed, DeviceNamed, Here
  <2>2. CallerType'
    BY <1>7 DEF EnqueueWait, Enqueue, CommandType, WaitValue, CallerType,
        RingType
  <2>3. StreamType'
    <3>1. [k |-> "wait", op |-> curOp[t], v |-> WaitValue(curSlot[t]),
           x |-> curSlot[t]] \in CommandType
      BY <1>7 DEF EnqueueWait, WaitValue, CommandType, CallersNamed, CallerType,
          SlotType
    <3> QED BY <1>7, <3>1, AppendType DEF EnqueueWait, Enqueue, StreamType
  <2>4. CallersNamed'
    BY <1>7 DEF EnqueueWait, Enqueue, CommandType, WaitValue, CallersNamed,
        CallerType
  <2>5. ClaimsNamed'
    BY <1>7 DEF EnqueueWait, Enqueue, CommandType, WaitValue, ClaimsNamed,
        SlotType, CallersNamed, CallerType
  <2> QED BY <2>1, <2>2, <2>3, <2>4, <2>5 DEF TypeOK, Named
<1>8. CASE GateFails(t)
  <2>1. (SlotType /\ WorkerType /\ DeviceType /\ StreamType
         /\ HistoryType /\ SlotsNamed /\ StartsNamed /\ DeviceNamed)'
    BY <1>8 DEF GateFails, SlotType, WorkerType, DeviceType, StreamType,
        HistoryType, SlotsNamed, StartsNamed, DeviceNamed, Here
  <2>2. RingType'
    BY <1>8 DEF GateFails, RingType, CallerType
  <2>3. CallerType'
    BY <1>8 DEF GateFails, CallerType, RingType
  <2>4. CallersNamed'
    BY <1>8 DEF GateFails, CallersNamed, CallerType
  <2>5. ClaimsNamed'
    BY <1>8 DEF GateFails, ClaimsNamed, SlotType, CallersNamed, CallerType
  <2> QED BY <2>1, <2>2, <2>3, <2>4, <2>5 DEF TypeOK, Named
<1>9. CASE Publish(t)
  <2>1. (WorkerType /\ DeviceType /\ StreamType /\ HistoryType
         /\ StartsNamed /\ DeviceNamed)'
    BY <1>9 DEF Publish, WorkerType, DeviceType, StreamType, HistoryType,
        StartsNamed, DeviceNamed, Here
  <2>2. RingType'
    BY <1>9 DEF Publish, Slots, RingType, CallerType
  <2>3. SlotType'
    BY <1>9 DEF Publish, Slots, SlotType, CallerType, RingType, StreamType,
        WorkerType, CallersNamed, Here
  <2>4. CallerType'
    BY <1>9 DEF Publish, Slots, CallerType, RingType
  <2>5. CallersNamed'
    BY <1>9 DEF Publish, Slots, CallersNamed, CallerType
  <2>6. SlotsNamed'
    BY <1>9 DEF Publish, Slots, SlotsNamed, ClaimsNamed, SlotType,
        CallersNamed, CallerType
  <2>7. ClaimsNamed'
    BY <1>9 DEF Publish, Slots, ClaimsNamed, SlotType, CallersNamed,
        CallerType
  <2> QED BY <2>1, <2>2, <2>3, <2>4, <2>5, <2>6, <2>7 DEF TypeOK, Named
<1>10. CASE EnqueueCopy(t)
  <2>1. (RingType /\ SlotType /\ WorkerType /\ DeviceType /\ HistoryType
         /\ SlotsNamed /\ StartsNamed /\ DeviceNamed)'
    BY <1>10 DEF EnqueueCopy, RingType, SlotType, WorkerType, DeviceType,
        HistoryType, SlotsNamed, StartsNamed, DeviceNamed, Here
  <2>2. CallerType'
    BY <1>10 DEF EnqueueCopy, Enqueue, CommandType, CallerType, RingType
  <2>3. StreamType'
    <3>1. [k |-> "copy", op |-> curOp[t], v |-> 0,
           x |-> curSlot[t]] \in CommandType
      BY <1>10 DEF EnqueueCopy, WaitValue, CommandType, CallersNamed, CallerType,
          SlotType
    <3> QED BY <1>10, <3>1, AppendType DEF EnqueueCopy, Enqueue, StreamType
  <2>4. CallersNamed'
    BY <1>10 DEF EnqueueCopy, Enqueue, CommandType, CallersNamed, CallerType
  <2>5. ClaimsNamed'
    BY <1>10 DEF EnqueueCopy, Enqueue, CommandType, ClaimsNamed, SlotType,
        CallersNamed, CallerType
  <2> QED BY <2>1, <2>2, <2>3, <2>4, <2>5 DEF TypeOK, Named
<1>11. CASE CopyFails(t)
  <2>1. (RingType /\ SlotType /\ WorkerType /\ DeviceType /\ StreamType
         /\ HistoryType /\ SlotsNamed /\ StartsNamed /\ DeviceNamed)'
    BY <1>11 DEF CopyFails, RingType, SlotType, WorkerType, DeviceType,
        StreamType, HistoryType, SlotsNamed, StartsNamed, DeviceNamed, Here
  <2>2. CallerType'
    BY <1>11 DEF CopyFails, CallerType, RingType
  <2>3. CallersNamed'
    BY <1>11 DEF CopyFails, CallersNamed, CallerType
  <2>4. ClaimsNamed'
    BY <1>11 DEF CopyFails, ClaimsNamed, SlotType, CallersNamed, CallerType
  <2> QED BY <2>1, <2>2, <2>3, <2>4 DEF TypeOK, Named
<1> QED BY <1>1, <1>2, <1>3, <1>4, <1>5, <1>6, <1>7, <1>8, <1>9, <1>10, <1>11 DEF ThreadStep, ThreadGoesOn

\* io_thread_main and what it calls keep the types.
LEMMA WorkerTypes ==
  ASSUME TypeInv, NEW w \in Workers, WorkerStep(w)
  PROVE  TypeInv'
<1> USE HalfAssumption, EngineAssumption, WordClosed, SlotAtType, SmallWords,
        RouteType
    DEF TypeInv, TypeOK, Named, ringVars, slotVars, callVars, workerVars,
        devVars, gateVars, streamVars, tailVars, histVars
<1>1. CASE BeginPass(w)
  <2>1. (RingType /\ SlotType /\ CallerType /\ DeviceType /\ StreamType
         /\ HistoryType /\ CallersNamed /\ SlotsNamed /\ DeviceNamed /\ ClaimsNamed)'
    BY <1>1 DEF BeginPass, RingType, SlotType, CallerType, DeviceType,
        StreamType, HistoryType, CallersNamed, SlotsNamed, DeviceNamed,
        ClaimsNamed
  <2>2. WorkerType'
    BY <1>1 DEF BeginPass, WorkerType, RingType
  <2>3. StartsNamed'
    BY <1>1 DEF BeginPass, StartsNamed, SlotsNamed, WorkerType, SlotType,
        CallersNamed, CallerType, Here
  <2> QED BY <2>1, <2>2, <2>3 DEF TypeOK, Named
<1>2. CASE PassSlot(w)
  <2>1. (RingType /\ SlotType /\ CallerType /\ DeviceType /\ StreamType
         /\ HistoryType /\ CallersNamed /\ SlotsNamed /\ DeviceNamed /\ ClaimsNamed)'
    BY <1>2 DEF PassSlot, RingType, SlotType, CallerType, DeviceType,
        StreamType, HistoryType, CallersNamed, SlotsNamed, DeviceNamed,
        ClaimsNamed
  <2>2. WorkerType'
    BY <1>2 DEF PassSlot, Advance, WorkerType, RingType
  <2>3. StartsNamed'
    BY <1>2 DEF PassSlot, Advance, Scanning, StartsNamed, WorkerType, Here
  <2> QED BY <2>1, <2>2, <2>3 DEF TypeOK, Named
<1>3. CASE LeaveGated(w)
  <2>1. (RingType /\ SlotType /\ CallerType /\ DeviceType /\ StreamType
         /\ HistoryType /\ CallersNamed /\ SlotsNamed /\ DeviceNamed /\ ClaimsNamed)'
    BY <1>3 DEF LeaveGated, RingType, SlotType, CallerType, DeviceType,
        StreamType, HistoryType, CallersNamed, SlotsNamed, DeviceNamed,
        ClaimsNamed
  <2>2. WorkerType'
    BY <1>3 DEF LeaveGated, Advance, WorkerType, RingType
  <2>3. StartsNamed'
    BY <1>3 DEF LeaveGated, Advance, Scanning, StartsNamed, WorkerType, Here
  <2> QED BY <2>1, <2>2, <2>3 DEF TypeOK, Named
<1>4. CASE DispatchRead(w)
  <2>1. (RingType /\ CallerType /\ DeviceType /\ StreamType
         /\ HistoryType /\ CallersNamed /\ DeviceNamed /\ ClaimsNamed)'
    BY <1>4 DEF DispatchRead, RingType, CallerType, DeviceType, StreamType,
        HistoryType, CallersNamed, DeviceNamed, ClaimsNamed
  <2>2. SlotType'
    <3>1. Here(w) \in Slots
      BY HereType
    <3>2. 0 \in 0 .. BounceSlots
      OBVIOUS
    <3> QED BY <1>4, <3>1, <3>2 DEF DispatchRead, SlotType
  <2>3. WorkerType'
    BY <1>4 DEF DispatchRead, Scanning, WorkerType, RingType
  <2>4. SlotsNamed'
    BY <1>4 DEF DispatchRead, Scanning, SlotsNamed, ClaimsNamed, SlotType,
        CallersNamed, CallerType
  <2>5. StartsNamed'
    BY <1>4 DEF DispatchRead, Scanning, StartsNamed, SlotsNamed, WorkerType,
        SlotType, CallersNamed, CallerType, Here
  <2> QED BY <2>1, <2>2, <2>3, <2>4, <2>5 DEF TypeOK, Named
<1>5. CASE IssueChunk(w)
  <2>1. (RingType /\ CallerType /\ StreamType /\ HistoryType
         /\ CallersNamed /\ SlotsNamed /\ StartsNamed /\ ClaimsNamed)'
    BY <1>5 DEF IssueChunk, RingType, CallerType, StreamType, HistoryType,
        CallersNamed, SlotsNamed, StartsNamed, ClaimsNamed, Here
  <2>2. SlotType'
    <3>1. Here(w) \in Slots
      BY HereType
    <3> QED BY <1>5, <3>1 DEF IssueChunk, SlotType
  <2>3. WorkerType'
    BY <1>5 DEF IssueChunk, WorkerType, RingType
  <2>4. DeviceType'
    <3>1. Here(w) \in Slots
      BY HereType
    <3> QED BY <1>5, <3>1 DEF IssueChunk, DeviceType
  <2>5. DeviceNamed'
    BY <1>5 DEF IssueChunk, DeviceNamed, DeviceType, SlotType, StartsNamed,
        CallersNamed, CallerType, Here, WorkerType
  <2> QED BY <2>1, <2>2, <2>3, <2>4, <2>5 DEF TypeOK, Named
<1>6. CASE IssueBounce(w)
  <2>1. (RingType /\ CallerType /\ WorkerType /\ CallersNamed
         /\ SlotsNamed /\ StartsNamed /\ ClaimsNamed)'
    BY <1>6 DEF IssueBounce, RingType, CallerType, WorkerType, CallersNamed,
        SlotsNamed, StartsNamed, ClaimsNamed, Here
  <2>2. SlotType'
    <3>1. Here(w) \in Slots
      BY HereType
    <3>2. nb[Here(w)] + 1 \in 0 .. BounceSlots
      BY <1>6, <3>1 DEF IssueBounce, MayBounce, SlotType
    <3> QED BY <1>6, <3>1, <3>2 DEF IssueBounce, SlotType
  <2>3. DeviceType'
    <3>1. Here(w) \in Slots
      BY HereType
    <3> QED BY <1>6, <3>1 DEF IssueBounce, DeviceType
  <2>4. StreamType'
    BY <1>6 DEF IssueBounce, MayBounce, StreamType, SlotType, CallerType,
        CallersNamed, StartsNamed, WorkerType, Here, NotParked
  <2>5. HistoryType'
    BY <1>6 DEF IssueBounce, MayBounce, HistoryType, DeviceNamed, StartsNamed,
        SlotsNamed, SlotType, Here, WorkerType
  <2>6. DeviceNamed'
    BY <1>6 DEF IssueBounce, MayBounce, DeviceNamed, DeviceType, SlotType,
        StartsNamed, CallersNamed, CallerType, Here, WorkerType
  <2> QED BY <2>1, <2>2, <2>3, <2>4, <2>5, <2>6 DEF TypeOK, Named
<1>7. CASE StartFails(w)
  <2>1. (RingType /\ CallerType /\ DeviceType /\ StreamType
         /\ CallersNamed /\ SlotsNamed /\ DeviceNamed /\ ClaimsNamed)'
    BY <1>7 DEF StartFails, RingType, CallerType, DeviceType, StreamType,
        CallersNamed, SlotsNamed, DeviceNamed, ClaimsNamed
  <2>2. SlotType'
    BY <1>7 DEF StartFails, Advance, SlotType, CallerType, RingType,
        StreamType, WorkerType, CallersNamed, Here
  <2>3. WorkerType'
    <3>1. 0 \in 0 .. MaxChunks
      OBVIOUS
    <3> QED BY <1>7, <3>1 DEF StartFails, Advance, WorkerType
  <2>4. HistoryType'
    BY <1>7 DEF StartFails, Advance, HistoryType, DeviceNamed, StartsNamed,
        SlotsNamed, SlotType, Here, WorkerType
  <2>5. StartsNamed'
    BY <1>7 DEF StartFails, Advance, StartsNamed, SlotsNamed, WorkerType,
        SlotType, CallersNamed, CallerType, Here
  <2> QED BY <2>1, <2>2, <2>3, <2>4, <2>5 DEF TypeOK, Named
<1>8. CASE StartDone(w)
  <2>1. (RingType /\ SlotType /\ CallerType /\ DeviceType /\ StreamType
         /\ HistoryType /\ CallersNamed /\ SlotsNamed /\ DeviceNamed /\ ClaimsNamed)'
    BY <1>8 DEF StartDone, RingType, SlotType, CallerType, DeviceType,
        StreamType, HistoryType, CallersNamed, SlotsNamed, DeviceNamed,
        ClaimsNamed
  <2>2. WorkerType'
    BY <1>8 DEF StartDone, Advance, WorkerType, RingType
  <2>3. StartsNamed'
    BY <1>8 DEF StartDone, Advance, StartsNamed, SlotsNamed, WorkerType,
        SlotType, CallersNamed, CallerType, Here
  <2> QED BY <2>1, <2>2, <2>3 DEF TypeOK, Named
<1>9. CASE PokeWhileStarting(w)
  <2>1. (RingType /\ CallerType /\ WorkerType /\ StreamType
         /\ HistoryType /\ CallersNamed /\ SlotsNamed /\ StartsNamed /\ DeviceNamed /\ ClaimsNamed)'
    BY <1>9 DEF PokeWhileStarting, RingType, CallerType, WorkerType,
        StreamType, HistoryType, CallersNamed, SlotsNamed, StartsNamed,
        DeviceNamed, ClaimsNamed, Here
  <2>2. SlotType'
    BY <1>9 DEF PokeWhileStarting, Poll, ErrAfterCallbacks, SlotType, DeviceType
  <2>3. DeviceType'
    BY <1>9 DEF PokeWhileStarting, Poll, ErrAfterCallbacks, DeviceType
  <2> QED BY <2>1, <2>2, <2>3 DEF TypeOK, Named
<1>10. CASE DispatchWrite(w)
  <2>1. (RingType /\ SlotType /\ CallerType /\ DeviceType /\ StreamType
         /\ HistoryType /\ CallersNamed /\ SlotsNamed /\ DeviceNamed /\ ClaimsNamed)'
    BY <1>10 DEF DispatchWrite, RingType, SlotType, CallerType, DeviceType,
        StreamType, HistoryType, CallersNamed, SlotsNamed, DeviceNamed,
        ClaimsNamed
  <2>2. WorkerType'
    BY <1>10 DEF DispatchWrite, Scanning, WorkerType, RingType
  <2>3. StartsNamed'
    BY <1>10 DEF DispatchWrite, Scanning, StartsNamed, SlotsNamed, WorkerType,
        SlotType, CallersNamed, CallerType, Here
  <2> QED BY <2>1, <2>2, <2>3 DEF TypeOK, Named
<1>11. CASE FinishWrite(w)
  <2>1. (RingType /\ DeviceType /\ CallersNamed /\ DeviceNamed
         /\ ClaimsNamed)'
    BY <1>11 DEF FinishWrite, RingType, DeviceType, CallersNamed, DeviceNamed,
        ClaimsNamed
  <2>2. SlotType'
    BY <1>11 DEF FinishWrite, Advance, FreeSlot, ReleaseGate, SlotType,
        CallerType, RingType, StreamType, WorkerType, CallersNamed, Here
  <2>3. CallerType'
    BY <1>11 DEF FinishWrite, Advance, FreeSlot, ReleaseGate, CallerType,
        RingType
  <2>4. WorkerType'
    BY <1>11 DEF FinishWrite, Advance, FreeSlot, ReleaseGate, WorkerType,
        RingType
  <2>5. StreamType'
    BY <1>11 DEF FinishWrite, Advance, FreeSlot, ReleaseGate, StreamType,
        SlotType, CallerType, CallersNamed, StartsNamed, WorkerType, Here,
        NotParked
  <2>6. HistoryType'
    BY <1>11 DEF FinishWrite, Advance, FreeSlot, ReleaseGate, HistoryType,
        DeviceNamed, StartsNamed, SlotsNamed, SlotType, Here, WorkerType
  <2>7. SlotsNamed'
    BY <1>11 DEF FinishWrite, Advance, FreeSlot, ReleaseGate, SlotsNamed,
        ClaimsNamed, SlotType, CallersNamed, CallerType
  <2>8. StartsNamed'
    BY <1>11 DEF FinishWrite, Advance, FreeSlot, ReleaseGate, StartsNamed,
        SlotsNamed, WorkerType, SlotType, CallersNamed, CallerType, Here
  <2> QED BY <2>1, <2>2, <2>3, <2>4, <2>5, <2>6, <2>7, <2>8 DEF TypeOK, Named
<1>12. CASE CompleteStreamRead(w)
  <2>1. (RingType /\ DeviceType /\ HistoryType /\ CallersNamed
         /\ DeviceNamed /\ ClaimsNamed)'
    BY <1>12 DEF CompleteStreamRead, RingType, DeviceType, HistoryType,
        CallersNamed, DeviceNamed, ClaimsNamed
  <2>2. SlotType'
    BY <1>12 DEF CompleteStreamRead, Advance, FreeSlot, ReleaseGate, HasTail,
        Scanning, SlotType, CallerType, RingType, StreamType, WorkerType,
        CallersNamed, Here
  <2>3. CallerType'
    BY <1>12 DEF CompleteStreamRead, Advance, FreeSlot, ReleaseGate, HasTail,
        Scanning, CallerType, RingType
  <2>4. WorkerType'
    BY <1>12 DEF CompleteStreamRead, Advance, FreeSlot, ReleaseGate, HasTail,
        Scanning, WorkerType, RingType
  <2>5. StreamType'
    BY <1>12 DEF CompleteStreamRead, Advance, FreeSlot, ReleaseGate, HasTail,
        Scanning, StreamType, SlotType, CallerType, CallersNamed, StartsNamed,
        WorkerType, Here, NotParked
  <2>6. SlotsNamed'
    BY <1>12 DEF CompleteStreamRead, Advance, FreeSlot, ReleaseGate, HasTail,
        Scanning, SlotsNamed, ClaimsNamed, SlotType, CallersNamed, CallerType
  <2>7. StartsNamed'
    BY <1>12 DEF CompleteStreamRead, Advance, FreeSlot, ReleaseGate, HasTail,
        Scanning, StartsNamed, SlotsNamed, WorkerType, SlotType, CallersNamed,
        CallerType, Here
  <2> QED BY <2>1, <2>2, <2>3, <2>4, <2>5, <2>6, <2>7 DEF TypeOK, Named
<1>13. CASE CompleteAsyncRead(w)
  <2>1. (RingType /\ DeviceType /\ StreamType /\ CallersNamed
         /\ DeviceNamed /\ ClaimsNamed)'
    BY <1>13 DEF CompleteAsyncRead, RingType, DeviceType, StreamType,
        CallersNamed, DeviceNamed, ClaimsNamed
  <2>2. SlotType'
    BY <1>13 DEF CompleteAsyncRead, Advance, FreeSlot, Scanning, SlotType,
        CallerType, RingType, StreamType, WorkerType, CallersNamed, Here
  <2>3. CallerType'
    BY <1>13 DEF CompleteAsyncRead, Advance, FreeSlot, Scanning, CallerType,
        RingType
  <2>4. WorkerType'
    BY <1>13 DEF CompleteAsyncRead, Advance, FreeSlot, Scanning, WorkerType,
        RingType
  <2>5. HistoryType'
    BY <1>13 DEF CompleteAsyncRead, Advance, FreeSlot, Scanning, HistoryType,
        DeviceNamed, StartsNamed, SlotsNamed, SlotType, Here, WorkerType
  <2>6. SlotsNamed'
    BY <1>13 DEF CompleteAsyncRead, Advance, FreeSlot, Scanning, SlotsNamed,
        ClaimsNamed, SlotType, CallersNamed, CallerType
  <2>7. StartsNamed'
    BY <1>13 DEF CompleteAsyncRead, Advance, FreeSlot, Scanning, StartsNamed,
        SlotsNamed, WorkerType, SlotType, CallersNamed, CallerType, Here
  <2> QED BY <2>1, <2>2, <2>3, <2>4, <2>5, <2>6, <2>7 DEF TypeOK, Named
<1>14. CASE Drain(w)
  <2>1. (SlotType /\ CallerType /\ WorkerType /\ DeviceType
         /\ StreamType /\ HistoryType /\ CallersNamed /\ SlotsNamed /\ StartsNamed /\ DeviceNamed /\ ClaimsNamed)'
    BY <1>14 DEF Drain, SlotType, CallerType, WorkerType, DeviceType,
        StreamType, HistoryType, CallersNamed, SlotsNamed, StartsNamed,
        DeviceNamed, ClaimsNamed, Here
  <2>2. RingType'
    BY <1>14 DEF Drain, RingType, CallerType
  <2> QED BY <2>1, <2>2 DEF TypeOK, Named
<1>15. CASE EndPass(w)
  <2>1. (RingType /\ SlotType /\ CallerType /\ DeviceType /\ StreamType
         /\ HistoryType /\ CallersNamed /\ SlotsNamed /\ DeviceNamed /\ ClaimsNamed)'
    BY <1>15 DEF EndPass, RingType, SlotType, CallerType, DeviceType,
        StreamType, HistoryType, CallersNamed, SlotsNamed, DeviceNamed,
        ClaimsNamed
  <2>2. WorkerType'
    BY <1>15 DEF EndPass, WorkerType, RingType
  <2>3. StartsNamed'
    BY <1>15 DEF EndPass, StartsNamed, SlotsNamed, WorkerType, SlotType,
        CallersNamed, CallerType, Here
  <2> QED BY <2>1, <2>2, <2>3 DEF TypeOK, Named
<1>16. CASE Poke(w)
  <2>1. (RingType /\ CallerType /\ StreamType /\ HistoryType
         /\ CallersNamed /\ SlotsNamed /\ DeviceNamed /\ ClaimsNamed)'
    BY <1>16 DEF Poke, RingType, CallerType, StreamType, HistoryType,
        CallersNamed, SlotsNamed, DeviceNamed, ClaimsNamed
  <2>2. SlotType'
    BY <1>16 DEF Poke, Poll, ErrAfterCallbacks, SlotType, DeviceType
  <2>3. WorkerType'
    BY <1>16 DEF Poke, Poll, ErrAfterCallbacks, WorkerType, RingType
  <2>4. DeviceType'
    BY <1>16 DEF Poke, Poll, ErrAfterCallbacks, DeviceType
  <2>5. StartsNamed'
    BY <1>16 DEF Poke, Poll, ErrAfterCallbacks, StartsNamed, SlotsNamed,
        WorkerType, SlotType, CallersNamed, CallerType, Here
  <2> QED BY <2>1, <2>2, <2>3, <2>4, <2>5 DEF TypeOK, Named
<1> QED BY <1>1, <1>2, <1>3, <1>4, <1>5, <1>6, <1>7, <1>8, <1>9, <1>10, <1>11, <1>12, <1>13, <1>14, <1>15, <1>16 DEF WorkerStep, WorkerGoesOn

\* Completions keep the types.
LEMMA DeviceTypes ==
  ASSUME TypeInv, NEW x \in Slots, DeviceStep(x)
  PROVE  TypeInv'
<1> USE HalfAssumption, EngineAssumption, WordClosed, SlotAtType, SmallWords,
        RouteType
    DEF TypeInv, TypeOK, Named, ringVars, slotVars, callVars, workerVars,
        devVars, gateVars, streamVars, tailVars, histVars
<1>1. CASE CompleteChunk(x)
  <2>1. (RingType /\ SlotType /\ CallerType /\ WorkerType /\ StreamType
         /\ CallersNamed /\ SlotsNamed /\ StartsNamed /\ ClaimsNamed)'
    BY <1>1 DEF CompleteChunk, RingType, SlotType, CallerType, WorkerType,
        StreamType, CallersNamed, SlotsNamed, StartsNamed, ClaimsNamed, Here
  <2>2. DeviceType'
    BY <1>1 DEF CompleteChunk, DeviceType
  <2>3. HistoryType'
    BY <1>1 DEF CompleteChunk, HistoryType, DeviceNamed, StartsNamed,
        SlotsNamed, SlotType, Here, WorkerType
  <2>4. DeviceNamed'
    BY <1>1 DEF CompleteChunk, DeviceNamed, DeviceType, SlotType, StartsNamed,
        CallersNamed, CallerType, Here, WorkerType
  <2> QED BY <2>1, <2>2, <2>3, <2>4 DEF TypeOK, Named
<1>2. CASE CompleteBounce(x)
  <2>1. (RingType /\ SlotType /\ CallerType /\ WorkerType
         /\ CallersNamed /\ SlotsNamed /\ StartsNamed /\ ClaimsNamed)'
    BY <1>2 DEF CompleteBounce, RingType, SlotType, CallerType, WorkerType,
        CallersNamed, SlotsNamed, StartsNamed, ClaimsNamed, Here
  <2>2. DeviceType'
    BY <1>2 DEF CompleteBounce, DeviceType
  <2>3. StreamType'
    <3>1. opOf[x] \in Ops \cup {NoOp}
      BY DEF SlotType
    <3> QED BY <1>2, <3>1 DEF CompleteBounce, StreamType
  <2>4. HistoryType'
    BY <1>2 DEF CompleteBounce, HistoryType, DeviceNamed, StartsNamed,
        SlotsNamed, SlotType, Here, WorkerType
  <2>5. DeviceNamed'
    BY <1>2 DEF CompleteBounce, DeviceNamed, DeviceType, SlotType,
        StartsNamed, CallersNamed, CallerType, Here, WorkerType
  <2> QED BY <2>1, <2>2, <2>3, <2>4, <2>5 DEF TypeOK, Named
<1> QED BY <1>1, <1>2 DEF DeviceStep

\* The streams' commands keep the types.
LEMMA StreamTypes ==
  ASSUME TypeInv, NEW s \in Streams, StreamStep(s)
  PROVE  TypeInv'
<1> USE HalfAssumption, EngineAssumption, WordClosed, SlotAtType, SmallWords,
        RouteType
    DEF TypeInv, TypeOK, Named, ringVars, slotVars, callVars, workerVars,
        devVars, gateVars, streamVars, tailVars, histVars
<1>1. CASE RunWrite(s)
  <2>1. (RingType /\ SlotType /\ CallerType /\ WorkerType /\ DeviceType
         /\ HistoryType /\ CallersNamed /\ SlotsNamed /\ StartsNamed /\ DeviceNamed /\ ClaimsNamed)'
    BY <1>1 DEF RunWrite, RingType, SlotType, CallerType, WorkerType,
        DeviceType, HistoryType, CallersNamed, SlotsNamed, StartsNamed,
        DeviceNamed, ClaimsNamed, Here
  <2>2. StreamType'
    <3>1. Command(s).v \in Word
      BY <1>1, CommandTyped DEF RunWrite, HasCommand, CommandType
    <3> QED BY <1>1, <3>1 DEF RunWrite, Step, StreamType
  <2> QED BY <2>1, <2>2 DEF TypeOK, Named
<1>2. CASE RunWait(s)
  <2>1. (RingType /\ SlotType /\ CallerType /\ WorkerType /\ DeviceType
         /\ HistoryType /\ CallersNamed /\ SlotsNamed /\ StartsNamed /\ DeviceNamed /\ ClaimsNamed)'
    BY <1>2 DEF RunWait, RingType, SlotType, CallerType, WorkerType,
        DeviceType, HistoryType, CallersNamed, SlotsNamed, StartsNamed,
        DeviceNamed, ClaimsNamed, Here
  <2>2. StreamType'
    BY <1>2 DEF RunWait, Step, StreamType, SlotType, CallerType, CallersNamed,
        StartsNamed, WorkerType, Here, NotParked
  <2> QED BY <2>1, <2>2 DEF TypeOK, Named
<1>3. CASE Park(s)
  <2>1. (RingType /\ SlotType /\ CallerType /\ WorkerType /\ DeviceType
         /\ HistoryType /\ CallersNamed /\ SlotsNamed /\ StartsNamed /\ DeviceNamed /\ ClaimsNamed)'
    BY <1>3 DEF Park, RingType, SlotType, CallerType, WorkerType, DeviceType,
        HistoryType, CallersNamed, SlotsNamed, StartsNamed, DeviceNamed,
        ClaimsNamed, Here
  <2>2. StreamType'
    <3>1. Command(s).x \in Slots
      BY <1>3, CommandTyped DEF Park, HasCommand, CommandType
    <3>2. seq[Command(s).x] \in Word
      BY <3>1 DEF SlotType
    <3> QED BY <1>3, <3>2 DEF Park, StreamType
  <2> QED BY <2>1, <2>2 DEF TypeOK, Named
<1>4. CASE Unpark(s)
  <2>1. (RingType /\ SlotType /\ CallerType /\ WorkerType /\ DeviceType
         /\ HistoryType /\ CallersNamed /\ SlotsNamed /\ StartsNamed /\ DeviceNamed /\ ClaimsNamed)'
    BY <1>4 DEF Unpark, RingType, SlotType, CallerType, WorkerType,
        DeviceType, HistoryType, CallersNamed, SlotsNamed, StartsNamed,
        DeviceNamed, ClaimsNamed, Here
  <2>2. StreamType'
    BY <1>4 DEF Unpark, Step, StreamType, SlotType, CallerType, CallersNamed,
        StartsNamed, WorkerType, Here, NotParked
  <2> QED BY <2>1, <2>2 DEF TypeOK, Named
<1>5. CASE RunCopy(s)
  <2>1. (RingType /\ SlotType /\ CallerType /\ WorkerType /\ DeviceType
         /\ CallersNamed /\ SlotsNamed /\ StartsNamed /\ DeviceNamed /\ ClaimsNamed)'
    BY <1>5 DEF RunCopy, RingType, SlotType, CallerType, WorkerType,
        DeviceType, CallersNamed, SlotsNamed, StartsNamed, DeviceNamed,
        ClaimsNamed, Here
  <2>2. StreamType'
    BY <1>5 DEF RunCopy, Step, StreamType, SlotType, CallerType, CallersNamed,
        StartsNamed, WorkerType, Here, NotParked
  <2>3. HistoryType'
    BY <1>5 DEF RunCopy, HistoryType, StreamType
  <2> QED BY <2>1, <2>2, <2>3 DEF TypeOK, Named
<1> QED BY <1>1, <1>2, <1>3, <1>4, <1>5 DEF StreamStep

\* Closing the driver and stuttering change nothing that types depend on.
LEMMA CloseTypes == ASSUME TypeInv, Close \/ UNCHANGED vars PROVE TypeInv'
<1> USE DEF TypeInv, TypeOK, Named, vars, ringVars, slotVars, callVars,
        workerVars, devVars, gateVars, streamVars, tailVars, histVars, Close
<1>1. (RingType /\ SlotType /\ CallerType)'
  BY DEF RingType, SlotType, CallerType
<1>2. (WorkerType /\ DeviceType /\ StreamType /\ HistoryType)'
  BY DEF WorkerType, DeviceType, StreamType, HistoryType
<1>3. Named'
  BY DEF CallersNamed, SlotsNamed, StartsNamed, DeviceNamed, ClaimsNamed, Here
<1> QED BY <1>1, <1>2, <1>3 DEF TypeOK, Named

\* Every step keeps every variable typed and every name in use bound.
LEMMA TypeNext == TypeInv /\ [Next]_vars => TypeInv'
  BY ThreadTypes, WorkerTypes, DeviceTypes, StreamTypes, CloseTypes DEF Next

\* In every behaviour of the engine every variable has its type: the ring
\* counters, sequence numbers and gate words stay uint32_t words across
\* their wrap, and submit_partial never writes past the bounces array.
THEOREM TypeCorrect == Spec => []TypeOK
<1>1. Init => TypeInv
  BY TypeInit
<1>2. TypeInv /\ [Next]_vars => TypeInv'
  BY TypeNext
<1>3. TypeInv => TypeOK
  BY DEF TypeInv
<1> QED BY <1>1, <1>2, <1>3, PTL DEF Spec
=============================================================================
