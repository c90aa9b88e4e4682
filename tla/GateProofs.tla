----------------------------- MODULE GateProofs -----------------------------
(***************************************************************************)
(* What becomes of an operation, and how the gate word orders it against   *)
(* its stream, for every number of threads, workers, slots and streams,    *)
(* every word size and both kinds of gate.                                 *)
(***************************************************************************)
EXTENDS RingProofs

(***************************************************************************)
(* Operations.  An operation belongs to one caller until it is published,  *)
(* then to one slot until it is settled.                                   *)
(***************************************************************************)
InClaim(t) == pc[t] \in {"gate", "wait", "publish"}

\* Operation numbers not yet used have left no trace.
OpsUsed ==
  /\ \A t \in Threads : pc[t] # "idle" => curOp[t] < nextOp
  /\ \A x \in Slots : opOf[x] < nextOp
  /\ \A o \in Ops : o >= nextOp => /\ ret[o] = "none" /\ result[o] = "none"
                                   /\ o \notin failed

OwnOps ==
  \A t, u \in Threads :
    pc[t] # "idle" /\ pc[u] # "idle" /\ curOp[t] = curOp[u] => t = u

\* Before it is published an operation is in no slot in use.
Unpublished ==
  \A t \in Threads : pc[t] = "claim" \/ InClaim(t) =>
    /\ ret[curOp[t]] = "none" /\ result[curOp[t]] = "none"
    /\ curOp[t] \notin failed
    /\ \A x \in Slots : state[x] # "FREE" => opOf[x] # curOp[t]

\* What a thread that holds submit_lock has filled its slot with.
ClaimFilled ==
  \A t \in Threads :
    /\ InClaim(t) => opOf[curSlot[t]] = curOp[t]
    /\ InClaim(t) \/ pc[t] = "copy" => call[curOp[t]].mode = "stream"
    /\ pc[t] \in {"wait", "copy"} => ~AlignedOnly

\* err and the completions not yet polled tell whether something failed.
ErrorsKept ==
  \A x \in Slots :
    /\ cqErr[x] => cqC[x] > 0 \/ cqB[x] > 0
    /\ state[x] = "IN_FLIGHT" => (err[x] \/ cqErr[x] <=> opOf[x] \in failed)
    /\ state[x] = "PENDING" => opOf[x] \notin failed

OpInv == OpsUsed /\ OwnOps /\ Unpublished /\ ClaimFilled /\ ErrorsKept
           /\ OneSlotPerOp /\ ResultHonest

\* The types of what the invariants are about.
LEMMA OpTypes ==
  ASSUME TypeInv
  PROVE  /\ pc \in [Threads -> {"idle", "claim", "gate", "wait", "publish",
                                "copy", "await"}]
         /\ curOp \in [Threads -> Ops \cup {NoOp}]
         /\ curSlot \in [Threads -> Slots]
         /\ nextOp \in Nat /\ Ops \subseteq Nat /\ NoOp \in Nat /\ NoOp \notin Ops
         /\ call \in [Ops -> Call]
         /\ ret \in [Ops -> {"none", "ok", "failed"}]
         /\ result \in [Ops -> {"none", "ok", "err"}]
         /\ opOf \in [Slots -> Ops \cup {NoOp}]
         /\ state \in [Slots -> {"FREE", "PENDING", "IN_FLIGHT"}]
         /\ err \in [Slots -> BOOLEAN] /\ cqErr \in [Slots -> BOOLEAN]
         /\ cqC \in [Slots -> Nat] /\ cqB \in [Slots -> Nat]
         /\ failed \subseteq Ops
         /\ \A t \in Threads : pc[t] # "idle" => curOp[t] \in Ops
         /\ \A x \in Slots : state[x] # "FREE" => opOf[x] \in Ops
         /\ rr \in Workers /\ head \in [Workers -> Word]
         /\ lock \in Threads \cup {NoThread} /\ NoThread \notin Threads
  BY EngineAssumption
     DEF TypeInv, TypeOK, Named, RingType, SlotType, CallerType, DeviceType,
         HistoryType, CallersNamed, SlotsNamed, Ops, NoOp

\* Before anything is submitted.
LEMMA OpInit == Init => OpInv
<1> SUFFICES ASSUME Init PROVE OpInv
  OBVIOUS
<1>1. Ops \subseteq Nat /\ NoOp = 0
  BY DEF Ops, NoOp
<1> QED BY <1>1 DEF Init, OpInv, OpsUsed, OwnOps, Unpublished, InClaim, ClaimFilled,
         ErrorsKept, OneSlotPerOp, Published, ResultHonest

opSeen == <<pc, curOp, curSlot, nextOp, call, ret, result, opOf, state, err,
            cqErr, cqC, cqB, failed>>

\* Steps that touch no operation.
LEMMA OpQuiet == ASSUME OpInv, UNCHANGED opSeen PROVE OpInv'
  BY DEF opSeen, OpInv, OpsUsed, OwnOps, Unpublished, InClaim, ClaimFilled,
         ErrorsKept, OneSlotPerOp, Published, ResultHonest

\* A command, a submission or a poll of the slot's read goes wrong, or right.
LEMMA OpErrors ==
  ASSUME OpInv, TypeInv, ErrorsKept',
         \/ failed' = failed
         \/ \E x \in Slots : state[x] = "IN_FLIGHT"
                               /\ failed' = failed \cup {opOf[x]},
         UNCHANGED <<pc, curOp, curSlot, nextOp, call, ret, result, opOf, state>>
  PROVE  OpInv'
<1> USE OpTypes
<1>1. OwnOps' /\ ClaimFilled' /\ OneSlotPerOp'
  BY DEF OpInv, OwnOps, ClaimFilled, InClaim, OneSlotPerOp, Published
<1>2. OpsUsed'
  BY DEF OpInv, OpsUsed
<1>3. Unpublished'
  BY DEF OpInv, Unpublished, InClaim
<1>4. ResultHonest'
  BY DEF OpInv, ResultHonest, OneSlotPerOp
<1> QED BY <1>1, <1>2, <1>3, <1>4 DEF OpInv

\* An operation is settled: its result is reported and its slot freed.
LEMMA OpSettled ==
  ASSUME OpInv, TypeInv, NEW x \in Slots, state[x] # "FREE",
         NEW r \in {"ok", "err"}, result' = [result EXCEPT ![opOf[x]] = r],
         failed' = failed \/ failed' = failed \cup {opOf[x]},
         r = "ok" <=> opOf[x] \notin failed',
         state' = [state EXCEPT ![x] = "FREE"],
         UNCHANGED <<pc, curOp, curSlot, nextOp, call, ret, opOf, err, cqErr, cqC,
                     cqB>>
  PROVE  OpInv'
<1> DEFINE o == opOf[x]
<1> USE OpTypes
<1>1. /\ o \in Ops /\ o < nextOp /\ state'[x] = "FREE" /\ result'[o] = r
      /\ \A y \in Slots : y # x => state'[y] = state[y]
      /\ \A p \in Ops : p # o => result'[p] = result[p]
      /\ \A p \in Ops : p # o => (p \in failed' <=> p \in failed)
  BY DEF OpInv, OpsUsed
<1>2. \A y \in Slots : y # x /\ state[y] # "FREE" => opOf[y] # o
  BY DEF OpInv, OneSlotPerOp
<1> HIDE DEF o
<1>3. OwnOps' /\ ClaimFilled'
  BY DEF OpInv, OwnOps, ClaimFilled, InClaim
<1>4. OpsUsed'
  BY <1>1 DEF OpInv, OpsUsed
<1>5. Unpublished'
  <2> SUFFICES ASSUME NEW t \in Threads, pc[t] = "claim" \/ InClaim(t)
               PROVE /\ ret[curOp[t]] = "none" /\ result'[curOp[t]] = "none"
                     /\ curOp[t] \notin failed'
                     /\ \A y \in Slots : state'[y] # "FREE" => opOf[y] # curOp[t]
    BY DEF Unpublished, InClaim
  <2>1. curOp[t] \in Ops /\ curOp[t] # o
    BY DEF OpInv, Unpublished, InClaim, o
  <2> QED BY <1>1, <2>1 DEF OpInv, Unpublished
<1>6. ErrorsKept'
  BY <1>1, <1>2 DEF OpInv, ErrorsKept
<1>7. OneSlotPerOp'
  BY <1>1, <1>2 DEF OpInv, OneSlotPerOp, Published
<1>8. ResultHonest'
  BY <1>1 DEF OpInv, ResultHonest, o
<1> QED BY <1>3, <1>4, <1>5, <1>6, <1>7, <1>8 DEF OpInv

\* A thread enters a call with an operation number nobody has used.
LEMMA OpStart ==
  ASSUME OpInv, TypeInv, NEW t \in Threads, StartCall(t)
  PROVE  OpInv'
<1> USE OpTypes
<1>1. /\ pc[t] = "idle" /\ nextOp \in Ops /\ nextOp' = nextOp + 1
      /\ call' \in [Ops -> Call]
      /\ \A p \in Ops : p # nextOp => call'[p] = call[p]
      /\ curOp' = [curOp EXCEPT ![t] = nextOp]
      /\ pc' = [pc EXCEPT ![t] = "claim"]
      /\ UNCHANGED <<curSlot, ret, result, opOf, state, err, cqErr, cqC, cqB, failed>>
  <2>1. \A c \in CallsOf[t] : c \in Call
    BY EngineAssumption
  <2>2. nextOp \in Ops
    BY DEF StartCall, Ops, TypeInv, TypeOK, CallerType
  <2> QED BY <2>1, <2>2 DEF StartCall, ringVars, slotVars, devVars, histVars
<1>2. /\ curOp'[t] = nextOp /\ pc'[t] = "claim"
      /\ \A u \in Threads : u # t => curOp'[u] = curOp[u] /\ pc'[u] = pc[u]
  BY <1>1
<1>3. OpsUsed'
  <2>1. \A u \in Threads : pc'[u] # "idle" => curOp'[u] < nextOp'
    BY <1>1, <1>2 DEF OpInv, OpsUsed
  <2> QED BY <1>1, <2>1 DEF OpInv, OpsUsed
<1>4. OwnOps'
  <2>1. \A u \in Threads : u # t /\ pc[u] # "idle" => curOp[u] # nextOp
    BY DEF OpInv, OpsUsed
  <2> QED BY <1>2, <2>1 DEF OpInv, OwnOps
<1>5. Unpublished'
  <2>1. /\ ret[nextOp] = "none" /\ result[nextOp] = "none" /\ nextOp \notin failed
        /\ \A x \in Slots : opOf[x] # nextOp
    BY <1>1 DEF OpInv, OpsUsed
  <2> QED BY <1>1, <1>2, <2>1 DEF OpInv, Unpublished, InClaim
<1>6. ClaimFilled'
  <2>1. \A u \in Threads : u # t /\ pc[u] # "idle" =>
          call'[curOp[u]] = call[curOp[u]]
    BY <1>1 DEF OpInv, OpsUsed
  <2>2. \A u \in Threads : InClaim(u)' <=> u # t /\ InClaim(u)
    BY <1>1, <1>2 DEF InClaim
  <2> QED BY <1>1, <1>2, <2>1, <2>2 DEF OpInv, ClaimFilled, InClaim
<1>7. ErrorsKept' /\ ResultHonest'
  BY <1>1 DEF OpInv, ErrorsKept, ResultHonest
<1>8. OneSlotPerOp'
  <2>1. \A o \in Ops : Published(o)' => Published(o)
    BY <1>1, <1>2 DEF Published
  <2> QED BY <1>1, <2>1 DEF OpInv, OneSlotPerOp
<1> QED BY <1>3, <1>4, <1>5, <1>6, <1>7, <1>8 DEF OpInv

\* A stream operation fills the free slot at the head.
LEMMA OpClaim ==
  ASSUME OpInv, RingInv, TypeInv, NEW t \in Threads, ClaimStream(t)
  PROVE  OpInv'
<1> DEFINE x == SlotAt(rr, head[rr])
           o == curOp[t]
<1> USE OpTypes
<1>1. /\ pc[t] = "claim" /\ lock = NoThread /\ HasRoom(rr)
      /\ call[o].mode = "stream"
      /\ opOf' = [opOf EXCEPT ![x] = o]
      /\ curSlot' = [curSlot EXCEPT ![t] = x]
      /\ pc' = [pc EXCEPT ![t] = "gate"]
      /\ UNCHANGED <<curOp, nextOp, call, ret, result, state, err, cqErr, cqC, cqB,
                     failed>>
  BY DEF ClaimStream, devVars, histVars
<1>2. x \in Slots /\ state[x] = "FREE" /\ o \in Ops
  BY <1>1, SlotAtType, HeadFree DEF RingInv
<1> HIDE DEF x
<1>3. /\ pc'[t] = "gate" /\ curSlot'[t] = x /\ opOf'[x] = o
      /\ \A u \in Threads : u # t => pc'[u] = pc[u]
      /\ \A y \in Slots : y # x => opOf'[y] = opOf[y]
  BY <1>1, <1>2
<1>4. \A u \in Threads : ~InClaim(u) /\ (InClaim(u)' <=> u = t)
  BY <1>1, <1>3 DEF RingInv, Claimed, InClaim
<1>5. o < nextOp
  BY <1>1 DEF OpInv, OpsUsed
<1>6. OpsUsed'
  BY <1>1, <1>3, <1>5 DEF OpInv, OpsUsed
<1>7. OwnOps'
  BY <1>1, <1>3 DEF OpInv, OwnOps
<1>8. Unpublished'
  BY <1>1, <1>2, <1>3, <1>4 DEF OpInv, Unpublished
<1>9. ClaimFilled'
  BY <1>1, <1>3, <1>4 DEF OpInv, ClaimFilled
<1>10. ErrorsKept' /\ ResultHonest'
  BY <1>1, <1>2, <1>3 DEF OpInv, ErrorsKept, ResultHonest
<1>11. OneSlotPerOp'
  <2>1. \A p \in Ops : Published(p)' => Published(p)
    BY <1>1, <1>3 DEF Published
  <2> QED BY <1>1, <1>2, <1>3, <2>1 DEF OpInv, OneSlotPerOp
<1> QED BY <1>6, <1>7, <1>8, <1>9, <1>10, <1>11 DEF OpInv

\* An operation is published in a slot that was free.
LEMMA OpPublish ==
  ASSUME OpInv, RingInv, TypeInv, NEW t \in Threads, NEW x \in Slots,
         state[x] = "FREE", pc[t] = "claim" \/ InClaim(t),
         opOf' = [opOf EXCEPT ![x] = curOp[t]],
         state' = [state EXCEPT ![x] = "PENDING"],
         pc'[t] = "copy" => call[curOp[t]].mode = "stream" /\ ~AlignedOnly,
         NEW q \in {"copy", "await", "idle"}, pc' = [pc EXCEPT ![t] = q],
         \/ q = "copy" /\ ret' = ret
         \/ q # "copy" /\ ret' = [ret EXCEPT ![curOp[t]] = "ok"],
         \A u \in Threads : u # t => ~InClaim(u) /\ curSlot'[u] = curSlot[u],
         UNCHANGED <<curOp, nextOp, call, result, err, cqErr, cqC, cqB, failed>>
  PROVE  OpInv'
<1> DEFINE o == curOp[t]
<1> USE OpTypes
<1>1. o \in Ops /\ o < nextOp
  BY DEF OpInv, OpsUsed, InClaim
<1>2. /\ pc'[t] = q /\ opOf'[x] = o /\ state'[x] = "PENDING"
      /\ \A u \in Threads : u # t => pc'[u] = pc[u]
      /\ \A y \in Slots : y # x => opOf'[y] = opOf[y] /\ state'[y] = state[y]
      /\ \A p \in Ops : p # o => ret'[p] = ret[p]
  OBVIOUS
<1>3. /\ result[o] = "none" /\ o \notin failed
      /\ \A y \in Slots : state[y] # "FREE" => opOf[y] # o
  BY DEF OpInv, Unpublished
<1>4. \A u \in Threads : ~InClaim(u)'
  BY <1>2 DEF InClaim
<1>5. \A u \in Threads : u # t /\ pc[u] # "idle" => curOp[u] # o /\ curOp[u] \in Ops
  BY DEF OpInv, OwnOps, InClaim
<1>6. OpsUsed'
  BY <1>1, <1>2 DEF OpInv, OpsUsed
<1>7. OwnOps'
  BY <1>2, <1>5 DEF OpInv, OwnOps
<1>8. Unpublished'
  <2> SUFFICES ASSUME NEW u \in Threads, pc'[u] = "claim"
               PROVE /\ ret'[curOp[u]] = "none" /\ result[curOp[u]] = "none"
                     /\ curOp[u] \notin failed
                     /\ \A y \in Slots : state'[y] # "FREE" => opOf'[y] # curOp[u]
    BY <1>4 DEF Unpublished
  <2>1. u # t /\ pc[u] = "claim" /\ curOp[u] # o /\ curOp[u] \in Ops
    BY <1>2, <1>5
  <2> QED BY <1>2, <2>1 DEF OpInv, Unpublished
<1>9. ClaimFilled'
  BY <1>2, <1>4 DEF OpInv, ClaimFilled
<1>10. ErrorsKept' /\ ResultHonest'
  BY <1>2, <1>3 DEF OpInv, ErrorsKept, ResultHonest
<1>11. OneSlotPerOp'
  <2>1. \A p \in Ops : Published(p)' => Published(p) \/ p = o
    BY <1>1, <1>2 DEF Published
  <2>2. ASSUME NEW p \in Ops, Published(p)', result[p] = "none"
        PROVE  \E y \in Slots : state'[y] # "FREE" /\ opOf'[y] = p
    <3>1. CASE p = o
      BY <1>2, <3>1
    <3>2. CASE Published(p)
      <4>1. PICK y \in Slots : state[y] # "FREE" /\ opOf[y] = p
        BY <2>2, <3>2 DEF OpInv, OneSlotPerOp
      <4> QED BY <1>2, <4>1
    <3> QED BY <2>1, <2>2, <3>1, <3>2
  <2>3. \A y \in Slots : state'[y] # "FREE" => result[opOf'[y]] = "none"
    BY <1>2, <1>3 DEF OpInv, OneSlotPerOp
  <2>4. \A y, z \in Slots : state'[y] # "FREE" /\ state'[z] # "FREE"
                              /\ opOf'[y] = opOf'[z] => y = z
    BY <1>2, <1>3 DEF OpInv, OneSlotPerOp
  <2> QED BY <2>2, <2>3, <2>4 DEF OneSlotPerOp
<1> QED BY <1>6, <1>7, <1>8, <1>9, <1>10, <1>11 DEF OpInv

\* The rest of a call: enqueues, failures and returns.
LEMMA OpReturns ==
  ASSUME OpInv, RingInv, TypeInv, NEW t \in Threads, pc[t] # "idle",
         NEW q \in {"wait", "publish", "idle"}, pc' = [pc EXCEPT ![t] = q],
         q # "idle" => pc[t] \in {"gate", "wait"},
         q = "wait" => ~AlignedOnly,
         \/ ret' = ret /\ pc[t] # "copy"
         \/ /\ q = "idle" /\ pc[t] \in {"gate", "wait"}
            /\ ret' = [ret EXCEPT ![curOp[t]] = "failed"]
         \/ /\ q = "idle" /\ pc[t] = "copy"
            /\ ret' = [ret EXCEPT ![curOp[t]] = "ok"]
                 \/ ret' = [ret EXCEPT ![curOp[t]] = "failed"],
         UNCHANGED <<curOp, curSlot, nextOp, call, result, opOf, state, err,
                     cqErr, cqC, cqB, failed>>
  PROVE  OpInv'
<1> DEFINE o == curOp[t]
<1> USE OpTypes
<1>1. o \in Ops /\ o < nextOp
  BY DEF OpInv, OpsUsed
<1>2. /\ pc'[t] = q
      /\ \A u \in Threads : u # t => pc'[u] = pc[u]
      /\ \A p \in Ops : p # o => ret'[p] = ret[p]
  OBVIOUS
<1>3. \A u \in Threads : u # t /\ pc[u] # "idle" => curOp[u] # o /\ curOp[u] \in Ops
  BY DEF OpInv, OwnOps
<1>4. \A u \in Threads : pc'[u] = "claim" \/ InClaim(u)' => 
                           (pc[u] = "claim" \/ InClaim(u)) /\ (InClaim(u)' => InClaim(u))
  BY <1>2 DEF InClaim
<1>5. OpsUsed' /\ OwnOps'
  BY <1>1, <1>2 DEF OpInv, OpsUsed, OwnOps
<1>6. Unpublished'
  <2> SUFFICES ASSUME NEW u \in Threads, pc'[u] = "claim" \/ InClaim(u)'
               PROVE /\ ret'[curOp[u]] = "none" /\ result[curOp[u]] = "none"
                     /\ curOp[u] \notin failed
                     /\ \A y \in Slots : state[y] # "FREE" => opOf[y] # curOp[u]
    BY DEF Unpublished
  <2>1. CASE u = t
    BY <1>2, <1>4, <2>1 DEF OpInv, Unpublished, InClaim
  <2>2. CASE u # t
    BY <1>2, <1>3, <1>4, <2>2 DEF OpInv, Unpublished, InClaim
  <2> QED BY <2>1, <2>2
<1>7. ClaimFilled'
  BY <1>2, <1>4 DEF OpInv, ClaimFilled
<1>8. ErrorsKept' /\ ResultHonest'
  BY DEF OpInv, ErrorsKept, ResultHonest
<1>9. OneSlotPerOp'
  <2>1. \A p \in Ops : Published(p)' => Published(p)
    BY <1>1, <1>2 DEF Published
  <2> QED BY <2>1 DEF OpInv, OneSlotPerOp
<1> QED BY <1>5, <1>6, <1>7, <1>8, <1>9 DEF OpInv

\* The submit functions keep the operations in order.
LEMMA OpThreads ==
  ASSUME OpInv, RingInv, TypeInv, NEW t \in Threads, StartCall(t) \/ ThreadStep(t)
  PROVE  OpInv'
<1> USE OpTypes DEF ringVars, slotVars, callVars, devVars, histVars
<1>1. CASE ClaimFull(t)
  BY <1>1, OpQuiet DEF ClaimFull, opSeen
<1>2. CASE ClaimAsync(t)
  <2> DEFINE x == SlotAt(rr, head[rr])
             q == IF call[curOp[t]].mode = "sync" THEN "await" ELSE "idle"
  <2>1. /\ pc[t] = "claim" /\ lock = NoThread /\ HasRoom(rr)
        /\ opOf' = [opOf EXCEPT ![x] = curOp[t]]
        /\ state' = [state EXCEPT ![x] = "PENDING"]
        /\ ret' = [ret EXCEPT ![curOp[t]] = "ok"]
        /\ pc' = [pc EXCEPT ![t] = q]
        /\ curSlot' = [curSlot EXCEPT ![t] = x]
        /\ UNCHANGED <<curOp, nextOp, call, result, err, cqErr, cqC, cqB, failed>>
    BY <1>2 DEF ClaimAsync
  <2>2. x \in Slots /\ state[x] = "FREE"
    BY <2>1, SlotAtType, HeadFree DEF RingInv
  <2>3. q \in {"copy", "await", "idle"} /\ q # "copy" /\ pc'[t] = q
    BY <2>1
  <2>4. \A u \in Threads : u # t => ~InClaim(u) /\ curSlot'[u] = curSlot[u]
    BY <2>1 DEF RingInv, Claimed, InClaim
  <2> HIDE DEF x, q
  <2> QED BY <2>1, <2>2, <2>3, <2>4, OpPublish
<1>3. CASE Publish(t)
  <2> DEFINE x == curSlot[t]
             copies == ~AlignedOnly /\ ~call[curOp[t]].wr
             q == IF copies THEN "copy" ELSE "idle"
  <2>1. /\ pc[t] = "publish" /\ InClaim(t)
        /\ state' = [state EXCEPT ![x] = "PENDING"]
        /\ pc' = [pc EXCEPT ![t] = q]
        /\ ret' = IF copies THEN ret ELSE [ret EXCEPT ![curOp[t]] = "ok"]
        /\ UNCHANGED <<opOf, curOp, curSlot, nextOp, call, result, err, cqErr,
                       cqC, cqB, failed>>
    BY <1>3 DEF Publish, InClaim
  <2>2. x \in Slots /\ state[x] = "FREE" /\ lock = t
    <3>1. x = SlotAt(x[1], head[x[1]]) /\ HasRoom(x[1]) /\ lock = t
      BY <2>1 DEF RingInv, Claimed
    <3>2. x \in Slots /\ x[1] \in Workers
      BY RingTypes
    <3>3. state[SlotAt(x[1], head[x[1]])] = "FREE"
      BY <3>1, <3>2, HeadFree DEF RingInv
    <3> QED BY <3>1, <3>2, <3>3
  <2>3. q \in {"copy", "await", "idle"} /\ pc'[t] = q
        /\ (q = "copy" => ~AlignedOnly /\ copies) /\ (q # "copy" => ~copies)
    BY <2>1
  <2>4. \A u \in Threads : u # t => ~InClaim(u)
    BY <2>2 DEF RingInv, Claimed, InClaim
  <2>5. opOf' = [opOf EXCEPT ![x] = curOp[t]] /\ call[curOp[t]].mode = "stream"
    BY <2>1, <2>2 DEF OpInv, ClaimFilled
  <2>6. \/ q = "copy" /\ ret' = ret
        \/ q # "copy" /\ ret' = [ret EXCEPT ![curOp[t]] = "ok"]
    BY <2>1
  <2>7. \A u \in Threads : u # t => ~InClaim(u) /\ curSlot'[u] = curSlot[u]
    BY <2>1, <2>4
  <2> HIDE DEF x, q, copies
  <2> QED BY <2>1, <2>2, <2>3, <2>5, <2>6, <2>7, OpPublish
<1>4. CASE AwaitReturns(t)
  BY <1>4, OpReturns DEF AwaitReturns
<1>5. CASE EnqueueGate(t)
  BY <1>5, OpReturns DEF EnqueueGate
<1>6. CASE EnqueueWait(t)
  BY <1>6, OpReturns DEF EnqueueWait
<1>7. CASE GateFails(t)
  BY <1>7, OpReturns DEF GateFails
<1>8. CASE EnqueueCopy(t)
  BY <1>8, OpReturns DEF EnqueueCopy
<1>9. CASE CopyFails(t)
  BY <1>9, OpReturns DEF CopyFails
<1> QED BY <1>1, <1>2, <1>3, <1>4, <1>5, <1>6, <1>7, <1>8, <1>9, OpStart, OpClaim
        DEF ThreadStep, ThreadGoesOn

\* The I/O threads keep the operations in order.
LEMMA OpWorkers ==
  ASSUME OpInv, RingInv, TypeInv, NEW w \in Workers, WorkerStep(w)
  PROVE  OpInv'
<1> USE OpTypes, RingTypes DEF ringVars, slotVars, callVars, devVars, histVars
<1> DEFINE x == Here(w)
<1>0. x \in Slots /\ x[1] = w
  OBVIOUS
<1>1. CASE \/ BeginPass(w) \/ PassSlot(w) \/ LeaveGated(w) \/ IssueChunk(w)
           \/ StartDone(w) \/ DispatchWrite(w) \/ Drain(w) \/ EndPass(w)
  BY <1>1, OpQuiet DEF BeginPass, PassSlot, LeaveGated, IssueChunk, StartDone,
                       DispatchWrite, Drain, EndPass, opSeen
<1>2. CASE IssueBounce(w)
  BY <1>2, OpQuiet DEF IssueBounce, opSeen
<1>3. CASE DispatchRead(w)
  <2>1. /\ state[x] = "PENDING"
        /\ state' = [state EXCEPT ![x] = "IN_FLIGHT"]
        /\ err' = [err EXCEPT ![x] = FALSE]
        /\ UNCHANGED <<pc, curOp, curSlot, nextOp, call, ret, result, opOf, cqErr,
                       cqC, cqB, failed>>
    BY <1>3 DEF DispatchRead, Scanning
  <2>2. ~cqErr[x]
    <3>1. cqC[x] = 0 /\ cqB[x] = 0
      BY <1>0, <2>1 DEF RingInv, CommandsAccounted, NoCommands
    <3> QED BY <1>0, <3>1 DEF OpInv, ErrorsKept
  <2> HIDE DEF x
  <2>3. \A y \in Slots : state'[y] # "FREE" <=> state[y] # "FREE"
    BY <1>0, <2>1
  <2>4. OwnOps' /\ ClaimFilled' /\ OpsUsed' /\ ResultHonest'
    BY <2>1 DEF OpInv, OwnOps, ClaimFilled, InClaim, OpsUsed, ResultHonest
  <2>5. Unpublished'
    BY <2>1, <2>3 DEF OpInv, Unpublished, InClaim
  <2>6. OneSlotPerOp'
    <3>1. \A p \in Ops : Published(p)' <=> Published(p)
      BY <2>1 DEF Published
    <3> QED BY <2>1, <2>3, <3>1 DEF OpInv, OneSlotPerOp
  <2>7. ErrorsKept'
    <3>1. ~err'[x] /\ state'[x] = "IN_FLIGHT" /\ opOf[x] \notin failed
      BY <1>0, <2>1 DEF OpInv, ErrorsKept
    <3>2. \A y \in Slots : y # x => err'[y] = err[y] /\ state'[y] = state[y]
      BY <1>0, <2>1
    <3> QED BY <2>1, <2>2, <3>1, <3>2 DEF OpInv, ErrorsKept
  <2> QED BY <2>4, <2>5, <2>6, <2>7 DEF OpInv
<1>4. CASE StartFails(w)
  <2>1. /\ state[x] = "IN_FLIGHT" /\ failed' = failed \cup {opOf[x]}
        /\ err' = [err EXCEPT ![x] = TRUE]
        /\ UNCHANGED <<pc, curOp, curSlot, nextOp, call, ret, result, opOf, state,
                       cqErr, cqC, cqB>>
    BY <1>4 DEF StartFails, RingInv, Working
  <2> HIDE DEF x
  <2>2. err'[x] /\ \A y \in Slots : y # x => err'[y] = err[y]
    BY <1>0, <2>1
  <2>3. \A y \in Slots : y # x /\ state[y] # "FREE" => opOf[y] # opOf[x]
    BY <1>0, <2>1 DEF OpInv, OneSlotPerOp
  <2>4. ErrorsKept'
    BY <1>0, <2>1, <2>2, <2>3 DEF OpInv, ErrorsKept
  <2> QED BY <1>0, <2>1, <2>4, OpErrors
<1>5. CASE PokeWhileStarting(w) \/ Poke(w)
  <2>1. /\ Poll(w)
        /\ UNCHANGED <<pc, curOp, curSlot, nextOp, call, ret, result, opOf, state,
                       failed>>
    BY <1>5 DEF PokeWhileStarting, Poke
  <2>2. \A y \in Slots : /\ y[1] = w => ~cqErr'[y] /\ (err'[y] <=> err[y] \/ cqErr[y])
                         /\ y[1] # w => /\ cqErr'[y] = cqErr[y] /\ err'[y] = err[y]
                                        /\ cqC'[y] = cqC[y] /\ cqB'[y] = cqB[y]
    BY <2>1 DEF Poll, ErrAfterCallbacks
  <2>3. ErrorsKept'
    BY <2>1, <2>2 DEF OpInv, ErrorsKept
  <2> QED BY <2>1, <2>3, OpErrors
<1>6. CASE FinishWrite(w)
  <2>1. PICK r \in {"ok", "err"} :
          /\ result' = [result EXCEPT ![opOf[x]] = r]
          /\ failed' = IF r = "err" THEN failed \cup {opOf[x]} ELSE failed
    BY <1>6 DEF FinishWrite
  <2>2. /\ state[x] = "PENDING" /\ state' = [state EXCEPT ![x] = "FREE"]
        /\ UNCHANGED <<pc, curOp, curSlot, nextOp, call, ret, opOf, err, cqErr,
                       cqC, cqB>>
    BY <1>6 DEF FinishWrite, FreeSlot, RingInv, Working
  <2> HIDE DEF x
  <2>3. opOf[x] \notin failed
    BY <1>0, <2>2 DEF OpInv, ErrorsKept
  <2> QED BY <1>0, <2>1, <2>2, <2>3, OpSettled
<1>7. CASE CompleteStreamRead(w) \/ CompleteAsyncRead(w)
  <2>1. /\ state[x] = "IN_FLIGHT" /\ AllReaped(x)
        /\ state' = [state EXCEPT ![x] = "FREE"]
        /\ UNCHANGED <<pc, curOp, curSlot, nextOp, call, ret, opOf, err, cqErr,
                       cqC, cqB>>
    BY <1>7 DEF CompleteStreamRead, CompleteAsyncRead, FreeSlot, Scanning
  <2>2. PICK copied \in BOOLEAN :
          /\ ~copied => ~err[x]
          /\ result' = [result EXCEPT ![opOf[x]] = IF err[x] \/ ~copied THEN "err"
                                                                       ELSE "ok"]
          /\ failed' = IF copied THEN failed ELSE failed \cup {opOf[x]}
    <3>1. CASE CompleteStreamRead(w)
      <4>1. /\ result' = [result EXCEPT ![opOf[x]] = IF err[x] THEN "err" ELSE "ok"]
            /\ failed' = failed
        BY <3>1 DEF CompleteStreamRead
      <4> QED BY <4>1
    <3>2. CASE CompleteAsyncRead(w)
      <4>1. PICK c \in IF nb[x] > 0 /\ ~err[x] THEN BOOLEAN ELSE {TRUE} :
              /\ result' = [result EXCEPT ![opOf[x]] =
                              IF err[x] \/ ~c THEN "err" ELSE "ok"]
              /\ failed' = IF c THEN failed ELSE failed \cup {opOf[x]}
        BY <3>2 DEF CompleteAsyncRead
      <4>2. c \in BOOLEAN /\ (~c => ~err[x])
        OBVIOUS
      <4> HIDE DEF x
      <4> QED BY <4>1, <4>2
    <3> QED BY <1>7, <3>1, <3>2
  <2> HIDE DEF x
  <2>3. ~cqErr[x]
    BY <1>0, <2>1 DEF RingInv, CommandsAccounted, AllReaped, OpInv, ErrorsKept
  <2>4. err[x] <=> opOf[x] \in failed
    BY <1>0, <2>1, <2>3 DEF OpInv, ErrorsKept
  <2> DEFINE r == IF err[x] \/ ~copied THEN "err" ELSE "ok"
  <2>5. r \in {"ok", "err"} /\ (r = "ok" <=> opOf[x] \notin failed')
        /\ (failed' = failed \/ failed' = failed \cup {opOf[x]})
    BY <2>2, <2>4
  <2>6. result' = [result EXCEPT ![opOf[x]] = r] /\ state[x] # "FREE"
    BY <2>1, <2>2
  <2> HIDE DEF r
  <2> QED BY <1>0, <2>1, <2>5, <2>6, OpSettled
<1> QED BY <1>1, <1>2, <1>3, <1>4, <1>5, <1>6, <1>7 DEF WorkerStep, WorkerGoesOn

\* The device reports errors of operations in flight only.
LEMMA OpDevice ==
  ASSUME OpInv, RingInv, TypeInv, NEW x \in Slots, DeviceStep(x)
  PROVE  OpInv'
<1> USE OpTypes, RingTypes DEF ringVars, slotVars, callVars, devVars, histVars
<1>1. PICK ok \in BOOLEAN :
        /\ cqErr' = [cqErr EXCEPT ![x] = @ \/ ~ok]
        /\ failed' = IF ok THEN failed ELSE failed \cup {opOf[x]}
  BY DEF DeviceStep, CompleteChunk, CompleteBounce
<1>2. /\ devC[x] > 0 \/ devB[x] > 0
      /\ UNCHANGED <<pc, curOp, curSlot, nextOp, call, ret, result, opOf, state,
                     err>>
      /\ \/ cqC' = [cqC EXCEPT ![x] = @ + 1] /\ cqB' = cqB
         \/ cqB' = [cqB EXCEPT ![x] = @ + 1] /\ cqC' = cqC
  BY DEF DeviceStep, CompleteChunk, CompleteBounce
<1>3. state[x] = "IN_FLIGHT"
  BY <1>2 DEF RingInv, CommandsAccounted, NoCommands
<1>4. /\ cqErr'[x] <=> cqErr[x] \/ ~ok
      /\ cqC'[x] > 0 \/ cqB'[x] > 0
      /\ \A y \in Slots : y # x => /\ cqErr'[y] = cqErr[y] /\ cqC'[y] = cqC[y]
                                   /\ cqB'[y] = cqB[y]
  <2>1. cqErr'[x] = (cqErr[x] \/ ~ok)
    BY <1>1, Zenon
  <2>2. cqC'[x] > 0 \/ cqB'[x] > 0
    BY <1>2
  <2>3. \A y \in Slots : y # x => /\ cqErr'[y] = cqErr[y] /\ cqC'[y] = cqC[y]
                                  /\ cqB'[y] = cqB[y]
    BY <1>1, <1>2
  <2> QED BY <2>1, <2>2, <2>3
<1>5. \A y \in Slots : y # x /\ state[y] # "FREE" => opOf[y] # opOf[x]
  BY <1>3 DEF OpInv, OneSlotPerOp
<1>6. ErrorsKept'
  BY <1>1, <1>2, <1>3, <1>4, <1>5 DEF OpInv, ErrorsKept
<1> QED BY <1>1, <1>2, <1>3, <1>6, OpErrors

\* Every step keeps the operations in order.
LEMMA OpNext == TypeInv /\ RingInv /\ OpInv /\ [Next]_vars => OpInv'
<1> SUFFICES ASSUME TypeInv, RingInv, OpInv, [Next]_vars PROVE OpInv'
  OBVIOUS
<1>1. ASSUME \/ \E s \in Streams : StreamStep(s)
             \/ Close
             \/ UNCHANGED vars
      PROVE  OpInv'
  <2>1. UNCHANGED opSeen
    BY <1>1 DEF StreamStep, RunWrite, RunWait, Park, Unpark, RunCopy, Close, vars,
           opSeen, ringVars, slotVars, callVars, devVars, histVars
  <2> QED BY <2>1, OpQuiet
<1> QED BY <1>1, OpThreads, OpWorkers, OpDevice DEF Next

\* The operations' invariant, with the invariants it rests on.
THEOREM OpsCorrect == Spec => [](TypeInv /\ RingInv /\ OpInv)
<1>1. Init => TypeInv /\ RingInv /\ OpInv
  BY TypeInit, RingInit, OpInit
<1>2. (TypeInv /\ RingInv /\ OpInv) /\ [Next]_vars => (TypeInv /\ RingInv /\ OpInv)'
  BY TypeNext, RingNext, OpNext
<1> QED BY <1>1, <1>2, PTL DEF Spec

\* No accepted operation is lost and none is done twice: from the publication
\* in submit_async_op or submit_stream_op to its settlement, an operation sits
\* in exactly one slot, whatever rings, workers and failures there are.
THEOREM OpsInOneSlot == Spec => []OneSlotPerOp
<1>1. OpInv => OneSlotPerOp
  BY DEF OpInv
<1> QED BY <1>1, OpsCorrect, PTL

\* complete_read_op and dispatch_write report success exactly when every NVMe
\* command, copy and pwrite of the operation succeeded: no error a callback or
\* a failed submission recorded is lost, and none is charged to a later
\* operation of the same slot.
THEOREM ResultsHonest == Spec => []ResultHonest
<1>1. OpInv => ResultHonest
  BY DEF OpInv
<1> QED BY <1>1, OpsCorrect, PTL
-----------------------------------------------------------------------------
(***************************************************************************)
(* The gate.  Values of a stream's gate word are measured by how far they  *)
(* lie behind the last value the stream will ever need so far, the release *)
(* value of its newest sequence number.                                    *)
(***************************************************************************)
Lag(s, v) == WSub(Released(nextSeq[s]), v)
LagRel(s, x) == Lag(s, Released(seq[x]))

\* A slot that holds an operation whose gate commands are all enqueued.
Held(x) == \/ state[x] # "FREE"
           \/ \E t \in Threads : pc[t] = "publish" /\ curSlot[t] = x
Live(x) == Held(x) \/ \E t \in Threads : InClaim(t) /\ curSlot[t] = x

\* The commands of a stream, not yet executed, that concern the gate, and the
\* value each writes or waits for next.
Due(s) == {i \in spos[s] + 1 .. Len(slog[s]) : slog[s][i].k # "copy"}
ParkedAt(s, i) == i = spos[s] + 1 /\ parked[s] # NotParked
Arriving(s, i) == \/ slog[s][i].k = "write"
                  \/ slog[s][i].k = "host" /\ ~ParkedAt(s, i)
Val(s, i) ==
  IF slog[s][i].k # "host" THEN slog[s][i].v
  ELSE IF ParkedAt(s, i) THEN Released(parked[s])
  ELSE Arrived(seq[slog[s][i].x])

\* What the code enqueues on stream s.
Fits(s, c) ==
  /\ c.op < nextOp /\ call[c.op].mode = "stream" /\ call[c.op].strm = s
  /\ c.k = "host" <=> AlignedOnly
  /\ c.k = "write" => \E q \in Word : c.v = Arrived(q)
  /\ c.k = "wait" => \E q \in Word : c.v = Released(q)

LogShape ==
  \A s \in Streams :
    /\ spos[s] <= Len(slog[s])
    /\ \A i \in 1 .. Len(slog[s]) : Fits(s, slog[s][i])
    /\ parked[s] # NotParked => spos[s] < Len(slog[s]) /\ AlignedOnly

\* Sequence numbers are given out under the lock that the claim holds.
NewestClaim ==
  \A t \in Threads : InClaim(t) =>
    seq[curSlot[t]] = nextSeq[call[curOp[t]].strm]

\* The gate word is within half the word range of the newest number.
InWindow == \A s \in Streams : Lag(s, gate[s]) <= Half

\* The gate word is behind everything that is still to come.
Ahead ==
  \A s \in Streams : \A i \in Due(s) :
    /\ Lag(s, Val(s, i)) <= Lag(s, gate[s])
    /\ Arriving(s, i) => Lag(s, Val(s, i)) < Lag(s, gate[s])

Sorted ==
  \A s \in Streams : \A i, j \in Due(s) :
    i < j => Lag(s, Val(s, j)) < Lag(s, Val(s, i))

\* What a claim is about to enqueue comes after everything enqueued.
LastClaim ==
  \A t \in Threads :
    LET s == call[curOp[t]].strm
    IN /\ pc[t] = "gate" => /\ Lag(s, gate[s]) > 1
                            /\ \A i \in Due(s) : Lag(s, Val(s, i)) > 1
       /\ pc[t] = "wait" => \A i \in Due(s) : Lag(s, Val(s, i)) > 0

Unreleased ==
  \A x \in Slots : Live(x) /\ IsStream(x) =>
    LagRel(CallAt(x).strm, x) < Lag(CallAt(x).strm, gate[CallAt(x).strm])

\* The command of stream s that holds it for the operation in slot x.
Tie(s, i, x) ==
  /\ Held(x) /\ opOf[x] = slog[s][i].op
  /\ slog[s][i].k = "wait" => slog[s][i].v = Released(seq[x])
  /\ slog[s][i].k = "host" => /\ slog[s][i].x = x
                              /\ ParkedAt(s, i) => parked[s] = seq[x]

\* The stream has not gone past an operation that a slot holds.
Tied ==
  \A x \in Slots : Held(x) /\ IsStream(x) =>
    \E i \in Due(CallAt(x).strm) :
      slog[CallAt(x).strm][i].k # "write" /\ Tie(CallAt(x).strm, i, x)

\* What the stream will be held by is an unsettled operation's slot.
Backed ==
  \A s \in Streams : \A i \in Due(s) :
    \/ slog[s][i].k = "write"
    \/ ~Arriving(s, i) /\ result[slog[s][i].op] # "none"
    \/ \E x \in Slots : Tie(s, i, x)

\* An operation runs with the gate word at its arrival value.
OnTime(x) == IsStream(x) =>
  Lag(CallAt(x).strm, gate[CallAt(x).strm]) = LagRel(CallAt(x).strm, x) + 1
AtGate == \A x \in Slots : Executing(x) => OnTime(x)

GateInv == LogShape /\ NewestClaim /\ InWindow /\ Ahead /\ Sorted /\ LastClaim
             /\ Unreleased /\ Tied /\ Backed /\ AtGate /\ HeldUntilSettled
-----------------------------------------------------------------------------
(***************************************************************************)
(* Gate words as numbers.                                                  *)
(***************************************************************************)

\* Release values lie an even number behind a release value, and the arrival
\* value of an operation one further, even where doubling wraps.
LEMMA GateValues ==
  ASSUME NEW n \in Word, NEW q \in Word
  PROVE  \E k \in Nat : /\ WSub(Released(n), Released(q)) = 2 * k
                        /\ WSub(Released(n), Arrived(q)) = 2 * k + 1
<1>1. Half \in Nat /\ Half > 2 /\ Modulus = 2 * Half
  BY HalfAssumption DEF Modulus
<1>2. ASSUME NEW a \in Word
      PROVE  \E h \in 0 .. Half - 1 : Arrived(a) = 2 * h /\ Released(a) = 2 * h + 1
  <2>1. CASE a < Half
    <3>1. a \in 0 .. Half - 1 /\ Arrived(a) = 2 * a /\ Released(a) = 2 * a + 1
      BY <1>1, <2>1 DEF Word, Arrived, Released, WDouble, WAdd
    <3> QED BY <3>1
  <2>2. CASE a >= Half
    <3>1. /\ a - Half \in 0 .. Half - 1 /\ Arrived(a) = 2 * (a - Half)
          /\ Released(a) = 2 * (a - Half) + 1
      BY <1>1, <2>2 DEF Word, Arrived, Released, WDouble, WAdd
    <3> QED BY <3>1
  <2> QED BY <1>1, <2>1, <2>2 DEF Word
<1>3. PICK i \in 0 .. Half - 1 : Released(n) = 2 * i + 1
  BY <1>2
<1>4. PICK j \in 0 .. Half - 1 : Arrived(q) = 2 * j /\ Released(q) = 2 * j + 1
  BY <1>2
<1> DEFINE k == IF i >= j THEN i - j ELSE i - j + Half
<1>5. k \in Nat
  BY <1>1
<1>6. WSub(Released(n), Released(q)) = 2 * k
  BY <1>1, <1>3, <1>4 DEF WSub
<1>7. WSub(Released(n), Arrived(q)) = 2 * k + 1
  BY <1>1, <1>3, <1>4 DEF WSub
<1> QED BY <1>5, <1>6, <1>7

\* One more sequence number puts everything in the window two further behind.
LEMMA NextNumber ==
  ASSUME NEW n \in Word, NEW v \in Word, WSub(Released(n), v) <= Half
  PROVE  WSub(Released(WAdd(n, 1)), v) = WSub(Released(n), v) + 2
<1>1. Half \in Nat /\ Half > 2 /\ Modulus = 2 * Half
  BY HalfAssumption DEF Modulus
<1>2. Released(n) \in Word
  BY WordClosed
<1>3. Released(WAdd(n, 1)) = WAdd(Released(n), 2)
  <2>1. CASE n < Half
    BY <1>1, <2>1 DEF Word, Released, WDouble, WAdd
  <2>2. CASE n >= Half
    BY <1>1, <2>2 DEF Word, Released, WDouble, WAdd
  <2> QED BY <1>1, <2>1, <2>2 DEF Word
<1> QED BY <1>1, <1>2, <1>3 DEF Word, WAdd, WSub

\* Within the window the cyclic comparison compares lags.
LEMMA WindowOrder ==
  ASSUME NEW n \in Word, NEW a \in Word, NEW b \in Word,
         WSub(n, b) <= WSub(n, a), WSub(n, a) <= Half
  PROVE  CyclicLess(a, b) <=> WSub(n, b) < WSub(n, a)
  BY HalfAssumption DEF Word, WSub, CyclicLess, Modulus

\* Lags are numbers, and different values have different lags.
LEMMA LagNumbers ==
  ASSUME NEW n \in Word, NEW a \in Word, NEW b \in Word
  PROVE  WSub(n, a) \in Nat /\ (WSub(n, a) = WSub(n, b) <=> a = b)
  BY HalfAssumption DEF Word, WSub, Modulus

\* The types of what the gate's invariant is about.
LEMMA GateTypes ==
  ASSUME TypeInv
  PROVE  /\ gate \in [Streams -> Word] /\ nextSeq \in [Streams -> Word]
         /\ slog \in [Streams -> Seq(CommandType)] /\ spos \in [Streams -> Nat]
         /\ parked \in [Streams -> Word \cup {NotParked}]
         /\ seq \in [Slots -> Word] /\ NotParked \notin Word
         /\ \A s \in Streams : Released(nextSeq[s]) \in Word
         /\ \A s \in Streams : Len(slog[s]) \in Nat
         /\ \A s \in Streams : \A i \in 1 .. Len(slog[s]) :
              /\ slog[s][i] \in CommandType /\ slog[s][i].op \in Ops
              /\ slog[s][i].v \in Word /\ slog[s][i].x \in Slots
              /\ slog[s][i].k \in {"write", "wait", "host", "copy"}
<1>1. /\ gate \in [Streams -> Word] /\ nextSeq \in [Streams -> Word]
      /\ slog \in [Streams -> Seq(CommandType)] /\ spos \in [Streams -> Nat]
      /\ parked \in [Streams -> Word \cup {NotParked}]
      /\ seq \in [Slots -> Word] /\ NotParked \notin Word
  BY HalfAssumption DEF TypeInv, TypeOK, StreamType, SlotType, NotParked, Word,
                        Modulus
<1>2. \A s \in Streams : Released(nextSeq[s]) \in Word
  BY <1>1, WordClosed
<1>3. \A s \in Streams : slog[s] \in Seq(CommandType)
  BY <1>1
<1>4. \A s \in Streams : Len(slog[s]) \in Nat
  BY <1>3
<1>5. \A s \in Streams : \A i \in 1 .. Len(slog[s]) : slog[s][i] \in CommandType
  BY <1>3
<1>6. \A c \in CommandType : /\ c.op \in Ops /\ c.v \in Word /\ c.x \in Slots
                             /\ c.k \in {"write", "wait", "host", "copy"}
  BY DEF CommandType
<1>7. \A s \in Streams : \A i \in 1 .. Len(slog[s]) :
         /\ slog[s][i] \in CommandType /\ slog[s][i].op \in Ops
         /\ slog[s][i].v \in Word /\ slog[s][i].x \in Slots
         /\ slog[s][i].k \in {"write", "wait", "host", "copy"}
  BY <1>5, <1>6
<1> QED BY <1>1, <1>2, <1>4, <1>7

\* The gate word's lag, a slot's, and the parity that tells arrivals from
\* releases.
LEMMA Lags ==
  ASSUME TypeInv, NEW s \in Streams
  PROVE  /\ Lag(s, gate[s]) \in Nat
         /\ \A v \in Word : Lag(s, v) \in Nat
         /\ \A q \in Word : \E k \in Nat : /\ Lag(s, Released(q)) = 2 * k
                                           /\ Lag(s, Arrived(q)) = 2 * k + 1
         /\ \A x \in Slots : /\ LagRel(s, x) \in Nat
                             /\ Lag(s, Arrived(seq[x])) = LagRel(s, x) + 1
                             /\ seq[x] = nextSeq[s] => LagRel(s, x) = 0
<1> USE GateTypes
<1>1. \A v \in Word : Lag(s, v) \in Nat
  BY LagNumbers DEF Lag
<1>2. \A q \in Word : \E k \in Nat : /\ Lag(s, Released(q)) = 2 * k
                                     /\ Lag(s, Arrived(q)) = 2 * k + 1
  BY GateValues DEF Lag
<1>3. \A x \in Slots : /\ LagRel(s, x) \in Nat
                       /\ Lag(s, Arrived(seq[x])) = LagRel(s, x) + 1
  BY <1>2 DEF LagRel
<1>4. \A x \in Slots : seq[x] = nextSeq[s] => LagRel(s, x) = 0
  BY WordSteps DEF LagRel, Lag
<1> QED BY <1>1, <1>2, <1>3, <1>4

\* The commands that are due, with the parity of their values' lags.
LEMMA DueLags ==
  ASSUME TypeInv, LogShape, NEW s \in Streams, NEW i \in Due(s)
  PROVE  /\ i \in 1 .. Len(slog[s]) /\ i \in Nat /\ i > spos[s]
         /\ slog[s][i].k \in {"write", "wait", "host"}
         /\ slog[s][i].k = "host" <=> AlignedOnly
         /\ slog[s][i].op \in Ops /\ slog[s][i].op < nextOp
         /\ call[slog[s][i].op].mode = "stream" /\ call[slog[s][i].op].strm = s
         /\ Val(s, i) \in Word /\ Lag(s, Val(s, i)) \in Nat
         /\ Arriving(s, i) => \E k \in Nat : Lag(s, Val(s, i)) = 2 * k + 1
         /\ ~Arriving(s, i) => \E k \in Nat : Lag(s, Val(s, i)) = 2 * k
<1> USE GateTypes
<1>1. i \in 1 .. Len(slog[s]) /\ i \in Nat /\ i > spos[s] /\ slog[s][i].k # "copy"
  BY DEF Due
<1>2. /\ slog[s][i].k \in {"write", "wait", "host"}
      /\ slog[s][i].k = "host" <=> AlignedOnly
      /\ slog[s][i].op \in Ops /\ slog[s][i].op < nextOp
      /\ call[slog[s][i].op].mode = "stream" /\ call[slog[s][i].op].strm = s
  BY <1>1 DEF LogShape, Fits
<1>3. CASE Arriving(s, i)
  <2>1. PICK q \in Word : Val(s, i) = Arrived(q)
    <3>1. CASE slog[s][i].k = "write"
      <4>1. Fits(s, slog[s][i])
        BY <1>1, Zenon DEF LogShape
      <4>2. PICK q \in Word : slog[s][i].v = Arrived(q)
        BY <4>1, <3>1, Zenon DEF Fits
      <4>3. Val(s, i) = slog[s][i].v
        BY <3>1 DEF Val
      <4> QED BY <4>2, <4>3, Zenon
    <3>2. CASE slog[s][i].k = "host"
      <4>1. Val(s, i) = Arrived(seq[slog[s][i].x]) /\ seq[slog[s][i].x] \in Word
        BY <1>1, <1>3, <3>2 DEF Val, Arriving
      <4> QED BY <4>1
    <3> QED BY <1>3, <3>1, <3>2 DEF Arriving
  <2>2. PICK k \in Nat : /\ Lag(s, Released(q)) = 2 * k
                         /\ Lag(s, Arrived(q)) = 2 * k + 1
    BY Lags
  <2>3. Val(s, i) \in Word
    BY <2>1, WordClosed
  <2>4. /\ Lag(s, Val(s, i)) \in Nat
        /\ \E j \in Nat : Lag(s, Val(s, i)) = 2 * j + 1
    <3>1. Lag(s, Val(s, i)) = 2 * k + 1
      BY <2>1, <2>2
    <3> HIDE GateTypes
    <3>2. 2 * k + 1 \in Nat
      OBVIOUS
    <3> QED BY <3>1, <3>2
  <2> QED BY <1>1, <1>2, <1>3, <2>3, <2>4, Zenon
<1>4. CASE ~Arriving(s, i)
  <2>1. PICK q \in Word : Val(s, i) = Released(q)
    <3>1. CASE slog[s][i].k = "wait"
      <4>1. Fits(s, slog[s][i])
        BY <1>1, Zenon DEF LogShape
      <4>2. PICK q \in Word : slog[s][i].v = Released(q)
        BY <4>1, <3>1, Zenon DEF Fits
      <4>3. Val(s, i) = slog[s][i].v
        BY <3>1 DEF Val
      <4> QED BY <4>2, <4>3, Zenon
    <3>2. CASE slog[s][i].k = "host"
      <4>1. Val(s, i) = Released(parked[s]) /\ parked[s] \in Word
        BY <1>1, <1>4, <3>2 DEF Val, Arriving, ParkedAt
      <4> QED BY <4>1
    <3> QED BY <1>2, <1>4, <3>1, <3>2 DEF Arriving
  <2>2. PICK k \in Nat : /\ Lag(s, Released(q)) = 2 * k
                         /\ Lag(s, Arrived(q)) = 2 * k + 1
    BY Lags
  <2>3. Val(s, i) \in Word
    BY <2>1, WordClosed
  <2>4. /\ Lag(s, Val(s, i)) \in Nat
        /\ \E j \in Nat : Lag(s, Val(s, i)) = 2 * j
    <3>1. Lag(s, Val(s, i)) = 2 * k
      BY <2>1, <2>2
    <3> HIDE GateTypes
    <3>2. 2 * k \in Nat
      OBVIOUS
    <3> QED BY <3>1, <3>2
  <2> QED BY <1>1, <1>2, <1>4, <2>3, <2>4, Zenon
<1> QED BY <1>3, <1>4

\* What a command that holds the stream for slot x waits for.
LEMMA TieLag ==
  ASSUME TypeInv, LogShape, NEW s \in Streams, NEW i \in Due(s), NEW x \in Slots,
         Tie(s, i, x), slog[s][i].k # "write"
  PROVE  /\ Lag(s, Val(s, i)) = IF Arriving(s, i) THEN LagRel(s, x) + 1
                                                  ELSE LagRel(s, x)
         /\ IsStream(x) /\ CallAt(x).strm = s
<1>0. /\ slog[s][i].k \in {"wait", "host"}
      /\ call[slog[s][i].op].mode = "stream" /\ call[slog[s][i].op].strm = s
  BY DueLags
<1>1. IsStream(x) /\ CallAt(x).strm = s
  BY <1>0 DEF Tie, IsStream, CallAt
<1>2. CASE slog[s][i].k = "wait"
  <2>1. Val(s, i) = Released(seq[x]) /\ ~Arriving(s, i)
    BY <1>2 DEF Tie, Val, Arriving
  <2> QED BY <1>1, <2>1 DEF LagRel
<1>3. CASE slog[s][i].k = "host"
  <2>1. CASE ParkedAt(s, i)
    <3>1. Val(s, i) = Released(seq[x]) /\ ~Arriving(s, i)
      BY <1>3, <2>1 DEF Tie, Val, Arriving
    <3> QED BY <1>1, <3>1 DEF LagRel
  <2>2. CASE ~ParkedAt(s, i)
    <3>1. Lag(s, Arrived(seq[x])) = LagRel(s, x) + 1
      BY Lags
    <3>2. Val(s, i) = Arrived(seq[x]) /\ Arriving(s, i)
      BY <1>3, <2>2 DEF Tie, Val, Arriving
    <3> QED BY <1>1, <3>1, <3>2
  <2> QED BY <2>1, <2>2
<1> QED BY <1>0, <1>2, <1>3

\* A slot that is live, a thread that claims and a slot being executed name an
\* operation.
LEMMA LiveNamed ==
  ASSUME TypeInv, RingInv, OpInv
  PROVE  /\ \A x \in Slots : Live(x) => opOf[x] \in Ops /\ opOf[x] < nextOp
         /\ \A x \in Slots : Live(x) /\ IsStream(x) => CallAt(x).strm \in Streams
         /\ \A x \in Slots : Held(x) => Live(x)
         /\ \A x \in Slots : Executing(x) => state[x] # "FREE" /\ Held(x)
         /\ \A t \in Threads : InClaim(t) =>
              /\ curSlot[t] \in Slots /\ Live(curSlot[t])
              /\ curOp[t] \in Ops /\ curOp[t] < nextOp
              /\ opOf[curSlot[t]] = curOp[t] /\ IsStream(curSlot[t])
              /\ call[curOp[t]].strm \in Streams
              /\ CallAt(curSlot[t]) = call[curOp[t]]
<1> USE OpTypes, RingTypes
<1>1. \A x \in Slots : Live(x) => opOf[x] \in Ops /\ opOf[x] < nextOp
  <2>1. \A t \in Threads : InClaim(t) => opOf[curSlot[t]] \in Ops
    BY DEF TypeInv, Named, ClaimsNamed, InClaim
  <2> QED BY <2>1 DEF Live, Held, InClaim, OpInv, OpsUsed
<1>2. \A c \in Call : c.mode = "stream" => c.strm \in Streams
  BY DEF Call
<1>3. \A x \in Slots : Held(x) => Live(x)
  BY DEF Live, Held
<1>4. \A x \in Slots : Executing(x) => state[x] # "FREE" /\ Held(x)
  BY DEF Executing, Held, RingInv, Working
<1>5. \A t \in Threads : InClaim(t) =>
        /\ curSlot[t] \in Slots /\ Live(curSlot[t])
        /\ curOp[t] \in Ops /\ curOp[t] < nextOp
        /\ opOf[curSlot[t]] = curOp[t] /\ call[curOp[t]].mode = "stream"
  BY DEF Live, InClaim, OpInv, OpsUsed, ClaimFilled
<1>6. \A x \in Slots : Live(x) /\ IsStream(x) => CallAt(x).strm \in Streams
  BY <1>1, <1>2 DEF IsStream, CallAt
<1>7. \A t \in Threads : InClaim(t) =>
        /\ CallAt(curSlot[t]) = call[curOp[t]] /\ IsStream(curSlot[t])
        /\ call[curOp[t]].strm \in Streams
  BY <1>2, <1>5 DEF IsStream, CallAt
<1> QED BY <1>1, <1>3, <1>4, <1>5, <1>6, <1>7

\* What holds the stream for an operation being executed waits for the value
\* one ahead of the gate word; it is the only live operation there.
LEMMA Alone ==
  ASSUME TypeInv, RingInv, OpInv, GateInv, NEW x \in Slots, Executing(x),
         IsStream(x), NEW s \in Streams, s = CallAt(x).strm
  PROVE  /\ \E i \in Due(s) : /\ Tie(s, i, x) /\ ~Arriving(s, i)
                              /\ Lag(s, Val(s, i)) = LagRel(s, x)
         /\ \A i \in Due(s) : Tie(s, i, x) /\ slog[s][i].k # "write"
                               => ~Arriving(s, i)
         /\ \A y \in Slots : Live(y) /\ IsStream(y) /\ CallAt(y).strm = s /\ y # x
                               => LagRel(s, y) # LagRel(s, x)
<1> DEFINE l == LagRel(s, x)
<1>1. /\ Held(x) /\ Lag(s, gate[s]) = l + 1 /\ l \in Nat /\ state[x] # "FREE"
      /\ opOf[x] \in Ops
  BY LiveNamed, Lags DEF GateInv, AtGate, OnTime
<1>2. ASSUME NEW y \in Slots, Held(y), IsStream(y), CallAt(y).strm = s,
             LagRel(s, y) = l
      PROVE  \E i \in Due(s) : /\ Tie(s, i, y) /\ ~Arriving(s, i)
                               /\ Lag(s, Val(s, i)) = l
  <2>1. PICK i \in Due(s) : slog[s][i].k # "write" /\ Tie(s, i, y)
    BY <1>2 DEF GateInv, Tied
  <2>2. Lag(s, Val(s, i)) = IF Arriving(s, i) THEN l + 1 ELSE l
    BY <1>2, <2>1, TieLag DEF GateInv
  <2>3. Arriving(s, i) => Lag(s, Val(s, i)) < l + 1
    BY <1>1 DEF GateInv, Ahead
  <2> QED BY <1>1, <2>1, <2>2, <2>3
<1>3. PICK i \in Due(s) : /\ Tie(s, i, x) /\ ~Arriving(s, i)
                          /\ Lag(s, Val(s, i)) = l
  BY <1>1, <1>2
<1>4. ASSUME NEW j \in Due(s), Tie(s, j, x), slog[s][j].k # "write", Arriving(s, j)
      PROVE  FALSE
  <2>1. Lag(s, Val(s, j)) = l + 1
    BY <1>4, TieLag DEF GateInv
  <2>2. Lag(s, Val(s, j)) < l + 1
    BY <1>1, <1>4 DEF GateInv, Ahead
  <2> QED BY <1>1, <2>1, <2>2
<1>5. ASSUME NEW y \in Slots, Live(y), IsStream(y), CallAt(y).strm = s, y # x,
             LagRel(s, y) = l
      PROVE  FALSE
  <2>1. CASE Held(y)
    <3>1. PICK j \in Due(s) : Tie(s, j, y) /\ Lag(s, Val(s, j)) = l
      BY <1>2, <1>5, <2>1
    <3>2. i \in Nat /\ j \in Nat
      BY DueLags DEF GateInv
    <3>3. ~(i < j) /\ ~(j < i)
      BY <1>1, <1>3, <3>1 DEF GateInv, Sorted
    <3>4. i = j
      BY <3>2, <3>3
    <3>5. opOf[x] = opOf[y]
      BY <1>3, <3>1, <3>4 DEF Tie
    <3>6. CASE state[y] # "FREE"
      BY <1>1, <1>5, <3>5, <3>6 DEF OpInv, OneSlotPerOp
    <3>7. CASE state[y] = "FREE"
      <4>1. PICK t \in Threads : pc[t] = "publish" /\ curSlot[t] = y
        BY <2>1, <3>7 DEF Held
      <4>2. InClaim(t) /\ opOf[y] = curOp[t]
        BY <4>1 DEF InClaim, OpInv, ClaimFilled
      <4> QED BY <1>1, <3>5, <4>2 DEF OpInv, Unpublished
    <3> QED BY <3>6, <3>7
  <2>2. CASE ~Held(y)
    <3>1. PICK t \in Threads : InClaim(t) /\ curSlot[t] = y
      BY <1>5, <2>2 DEF Live
    <3>2. pc[t] \in {"gate", "wait"} /\ call[curOp[t]].strm = s
      BY <1>5, <2>2, <3>1, LiveNamed DEF InClaim, Held
    <3>3. l = 0
      BY <1>5, <3>1, <3>2, Lags DEF GateInv, NewestClaim
    <3>4. Lag(s, Val(s, i)) > 0
      BY <1>1, <1>3, <3>2, <3>3 DEF GateInv, LastClaim
    <3> QED BY <1>3, <3>3, <3>4
  <2> QED BY <2>1, <2>2
<1> QED BY <1>3, <1>4, <1>5

\* Initially the streams are empty and the gate words at their last value.
LEMMA GateInit == Init => GateInv
<1> SUFFICES ASSUME Init PROVE GateInv
  OBVIOUS
<1>1. \A s \in Streams : slog[s] = <<>> /\ spos[s] = 0 /\ parked[s] = NotParked
  BY DEF Init
<1>2. \A s \in Streams : Due(s) = {}
  BY <1>1 DEF Due
<1>3. /\ \A t \in Threads : pc[t] = "idle"
      /\ \A x \in Slots : state[x] = "FREE"
      /\ \A w \in Workers : wpc[w] = "begin"
  BY DEF Init
<1>4. \A x \in Slots : ~Live(x) /\ ~Held(x) /\ ~Executing(x)
  BY <1>3 DEF Live, Held, InClaim, Executing, Slots
<1>5. InWindow
  <2> SUFFICES ASSUME NEW s \in Streams PROVE Lag(s, gate[s]) <= Half
    BY DEF InWindow
  <2>1. nextSeq[s] = StartSeq /\ StartSeq \in Word
        /\ gate[s] = IF StartSeq = 0 THEN 0 ELSE Released(StartSeq)
    BY EngineAssumption DEF Init
  <2>2. CASE StartSeq = 0
    BY <2>1, <2>2, HalfAssumption
       DEF Lag, Released, WDouble, WAdd, WSub, Modulus
  <2>3. CASE StartSeq # 0
    BY <2>1, <2>3, WordClosed, WordSteps, HalfAssumption DEF Lag
  <2> QED BY <2>2, <2>3
<1>6. LogShape /\ HeldUntilSettled
  BY <1>1 DEF LogShape, HeldUntilSettled
<1> QED BY <1>2, <1>3, <1>4, <1>5, <1>6
        DEF GateInv, NewestClaim, InClaim, Ahead, Sorted, LastClaim, Unreleased,
            Tied, Backed, AtGate

\* Steps that leave the gates, their commands and the slots of stream
\* operations as they are, or let go of a claim.
LEMMA GateSame ==
  ASSUME TypeInv, RingInv, OpInv, GateInv, LogShape', HeldUntilSettled',
         UNCHANGED <<seq, gate, nextSeq, parked>>,
         \A s \in Streams : Due(s)' = Due(s) /\ \A i \in Due(s) :
           slog'[s][i] = slog[s][i] /\ (ParkedAt(s, i)' <=> ParkedAt(s, i)),
         \A o \in Ops : o < nextOp => call'[o] = call[o],
         \A o \in Ops : result[o] # "none" => result'[o] # "none",
         \A t \in Threads : InClaim(t)' =>
           /\ InClaim(t) /\ pc'[t] = pc[t]
           /\ curOp'[t] = curOp[t] /\ curSlot'[t] = curSlot[t],
         \A x \in Slots : /\ Live(x)' /\ IsStream(x)' => Live(x)
                          /\ Held(x)' /\ IsStream(x)' => Held(x)
                          /\ Held(x) /\ IsStream(x) => Held(x)'
                          /\ Live(x) /\ Live(x)' /\ (IsStream(x) \/ IsStream(x)')
                               => opOf'[x] = opOf[x]
                          /\ Executing(x)' => /\ Executing(x) \/ OnTime(x)
                                              /\ state'[x] # "FREE"
  PROVE  GateInv'
<1> USE LiveNamed
<1>1. ASSUME NEW x \in Slots, Live(x)', IsStream(x)'
      PROVE  /\ Live(x) /\ IsStream(x) /\ CallAt(x)' = CallAt(x)
             /\ opOf'[x] = opOf[x] /\ CallAt(x).strm \in Streams
  BY <1>1 DEF IsStream, CallAt
<1>2. ASSUME NEW x \in Slots, Held(x), IsStream(x)
      PROVE  Held(x)' /\ opOf'[x] = opOf[x]
  <2>1. Held(x)' /\ Live(x)'
    BY <1>2 DEF Held, Live
  <2> QED BY <1>2, <2>1
<1>3. \A s \in Streams : /\ Lag(s, gate[s])' = Lag(s, gate[s])
                         /\ \A x \in Slots : LagRel(s, x)' = LagRel(s, x)
  BY DEF Lag, LagRel
<1>4. ASSUME NEW s \in Streams, NEW i \in Due(s)
      PROVE  /\ Val(s, i)' = Val(s, i) /\ (Arriving(s, i)' <=> Arriving(s, i))
             /\ Lag(s, Val(s, i))' = Lag(s, Val(s, i))
  <2>1. Val(s, i)' = Val(s, i) /\ (Arriving(s, i)' <=> Arriving(s, i))
    BY DEF Val, Arriving
  <2> QED BY <2>1 DEF Lag
<1>5. \A t \in Threads : InClaim(t)' =>
        /\ call'[curOp'[t]] = call[curOp[t]] /\ call[curOp[t]].strm \in Streams
        /\ curSlot[t] \in Slots
  OBVIOUS
<1>6. ASSUME NEW s \in Streams, NEW i \in Due(s), NEW x \in Slots,
             Tie(s, i, x), slog[s][i].k # "write"
      PROVE  Tie(s, i, x)'
  <2>1. IsStream(x) /\ Held(x)
    BY <1>6, TieLag DEF GateInv, Tie
  <2>2. Held(x)' /\ opOf'[x] = opOf[x]
    BY <1>2, <2>1
  <2> QED BY <1>6, <2>2 DEF Tie
<1>7. NewestClaim'
  BY <1>5 DEF GateInv, NewestClaim
<1>8. InWindow'
  BY <1>3 DEF GateInv, InWindow
<1>9. Ahead' /\ Sorted'
  BY <1>3, <1>4 DEF GateInv, Ahead, Sorted
<1>10. LastClaim'
  <2> SUFFICES ASSUME NEW t \in Threads, pc'[t] \in {"gate", "wait"},
                      NEW s, s = call'[curOp'[t]].strm
               PROVE /\ pc'[t] = "gate" =>
                          /\ Lag(s, gate[s])' > 1
                          /\ \A i \in Due(s)' : Lag(s, Val(s, i))' > 1
                     /\ pc'[t] = "wait" => \A i \in Due(s)' : Lag(s, Val(s, i))' > 0
    BY DEF LastClaim
  <2>1. InClaim(t)'
    BY DEF InClaim
  <2>2. pc'[t] = pc[t] /\ s = call[curOp[t]].strm /\ s \in Streams
    BY <1>5, <2>1
  <2> QED BY <1>3, <1>4, <2>2 DEF GateInv, LastClaim
<1>11. Unreleased'
  <2> SUFFICES ASSUME NEW x \in Slots, Live(x)', IsStream(x)',
                      NEW s, s = CallAt(x)'.strm
               PROVE  LagRel(s, x)' < Lag(s, gate[s])'
    BY DEF Unreleased
  <2>1. Live(x) /\ IsStream(x) /\ s = CallAt(x).strm /\ s \in Streams
    BY <1>1
  <2> QED BY <1>3, <2>1 DEF GateInv, Unreleased
<1>12. Tied'
  <2> SUFFICES ASSUME NEW x \in Slots, Held(x)', IsStream(x)',
                      NEW s, s = CallAt(x)'.strm
               PROVE  \E i \in Due(s)' : slog'[s][i].k # "write" /\ Tie(s, i, x)'
    BY DEF Tied
  <2>1. Held(x) /\ IsStream(x) /\ s = CallAt(x).strm /\ s \in Streams
    <3>1. Live(x)'
      BY DEF Held, Live
    <3> QED BY <1>1, <3>1
  <2>2. PICK i \in Due(s) : slog[s][i].k # "write" /\ Tie(s, i, x)
    BY <2>1 DEF GateInv, Tied
  <2>3. Tie(s, i, x)'
    BY <1>6, <2>1, <2>2
  <2> QED BY <2>1, <2>2, <2>3
<1>13. Backed'
  <2> SUFFICES ASSUME NEW s \in Streams, NEW i \in Due(s), slog[s][i].k # "write"
               PROVE  \/ ~Arriving(s, i)' /\ result'[slog'[s][i].op] # "none"
                      \/ \E x \in Slots : Tie(s, i, x)'
    BY DEF Backed
  <2>1. CASE ~Arriving(s, i) /\ result[slog[s][i].op] # "none"
    <3>1. slog[s][i].op \in Ops
      BY DueLags DEF GateInv
    <3> QED BY <1>4, <2>1, <3>1
  <2>2. CASE \E x \in Slots : Tie(s, i, x)
    BY <1>6, <2>2
  <2> QED BY <2>1, <2>2 DEF GateInv, Backed
<1>14. AtGate'
  <2> SUFFICES ASSUME NEW x \in Slots, Executing(x)', IsStream(x)',
                      NEW s, s = CallAt(x)'.strm
               PROVE  Lag(s, gate[s])' = LagRel(s, x)' + 1
    BY DEF AtGate, OnTime
  <2>1. Executing(x) \/ OnTime(x)
    OBVIOUS
  <2>2. Live(x)'
    BY DEF Held, Live
  <2> QED BY <1>1, <1>3, <2>1, <2>2 DEF GateInv, AtGate, OnTime
<1> QED BY <1>7, <1>8, <1>9, <1>10, <1>11, <1>12, <1>13, <1>14 DEF GateInv

\* The same, for steps that leave the streams' commands alone too.
LEMMA GateFrame ==
  ASSUME TypeInv, RingInv, OpInv, GateInv,
         UNCHANGED <<seq, gate, nextSeq, slog, spos, parked>>,
         nextOp' \in Nat, nextOp <= nextOp',
         \A o \in Ops : o < nextOp => call'[o] = call[o],
         \A o \in Ops : result[o] # "none" => result'[o] # "none",
         \A t \in Threads : InClaim(t)' =>
           /\ InClaim(t) /\ pc'[t] = pc[t]
           /\ curOp'[t] = curOp[t] /\ curSlot'[t] = curSlot[t],
         \A x \in Slots : /\ Live(x)' /\ IsStream(x)' => Live(x)
                          /\ Held(x)' /\ IsStream(x)' => Held(x)
                          /\ Held(x) /\ IsStream(x) => Held(x)'
                          /\ Live(x) /\ Live(x)' /\ (IsStream(x) \/ IsStream(x)')
                               => opOf'[x] = opOf[x]
                          /\ Executing(x)' => /\ Executing(x) \/ OnTime(x)
                                              /\ state'[x] # "FREE"
  PROVE  GateInv'
<1>1. \A s \in Streams : Due(s)' = Due(s) /\ \A i \in Due(s) :
        slog'[s][i] = slog[s][i] /\ (ParkedAt(s, i)' <=> ParkedAt(s, i))
  BY DEF Due, ParkedAt
<1>2. LogShape'
  <2>1. ASSUME NEW s \in Streams, NEW i \in 1 .. Len(slog[s])
        PROVE  Fits(s, slog[s][i])'
    <3>1. slog[s][i].op \in Ops
      BY GateTypes
    <3>2. Fits(s, slog[s][i])
      BY DEF GateInv, LogShape
    <3>3. slog[s][i].op < nextOp' /\ call'[slog[s][i].op] = call[slog[s][i].op]
      BY <3>1, <3>2, OpTypes DEF Fits
    <3> QED BY <3>2, <3>3 DEF Fits
  <2>2. \A s \in Streams : /\ spos[s] <= Len(slog[s])
                           /\ parked[s] # NotParked =>
                                spos[s] < Len(slog[s]) /\ AlignedOnly
    BY DEF GateInv, LogShape
  <2> QED BY <2>1, <2>2 DEF LogShape
<1>3. HeldUntilSettled'
  <2>1. \A s \in Streams : \A i \in 1 .. spos[s] : slog[s][i].op \in Ops
    <3>1. \A s \in Streams : /\ spos[s] \in Nat /\ Len(slog[s]) \in Nat
                             /\ spos[s] <= Len(slog[s])
      BY GateTypes DEF GateInv, LogShape
    <3>2. \A s \in Streams : \A i \in 1 .. spos[s] : i \in 1 .. Len(slog[s])
      BY <3>1
    <3> QED BY <3>2, GateTypes
  <2> QED BY <2>1 DEF GateInv, HeldUntilSettled
<1> QED BY <1>1, <1>2, <1>3, GateSame

\* The steps of a caller that do not touch its stream.
LEMMA GateCalls ==
  ASSUME TypeInv, RingInv, OpInv, GateInv, NEW t \in Threads,
         \/ StartCall(t) \/ ClaimFull(t) \/ ClaimAsync(t) \/ AwaitReturns(t)
         \/ GateFails(t) \/ Publish(t) \/ CopyFails(t)
  PROVE  GateInv'
<1> USE OpTypes, RingTypes DEF ringVars, slotVars, callVars, workerVars, gateVars,
                               streamVars
<1>1. CASE StartCall(t) \/ ClaimFull(t) \/ AwaitReturns(t) \/ GateFails(t)
             \/ CopyFails(t)
  <2>1. UNCHANGED <<seq, gate, nextSeq, slog, spos, parked, result, opOf, state,
                    wpc, wi, curSlot>>
    BY <1>1 DEF StartCall, ClaimFull, AwaitReturns, GateFails, CopyFails
  <2>2. /\ nextOp' \in Nat /\ nextOp <= nextOp'
        /\ \A o \in Ops : o < nextOp => call'[o] = call[o]
    BY <1>1 DEF StartCall, ClaimFull, AwaitReturns, GateFails, CopyFails
  <2>3. /\ \A u \in Threads : u # t => pc'[u] = pc[u] /\ curOp'[u] = curOp[u]
        /\ pc'[t] \in {"idle", "claim"} \/ (pc' = pc /\ curOp' = curOp)
        /\ pc'[t] # pc[t] => pc[t] # "publish"
    BY <1>1 DEF StartCall, ClaimFull, AwaitReturns, GateFails, CopyFails
  <2>4. \A u \in Threads : InClaim(u)' => /\ InClaim(u) /\ pc'[u] = pc[u]
                                          /\ curOp'[u] = curOp[u]
    BY <2>3 DEF InClaim
  <2>5. \A x \in Slots : (Live(x)' => Live(x)) /\ (Held(x)' <=> Held(x))
    BY <2>1, <2>3, <2>4 DEF Live, Held
  <2>6. \A x \in Slots : Executing(x)' => Executing(x) /\ state'[x] # "FREE"
    <3>1. \A x \in Slots : Executing(x)' <=> Executing(x)
      BY <2>1 DEF Executing, Here
    <3> QED BY <2>1, <3>1, LiveNamed
  <2> QED BY <2>1, <2>2, <2>4, <2>5, <2>6, GateFrame
<1>2. CASE ClaimAsync(t)
  <2>0. PICK x \in Slots : x = SlotAt(rr, head[rr])
    BY SlotAtType
  <2>1. /\ pc[t] = "claim" /\ lock = NoThread /\ HasRoom(rr)
        /\ call[curOp[t]].mode \in {"async", "sync"}
        /\ opOf' = [opOf EXCEPT ![x] = curOp[t]]
        /\ state' = [state EXCEPT ![x] = "PENDING"]
        /\ \A u \in Threads : u # t => pc'[u] = pc[u]
        /\ pc'[t] \in {"await", "idle"}
        /\ UNCHANGED <<seq, gate, nextSeq, slog, spos, parked, result, call, nextOp,
                       wpc, wi>>
    BY <1>2, <2>0 DEF ClaimAsync
  <2>2. x \in Slots /\ state[x] = "FREE"
    BY <2>0, <2>1, HeadFree DEF RingInv
  <2>3. \A u \in Threads : ~InClaim(u) /\ ~InClaim(u)'
    BY <2>1 DEF RingInv, Claimed, InClaim
  <2>4. \A y \in Slots : y # x => opOf'[y] = opOf[y] /\ state'[y] = state[y]
    BY <2>1, <2>2
  <2>5. /\ opOf'[x] = curOp[t] /\ state'[x] = "PENDING" /\ ~IsStream(x)'
        /\ ~Live(x)
    <3>1. opOf'[x] = curOp[t] /\ state'[x] = "PENDING"
      BY <2>1, <2>2
    <3>2. CallAt(x)' = call[curOp[t]]
      BY <2>1, <3>1 DEF CallAt
    <3>3. ~IsStream(x)'
      BY <2>1, <3>2 DEF IsStream
    <3>4. ~Live(x)
      BY <2>2, <2>3 DEF Live, Held, InClaim
    <3> QED BY <3>1, <3>3, <3>4
  <2>6. \A y \in Slots : y # x => (Live(y)' <=> Live(y)) /\ (Held(y)' <=> Held(y))
    BY <2>3, <2>4 DEF Live, Held, InClaim
  <2>7. \A y \in Slots : Executing(y)' => Executing(y) /\ state'[y] # "FREE"
    <3>1. \A y \in Slots : Executing(y)' => Executing(y)
      BY <2>1, <2>4, <2>5 DEF Executing, Here
    <3> QED BY <2>4, <2>5, <3>1, LiveNamed
  <2>8. ~Held(x)
    BY <2>5 DEF Live
  <2>9. \A y \in Slots :
          /\ Live(y)' /\ IsStream(y)' => Live(y)
          /\ Held(y)' /\ IsStream(y)' => Held(y)
          /\ Held(y) /\ IsStream(y) => Held(y)'
          /\ Live(y) /\ Live(y)' /\ (IsStream(y) \/ IsStream(y)') => opOf'[y] = opOf[y]
          /\ Executing(y)' => Executing(y) /\ state'[y] # "FREE"
    BY <2>4, <2>5, <2>6, <2>7, <2>8
  <2>10. nextOp' \in Nat /\ nextOp <= nextOp'
    BY <2>1
  <2> QED BY <2>1, <2>3, <2>9, <2>10, GateFrame
<1>3. CASE Publish(t)
  <2> DEFINE x == curSlot[t]
  <2>1. /\ pc[t] = "publish" /\ x \in Slots
        /\ state' = [state EXCEPT ![x] = "PENDING"]
        /\ \A u \in Threads : u # t => pc'[u] = pc[u]
        /\ pc'[t] \in {"copy", "idle"}
        /\ UNCHANGED <<seq, gate, nextSeq, slog, spos, parked, result, call, nextOp,
                       wpc, wi, opOf, curOp, curSlot>>
    BY <1>3 DEF Publish
  <2>2. \A u \in Threads : u # t => ~InClaim(u)
    BY <2>1 DEF RingInv, Claimed, InClaim
  <2> HIDE DEF x
  <2>3. state'[x] = "PENDING" /\ \A y \in Slots : y # x => state'[y] = state[y]
    BY <2>1
  <2>4. \A u \in Threads : ~InClaim(u)'
    BY <2>1, <2>2 DEF InClaim
  <2>5. \A y \in Slots : Live(y)' => Live(y)
    BY <2>1, <2>3, <2>4 DEF Live, Held, InClaim, x
  <2>6. \A y \in Slots : Held(y)' <=> Held(y)
    BY <2>1, <2>2, <2>3, <2>4 DEF Held, InClaim, x
  <2>7. \A y \in Slots : Executing(y)' => Executing(y) /\ state'[y] # "FREE"
    <3>1. \A y \in Slots : Executing(y)' => Executing(y)
      BY <2>1, <2>3 DEF Executing, Here
    <3> QED BY <2>3, <3>1, LiveNamed
  <2> QED BY <2>1, <2>4, <2>5, <2>6, <2>7, GateFrame
<1> QED BY <1>1, <1>2, <1>3

\* The steps of the I/O threads and the device between dispatching an
\* operation and settling it, and the closing of the driver.
LEMMA GateQuiet ==
  ASSUME TypeInv, RingInv, OpInv, GateInv,
         UNCHANGED <<state, opOf, seq, pc, curOp, curSlot, nextOp, call, result,
                     gate, nextSeq, slog, spos, parked>>,
         \A x \in Slots : Executing(x)' => Executing(x)
  PROVE  GateInv'
<1>1. \A x \in Slots : (Live(x)' <=> Live(x)) /\ (Held(x)' <=> Held(x))
  BY DEF Live, Held, InClaim
<1>2. \A x \in Slots : Executing(x)' => Executing(x) /\ state'[x] # "FREE"
  BY LiveNamed
<1>3. \A t \in Threads : InClaim(t)' <=> InClaim(t)
  BY DEF InClaim
<1> QED BY <1>1, <1>2, <1>3, OpTypes, GateFrame

\* A new sequence number: everything of the stream lies two further behind.
LEMMA GateClaim ==
  ASSUME TypeInv, RingInv, OpInv, GateInv, NEW t \in Threads, ClaimStream(t)
  PROVE  GateInv'
<1> USE DEF workerVars, streamVars
<1>0. PICK x \in Slots : x = SlotAt(rr, head[rr])
  BY OpTypes, SlotAtType
<1>1. /\ pc[t] = "claim" /\ lock = NoThread /\ HasRoom(rr)
      /\ call[curOp[t]].mode = "stream"
      /\ SeqInWindow(call[curOp[t]].strm)
      /\ nextSeq' = [nextSeq EXCEPT ![call[curOp[t]].strm] = WAdd(@, 1)]
      /\ seq' = [seq EXCEPT ![x] = WAdd(nextSeq[call[curOp[t]].strm], 1)]
      /\ opOf' = [opOf EXCEPT ![x] = curOp[t]]
      /\ curSlot' = [curSlot EXCEPT ![t] = x]
      /\ pc' = [pc EXCEPT ![t] = "gate"]
      /\ UNCHANGED <<state, curOp, nextOp, call, result, gate, slog, spos, parked,
                     wpc, wi>>
  BY <1>0 DEF ClaimStream
<1>2. PICK s \in Streams : s = call[curOp[t]].strm
  <2>1. \A c \in Call : c.mode = "stream" => c.strm \in Streams
    BY DEF Call
  <2> QED BY <1>1, <2>1, OpTypes
<1>3. state[x] = "FREE"
  BY <1>0, <1>1, HeadFree, OpTypes DEF RingInv
<1>4. \A u \in Threads : ~InClaim(u) /\ (InClaim(u)' <=> u = t)
  BY <1>1, OpTypes DEF RingInv, Claimed, InClaim
<1>5. /\ pc'[t] = "gate" /\ curSlot'[t] = x
      /\ opOf'[x] = curOp[t] /\ seq'[x] = nextSeq'[s]
      /\ nextSeq'[s] = WAdd(nextSeq[s], 1)
      /\ \A y \in Slots : y # x => opOf'[y] = opOf[y] /\ seq'[y] = seq[y]
      /\ \A r \in Streams : r # s => nextSeq'[r] = nextSeq[r]
  BY <1>1, <1>2, OpTypes, GateTypes
<1>6. /\ ~Live(x) /\ ~Held(x) /\ ~Executing(x)
      /\ \A y \in Slots : /\ Held(y)' <=> Held(y)
                          /\ Live(y)' <=> Live(y) \/ y = x
                          /\ Executing(y)' <=> Executing(y)
  <2>1. ~Live(x) /\ ~Held(x)
    BY <1>3, <1>4 DEF Live, Held, InClaim
  <2>2. \A y \in Slots : Held(y)' <=> Held(y)
    BY <1>1, <1>4, <1>5 DEF Held, InClaim
  <2>3. \A y \in Slots : Live(y)' <=> Live(y) \/ y = x
    BY <1>4, <1>5, <2>2 DEF Live
  <2>4. \A y \in Slots : Executing(y)' <=> Executing(y)
    BY <1>1 DEF Executing, Here
  <2> QED BY <2>1, <2>2, <2>3, <2>4, LiveNamed
<1>7. \A y \in Slots : y # x => CallAt(y)' = CallAt(y) /\ (IsStream(y)' <=> IsStream(y))
  BY <1>1, <1>5 DEF CallAt, IsStream
<1>8. \A r \in Streams : Due(r)' = Due(r) /\ \A i : ParkedAt(r, i)' <=> ParkedAt(r, i)
  BY <1>1 DEF Due, ParkedAt
<1>9. ASSUME NEW r \in Streams, NEW i \in Due(r)
      PROVE  Val(r, i)' = Val(r, i) /\ (Arriving(r, i)' <=> Arriving(r, i))
  <2>1. Arriving(r, i)' <=> Arriving(r, i)
    BY <1>1, <1>8 DEF Arriving
  <2>2. CASE slog[r][i].k = "host" /\ ~ParkedAt(r, i)
    <3>1. PICK y \in Slots : Tie(r, i, y)
      BY <2>2 DEF GateInv, Backed, Arriving
    <3>2. slog[r][i].x = y /\ y # x
      BY <1>6, <2>2, <3>1 DEF Tie
    <3> QED BY <1>1, <1>5, <1>8, <2>1, <2>2, <3>2 DEF Val
  <2>3. CASE slog[r][i].k # "host" \/ ParkedAt(r, i)
    BY <1>1, <1>8, <2>1, <2>3 DEF Val
  <2> QED BY <2>2, <2>3
<1> DEFINE d(r) == IF r = s THEN 2 ELSE 0
<1>10. \A r \in Streams : \A v \in Word : Lag(r, v) <= Half =>
         WSub(Released(nextSeq'[r]), v) = Lag(r, v) + d(r)
  <2> SUFFICES ASSUME NEW r \in Streams, NEW v \in Word, Lag(r, v) <= Half
               PROVE  WSub(Released(nextSeq'[r]), v) = Lag(r, v) + d(r)
    BY Zenon
  <2>1. nextSeq[r] \in Word /\ Lag(r, v) \in Nat
    BY GateTypes, Lags
  <2>2. CASE r = s
    BY <1>5, <2>1, <2>2, NextNumber DEF Lag
  <2>3. CASE r # s
    <3>1. WSub(Released(nextSeq'[r]), v) = Lag(r, v)
      BY <1>5, <2>3 DEF Lag
    <3> QED BY <2>1, <2>3, <3>1
  <2> QED BY <2>2, <2>3
<1>11. \A r \in Streams : /\ Lag(r, gate[r]) \in Nat /\ Lag(r, gate[r]) <= Half
                          /\ Lag(r, gate[r])' = Lag(r, gate[r]) + d(r)
  <2>1. \A r \in Streams : Lag(r, gate[r]) \in Nat /\ Lag(r, gate[r]) <= Half
    BY Lags DEF GateInv, InWindow
  <2> QED BY <1>1, <1>10, <2>1, GateTypes DEF Lag
<1>12. Half \in Nat
  BY HalfAssumption
<1>13. \A r \in Streams : \A i \in Due(r) :
         /\ Lag(r, Val(r, i)) \in Nat
         /\ Lag(r, Val(r, i))' = Lag(r, Val(r, i)) + d(r)
  <2> SUFFICES ASSUME NEW r \in Streams, NEW i \in Due(r)
               PROVE /\ Lag(r, Val(r, i)) \in Nat
                     /\ Lag(r, Val(r, i))' = Lag(r, Val(r, i)) + d(r)
    BY Zenon
  <2>1. Lag(r, Val(r, i)) \in Nat /\ Val(r, i) \in Word
    BY DueLags DEF GateInv
  <2>2. Lag(r, Val(r, i)) <= Half
    BY <1>11, <1>12, <2>1 DEF GateInv, Ahead
  <2>3. Lag(r, Val(r, i))' = WSub(Released(nextSeq'[r]), Val(r, i))
    BY <1>9 DEF Lag
  <2> QED BY <1>10, <2>1, <2>2, <2>3
<1>14. \A r \in Streams : \A y \in Slots :
         y # x /\ Live(y) /\ IsStream(y) /\ CallAt(y).strm = r =>
           /\ LagRel(r, y) \in Nat /\ LagRel(r, y) < Lag(r, gate[r])
           /\ LagRel(r, y)' = LagRel(r, y) + d(r)
  <2> SUFFICES ASSUME NEW r \in Streams, NEW y \in Slots, y # x, Live(y),
                      IsStream(y), CallAt(y).strm = r
               PROVE /\ LagRel(r, y) \in Nat /\ LagRel(r, y) < Lag(r, gate[r])
                     /\ LagRel(r, y)' = LagRel(r, y) + d(r)
    BY Zenon
  <2>1. LagRel(r, y) \in Nat /\ Released(seq[y]) \in Word
    BY Lags, GateTypes, WordClosed
  <2>2. LagRel(r, y) < Lag(r, gate[r])
    BY DEF GateInv, Unreleased
  <2>3. LagRel(r, y) <= Half
    BY <1>11, <1>12, <2>1, <2>2
  <2>4. LagRel(r, y)' = WSub(Released(nextSeq'[r]), Released(seq[y]))
    BY <1>5 DEF LagRel, Lag
  <2> QED BY <1>10, <2>1, <2>2, <2>3, <2>4 DEF LagRel
<1> HIDE DEF d
<1>15. d(s) = 2 /\ \A r \in Streams : d(r) \in Nat
  BY DEF d
<1>16. ASSUME NEW r \in Streams, NEW i \in Due(r), NEW y \in Slots, Tie(r, i, y)
       PROVE  Tie(r, i, y)'
  <2>1. Held(y) /\ y # x
    BY <1>6, <1>16 DEF Tie
  <2> QED BY <1>1, <1>5, <1>6, <1>8, <1>16, <2>1 DEF Tie
<1>17. LogShape' /\ HeldUntilSettled'
  BY <1>1 DEF GateInv, LogShape, Fits, HeldUntilSettled
<1>18. NewestClaim'
  BY <1>1, <1>2, <1>4, <1>5 DEF NewestClaim
<1>19. InWindow'
  <2>1. Lag(s, gate[s])' <= Half
    BY <1>1, <1>2, <1>5 DEF SeqInWindow, Lag
  <2>2. \A r \in Streams : r # s => Lag(r, gate[r])' <= Half
    BY <1>11 DEF d
  <2> QED BY <2>1, <2>2 DEF InWindow
<1>20. Ahead'
  <2> SUFFICES ASSUME NEW r \in Streams, NEW i \in Due(r)
               PROVE /\ Lag(r, Val(r, i))' <= Lag(r, gate[r])'
                     /\ Arriving(r, i) => Lag(r, Val(r, i))' < Lag(r, gate[r])'
    BY <1>8, <1>9 DEF Ahead
  <2>1. /\ Lag(r, Val(r, i)) <= Lag(r, gate[r])
        /\ Arriving(r, i) => Lag(r, Val(r, i)) < Lag(r, gate[r])
    BY DEF GateInv, Ahead
  <2> QED BY <1>11, <1>13, <1>15, <2>1
<1>21. Sorted'
  <2> SUFFICES ASSUME NEW r \in Streams, NEW i \in Due(r), NEW j \in Due(r), i < j
               PROVE  Lag(r, Val(r, j))' < Lag(r, Val(r, i))'
    BY <1>8 DEF Sorted
  <2>1. Lag(r, Val(r, j)) < Lag(r, Val(r, i))
    BY DEF GateInv, Sorted
  <2> QED BY <1>13, <1>15, <2>1
<1>22. LastClaim'
  <2> SUFFICES /\ Lag(s, gate[s])' > 1
               /\ \A i \in Due(s) : Lag(s, Val(s, i))' > 1
    <3>1. \A u \in Threads : pc'[u] \in {"gate", "wait"} => u = t
      BY <1>4 DEF InClaim
    <3>2. call'[curOp'[t]].strm = s
      BY <1>1, <1>2
    <3> QED BY <1>5, <1>8, <3>1, <3>2 DEF LastClaim
  <2> QED BY <1>11, <1>13, <1>15
<1>23. Unreleased'
  <2> SUFFICES ASSUME NEW y \in Slots, Live(y)', IsStream(y)',
                      NEW r, r = CallAt(y)'.strm
               PROVE  LagRel(r, y)' < Lag(r, gate[r])'
    BY DEF Unreleased
  <2>1. CASE y = x
    <3>1. r = s
      BY <1>1, <1>2, <1>5, <2>1 DEF CallAt
    <3>2. Released(nextSeq'[s]) \in Word
      BY <1>5, GateTypes, WordClosed, SmallWords
    <3>3. LagRel(s, x)' = 0
      BY <1>5, <3>2, WordSteps DEF LagRel, Lag
    <3> QED BY <1>11, <1>15, <2>1, <3>1, <3>3
  <2>2. CASE y # x
    <3>1. Live(y) /\ IsStream(y) /\ r = CallAt(y).strm /\ r \in Streams
      BY <1>6, <1>7, <2>2, LiveNamed
    <3> QED BY <1>11, <1>14, <1>15, <2>2, <3>1
  <2> QED BY <2>1, <2>2
<1>24. Tied'
  <2> SUFFICES ASSUME NEW y \in Slots, Held(y)', IsStream(y)',
                      NEW r, r = CallAt(y)'.strm
               PROVE  \E i \in Due(r)' : slog'[r][i].k # "write" /\ Tie(r, i, y)'
    BY DEF Tied
  <2>1. Held(y) /\ IsStream(y) /\ r = CallAt(y).strm /\ r \in Streams
    BY <1>6, <1>7, LiveNamed
  <2>2. PICK i \in Due(r) : slog[r][i].k # "write" /\ Tie(r, i, y)
    BY <2>1 DEF GateInv, Tied
  <2>3. Tie(r, i, y)'
    BY <1>16, <2>1, <2>2
  <2> QED BY <1>1, <1>8, <2>1, <2>2, <2>3
<1>25. Backed'
  <2> SUFFICES ASSUME NEW r \in Streams, NEW i \in Due(r), slog[r][i].k # "write"
               PROVE  \/ ~Arriving(r, i) /\ result[slog[r][i].op] # "none"
                      \/ \E y \in Slots : Tie(r, i, y)'
    BY <1>1, <1>8, <1>9 DEF Backed
  <2> QED BY <1>16 DEF GateInv, Backed
<1>26. AtGate'
  <2> SUFFICES ASSUME NEW y \in Slots, Executing(y)', IsStream(y)',
                      NEW r, r = CallAt(y)'.strm
               PROVE  Lag(r, gate[r])' = LagRel(r, y)' + 1
    BY DEF AtGate, OnTime
  <2>1. /\ Executing(y) /\ y # x /\ Live(y) /\ IsStream(y) /\ r = CallAt(y).strm
        /\ r \in Streams
    BY <1>6, <1>7, LiveNamed
  <2>2. Lag(r, gate[r]) = LagRel(r, y) + 1
    BY <2>1 DEF GateInv, AtGate, OnTime
  <2> QED BY <1>11, <1>14, <1>15, <2>1, <2>2
<1> QED BY <1>17, <1>18, <1>19, <1>20, <1>21, <1>22, <1>23, <1>24, <1>25, <1>26
        DEF GateInv

\* Command c becomes the last, and n-th, of stream s.
GrowsBy(s, n, c) ==
  /\ n = Len(slog[s]) + 1 /\ Len(slog'[s]) = n /\ slog'[s][n] = c
  /\ \A i \in 1 .. Len(slog[s]) : slog'[s][i] = slog[s][i]
  /\ \A r \in Streams : r # s => slog'[r] = slog[r]
  /\ UNCHANGED <<spos, parked>>

\* A command of the gate of the operation that thread t submits in slot x.
GateCommand(t, x, c) ==
  /\ c.op = curOp[t] /\ c.x = x
  /\ c.k = "host" <=> AlignedOnly
  /\ c.k = "write" => c.v = Arrived(seq[x])
  /\ c.k = "wait" => c.v = Released(seq[x])
  /\ \/ pc[t] = "gate" /\ c.k \in {"write", "host"}
     \/ pc[t] = "wait" /\ c.k = "wait"
  /\ pc' = [pc EXCEPT ![t] = IF c.k = "write" THEN "wait" ELSE "publish"]

\* The holder of submit_lock enqueues a command of its gate: it comes after
\* everything enqueued, and what holds the stream is tied to the slot.
LEMMA Appended ==
  ASSUME TypeInv, RingInv, OpInv, GateInv, NEW t \in Threads, NEW s \in Streams,
         NEW x \in Slots, InClaim(t), s = call[curOp[t]].strm, x = curSlot[t],
         NEW c \in CommandType, GateCommand(t, x, c), NEW n \in Nat, GrowsBy(s, n, c),
         UNCHANGED <<state, opOf, seq, curOp, curSlot, nextOp, call, result, gate,
                     nextSeq, wpc, wi>>
  PROVE  GateInv'
<1> USE DEF GateCommand, GrowsBy
<1>1. spos[s] \in Nat /\ Len(slog[s]) \in Nat /\ spos[s] <= Len(slog[s])
  BY GateTypes DEF GateInv, LogShape
<1>2. c.k \in {"write", "wait", "host"} /\ c.op \in Ops /\ c.op < nextOp
      /\ call[c.op].mode = "stream" /\ call[c.op].strm = s /\ opOf[x] = c.op
  BY LiveNamed DEF IsStream, CallAt
<1>3. /\ Due(s)' = Due(s) \cup {n} /\ n \notin Due(s)
      /\ \A i \in Due(s) : i \in 1 .. Len(slog[s]) /\ i < n
      /\ \A r \in Streams : r # s => Due(r)' = Due(r)
  <2>1. \A i \in Due(s) : i \in 1 .. Len(slog[s]) /\ i < n
    BY <1>1 DEF Due
  <2>2. \A r \in Streams : r # s => Due(r)' = Due(r)
    BY DEF Due
  <2>3. ASSUME NEW i
        PROVE  i \in Due(s)' <=> i \in Due(s) \cup {n}
    <3>1. CASE i = n
      <4>1. n \in spos[s] + 1 .. n
        BY <1>1
      <4>2. slog'[s][n].k # "copy"
        BY <1>2
      <4> QED BY <3>1, <4>1, <4>2 DEF Due
    <3>2. CASE i # n
      <4>1. i \in spos[s] + 1 .. n <=> i \in spos[s] + 1 .. Len(slog[s])
        BY <1>1, <3>2
      <4>2. i \in spos[s] + 1 .. Len(slog[s]) => slog'[s][i] = slog[s][i]
        <5>1. i \in spos[s] + 1 .. Len(slog[s]) => i \in 1 .. Len(slog[s])
          BY <1>1
        <5> QED BY <5>1
      <4> QED BY <3>2, <4>1, <4>2 DEF Due
    <3> QED BY <3>1, <3>2
  <2>4. Due(s)' = Due(s) \cup {n}
    BY <2>3
  <2>5. n \notin Due(s)
    BY <2>1
  <2> QED BY <2>1, <2>2, <2>4, <2>5
<1>4. /\ \A r \in Streams : \A i : ParkedAt(r, i)' <=> ParkedAt(r, i)
      /\ ~ParkedAt(s, n)
  BY <1>1 DEF ParkedAt, GateInv, LogShape
<1>5. \A r \in Streams : \A i \in Due(r) : slog'[r][i] = slog[r][i]
  BY <1>3
<1>6. \A r \in Streams : \A i \in Due(r) :
        /\ Val(r, i)' = Val(r, i) /\ (Arriving(r, i)' <=> Arriving(r, i))
        /\ Lag(r, Val(r, i))' = Lag(r, Val(r, i)) /\ Lag(r, Val(r, i)) \in Nat
  <2> SUFFICES ASSUME NEW r \in Streams, NEW i \in Due(r)
               PROVE /\ Val(r, i)' = Val(r, i) /\ (Arriving(r, i)' <=> Arriving(r, i))
                     /\ Lag(r, Val(r, i))' = Lag(r, Val(r, i))
                     /\ Lag(r, Val(r, i)) \in Nat
    BY Zenon
  <2>1. Val(r, i)' = Val(r, i) /\ (Arriving(r, i)' <=> Arriving(r, i))
    BY <1>4, <1>5 DEF Val, Arriving
  <2>2. Lag(r, Val(r, i)) \in Nat
    BY DueLags DEF GateInv
  <2> QED BY <2>1, <2>2 DEF Lag
<1>7. /\ \A r \in Streams : Lag(r, gate[r])' = Lag(r, gate[r])
      /\ \A r \in Streams : \A y \in Slots : LagRel(r, y)' = LagRel(r, y)
      /\ Lag(s, gate[s]) \in Nat
  BY Lags DEF Lag, LagRel
<1> DEFINE e == IF c.k = "wait" THEN 0 ELSE 1
<1>8. Lag(s, Val(s, n))' = e /\ (Arriving(s, n)' <=> c.k # "wait")
  <2>1. Arriving(s, n)' <=> c.k # "wait"
    BY <1>2, <1>4 DEF Arriving
  <2>2. LagRel(s, x) = 0 /\ Lag(s, Arrived(seq[x])) = 1
    BY Lags DEF GateInv, NewestClaim
  <2>3. Val(s, n)' = IF c.k = "wait" THEN Released(seq[x]) ELSE Arrived(seq[x])
    BY <1>2, <1>4 DEF Val
  <2>4. Lag(s, Val(s, n))' = Lag(s, IF c.k = "wait" THEN Released(seq[x])
                                                    ELSE Arrived(seq[x]))
    BY <2>3 DEF Lag
  <2> QED BY <2>1, <2>2, <2>4 DEF LagRel
<1>9. \A i \in Due(s) : Lag(s, Val(s, i)) > e
  BY DEF GateInv, LastClaim
<1>10. e <= Lag(s, gate[s]) /\ (c.k # "wait" => e < Lag(s, gate[s]))
  BY <1>7 DEF GateInv, LastClaim
<1>11. e \in Nat
  OBVIOUS
<1> HIDE DEF e
<1>12. \A u \in Threads : /\ InClaim(u) <=> u = t
                          /\ InClaim(u)' <=> u = t
                          /\ u # t => pc'[u] = pc[u]
  <2>1. \A u \in Threads : InClaim(u) <=> u = t
    BY DEF RingInv, Claimed, InClaim
  <2> QED BY <2>1, OpTypes DEF InClaim
<1>13. pc'[t] = IF c.k = "write" THEN "wait" ELSE "publish"
  BY OpTypes
<1>14. \A y \in Slots : /\ Held(y) => Held(y)'
                        /\ Held(y)' => Held(y) \/ (y = x /\ c.k # "write")
                        /\ Live(y)' <=> Live(y)
                        /\ Executing(y)' <=> Executing(y)
  <2>1. \A y \in Slots : /\ Held(y) => Held(y)'
                         /\ Held(y)' => Held(y) \/ (y = x /\ c.k # "write")
    BY <1>12, <1>13 DEF Held, InClaim
  <2>2. \A y \in Slots : Live(y)' <=> Live(y)
    BY <1>12, <2>1 DEF Live
  <2>3. \A y \in Slots : Executing(y)' <=> Executing(y)
    BY DEF Executing, Here
  <2> QED BY <2>1, <2>2, <2>3
<1>15. \A y \in Slots : CallAt(y)' = CallAt(y) /\ (IsStream(y)' <=> IsStream(y))
  BY DEF CallAt, IsStream
<1>16. c.k # "write" => Held(x)' /\ Tie(s, n, x)'
  <2>1. c.k # "write" => Held(x)'
    BY <1>13 DEF Held
  <2> QED BY <1>2, <1>4, <2>1 DEF Tie
<1>17. ASSUME NEW r \in Streams, NEW i \in Due(r), NEW y \in Slots, Tie(r, i, y)
       PROVE  Tie(r, i, y)'
  BY <1>4, <1>5, <1>14, <1>17 DEF Tie
<1>18. LogShape'
  <2>1. \A r \in Streams : \A b : Fits(r, b)' <=> Fits(r, b)
    BY DEF Fits
  <2>2. Fits(s, c)
    <3>1. seq[x] \in Word
      BY GateTypes
    <3> QED BY <1>2, <3>1 DEF Fits
  <2>3. ASSUME NEW i \in 1 .. n
        PROVE  Fits(s, slog'[s][i])
    <3>1. CASE i \in 1 .. Len(slog[s])
      <4>1. slog'[s][i] = slog[s][i] /\ Fits(s, slog[s][i])
        BY <3>1 DEF GateInv, LogShape
      <4> QED BY <4>1
    <3>2. CASE i = n
      BY <2>2, <3>2
    <3>3. i \in 1 .. Len(slog[s]) \/ i = n
      BY <1>1
    <3> QED BY <3>1, <3>2, <3>3
  <2>4. /\ spos[s] <= Len(slog'[s])
        /\ \A i \in 1 .. Len(slog'[s]) : Fits(s, slog'[s][i])
        /\ parked[s] # NotParked => spos[s] < Len(slog'[s]) /\ AlignedOnly
    <3>1. parked[s] # NotParked => spos[s] < Len(slog[s]) /\ AlignedOnly
      BY DEF GateInv, LogShape
    <3>2. spos[s] <= n /\ (spos[s] < Len(slog[s]) => spos[s] < n)
      BY <1>1
    <3> QED BY <2>3, <3>1, <3>2
  <2>5. ASSUME NEW r \in Streams, r # s
        PROVE /\ spos[r] <= Len(slog'[r])
              /\ \A i \in 1 .. Len(slog'[r]) : Fits(r, slog'[r][i])
              /\ parked[r] # NotParked => spos[r] < Len(slog'[r]) /\ AlignedOnly
    BY <2>5 DEF GateInv, LogShape
  <2> QED BY <2>1, <2>4, <2>5 DEF LogShape
<1>19. HeldUntilSettled'
  <2>1. \A i \in 1 .. spos[s] : slog'[s][i] = slog[s][i]
    <3>1. \A i \in 1 .. spos[s] : i \in 1 .. Len(slog[s])
      BY <1>1
    <3> QED BY <3>1
  <2>2. \A r \in Streams : \A i \in 1 .. spos[r] : slog'[r][i] = slog[r][i]
    BY <2>1
  <2> QED BY <2>2 DEF GateInv, HeldUntilSettled
<1>20. NewestClaim' /\ InWindow'
  BY <1>7, <1>12 DEF GateInv, NewestClaim, InWindow
<1>21. Ahead'
  <2> SUFFICES ASSUME NEW r \in Streams, NEW i \in Due(r)'
               PROVE /\ Lag(r, Val(r, i))' <= Lag(r, gate[r])'
                     /\ Arriving(r, i)' => Lag(r, Val(r, i))' < Lag(r, gate[r])'
    BY DEF Ahead
  <2>1. CASE i \in Due(r)
    BY <1>6, <1>7, <2>1 DEF GateInv, Ahead
  <2>2. CASE r = s /\ i = n
    BY <1>7, <1>8, <1>10, <2>2
  <2> QED BY <1>3, <2>1, <2>2
<1>22. Sorted'
  <2> SUFFICES ASSUME NEW r \in Streams, NEW i \in Due(r)', NEW j \in Due(r)', i < j
               PROVE  Lag(r, Val(r, j))' < Lag(r, Val(r, i))'
    BY DEF Sorted
  <2>1. CASE i \in Due(r) /\ j \in Due(r)
    BY <1>6, <2>1 DEF GateInv, Sorted
  <2>2. CASE r = s /\ i \in Due(s) /\ j = n
    BY <1>6, <1>8, <1>9, <1>11, <2>2
  <2>3. CASE r = s /\ i = n
    <3>1. j \in Nat /\ j <= n
      BY <1>1, <1>3, <2>3
    <3> QED BY <2>3, <3>1
  <2> QED BY <1>3, <2>1, <2>2, <2>3
<1>23. LastClaim'
  <2>1. \A u \in Threads : pc'[u] \in {"gate", "wait"} =>
          u = t /\ pc'[u] = "wait" /\ c.k = "write"
    BY <1>12, <1>13 DEF InClaim
  <2>2. c.k = "write" => \A i \in Due(s)' : Lag(s, Val(s, i))' > 0
    BY <1>3, <1>6, <1>8, <1>9, <1>11 DEF e
  <2> QED BY <2>1, <2>2 DEF LastClaim
<1>24. Unreleased' /\ AtGate'
  BY <1>7, <1>14, <1>15, LiveNamed DEF GateInv, Unreleased, AtGate, OnTime
<1>25. Tied'
  <2> SUFFICES ASSUME NEW y \in Slots, Held(y)', IsStream(y)',
                      NEW r, r = CallAt(y)'.strm
               PROVE  \E i \in Due(r)' : slog'[r][i].k # "write" /\ Tie(r, i, y)'
    BY DEF Tied
  <2>1. CASE Held(y)
    <3>1. IsStream(y) /\ r = CallAt(y).strm /\ r \in Streams
      BY <1>15, <2>1, LiveNamed
    <3>2. PICK i \in Due(r) : slog[r][i].k # "write" /\ Tie(r, i, y)
      BY <2>1, <3>1 DEF GateInv, Tied
    <3>3. Tie(r, i, y)'
      BY <1>17, <3>1, <3>2
    <3> QED BY <1>3, <1>5, <3>1, <3>2, <3>3
  <2>2. CASE y = x /\ c.k # "write"
    <3>1. r = s
      BY <1>2, <2>2 DEF CallAt
    <3> QED BY <1>3, <1>16, <2>2, <3>1
  <2> QED BY <1>14, <2>1, <2>2
<1>26. Backed'
  <2> SUFFICES ASSUME NEW r \in Streams, NEW i \in Due(r)', slog'[r][i].k # "write"
               PROVE  \/ ~Arriving(r, i)' /\ result[slog'[r][i].op] # "none"
                      \/ \E y \in Slots : Tie(r, i, y)'
    BY DEF Backed
  <2>1. CASE i \in Due(r)
    <3>1. \/ ~Arriving(r, i) /\ result[slog[r][i].op] # "none"
          \/ \E y \in Slots : Tie(r, i, y)
      BY <1>5, <2>1 DEF GateInv, Backed
    <3> QED BY <1>5, <1>6, <1>17, <2>1, <3>1
  <2>2. CASE r = s /\ i = n
    BY <1>16, <2>2
  <2> QED BY <1>3, <2>1, <2>2
<1> QED BY <1>18, <1>19, <1>20, <1>21, <1>22, <1>23, <1>24, <1>25, <1>26 DEF GateInv

\* A stream that accepts a command keeps what it has and puts it last.
LEMMA Enqueued ==
  ASSUME TypeInv, NEW s \in Streams, NEW k \in {"write", "wait", "host", "copy"},
         NEW o \in Ops, NEW v \in Word, NEW x \in Slots, Enqueue(s, k, o, v, x)
  PROVE  \E c \in CommandType : \E n \in Nat :
           /\ c.k = k /\ c.op = o /\ c.v = v /\ c.x = x
           /\ GrowsBy(s, n, c)
<1>1. PICK c : c = [k |-> k, op |-> o, v |-> v, x |-> x]
  OBVIOUS
<1>2. c \in CommandType /\ c.k = k /\ c.op = o /\ c.v = v /\ c.x = x
  BY <1>1 DEF CommandType
<1>3. PICK n : n = Len(slog[s]) + 1
  OBVIOUS
<1>4. slog[s] \in Seq(CommandType) /\ Len(slog[s]) \in Nat /\ n \in Nat
  BY <1>3, GateTypes
<1>5. /\ slog' = [slog EXCEPT ![s] = Append(slog[s], c)]
      /\ UNCHANGED <<spos, parked>>
  BY <1>1 DEF Enqueue
<1>6. slog'[s] = Append(slog[s], c) /\ \A r \in Streams : r # s => slog'[r] = slog[r]
  BY <1>5, GateTypes
<1>7. Len(slog'[s]) = n
  BY <1>2, <1>3, <1>4, <1>6
<1>8. slog'[s][n] = c
  BY <1>2, <1>3, <1>4, <1>6
<1>9. \A i \in 1 .. Len(slog[s]) : slog'[s][i] = slog[s][i]
  BY <1>2, <1>4, <1>6
<1>10. GrowsBy(s, n, c)
  BY <1>3, <1>5, <1>6, <1>7, <1>8, <1>9 DEF GrowsBy
<1> QED BY <1>2, <1>4, <1>10

\* The enqueues of submit_stream_op.
LEMMA GateEnqueues ==
  ASSUME TypeInv, RingInv, OpInv, GateInv, NEW t \in Threads,
         EnqueueGate(t) \/ EnqueueWait(t)
  PROVE  GateInv'
<1>1. InClaim(t)
  BY DEF EnqueueGate, EnqueueWait, InClaim
<1>2. PICK s \in Streams : s = call[curOp[t]].strm
  BY <1>1, LiveNamed
<1>3. PICK x \in Slots : x = curSlot[t]
  BY <1>1, LiveNamed
<1>4. PICK o \in Ops : o = curOp[t]
  BY <1>1, LiveNamed
<1>5. /\ UNCHANGED <<state, opOf, seq, curOp, curSlot, nextOp, call, result, gate,
                     nextSeq, wpc, wi>>
      /\ 0 \in Word /\ Arrived(seq[x]) \in Word /\ Released(seq[x]) \in Word
  BY GateTypes, WordClosed, SmallWords
     DEF EnqueueGate, EnqueueWait, ringVars, slotVars, gateVars, workerVars
<1>6. CASE EnqueueGate(t) /\ AlignedOnly
  <2>1. Enqueue(s, "host", o, 0, x) /\ pc' = [pc EXCEPT ![t] = "publish"]
        /\ pc[t] = "gate"
    BY <1>2, <1>3, <1>4, <1>6 DEF EnqueueGate
  <2>2. PICK c \in CommandType : \E n \in Nat :
           /\ c.k = "host" /\ c.op = o /\ c.v = 0 /\ c.x = x
           /\ GrowsBy(s, n, c)
    BY <1>5, <2>1, Enqueued
  <2>3. c.k = "host" /\ c.op = curOp[t] /\ c.x = x
    BY <1>4, <2>2
  <2>4. pc' = [pc EXCEPT ![t] = IF c.k = "write" THEN "wait" ELSE "publish"]
    BY <2>1, <2>3
  <2>5. GateCommand(t, x, c)
    BY <1>6, <2>1, <2>3, <2>4 DEF GateCommand
  <2>6. PICK n \in Nat : GrowsBy(s, n, c)
    BY <2>2
  <2> QED BY <1>1, <1>2, <1>3, <1>5, <2>5, <2>6, Appended
<1>7. CASE EnqueueGate(t) /\ ~AlignedOnly
  <2>1. Enqueue(s, "write", o, Arrived(seq[x]), x) /\ pc' = [pc EXCEPT ![t] = "wait"]
        /\ pc[t] = "gate"
    BY <1>2, <1>3, <1>4, <1>7 DEF EnqueueGate
  <2>2. PICK c \in CommandType : \E n \in Nat :
           /\ c.k = "write" /\ c.op = o /\ c.v = Arrived(seq[x]) /\ c.x = x
           /\ GrowsBy(s, n, c)
    BY <1>5, <2>1, Enqueued
  <2>3. c.k = "write" /\ c.op = curOp[t] /\ c.x = x /\ c.v = Arrived(seq[x])
    BY <1>4, <2>2
  <2>4. pc' = [pc EXCEPT ![t] = IF c.k = "write" THEN "wait" ELSE "publish"]
    BY <2>1, <2>3
  <2>5. GateCommand(t, x, c)
    BY <1>7, <2>1, <2>3, <2>4 DEF GateCommand
  <2>6. PICK n \in Nat : GrowsBy(s, n, c)
    BY <2>2
  <2> QED BY <1>1, <1>2, <1>3, <1>5, <2>5, <2>6, Appended
<1>8. CASE EnqueueWait(t)
  <2>1. Enqueue(s, "wait", o, Released(seq[x]), x) /\ pc[t] = "wait"
        /\ pc' = [pc EXCEPT ![t] = "publish"] /\ ~AlignedOnly
    BY <1>2, <1>3, <1>4, <1>8 DEF EnqueueWait, WaitValue, OpInv, ClaimFilled
  <2>2. PICK c \in CommandType : \E n \in Nat :
           /\ c.k = "wait" /\ c.op = o /\ c.v = Released(seq[x]) /\ c.x = x
           /\ GrowsBy(s, n, c)
    BY <1>5, <2>1, Enqueued
  <2>3. c.k = "wait" /\ c.op = curOp[t] /\ c.x = x /\ c.v = Released(seq[x])
    BY <1>4, <2>2
  <2>4. pc' = [pc EXCEPT ![t] = IF c.k = "write" THEN "wait" ELSE "publish"]
    BY <2>1, <2>3
  <2>5. GateCommand(t, x, c)
    BY <2>1, <2>3, <2>4 DEF GateCommand
  <2>6. PICK n \in Nat : GrowsBy(s, n, c)
    BY <2>2
  <2> QED BY <1>1, <1>2, <1>3, <1>5, <2>5, <2>6, Appended
<1> QED BY <1>6, <1>7, <1>8

\* The copy kernel is enqueued and runs without touching the gate.
LEMMA GateCopies ==
  ASSUME TypeInv, RingInv, OpInv, GateInv,
         \/ \E t \in Threads : EnqueueCopy(t)
         \/ \E s \in Streams : RunCopy(s)
  PROVE  GateInv'
<1> USE DEF ringVars, slotVars, gateVars, workerVars, callVars
<1>1. ASSUME NEW t \in Threads, EnqueueCopy(t) PROVE GateInv'
  <2>1. /\ UNCHANGED <<state, opOf, seq, curOp, curSlot, nextOp, call, result, gate,
                       nextSeq, wpc, wi>>
        /\ pc[t] = "copy" /\ pc' = [pc EXCEPT ![t] = "idle"]
        /\ Enqueue(call[curOp[t]].strm, "copy", curOp[t], 0, curSlot[t])
    BY <1>1 DEF EnqueueCopy
  <2>2. /\ curOp[t] \in Ops /\ curOp[t] < nextOp /\ curSlot[t] \in Slots
        /\ call[curOp[t]].mode = "stream" /\ ~AlignedOnly
    BY <2>1, OpTypes DEF OpInv, OpsUsed, ClaimFilled
  <2>3. PICK s \in Streams : s = call[curOp[t]].strm
    <3>1. \A c \in Call : c.mode = "stream" => c.strm \in Streams
      BY DEF Call
    <3> QED BY <2>2, <3>1, OpTypes
  <2>4. PICK c \in CommandType : \E n \in Nat :
           /\ c.k = "copy" /\ c.op = curOp[t]
           /\ GrowsBy(s, n, c)
    <3>1. Enqueue(s, "copy", curOp[t], 0, curSlot[t])
      BY <2>1, <2>3
    <3> QED BY <2>2, <3>1, Enqueued, SmallWords
  <2>5. PICK n \in Nat : GrowsBy(s, n, c)
    BY <2>4
  <2> USE DEF GrowsBy
  <2>6. /\ spos[s] \in Nat /\ Len(slog[s]) \in Nat /\ spos[s] <= Len(slog[s])
        /\ c.k = "copy" /\ c.op \in Ops /\ c.op < nextOp
        /\ call[c.op].mode = "stream" /\ call[c.op].strm = s
    BY <2>2, <2>3, <2>4, GateTypes DEF GateInv, LogShape
  <2>7. \A r \in Streams : Due(r)' = Due(r) /\ \A i \in Due(r) :
          slog'[r][i] = slog[r][i] /\ (ParkedAt(r, i)' <=> ParkedAt(r, i))
    <3>1. \A r \in Streams : \A i : ParkedAt(r, i)' <=> ParkedAt(r, i)
      BY <2>5 DEF ParkedAt
    <3>2. \A r \in Streams : r # s => Due(r)' = Due(r)
      BY <2>5 DEF Due
    <3>3. \A i \in Due(s) : i \in 1 .. Len(slog[s])
      BY <2>6 DEF Due
    <3>4. ASSUME NEW i PROVE i \in Due(s)' <=> i \in Due(s)
      <4>1. CASE i = n
        <5>1. slog'[s][i].k = "copy"
          BY <2>5, <2>6, <4>1
        <5>2. ~(i \in spos[s] + 1 .. Len(slog[s]))
          BY <2>5, <2>6, <4>1
        <5> QED BY <5>1, <5>2 DEF Due
      <4>2. CASE i # n
        <5>1. i \in spos'[s] + 1 .. Len(slog'[s]) <=> i \in spos[s] + 1 .. Len(slog[s])
          BY <2>5, <2>6, <4>2
        <5>2. i \in spos[s] + 1 .. Len(slog[s]) => slog'[s][i] = slog[s][i]
          BY <2>5, <2>6
        <5> QED BY <5>1, <5>2 DEF Due
      <4> QED BY <4>1, <4>2
    <3>5. Due(s)' = Due(s)
      BY <3>4
    <3>6. \A r \in Streams : \A i \in Due(r) : slog'[r][i] = slog[r][i]
      BY <2>5, <3>3
    <3> QED BY <3>1, <3>2, <3>5, <3>6
  <2>8. LogShape'
    <3>1. \A r \in Streams : \A b : Fits(r, b)' <=> Fits(r, b)
      BY <2>1 DEF Fits
    <3>2. Fits(s, c)
      BY <2>2, <2>6 DEF Fits
    <3>3. \A i \in 1 .. n : Fits(s, slog'[s][i])
      <4>1. \A i \in 1 .. n : i \in 1 .. Len(slog[s]) \/ i = n
        BY <2>5, <2>6
      <4>2. \A i \in 1 .. Len(slog[s]) : Fits(s, slog'[s][i])
        BY <2>5 DEF GateInv, LogShape
      <4> QED BY <2>5, <3>2, <4>1, <4>2
    <3>4. /\ spos'[s] <= Len(slog'[s])
          /\ \A i \in 1 .. Len(slog'[s]) : Fits(s, slog'[s][i])
          /\ parked'[s] # NotParked => spos'[s] < Len(slog'[s]) /\ AlignedOnly
      <4>1. parked'[s] = NotParked
        BY <2>2, <2>5 DEF GateInv, LogShape
      <4>2. spos'[s] <= Len(slog'[s])
        BY <2>5, <2>6
      <4>3. \A i \in 1 .. Len(slog'[s]) : Fits(s, slog'[s][i])
        BY <2>5, <3>3
      <4> QED BY <4>1, <4>2, <4>3
    <3>5. ASSUME NEW r \in Streams, r # s
          PROVE /\ spos'[r] <= Len(slog'[r])
                /\ \A i \in 1 .. Len(slog'[r]) : Fits(r, slog'[r][i])
                /\ parked'[r] # NotParked => spos'[r] < Len(slog'[r]) /\ AlignedOnly
      BY <2>5, <3>5 DEF GateInv, LogShape
    <3> QED BY <3>1, <3>4, <3>5 DEF LogShape
  <2>9. HeldUntilSettled'
    <3>1. \A i \in 1 .. spos[s] : i \in 1 .. Len(slog[s])
      BY <2>6
    <3>2. \A r \in Streams : \A i \in 1 .. spos[r] : slog'[r][i] = slog[r][i]
      BY <2>5, <3>1
    <3> QED BY <2>1, <2>5, <3>2 DEF GateInv, HeldUntilSettled
  <2>10. \A u \in Threads : (InClaim(u)' <=> InClaim(u)) /\ (InClaim(u) => pc'[u] = pc[u])
    BY <2>1, OpTypes DEF InClaim
  <2>11. \A x \in Slots : (Live(x)' <=> Live(x)) /\ (Held(x)' <=> Held(x))
    <3>1. \A x \in Slots : Held(x)' <=> Held(x)
      BY <2>1, OpTypes DEF Held
    <3> QED BY <2>1, <2>10, <3>1 DEF Live
  <2>12. \A x \in Slots : Executing(x)' => Executing(x) /\ state'[x] # "FREE"
    <3>1. \A x \in Slots : Executing(x)' <=> Executing(x)
      BY <2>1 DEF Executing, Here
    <3> QED BY <2>1, <3>1, LiveNamed
  <2> QED BY <2>1, <2>5, <2>7, <2>8, <2>9, <2>10, <2>11, <2>12, GateSame
<1>2. ASSUME NEW s \in Streams, RunCopy(s) PROVE GateInv'
  <2>1. /\ UNCHANGED <<state, opOf, seq, pc, curOp, curSlot, nextOp, call, result,
                       gate, nextSeq, slog, parked, wpc, wi>>
        /\ HasCommand(s, "copy") /\ spos' = [spos EXCEPT ![s] = @ + 1]
    BY <1>2 DEF RunCopy, Step
  <2>2. PICK n : n = spos[s] + 1
    OBVIOUS
  <2>3. /\ spos[s] \in Nat /\ Len(slog[s]) \in Nat /\ n \in 1 .. Len(slog[s])
        /\ n \in Nat /\ slog[s][n].k = "copy"
        /\ spos'[s] = n /\ \A r \in Streams : r # s => spos'[r] = spos[r]
    BY <2>1, <2>2, GateTypes DEF HasCommand
  <2>4. \A r \in Streams : parked[r] # NotParked => r # s
    <3>1. parked[s] # NotParked => AlignedOnly
      BY DEF GateInv, LogShape
    <3>2. ~AlignedOnly
      BY <2>3 DEF GateInv, LogShape, Fits
    <3> QED BY <3>1, <3>2
  <2>5. \A r \in Streams : Due(r)' = Due(r) /\ \A i \in Due(r) :
          slog'[r][i] = slog[r][i] /\ (ParkedAt(r, i)' <=> ParkedAt(r, i))
    <3>1. \A r \in Streams : \A i : ParkedAt(r, i)' <=> ParkedAt(r, i)
      BY <2>1, <2>3, <2>4 DEF ParkedAt
    <3>2. \A r \in Streams : r # s => Due(r)' = Due(r)
      BY <2>1, <2>3 DEF Due
    <3>3. ASSUME NEW i PROVE i \in Due(s)' <=> i \in Due(s)
      <4>1. i \in n + 1 .. Len(slog[s]) <=> i \in spos[s] + 1 .. Len(slog[s]) /\ i # n
        BY <2>2, <2>3
      <4> QED BY <2>1, <2>3, <4>1 DEF Due
    <3>4. Due(s)' = Due(s)
      BY <3>3
    <3> QED BY <2>1, <3>1, <3>2, <3>4
  <2>6. LogShape'
    <3>1. \A r \in Streams : \A b : Fits(r, b)' <=> Fits(r, b)
      BY <2>1 DEF Fits
    <3>2. \A r \in Streams : spos'[r] <= Len(slog[r])
      BY <2>3 DEF GateInv, LogShape
    <3>3. \A r \in Streams : parked[r] # NotParked => spos'[r] < Len(slog[r])
                                                       /\ AlignedOnly
      BY <2>3, <2>4 DEF GateInv, LogShape
    <3> QED BY <2>1, <3>1, <3>2, <3>3 DEF GateInv, LogShape
  <2>7. HeldUntilSettled'
    <3>1. \A i \in 1 .. n : i \in 1 .. spos[s] \/ i = n
      BY <2>2, <2>3
    <3> QED BY <2>1, <2>3, <3>1 DEF GateInv, HeldUntilSettled
  <2>8. \A x \in Slots : /\ Live(x)' <=> Live(x)
                         /\ Held(x)' <=> Held(x)
                         /\ Executing(x)' <=> Executing(x)
    BY <2>1 DEF Live, Held, InClaim, Executing, Here
  <2>9. \A x \in Slots : Executing(x)' => state'[x] # "FREE"
    BY <2>1, <2>8, LiveNamed
  <2>10. \A u \in Threads : InClaim(u)' <=> InClaim(u)
    BY <2>1 DEF InClaim
  <2> QED BY <2>1, <2>5, <2>6, <2>7, <2>8, <2>9, <2>10, GateSame
<1> QED BY <1>1, <1>2

\* poll_stream_pending lets an operation through only when the gate word is at
\* its arrival value.
LEMMA GateDispatch ==
  ASSUME TypeInv, RingInv, OpInv, GateInv, NEW w \in Workers,
         DispatchRead(w) \/ DispatchWrite(w)
  PROVE  GateInv'
<1> USE DEF ringVars, slotVars, gateVars, callVars, streamVars
<1>0. PICK x \in Slots : x = Here(w)
  BY HereType DEF TypeInv, TypeOK
<1>1. /\ state[x] = "PENDING" /\ ~Gated(x)
      /\ UNCHANGED <<opOf, seq, pc, curOp, curSlot, nextOp, call, result, gate,
                     nextSeq, slog, spos, parked, wi>>
      /\ state' = state \/ state' = [state EXCEPT ![x] = "IN_FLIGHT"]
      /\ wpc' = [wpc EXCEPT ![w] = "start"] \/ wpc' = [wpc EXCEPT ![w] = "pwrite"]
  BY <1>0 DEF DispatchRead, DispatchWrite, Scanning
<1>2. /\ \A y \in Slots : y # x => state'[y] = state[y]
      /\ state'[x] # "FREE"
  BY <1>1, OpTypes
<1>3. \A y \in Slots : (Held(y)' <=> Held(y)) /\ (Live(y)' <=> Live(y))
  BY <1>1, <1>2 DEF Live, Held, InClaim
<1>4. \A y \in Slots : y # x /\ Executing(y)' => Executing(y)
  <2> SUFFICES ASSUME NEW y \in Slots, y # x, Executing(y)', state[y] # "IN_FLIGHT"
               PROVE  Executing(y)
    BY DEF Executing
  <2>1. wpc'[y[1]] = "pwrite" /\ y = Here(y[1])
    BY <1>1, <1>2 DEF Executing, Here
  <2>2. y[1] # w
    BY <1>0, <2>1
  <2>3. wpc[y[1]] = "pwrite"
    <3>1. y[1] \in Workers
      BY DEF Slots
    <3> QED BY <1>1, <2>1, <2>2, <3>1, RingTypes
  <2> QED BY <2>1, <2>3 DEF Executing
<1>5. OnTime(x)
  <2> SUFFICES ASSUME IsStream(x), NEW s, s = CallAt(x).strm
               PROVE  Lag(s, gate[s]) = LagRel(s, x) + 1
    BY DEF OnTime
  <2>1. Live(x) /\ s \in Streams
    <3>1. Live(x)
      BY <1>1 DEF Live, Held
    <3> QED BY <3>1, LiveNamed
  <2>2. /\ Released(nextSeq[s]) \in Word /\ gate[s] \in Word
        /\ Arrived(seq[x]) \in Word
    BY <2>1, GateTypes, WordClosed
  <2>3. LagRel(s, x) \in Nat /\ Lag(s, gate[s]) \in Nat
        /\ Lag(s, Arrived(seq[x])) = LagRel(s, x) + 1
    BY <2>1, Lags
  <2>4. LagRel(s, x) < Lag(s, gate[s]) /\ Lag(s, gate[s]) <= Half
    BY <2>1 DEF GateInv, Unreleased, InWindow
  <2>5. ~CyclicLess(gate[s], Arrived(seq[x]))
    BY <1>1 DEF Gated
  <2>6. Lag(s, Arrived(seq[x])) <= Lag(s, gate[s])
    BY <2>3, <2>4
  <2>7. ~(Lag(s, Arrived(seq[x])) < Lag(s, gate[s]))
    BY <2>2, <2>4, <2>5, <2>6, WindowOrder DEF Lag
  <2> QED BY <2>3, <2>6, <2>7
<1>6. \A y \in Slots : Executing(y)' => /\ Executing(y) \/ OnTime(y)
                                        /\ state'[y] # "FREE"
  <2>1. \A y \in Slots : y # x /\ Executing(y)' => state'[y] # "FREE"
    BY <1>2, <1>4, LiveNamed
  <2> QED BY <1>2, <1>4, <1>5, <2>1
<1>7. \A t \in Threads : InClaim(t)' <=> InClaim(t)
  BY <1>1 DEF InClaim
<1>8. nextOp' \in Nat /\ nextOp <= nextOp'
  BY <1>1, OpTypes
<1> QED BY <1>1, <1>3, <1>6, <1>7, <1>8, GateFrame

\* release_gate: the settled operation's slot is let go and the gate word moves
\* from its arrival to its release value.  Releases lie an even number behind,
\* arrivals an odd one, so nothing that is due is overtaken.
LEMMA GateRelease ==
  ASSUME TypeInv, RingInv, OpInv, GateInv, NEW x \in Slots, NEW s \in Streams,
         Executing(x), IsStream(x), s = CallAt(x).strm,
         gate' = [gate EXCEPT ![s] = Released(seq[x])],
         state' = [state EXCEPT ![x] = "FREE"],
         result'[opOf[x]] # "none",
         \A o \in Ops : result[o] # "none" => result'[o] # "none",
         \A y \in Slots : Executing(y)' => Executing(y) /\ y # x,
         UNCHANGED <<opOf, seq, pc, curOp, curSlot, nextOp, call, nextSeq, slog,
                     spos, parked>>
  PROVE  GateInv'
<1>1. PICK l : l = LagRel(s, x)
  OBVIOUS
<1>2. /\ l \in Nat /\ Lag(s, gate[s]) = l + 1 /\ l + 1 <= Half
      /\ \E k \in Nat : l = 2 * k
  <2>1. l \in Nat /\ \E k \in Nat : l = 2 * k
    BY <1>1, Lags, GateTypes DEF LagRel
  <2>2. Lag(s, gate[s]) = l + 1
    BY <1>1 DEF GateInv, AtGate, OnTime
  <2>3. Lag(s, gate[s]) <= Half
    BY DEF GateInv, InWindow
  <2> QED BY <2>1, <2>2, <2>3
<1>3. /\ Lag(s, gate[s])' = l
      /\ \A r \in Streams : r # s => Lag(r, gate[r])' = Lag(r, gate[r])
      /\ \A r \in Streams : \A y \in Slots : LagRel(r, y)' = LagRel(r, y)
  <2>1. gate'[s] = Released(seq[x]) /\ \A r \in Streams : r # s => gate'[r] = gate[r]
    BY GateTypes
  <2> QED BY <1>1, <2>1 DEF Lag, LagRel
<1>4. /\ state[x] # "FREE" /\ state'[x] = "FREE"
      /\ \A y \in Slots : y # x => state'[y] = state[y]
  BY LiveNamed, OpTypes
<1>5. \A t \in Threads : InClaim(t) => curSlot[t] # x
  <2> SUFFICES ASSUME NEW t \in Threads, InClaim(t)
               PROVE  state[curSlot[t]] = "FREE"
    BY <1>4
  <2>1. /\ curSlot[t] = SlotAt(curSlot[t][1], head[curSlot[t][1]])
        /\ HasRoom(curSlot[t][1])
    BY DEF RingInv, Claimed, InClaim
  <2>2. curSlot[t][1] \in Workers
    BY OpTypes DEF Slots
  <2> QED BY <2>1, <2>2, HeadFree DEF RingInv
<1>6. /\ \A t \in Threads : InClaim(t)' <=> InClaim(t)
      /\ ~Held(x)' /\ ~Live(x)'
      /\ \A y \in Slots : y # x => (Held(y)' <=> Held(y)) /\ (Live(y)' <=> Live(y))
  <2>1. \A t \in Threads : InClaim(t)' <=> InClaim(t)
    BY DEF InClaim
  <2>2. ~Held(x)'
    BY <1>4, <1>5 DEF Held, InClaim
  <2>3. ~Live(x)'
    BY <1>5, <2>1, <2>2 DEF Live
  <2>4. \A y \in Slots : y # x => (Held(y)' <=> Held(y))
    BY <1>4 DEF Held
  <2>5. \A y \in Slots : y # x => (Live(y)' <=> Live(y))
    BY <2>1, <2>4 DEF Live
  <2> QED BY <2>1, <2>2, <2>3, <2>4, <2>5
<1>7. \A y \in Slots : CallAt(y)' = CallAt(y) /\ (IsStream(y)' <=> IsStream(y))
  BY DEF CallAt, IsStream
<1>8. \A r \in Streams :
        /\ Due(r)' = Due(r)
        /\ \A i \in Due(r) : /\ ParkedAt(r, i)' <=> ParkedAt(r, i)
                             /\ Arriving(r, i)' <=> Arriving(r, i)
                             /\ Lag(r, Val(r, i))' = Lag(r, Val(r, i))
  <2>1. \A r \in Streams : Due(r)' = Due(r) /\ \A i : ParkedAt(r, i)' <=> ParkedAt(r, i)
    BY DEF Due, ParkedAt
  <2>2. \A r \in Streams : \A i \in Due(r) : /\ Arriving(r, i)' <=> Arriving(r, i)
                                             /\ Val(r, i)' = Val(r, i)
    BY <2>1 DEF Arriving, Val
  <2>3. \A r \in Streams : \A i \in Due(r) : Lag(r, Val(r, i))' = Lag(r, Val(r, i))
    BY <2>2 DEF Lag
  <2> QED BY <2>1, <2>2, <2>3
<1>9. ASSUME NEW r \in Streams, NEW i \in Due(r), NEW y \in Slots, Tie(r, i, y), y # x
      PROVE  Tie(r, i, y)'
  BY <1>6, <1>8, <1>9 DEF Tie
<1>10. LogShape' /\ NewestClaim' /\ Sorted'
  <2>1. LogShape'
    BY DEF GateInv, LogShape, Fits
  <2>2. NewestClaim'
    BY <1>6 DEF GateInv, NewestClaim
  <2>3. Sorted'
    BY <1>8 DEF GateInv, Sorted
  <2> QED BY <2>1, <2>2, <2>3
<1>11. InWindow'
  <2>1. Lag(s, gate[s])' <= Half
    BY <1>2, <1>3, HalfAssumption
  <2> QED BY <1>3, <2>1 DEF GateInv, InWindow
<1>12. Ahead'
  <2> SUFFICES ASSUME NEW r \in Streams, NEW i \in Due(r)
               PROVE /\ Lag(r, Val(r, i)) <= Lag(r, gate[r])'
                     /\ Arriving(r, i) => Lag(r, Val(r, i)) < Lag(r, gate[r])'
    BY <1>8 DEF Ahead
  <2>1. /\ Lag(r, Val(r, i)) <= Lag(r, gate[r])
        /\ Arriving(r, i) => Lag(r, Val(r, i)) < Lag(r, gate[r])
    BY DEF GateInv, Ahead
  <2>2. CASE r # s
    BY <1>3, <2>1, <2>2
  <2>3. CASE r = s
    <3>1. /\ Lag(s, Val(s, i)) \in Nat
          /\ Arriving(s, i) => \E k \in Nat : Lag(s, Val(s, i)) = 2 * k + 1
          /\ ~Arriving(s, i) => \E k \in Nat : Lag(s, Val(s, i)) = 2 * k
      BY <2>3, DueLags DEF GateInv
    <3>2. PICK v \in Nat : v = Lag(s, Val(s, i))
      BY <3>1
    <3>3. PICK h \in Nat : l = 2 * h
      BY <1>2
    <3>4. CASE Arriving(s, i)
      <4>1. PICK k \in Nat : v = 2 * k + 1
        BY <3>1, <3>2, <3>4
      <4>2. v < l + 1
        BY <1>2, <2>1, <2>3, <3>2, <3>4
      <4>3. v < l
        BY <3>3, <4>1, <4>2
      <4> QED BY <1>2, <1>3, <2>3, <3>2, <4>3
    <3>5. CASE ~Arriving(s, i)
      <4>1. PICK k \in Nat : v = 2 * k
        BY <3>1, <3>2, <3>5
      <4>2. v <= l + 1
        BY <1>2, <2>1, <2>3, <3>2
      <4>3. v <= l
        BY <3>3, <4>1, <4>2
      <4> QED BY <1>3, <2>3, <3>2, <3>5, <4>3
    <3> QED BY <3>4, <3>5
  <2> QED BY <2>2, <2>3
<1>13. LastClaim'
  <2> SUFFICES ASSUME NEW t \in Threads, pc[t] \in {"gate", "wait"},
                      NEW r, r = call[curOp[t]].strm
               PROVE /\ pc[t] = "gate" =>
                          /\ Lag(r, gate[r])' > 1
                          /\ \A i \in Due(r)' : Lag(r, Val(r, i))' > 1
                     /\ pc[t] = "wait" => \A i \in Due(r)' : Lag(r, Val(r, i))' > 0
    BY DEF LastClaim
  <2>1. r \in Streams
    BY LiveNamed DEF InClaim
  <2>2. /\ pc[t] = "gate" => /\ Lag(r, gate[r]) > 1
                             /\ \A i \in Due(r) : Lag(r, Val(r, i)) > 1
        /\ pc[t] = "wait" => \A i \in Due(r) : Lag(r, Val(r, i)) > 0
    BY DEF GateInv, LastClaim
  <2>3. pc[t] = "gate" => Lag(r, gate[r])' > 1
    <3>1. l + 1 > 1 => l > 1
      BY <1>2
    <3> QED BY <1>2, <1>3, <2>1, <2>2, <3>1
  <2> QED BY <1>8, <2>1, <2>2, <2>3
<1>14. Unreleased'
  <2> SUFFICES ASSUME NEW y \in Slots, Live(y)', IsStream(y)',
                      NEW r, r = CallAt(y)'.strm
               PROVE  LagRel(r, y)' < Lag(r, gate[r])'
    BY DEF Unreleased
  <2>1. /\ y # x /\ Live(y) /\ IsStream(y) /\ r = CallAt(y).strm /\ r \in Streams
    BY <1>6, <1>7, LiveNamed
  <2>2. LagRel(r, y) < Lag(r, gate[r]) /\ LagRel(r, y) \in Nat
    BY <2>1, Lags DEF GateInv, Unreleased
  <2>3. r = s => LagRel(r, y) # l
    BY <1>1, <2>1, Alone
  <2> QED BY <1>2, <1>3, <2>1, <2>2, <2>3
<1>15. Tied'
  <2> SUFFICES ASSUME NEW y \in Slots, Held(y)', IsStream(y)',
                      NEW r, r = CallAt(y)'.strm
               PROVE  \E i \in Due(r)' : slog'[r][i].k # "write" /\ Tie(r, i, y)'
    BY DEF Tied
  <2>1. y # x /\ Held(y) /\ IsStream(y) /\ r = CallAt(y).strm /\ r \in Streams
    BY <1>6, <1>7, LiveNamed
  <2>2. PICK i \in Due(r) : slog[r][i].k # "write" /\ Tie(r, i, y)
    BY <2>1 DEF GateInv, Tied
  <2>3. Tie(r, i, y)'
    BY <1>9, <2>1, <2>2
  <2> QED BY <1>8, <2>1, <2>2, <2>3
<1>16. Backed'
  <2> SUFFICES ASSUME NEW r \in Streams, NEW i \in Due(r), slog[r][i].k # "write"
               PROVE  \/ ~Arriving(r, i) /\ result'[slog[r][i].op] # "none"
                      \/ \E y \in Slots : Tie(r, i, y)'
    BY <1>8 DEF Backed
  <2>1. CASE ~Arriving(r, i) /\ result[slog[r][i].op] # "none"
    <3>1. slog[r][i].op \in Ops
      BY DueLags DEF GateInv
    <3> QED BY <2>1, <3>1
  <2>2. ASSUME NEW y \in Slots, Tie(r, i, y)
        PROVE  \/ ~Arriving(r, i) /\ result'[slog[r][i].op] # "none"
               \/ \E z \in Slots : Tie(r, i, z)'
    <3>1. CASE y # x
      BY <1>9, <2>2, <3>1
    <3>2. CASE y = x
      <4>1. r = s
        BY <2>2, <3>2, TieLag DEF GateInv
      <4>2. ~Arriving(s, i)
        BY <2>2, <3>2, <4>1, Alone
      <4>3. opOf[x] = slog[s][i].op
        BY <2>2, <3>2, <4>1 DEF Tie
      <4> QED BY <4>1, <4>2, <4>3
    <3> QED BY <3>1, <3>2
  <2> QED BY <2>1, <2>2 DEF GateInv, Backed
<1>17. AtGate'
  <2> SUFFICES ASSUME NEW y \in Slots, Executing(y)', IsStream(y)',
                      NEW r, r = CallAt(y)'.strm
               PROVE  Lag(r, gate[r])' = LagRel(r, y)' + 1
    BY DEF AtGate, OnTime
  <2>1. /\ Executing(y) /\ y # x /\ Live(y) /\ IsStream(y) /\ r = CallAt(y).strm
        /\ r \in Streams
    BY <1>7, LiveNamed
  <2>2. Lag(r, gate[r]) = LagRel(r, y) + 1 /\ LagRel(r, y) \in Nat
    BY <2>1, Lags DEF GateInv, AtGate, OnTime
  <2>3. r # s
    <3>1. r = s => LagRel(s, y) # l
      BY <1>1, <2>1, Alone
    <3> QED BY <1>2, <2>2, <3>1
  <2> QED BY <1>3, <2>1, <2>2, <2>3
<1>18. HeldUntilSettled'
  <2>1. \A r \in Streams : \A i \in 1 .. spos[r] : slog[r][i].op \in Ops
    <3>1. \A r \in Streams : /\ spos[r] \in Nat /\ Len(slog[r]) \in Nat
                             /\ spos[r] <= Len(slog[r])
      BY GateTypes DEF GateInv, LogShape
    <3>2. \A r \in Streams : \A i \in 1 .. spos[r] : i \in 1 .. Len(slog[r])
      BY <3>1
    <3> QED BY <3>2, GateTypes
  <2> QED BY <2>1 DEF GateInv, HeldUntilSettled
<1> QED BY <1>10, <1>11, <1>12, <1>13, <1>14, <1>15, <1>16, <1>17, <1>18 DEF GateInv

\* complete_read_op and the end of dispatch_write.
LEMMA GateSettles ==
  ASSUME TypeInv, RingInv, OpInv, GateInv, NEW w \in Workers,
         CompleteStreamRead(w) \/ CompleteAsyncRead(w) \/ FinishWrite(w)
  PROVE  GateInv'
<1> USE DEF gateVars, streamVars
<1>0. PICK x \in Slots : x = Here(w)
  BY HereType DEF TypeInv, TypeOK
<1>1. /\ Executing(x) /\ x[1] = w /\ state[x] # "FREE" /\ opOf[x] \in Ops
  <2>1. x[1] = w
    BY <1>0 DEF Here, SlotAt
  <2>2. Executing(x)
    BY <1>0, <2>1 DEF CompleteStreamRead, CompleteAsyncRead, FinishWrite, Scanning,
                      Executing
  <2> QED BY <2>1, <2>2, LiveNamed, OpTypes
<1>2. /\ state' = [state EXCEPT ![x] = "FREE"]
      /\ UNCHANGED <<opOf, seq, pc, curOp, curSlot, nextOp, call, nextSeq, slog, spos,
                     parked>>
      /\ wi' = [wi EXCEPT ![w] = WAdd(@, 1)]
      /\ wpc' = wpc \/ wpc' = [wpc EXCEPT ![w] = "scan"]
      /\ wpc'[w] = "scan"
      /\ gate' = IF IsStream(x) THEN [gate EXCEPT ![CallAt(x).strm] = Released(seq[x])]
                                ELSE gate
  BY <1>0, RingTypes DEF CompleteStreamRead, CompleteAsyncRead, FinishWrite, Scanning,
                         FreeSlot, ReleaseGate, Advance
<1>3. \E v \in {"ok", "err"} : result' = [result EXCEPT ![opOf[x]] = v]
  BY <1>0 DEF CompleteStreamRead, CompleteAsyncRead, FinishWrite
<1>4. /\ result'[opOf[x]] # "none"
      /\ \A o \in Ops : result[o] # "none" => result'[o] # "none"
  BY <1>1, <1>3, OpTypes
<1>5. \A y \in Slots : Executing(y)' => Executing(y) /\ y # x
  <2> SUFFICES ASSUME NEW y \in Slots, Executing(y)' PROVE Executing(y) /\ y # x
    OBVIOUS
  <2>1. y[1] \in Workers
    BY DEF Slots
  <2>2. CASE state'[y] = "IN_FLIGHT"
    BY <1>2, <2>2, OpTypes DEF Executing
  <2>3. CASE wpc'[y[1]] = "pwrite" /\ y = Here(y[1])'
    <3>1. y[1] # w
      BY <1>2, <2>3
    <3>2. wpc[y[1]] = "pwrite" /\ wi'[y[1]] = wi[y[1]]
      BY <1>2, <2>1, <2>3, <3>1, RingTypes
    <3> QED BY <1>1, <2>3, <3>1, <3>2 DEF Executing, Here
  <2> QED BY <2>2, <2>3 DEF Executing
<1>6. CASE IsStream(x)
  <2>1. PICK s \in Streams : s = CallAt(x).strm
    BY <1>1, <1>6, LiveNamed
  <2> QED BY <1>1, <1>2, <1>4, <1>5, <1>6, <2>1, GateRelease
<1>7. CASE ~IsStream(x)
  <2>1. \A y \in Slots : y # x => state'[y] = state[y]
    BY <1>2, OpTypes
  <2>2. \A y \in Slots : y # x => (Held(y)' <=> Held(y)) /\ (Live(y)' <=> Live(y))
    BY <1>2, <2>1 DEF Held, Live, InClaim
  <2>3. \A y \in Slots : IsStream(y)' <=> IsStream(y)
    BY <1>2 DEF IsStream, CallAt
  <2>4. \A y \in Slots : Executing(y)' => state'[y] # "FREE"
    BY <1>5, <2>1, LiveNamed
  <2>5. \A t \in Threads : InClaim(t)' <=> InClaim(t)
    BY <1>2 DEF InClaim
  <2>6. nextOp' \in Nat /\ nextOp <= nextOp'
    BY <1>2, OpTypes
  <2>7. UNCHANGED <<seq, gate, nextSeq, slog, spos, parked>>
    BY <1>2, <1>7
  <2>8. \A y \in Slots :
          /\ Live(y)' /\ IsStream(y)' => Live(y)
          /\ Held(y)' /\ IsStream(y)' => Held(y)
          /\ Held(y) /\ IsStream(y) => Held(y)'
          /\ Live(y) /\ Live(y)' /\ (IsStream(y) \/ IsStream(y)') => opOf'[y] = opOf[y]
          /\ Executing(y)' => (Executing(y) \/ OnTime(y)) /\ state'[y] # "FREE"
    BY <1>2, <1>5, <1>7, <2>2, <2>3, <2>4
  <2> QED BY <1>2, <1>4, <2>5, <2>6, <2>7, <2>8, GateFrame
<1> QED BY <1>6, <1>7

\* What the I/O threads and the device do between dispatching an operation
\* and settling it.
LEMMA GateWorkers ==
  ASSUME TypeInv, RingInv, OpInv, GateInv,
         \/ \E w \in Workers : WorkerStep(w)
         \/ \E x \in Slots : DeviceStep(x)
         \/ Close \/ UNCHANGED vars
  PROVE  GateInv'
<1> USE DEF vars, ringVars, slotVars, callVars, gateVars, streamVars
<1>1. ASSUME NEW w \in Workers,
             \/ BeginPass(w) \/ PassSlot(w) \/ LeaveGated(w) \/ IssueChunk(w)
             \/ IssueBounce(w) \/ StartFails(w) \/ StartDone(w)
             \/ PokeWhileStarting(w) \/ Drain(w) \/ EndPass(w) \/ Poke(w)
      PROVE  GateInv'
  <2>1. UNCHANGED <<state, opOf, seq, pc, curOp, curSlot, nextOp, call, result,
                    gate, nextSeq, slog, spos, parked>>
    BY <1>1 DEF BeginPass, PassSlot, LeaveGated, IssueChunk, IssueBounce, StartFails,
                StartDone, PokeWhileStarting, Drain, EndPass, Poke
  <2>2. /\ \A v \in Workers : v # w => wpc'[v] = wpc[v] /\ wi'[v] = wi[v]
        /\ wpc'[w] # "pwrite"
    BY <1>1, RingTypes
       DEF BeginPass, PassSlot, LeaveGated, IssueChunk, IssueBounce, StartFails,
           StartDone, PokeWhileStarting, Drain, EndPass, Poke, Scanning, Advance,
           ScanEnded, workerVars
  <2>3. \A x \in Slots : Executing(x)' => Executing(x)
    <3>1. \A x \in Slots : x[1] \in Workers
      BY DEF Slots
    <3> QED BY <2>1, <2>2, <3>1 DEF Executing, Here
  <2> QED BY <2>1, <2>3, GateQuiet
<1>2. ASSUME \/ \E x \in Slots : DeviceStep(x)
             \/ Close \/ UNCHANGED vars
      PROVE  GateInv'
  <2>1. UNCHANGED <<state, opOf, seq, pc, curOp, curSlot, nextOp, call, result,
                    gate, nextSeq, slog, spos, parked, wpc, wi>>
    BY <1>2 DEF DeviceStep, CompleteChunk, CompleteBounce, Close, workerVars
  <2>2. \A x \in Slots : Executing(x)' => Executing(x)
    BY <2>1 DEF Executing, Here
  <2> QED BY <2>1, <2>2, GateQuiet
<1>3. ASSUME NEW w \in Workers, WorkerStep(w) PROVE GateInv'
  BY <1>1, <1>3, GateDispatch, GateSettles DEF WorkerStep, WorkerGoesOn
<1> QED BY <1>1, <1>2, <1>3
-----------------------------------------------------------------------------
(***************************************************************************)
(* The streams.                                                            *)
(***************************************************************************)

\* A slot that holds an operation holds an unsettled one.
LEMMA HeldUnsettled ==
  ASSUME TypeInv, OpInv, NEW x \in Slots, Held(x)
  PROVE  result[opOf[x]] = "none"
<1>1. CASE state[x] # "FREE"
  BY <1>1 DEF OpInv, OneSlotPerOp
<1>2. ASSUME NEW t \in Threads, pc[t] = "publish", curSlot[t] = x
      PROVE  result[opOf[x]] = "none"
  BY <1>2 DEF OpInv, Unpublished, ClaimFilled, InClaim
<1> QED BY <1>1, <1>2 DEF Held

\* A live operation's release value lies behind none of the commands due, and
\* ahead of the first when that does not hold the stream for it.
LEMMA LiveBehind ==
  ASSUME TypeInv, RingInv, OpInv, GateInv, NEW s \in Streams, NEW i \in Due(s),
         i = spos[s] + 1, NEW y \in Slots, Live(y), IsStream(y),
         CallAt(y).strm = s, ~Tie(s, i, y) \/ slog[s][i].k = "write"
  PROVE  LagRel(s, y) \in Nat /\ LagRel(s, y) < Lag(s, Val(s, i))
<1>1. LagRel(s, y) \in Nat /\ Lag(s, Val(s, i)) \in Nat /\ i \in Nat
  BY Lags, DueLags DEF GateInv
<1>2. CASE Held(y)
  <2>1. PICK j \in Due(s) : slog[s][j].k # "write" /\ Tie(s, j, y)
    BY <1>2 DEF GateInv, Tied
  <2>2. j # i /\ j \in Nat /\ j > spos[s] /\ Lag(s, Val(s, j)) \in Nat
    BY <2>1, DueLags DEF GateInv
  <2>3. i < j
    BY <1>1, <2>2, GateTypes
  <2>4. Lag(s, Val(s, j)) < Lag(s, Val(s, i))
    BY <2>3 DEF GateInv, Sorted
  <2>5. Lag(s, Val(s, j)) = IF Arriving(s, j) THEN LagRel(s, y) + 1 ELSE LagRel(s, y)
    BY <2>1, TieLag DEF GateInv
  <2> QED BY <1>1, <2>2, <2>4, <2>5
<1>3. CASE ~Held(y)
  <2>1. PICK t \in Threads : InClaim(t) /\ curSlot[t] = y
    BY <1>3 DEF Live
  <2>2. pc[t] \in {"gate", "wait"} /\ call[curOp[t]].strm = s
    BY <1>3, <2>1, LiveNamed DEF InClaim, Held
  <2>3. LagRel(s, y) = 0
    BY <2>1, <2>2, Lags DEF GateInv, NewestClaim
  <2>4. Lag(s, Val(s, i)) > 0
    <3>1. \/ pc[t] = "gate" /\ Lag(s, Val(s, i)) > 1
          \/ pc[t] = "wait" /\ Lag(s, Val(s, i)) > 0
      BY <2>2 DEF GateInv, LastClaim
    <3> QED BY <1>1, <3>1
  <2> QED BY <2>3, <2>4
<1> QED BY <1>2, <1>3

\* A stream gets past the first command due, with the gate word at its value:
\* it has just written that value, or an operation that is settled has.
LEMMA GateAdvances ==
  ASSUME TypeInv, RingInv, OpInv, GateInv, NEW s \in Streams, NEW i \in Due(s),
         i = spos[s] + 1, NEW g \in Word, g = Val(s, i),
         gate' = [gate EXCEPT ![s] = g],
         slog[s][i].k = "write" \/ gate' = gate,
         slog[s][i].k # "write" => result[slog[s][i].op] # "none",
         spos' = [spos EXCEPT ![s] = i],
         parked' = [parked EXCEPT ![s] = NotParked],
         UNCHANGED <<state, opOf, seq, pc, curOp, curSlot, nextOp, call, result,
                     nextSeq, slog, wpc, wi>>
  PROVE  GateInv'
<1>1. /\ i \in Nat /\ i \in 1 .. Len(slog[s]) /\ spos[s] \in Nat
      /\ Len(slog[s]) \in Nat /\ slog[s][i].op \in Ops
      /\ Lag(s, Val(s, i)) \in Nat
  BY DueLags, GateTypes DEF GateInv
<1>2. /\ spos'[s] = i /\ \A r \in Streams : r # s => spos'[r] = spos[r]
      /\ parked'[s] = NotParked /\ \A r \in Streams : r # s => parked'[r] = parked[r]
      /\ gate'[s] = g /\ \A r \in Streams : r # s => gate'[r] = gate[r]
  BY GateTypes
<1>3. /\ \A r \in Streams : r # s => Due(r)' = Due(r)
      /\ Due(s)' = Due(s) \ {i}
      /\ \A j \in Due(s) : j # i => i < j
  <2>1. \A r \in Streams : r # s => Due(r)' = Due(r)
    BY <1>2 DEF Due
  <2>2. ASSUME NEW j PROVE j \in Due(s)' <=> j \in Due(s) \ {i}
    <3>1. j \in i + 1 .. Len(slog[s]) <=> j \in spos[s] + 1 .. Len(slog[s]) /\ j # i
      BY <1>1
    <3> QED BY <1>2, <3>1 DEF Due
  <2>3. Due(s)' = Due(s) \ {i}
    BY <2>2
  <2>4. \A j \in Due(s) : j # i => i < j
    BY <1>1 DEF Due
  <2> QED BY <2>1, <2>3, <2>4
<1>4. \A r \in Streams : \A j \in Due(r)' :
        /\ j \in Due(r) /\ (r = s => j # i)
        /\ ParkedAt(r, j)' <=> ParkedAt(r, j)
        /\ ParkedAt(r, j) => parked'[r] = parked[r]
        /\ Arriving(r, j)' <=> Arriving(r, j)
        /\ Lag(r, Val(r, j))' = Lag(r, Val(r, j))
  <2>1. \A r \in Streams : \A j \in Due(r)' : j \in Due(r) /\ (r = s => j # i)
    BY <1>3
  <2>2. \A r \in Streams : \A j \in Due(r)' :
          /\ ParkedAt(r, j)' <=> ParkedAt(r, j)
          /\ ParkedAt(r, j) => parked'[r] = parked[r]
    BY <1>2, <2>1 DEF ParkedAt
  <2>3. \A r \in Streams : \A j \in Due(r)' : /\ Arriving(r, j)' <=> Arriving(r, j)
                                              /\ Val(r, j)' = Val(r, j)
    BY <2>2 DEF Arriving, Val
  <2>4. \A r \in Streams : \A j \in Due(r)' : Lag(r, Val(r, j))' = Lag(r, Val(r, j))
    BY <2>3 DEF Lag
  <2> QED BY <2>1, <2>2, <2>3, <2>4
<1>5. /\ Lag(s, gate[s])' = Lag(s, Val(s, i))
      /\ \A r \in Streams : r # s => Lag(r, gate[r])' = Lag(r, gate[r])
      /\ \A r \in Streams : \A y \in Slots : LagRel(r, y)' = LagRel(r, y)
  BY <1>2 DEF Lag, LagRel
<1>6. /\ \A t \in Threads : InClaim(t)' <=> InClaim(t)
      /\ \A y \in Slots : /\ Held(y)' <=> Held(y)
                          /\ Live(y)' <=> Live(y)
                          /\ Executing(y)' <=> Executing(y)
                          /\ CallAt(y)' = CallAt(y)
                          /\ IsStream(y)' <=> IsStream(y)
  <2>1. \A t \in Threads : InClaim(t)' <=> InClaim(t)
    BY DEF InClaim
  <2>2. \A y \in Slots : Held(y)' <=> Held(y)
    BY DEF Held
  <2>3. \A y \in Slots : /\ CallAt(y)' = CallAt(y)
                         /\ IsStream(y)' <=> IsStream(y)
                         /\ Executing(y)' <=> Executing(y)
    BY DEF CallAt, IsStream, Executing, Here
  <2> QED BY <2>1, <2>2, <2>3 DEF Live
<1>7. \A y \in Slots : slog[s][i].k # "write" => ~Tie(s, i, y)
  BY HeldUnsettled DEF Tie
<1>8. ASSUME NEW r \in Streams, NEW j \in Due(r)', NEW y \in Slots, Tie(r, j, y)
      PROVE  Tie(r, j, y)'
  BY <1>4, <1>6, <1>8 DEF Tie
<1>9. LogShape'
  <2>1. \A r \in Streams : \A b : Fits(r, b)' <=> Fits(r, b)
    BY DEF Fits
  <2>2. \A r \in Streams : spos'[r] <= Len(slog[r])
    BY <1>1, <1>2 DEF GateInv, LogShape
  <2>3. \A r \in Streams : parked'[r] # NotParked => spos'[r] < Len(slog[r]) /\ AlignedOnly
    BY <1>2 DEF GateInv, LogShape
  <2> QED BY <2>1, <2>2, <2>3 DEF GateInv, LogShape
<1>10. NewestClaim'
  BY <1>6 DEF GateInv, NewestClaim
<1>11. InWindow'
  <2>1. Lag(s, Val(s, i)) <= Lag(s, gate[s]) /\ Lag(s, gate[s]) <= Half
    BY DEF GateInv, Ahead, InWindow
  <2>2. Lag(s, gate[s]) \in Nat
    BY Lags
  <2>3. Lag(s, Val(s, i)) <= Half
    BY <1>1, <2>1, <2>2, HalfAssumption
  <2> QED BY <1>5, <2>3 DEF GateInv, InWindow
<1>12. Ahead'
  <2> SUFFICES ASSUME NEW r \in Streams, NEW j \in Due(r)'
               PROVE /\ Lag(r, Val(r, j)) <= Lag(r, gate[r])'
                     /\ Arriving(r, j) => Lag(r, Val(r, j)) < Lag(r, gate[r])'
    BY <1>4 DEF Ahead
  <2>1. CASE r # s
    BY <1>4, <1>5, <2>1 DEF GateInv, Ahead
  <2>2. CASE r = s
    <3>1. Lag(s, Val(s, j)) < Lag(s, Val(s, i))
      BY <1>3, <1>4, <2>2 DEF GateInv, Sorted
    <3>2. Lag(s, Val(s, j)) \in Nat
      BY <1>4, <2>2, DueLags DEF GateInv
    <3> QED BY <1>1, <1>5, <2>2, <3>1, <3>2
  <2> QED BY <2>1, <2>2
<1>13. Sorted'
  <2> SUFFICES ASSUME NEW r \in Streams, NEW j \in Due(r)', NEW k \in Due(r)', j < k
               PROVE  Lag(r, Val(r, k))' < Lag(r, Val(r, j))'
    BY DEF Sorted
  <2>1. Lag(r, Val(r, k)) < Lag(r, Val(r, j))
    BY <1>4 DEF GateInv, Sorted
  <2> QED BY <1>4, <2>1
<1>14. LastClaim'
  <2> SUFFICES ASSUME NEW t \in Threads, pc[t] \in {"gate", "wait"},
                      NEW r, r = call[curOp[t]].strm
               PROVE /\ pc[t] = "gate" =>
                          /\ Lag(r, gate[r])' > 1
                          /\ \A j \in Due(r)' : Lag(r, Val(r, j))' > 1
                     /\ pc[t] = "wait" => \A j \in Due(r)' : Lag(r, Val(r, j))' > 0
    BY DEF LastClaim
  <2>1. r \in Streams
    BY LiveNamed DEF InClaim
  <2>2. /\ pc[t] = "gate" => /\ Lag(r, gate[r]) > 1
                             /\ \A j \in Due(r) : Lag(r, Val(r, j)) > 1
        /\ pc[t] = "wait" => \A j \in Due(r) : Lag(r, Val(r, j)) > 0
    BY DEF GateInv, LastClaim
  <2>3. pc[t] = "gate" => Lag(r, gate[r])' > 1
    BY <1>5, <2>1, <2>2
  <2>4. \A j \in Due(r)' : j \in Due(r) /\ Lag(r, Val(r, j))' = Lag(r, Val(r, j))
    BY <1>4, <2>1
  <2> QED BY <2>2, <2>3, <2>4
<1>15. Unreleased'
  <2> SUFFICES ASSUME NEW y \in Slots, Live(y), IsStream(y), NEW r, r = CallAt(y).strm
               PROVE  LagRel(r, y) < Lag(r, gate[r])'
    <3>1. \A y \in Slots : Live(y) /\ IsStream(y) => CallAt(y).strm \in Streams
      BY LiveNamed
    <3> QED BY <1>5, <1>6, <3>1 DEF Unreleased
  <2>1. r \in Streams
    BY LiveNamed
  <2>2. CASE r # s
    BY <1>5, <2>1, <2>2 DEF GateInv, Unreleased
  <2>3. CASE r = s
    <3>1. CallAt(y).strm = s /\ (~Tie(s, i, y) \/ slog[s][i].k = "write")
      BY <1>7, <2>3
    <3>2. LagRel(s, y) < Lag(s, Val(s, i))
      BY <3>1, LiveBehind
    <3> QED BY <1>5, <2>3, <3>2
  <2> QED BY <2>2, <2>3
<1>16. Tied'
  <2> SUFFICES ASSUME NEW y \in Slots, Held(y), IsStream(y), NEW r, r = CallAt(y).strm
               PROVE  \E j \in Due(r)' : slog[r][j].k # "write" /\ Tie(r, j, y)'
    BY <1>6 DEF Tied
  <2>1. r \in Streams
    BY LiveNamed
  <2>2. PICK j \in Due(r) : slog[r][j].k # "write" /\ Tie(r, j, y)
    BY DEF GateInv, Tied
  <2>3. j \in Due(r)'
    BY <1>3, <1>7, <2>1, <2>2
  <2>4. Tie(r, j, y)'
    BY <1>8, <2>1, <2>2, <2>3
  <2> QED BY <2>2, <2>3, <2>4
<1>17. Backed'
  <2> SUFFICES ASSUME NEW r \in Streams, NEW j \in Due(r)', slog[r][j].k # "write"
               PROVE  \/ ~Arriving(r, j)' /\ result[slog[r][j].op] # "none"
                      \/ \E y \in Slots : Tie(r, j, y)'
    BY DEF Backed
  <2>1. \/ ~Arriving(r, j) /\ result[slog[r][j].op] # "none"
        \/ \E y \in Slots : Tie(r, j, y)
    BY <1>4 DEF GateInv, Backed
  <2> QED BY <1>4, <1>8, <2>1
<1>18. AtGate'
  <2> SUFFICES ASSUME NEW y \in Slots, Executing(y), IsStream(y),
                      NEW r, r = CallAt(y).strm
               PROVE  Lag(r, gate[r])' = LagRel(r, y) + 1
    <3>1. \A y \in Slots : Executing(y) /\ IsStream(y) => CallAt(y).strm \in Streams
      BY LiveNamed
    <3> QED BY <1>5, <1>6, <3>1 DEF AtGate, OnTime
  <2>1. r \in Streams
    BY LiveNamed
  <2>2. Lag(r, gate[r]) = LagRel(r, y) + 1
    BY DEF GateInv, AtGate, OnTime
  <2>3. CASE gate' = gate
    BY <2>1, <2>2, <2>3 DEF Lag
  <2>4. CASE r # s
    BY <1>5, <2>1, <2>2, <2>4
  <2>5. ASSUME slog[s][i].k = "write", r = s PROVE FALSE
    <3>1. PICK j \in Due(s) : Tie(s, j, y) /\ ~Arriving(s, j)
                              /\ Lag(s, Val(s, j)) = LagRel(s, y)
      BY <2>5, Alone
    <3>2. j # i
      BY <2>5, <3>1 DEF Arriving
    <3>3. Lag(s, Val(s, j)) < Lag(s, Val(s, i))
      BY <1>3, <3>2 DEF GateInv, Sorted
    <3>4. Lag(s, Val(s, i)) < Lag(s, gate[s])
      BY <2>5 DEF GateInv, Ahead, Arriving
    <3>5. LagRel(s, y) \in Nat
      BY Lags
    <3> QED BY <1>1, <2>2, <2>5, <3>1, <3>3, <3>4, <3>5
  <2> QED BY <2>3, <2>4, <2>5
<1>19. HeldUntilSettled'
  <2>1. \A j \in 1 .. i : j \in 1 .. spos[s] \/ j = i
    BY <1>1
  <2>2. \A j \in 1 .. i : slog[s][j].k \in {"wait", "host"} => result[slog[s][j].op] # "none"
    BY <2>1 DEF GateInv, HeldUntilSettled
  <2> QED BY <1>2, <2>2 DEF GateInv, HeldUntilSettled
<1> QED BY <1>9, <1>10, <1>11, <1>12, <1>13, <1>14, <1>15, <1>16, <1>17, <1>18,
           <1>19 DEF GateInv

\* A command that does not arrive and whose value the gate word has reached:
\* the word is at that value, and its operation is settled.
LEMMA WaitOver ==
  ASSUME TypeInv, RingInv, OpInv, GateInv, NEW s \in Streams, NEW i \in Due(s),
         ~Arriving(s, i), slog[s][i].k # "write", ~CyclicLess(gate[s], Val(s, i))
  PROVE  gate[s] = Val(s, i) /\ result[slog[s][i].op] # "none"
<1>1. /\ Released(nextSeq[s]) \in Word /\ gate[s] \in Word /\ Val(s, i) \in Word
      /\ Lag(s, gate[s]) \in Nat /\ Lag(s, Val(s, i)) \in Nat
  BY GateTypes, Lags, DueLags DEF GateInv
<1>2. Lag(s, Val(s, i)) <= Lag(s, gate[s]) /\ Lag(s, gate[s]) <= Half
  BY DEF GateInv, Ahead, InWindow
<1>3. ~(Lag(s, Val(s, i)) < Lag(s, gate[s]))
  BY <1>1, <1>2, WindowOrder DEF Lag
<1>4. Lag(s, Val(s, i)) = Lag(s, gate[s])
  BY <1>1, <1>2, <1>3
<1>5. gate[s] = Val(s, i)
  BY <1>1, <1>4, LagNumbers DEF Lag
<1>6. ASSUME NEW x \in Slots, Tie(s, i, x) PROVE FALSE
  <2>1. Lag(s, Val(s, i)) = LagRel(s, x) /\ IsStream(x) /\ CallAt(x).strm = s
    BY <1>6, TieLag DEF GateInv
  <2>2. Live(x)
    BY <1>6 DEF Tie, Live
  <2>3. LagRel(s, x) < Lag(s, gate[s])
    BY <2>1, <2>2 DEF GateInv, Unreleased
  <2> QED BY <1>1, <1>4, <2>1, <2>3
<1>7. result[slog[s][i].op] # "none"
  BY <1>6 DEF GateInv, Backed
<1> QED BY <1>5, <1>7

\* The stream executes a write or gets past a wait or a host callback.
LEMMA GatePasses ==
  ASSUME TypeInv, RingInv, OpInv, GateInv, NEW s \in Streams,
         RunWrite(s) \/ RunWait(s) \/ Unpark(s)
  PROVE  GateInv'
<1> USE DEF ringVars, slotVars, callVars, gateVars, workerVars
<1>1. PICK i : i = spos[s] + 1
  OBVIOUS
<1>2. /\ UNCHANGED <<state, opOf, seq, pc, curOp, curSlot, nextOp, call, result,
                     nextSeq, slog, wpc, wi>>
      /\ spos' = [spos EXCEPT ![s] = i]
  BY <1>1 DEF RunWrite, RunWait, Unpark, Step
<1>3. /\ spos[s] < Len(slog[s]) /\ Command(s) = slog[s][i]
      /\ spos[s] \in Nat /\ Len(slog[s]) \in Nat /\ i \in 1 .. Len(slog[s])
      /\ i \in spos[s] + 1 .. Len(slog[s])
  <2>1. spos[s] < Len(slog[s])
    BY DEF RunWrite, RunWait, Unpark, HasCommand, GateInv, LogShape
  <2> QED BY <1>1, <2>1, GateTypes DEF Command
<1>4. CASE RunWrite(s)
  <2>1. slog[s][i].k = "write" /\ parked' = parked
        /\ gate' = [gate EXCEPT ![s] = slog[s][i].v]
    BY <1>1, <1>3, <1>4 DEF RunWrite, HasCommand
  <2>2. i \in Due(s) /\ slog[s][i].v = Val(s, i) /\ slog[s][i].v \in Word
    BY <1>3, <2>1, GateTypes DEF Due, Val
  <2>3. parked[s] = NotParked
    <3>1. ~AlignedOnly
      BY <2>1, <2>2, DueLags DEF GateInv
    <3> QED BY <3>1 DEF GateInv, LogShape
  <2>4. parked' = [parked EXCEPT ![s] = NotParked]
    BY <2>1, <2>3, GateTypes
  <2> QED BY <1>1, <1>2, <2>1, <2>2, <2>4, GateAdvances
<1>5. CASE RunWait(s)
  <2>1. slog[s][i].k = "wait" /\ parked' = parked /\ gate' = gate
        /\ ~CyclicLess(gate[s], slog[s][i].v)
    BY <1>1, <1>3, <1>5 DEF RunWait, HasCommand
  <2>2. i \in Due(s) /\ slog[s][i].v = Val(s, i) /\ ~Arriving(s, i)
    BY <1>3, <2>1 DEF Due, Val, Arriving
  <2>3. gate[s] = Val(s, i) /\ result[slog[s][i].op] # "none"
    BY <2>1, <2>2, WaitOver
  <2>4. parked[s] = NotParked
    <3>1. ~AlignedOnly
      BY <2>1, <2>2, DueLags DEF GateInv
    <3> QED BY <3>1 DEF GateInv, LogShape
  <2>5. /\ parked' = [parked EXCEPT ![s] = NotParked]
        /\ gate' = [gate EXCEPT ![s] = gate[s]] /\ gate[s] \in Word
    BY <2>1, <2>4, GateTypes
  <2> QED BY <1>1, <1>2, <2>1, <2>2, <2>3, <2>5, GateAdvances
<1>6. CASE Unpark(s)
  <2>1. parked[s] # NotParked /\ parked' = [parked EXCEPT ![s] = NotParked]
        /\ gate' = gate /\ ~CyclicLess(gate[s], Released(parked[s]))
    BY <1>6 DEF Unpark, SpinEnds
  <2>2. slog[s][i].k = "host" /\ ParkedAt(s, i)
    BY <1>1, <1>3, <2>1 DEF GateInv, LogShape, Fits, ParkedAt
  <2>3. i \in Due(s) /\ Released(parked[s]) = Val(s, i) /\ ~Arriving(s, i)
    BY <1>3, <2>2 DEF Due, Val, Arriving
  <2>4. gate[s] = Val(s, i) /\ result[slog[s][i].op] # "none"
    BY <2>1, <2>2, <2>3, WaitOver
  <2>5. gate' = [gate EXCEPT ![s] = gate[s]] /\ gate[s] \in Word
    BY <2>1, GateTypes
  <2> QED BY <1>1, <1>2, <2>1, <2>2, <2>3, <2>4, <2>5, GateAdvances
<1> QED BY <1>4, <1>5, <1>6

\* park_gate_cb: the slot it reads is still the operation's own, so it publishes
\* that operation's arrival.
LEMMA ParkReads ==
  ASSUME TypeInv, RingInv, OpInv, GateInv, NEW s \in Streams, Park(s)
  PROVE  \E x \in Slots : \E i \in Due(s) :
           /\ i = spos[s] + 1 /\ Tie(s, i, x) /\ Arriving(s, i)
           /\ slog[s][i].k = "host" /\ AlignedOnly /\ parked[s] = NotParked
           /\ Val(s, i) = Arrived(seq[x])
           /\ gate' = [gate EXCEPT ![s] = Arrived(seq[x])]
           /\ parked' = [parked EXCEPT ![s] = seq[x]]
<1>1. PICK i : i = spos[s] + 1
  OBVIOUS
<1>2. /\ spos[s] < Len(slog[s]) /\ slog[s][i].k = "host" /\ parked[s] = NotParked
      /\ Command(s) = slog[s][i]
  BY <1>1 DEF Park, HasCommand, Command
<1>3. i \in spos[s] + 1 .. Len(slog[s])
  BY <1>1, <1>2, GateTypes
<1>4. i \in Due(s) /\ Arriving(s, i) /\ ~ParkedAt(s, i)
  BY <1>2, <1>3 DEF Due, Arriving, ParkedAt
<1>5. PICK x \in Slots : Tie(s, i, x)
  BY <1>2, <1>4 DEF GateInv, Backed
<1>6. Command(s).x = x
  BY <1>2, <1>5 DEF Tie
<1>7. CallAt(x).strm = s
  BY <1>2, <1>4, <1>5, TieLag DEF GateInv
<1>8. AlignedOnly
  BY <1>2, <1>4, DueLags DEF GateInv
<1>9. Val(s, i) = Arrived(seq[x])
  BY <1>2, <1>4, <1>6 DEF Val
<1>10. /\ gate' = [gate EXCEPT ![s] = Arrived(seq[x])]
       /\ parked' = [parked EXCEPT ![s] = seq[x]]
  BY <1>6, <1>7 DEF Park
<1> QED BY <1>1, <1>2, <1>4, <1>5, <1>8, <1>9, <1>10

\* A host callback publishes its arrival and starts to spin.
LEMMA GateParks ==
  ASSUME TypeInv, RingInv, OpInv, GateInv, NEW s \in Streams, Park(s)
  PROVE  GateInv'
<1>1. UNCHANGED <<state, opOf, seq, pc, curOp, curSlot, nextOp, call, result,
                  nextSeq, slog, spos, wpc, wi>>
  BY DEF Park, ringVars, slotVars, callVars, workerVars
<1>2. PICK x \in Slots, i \in Due(s) :
        /\ i = spos[s] + 1 /\ Tie(s, i, x) /\ Arriving(s, i)
        /\ slog[s][i].k = "host" /\ AlignedOnly /\ parked[s] = NotParked
        /\ Val(s, i) = Arrived(seq[x])
        /\ gate' = [gate EXCEPT ![s] = Arrived(seq[x])]
        /\ parked' = [parked EXCEPT ![s] = seq[x]]
  BY ParkReads
<1>3. PICK l : l = LagRel(s, x)
  OBVIOUS
<1>4. /\ l \in Nat /\ \E k \in Nat : l = 2 * k
      /\ Lag(s, Val(s, i)) = l + 1 /\ seq[x] \in Word
      /\ i \in Nat /\ i \in 1 .. Len(slog[s])
  <2>1. l \in Nat /\ \E k \in Nat : l = 2 * k
    BY <1>3, Lags, GateTypes DEF LagRel
  <2>2. Lag(s, Arrived(seq[x])) = l + 1
    BY <1>3, Lags
  <2>3. seq[x] \in Word
    BY GateTypes
  <2>4. i \in Nat /\ i \in 1 .. Len(slog[s])
    BY DueLags DEF GateInv
  <2> QED BY <1>2, <2>1, <2>2, <2>3, <2>4
<1>5. /\ gate'[s] = Arrived(seq[x]) /\ \A r \in Streams : r # s => gate'[r] = gate[r]
      /\ parked'[s] = seq[x] /\ \A r \in Streams : r # s => parked'[r] = parked[r]
      /\ seq[x] # NotParked
  BY <1>2, <1>4, GateTypes
<1>6. /\ Lag(s, gate[s])' = l + 1
      /\ \A r \in Streams : r # s => Lag(r, gate[r])' = Lag(r, gate[r])
      /\ \A r \in Streams : \A y \in Slots : LagRel(r, y)' = LagRel(r, y)
  BY <1>1, <1>2, <1>4, <1>5 DEF Lag, LagRel
<1>7. \A r \in Streams : Due(r)' = Due(r)
  BY <1>1 DEF Due
<1>8. /\ ParkedAt(s, i)' /\ ~ParkedAt(s, i)
      /\ \A r \in Streams : \A j \in Due(r) : r # s \/ j # i =>
           /\ ParkedAt(r, j)' <=> ParkedAt(r, j)
           /\ ParkedAt(r, j) => parked'[r] = parked[r]
  BY <1>1, <1>2, <1>5 DEF ParkedAt
<1>9. /\ ~Arriving(s, i)' /\ Lag(s, Val(s, i))' = l
      /\ \A r \in Streams : \A j \in Due(r) : r # s \/ j # i =>
           /\ Arriving(r, j)' <=> Arriving(r, j)
           /\ Lag(r, Val(r, j))' = Lag(r, Val(r, j))
  <2>1. ~Arriving(s, i)' /\ Val(s, i)' = Released(seq[x])
    BY <1>1, <1>2, <1>5, <1>8 DEF Arriving, Val
  <2>2. \A r \in Streams : \A j \in Due(r) : r # s \/ j # i =>
           /\ Arriving(r, j)' <=> Arriving(r, j)
           /\ Val(r, j)' = Val(r, j)
    BY <1>1, <1>8 DEF Arriving, Val
  <2>3. Lag(s, Val(s, i))' = l
    BY <1>1, <1>3, <2>1 DEF Lag, LagRel
  <2>4. \A r \in Streams : \A j \in Due(r) : r # s \/ j # i =>
           Lag(r, Val(r, j))' = Lag(r, Val(r, j))
    BY <1>1, <2>2 DEF Lag
  <2> QED BY <2>1, <2>2, <2>3, <2>4
<1>10. \A j \in Due(s) : j # i => /\ i < j /\ Arriving(s, j) /\ slog[s][j].k = "host"
                                  /\ Lag(s, Val(s, j)) \in Nat
                                  /\ Lag(s, Val(s, j)) < l
  <2> SUFFICES ASSUME NEW j \in Due(s), j # i
               PROVE /\ i < j /\ Arriving(s, j) /\ slog[s][j].k = "host"
                     /\ Lag(s, Val(s, j)) \in Nat /\ Lag(s, Val(s, j)) < l
    BY Zenon
  <2>1. /\ slog[s][j].k = "host" /\ j \in Nat /\ j > spos[s]
        /\ Lag(s, Val(s, j)) \in Nat
    BY <1>2, DueLags DEF GateInv
  <2>2. Arriving(s, j)
    BY <1>2, <2>1 DEF Arriving, ParkedAt
  <2>3. i < j
    BY <1>2, <1>4, <2>1, GateTypes
  <2>4. Lag(s, Val(s, j)) < l + 1
    BY <1>4, <2>3 DEF GateInv, Sorted
  <2>5. PICK v \in Nat : v = Lag(s, Val(s, j))
    BY <2>1
  <2>6. PICK k \in Nat : v = 2 * k + 1
    BY <2>2, <2>5, DueLags DEF GateInv
  <2>7. PICK h \in Nat : l = 2 * h
    BY <1>4
  <2>8. v < l
    BY <2>4, <2>5, <2>6, <2>7
  <2> QED BY <2>1, <2>2, <2>3, <2>5, <2>8
<1>11. /\ \A t \in Threads : InClaim(t)' <=> InClaim(t)
       /\ \A y \in Slots : /\ Held(y)' <=> Held(y)
                           /\ Live(y)' <=> Live(y)
                           /\ Executing(y)' <=> Executing(y)
                           /\ CallAt(y)' = CallAt(y)
                           /\ IsStream(y)' <=> IsStream(y)
  <2>1. \A t \in Threads : InClaim(t)' <=> InClaim(t)
    BY <1>1 DEF InClaim
  <2>2. \A y \in Slots : Held(y)' <=> Held(y)
    BY <1>1 DEF Held
  <2>3. \A y \in Slots : /\ CallAt(y)' = CallAt(y)
                         /\ IsStream(y)' <=> IsStream(y)
                         /\ Executing(y)' <=> Executing(y)
    BY <1>1 DEF CallAt, IsStream, Executing, Here
  <2> QED BY <1>1, <2>1, <2>2, <2>3 DEF Live
<1>12. ASSUME NEW r \in Streams, NEW j \in Due(r), NEW y \in Slots, Tie(r, j, y)
       PROVE  Tie(r, j, y)'
  <2>1. CASE r = s /\ j = i
    <3>1. y = x
      BY <1>2, <1>12, <2>1 DEF Tie
    <3> QED BY <1>1, <1>2, <1>5, <1>11, <1>12, <2>1, <3>1 DEF Tie
  <2>2. CASE r # s \/ j # i
    BY <1>1, <1>8, <1>11, <1>12, <2>2 DEF Tie
  <2> QED BY <2>1, <2>2
<1>13. LogShape'
  <2>1. \A r \in Streams : \A b : Fits(r, b)' <=> Fits(r, b)
    BY <1>1 DEF Fits
  <2>2. spos[s] < Len(slog[s])
    BY <1>2, <1>4, GateTypes
  <2>3. \A r \in Streams : parked'[r] # NotParked => spos[r] < Len(slog[r]) /\ AlignedOnly
    BY <1>2, <1>5, <2>2 DEF GateInv, LogShape
  <2> QED BY <1>1, <2>1, <2>3 DEF GateInv, LogShape
<1>14. NewestClaim' /\ HeldUntilSettled'
  BY <1>1, <1>11 DEF GateInv, NewestClaim, HeldUntilSettled
<1>15. InWindow'
  <2>1. l + 1 < Lag(s, gate[s]) /\ Lag(s, gate[s]) <= Half /\ Lag(s, gate[s]) \in Nat
    BY <1>2, <1>4, Lags DEF GateInv, Ahead, InWindow
  <2>2. l + 1 <= Half
    BY <1>4, <2>1, HalfAssumption
  <2> QED BY <1>6, <2>2 DEF GateInv, InWindow
<1>16. Ahead'
  <2> SUFFICES ASSUME NEW r \in Streams, NEW j \in Due(r)
               PROVE /\ Lag(r, Val(r, j))' <= Lag(r, gate[r])'
                     /\ Arriving(r, j)' => Lag(r, Val(r, j))' < Lag(r, gate[r])'
    BY <1>7 DEF Ahead
  <2>1. CASE r # s
    BY <1>6, <1>9, <2>1 DEF GateInv, Ahead
  <2>2. CASE r = s /\ j = i
    BY <1>4, <1>6, <1>9, <2>2
  <2>3. CASE r = s /\ j # i
    <3>1. Lag(s, Val(s, j)) < l /\ Lag(s, Val(s, j)) \in Nat
      BY <1>10, <2>3
    <3>2. Lag(s, Val(s, j))' = Lag(s, Val(s, j))
      BY <1>9, <2>3
    <3> QED BY <1>4, <1>6, <2>3, <3>1, <3>2
  <2> QED BY <2>1, <2>2, <2>3
<1>17. Sorted'
  <2> SUFFICES ASSUME NEW r \in Streams, NEW j \in Due(r), NEW k \in Due(r), j < k
               PROVE  Lag(r, Val(r, k))' < Lag(r, Val(r, j))'
    BY <1>7 DEF Sorted
  <2>1. Lag(r, Val(r, k)) < Lag(r, Val(r, j))
    BY DEF GateInv, Sorted
  <2>2. CASE r # s \/ (j # i /\ k # i)
    BY <1>9, <2>1, <2>2
  <2>3. CASE r = s /\ j = i
    <3>1. k # i
      BY <1>4, <2>3
    <3> QED BY <1>9, <1>10, <2>3, <3>1
  <2>4. CASE r = s /\ k = i /\ j # i
    <3>1. i < j /\ j \in Nat
      BY <1>10, <2>4, DueLags DEF GateInv
    <3> QED BY <1>4, <2>4, <3>1
  <2> QED BY <2>2, <2>3, <2>4
<1>18. LastClaim'
  <2> SUFFICES ASSUME NEW t \in Threads, pc[t] = "gate", NEW r, r = call[curOp[t]].strm
               PROVE /\ Lag(r, gate[r])' > 1
                     /\ \A j \in Due(r)' : Lag(r, Val(r, j))' > 1
    <3>1. \A t \in Threads : pc[t] # "wait"
      BY <1>2 DEF OpInv, ClaimFilled
    <3> QED BY <1>1, <3>1 DEF LastClaim
  <2>1. r \in Streams
    BY LiveNamed DEF InClaim
  <2>2. Lag(r, gate[r]) > 1 /\ \A j \in Due(r) : Lag(r, Val(r, j)) > 1
    BY DEF GateInv, LastClaim
  <2>3. CASE r # s
    BY <1>6, <1>7, <1>9, <2>1, <2>2, <2>3
  <2>4. CASE r = s
    <3>1. l + 1 > 1
      BY <1>4, <2>2, <2>4
    <3>2. l > 1
      BY <1>4, <3>1
    <3>3. \A j \in Due(s) : Lag(s, Val(s, j))' > 1
      BY <1>9, <2>2, <2>4, <3>2
    <3> QED BY <1>6, <1>7, <2>4, <3>1, <3>3
  <2> QED BY <2>3, <2>4
<1>19. Unreleased'
  <2> SUFFICES ASSUME NEW y \in Slots, Live(y), IsStream(y), NEW r, r = CallAt(y).strm
               PROVE  LagRel(r, y) < Lag(r, gate[r])'
    <3>1. \A y \in Slots : Live(y) /\ IsStream(y) => CallAt(y).strm \in Streams
      BY LiveNamed
    <3> QED BY <1>6, <1>11, <3>1 DEF Unreleased
  <2>1. r \in Streams
    BY LiveNamed
  <2>2. CASE r # s
    BY <1>6, <2>1, <2>2 DEF GateInv, Unreleased
  <2>3. CASE r = s /\ Tie(s, i, y)
    <3>1. y = x
      BY <1>2, <2>3 DEF Tie
    <3>2. LagRel(s, y) < l + 1
      <4>1. LagRel(s, y) = l
        BY <1>3, <3>1
      <4>2. l \in Nat
        BY <1>4
      <4> QED BY <4>1, <4>2
    <3> QED BY <1>6, <2>3, <3>2
  <2>4. CASE r = s /\ ~Tie(s, i, y)
    <3>1. CallAt(y).strm = s /\ ~Tie(s, i, y) /\ i = spos[s] + 1
      BY <1>2, <2>4
    <3>2. LagRel(s, y) < Lag(s, Val(s, i))
      BY <3>1, LiveBehind
    <3> QED BY <1>4, <1>6, <2>4, <3>2
  <2> QED BY <2>2, <2>3, <2>4
<1>20. Tied'
  <2> SUFFICES ASSUME NEW y \in Slots, Held(y), IsStream(y), NEW r, r = CallAt(y).strm
               PROVE  \E j \in Due(r)' : slog[r][j].k # "write" /\ Tie(r, j, y)'
    BY <1>1, <1>11 DEF Tied
  <2>1. r \in Streams
    BY LiveNamed
  <2>2. PICK j \in Due(r) : slog[r][j].k # "write" /\ Tie(r, j, y)
    BY DEF GateInv, Tied
  <2>3. Tie(r, j, y)'
    BY <1>12, <2>1, <2>2
  <2> QED BY <1>7, <2>1, <2>2, <2>3
<1>21. Backed'
  <2> SUFFICES ASSUME NEW r \in Streams, NEW j \in Due(r), slog[r][j].k # "write"
               PROVE  \/ ~Arriving(r, j)' /\ result[slog[r][j].op] # "none"
                      \/ \E y \in Slots : Tie(r, j, y)'
    BY <1>1, <1>7 DEF Backed
  <2>1. \/ ~Arriving(r, j) /\ result[slog[r][j].op] # "none"
        \/ \E y \in Slots : Tie(r, j, y)
    BY DEF GateInv, Backed
  <2>2. CASE ~Arriving(r, j) /\ result[slog[r][j].op] # "none"
    BY <1>2, <1>9, <2>2
  <2>3. CASE \E y \in Slots : Tie(r, j, y)
    BY <1>12, <2>3
  <2> QED BY <2>1, <2>2, <2>3
<1>22. AtGate'
  <2> SUFFICES ASSUME NEW y \in Slots, Executing(y), IsStream(y),
                      NEW r, r = CallAt(y).strm
               PROVE  Lag(r, gate[r])' = LagRel(r, y) + 1
    <3>1. \A y \in Slots : Executing(y) /\ IsStream(y) => CallAt(y).strm \in Streams
      BY LiveNamed
    <3> QED BY <1>6, <1>11, <3>1 DEF AtGate, OnTime
  <2>1. r \in Streams
    BY LiveNamed
  <2>2. Lag(r, gate[r]) = LagRel(r, y) + 1
    BY DEF GateInv, AtGate, OnTime
  <2>3. r # s
    <3> SUFFICES ASSUME r = s PROVE FALSE
      OBVIOUS
    <3>1. PICK j \in Due(s) : ~Arriving(s, j)
      BY Alone
    <3> QED BY <1>2, <1>10, <3>1
  <2> QED BY <1>6, <2>1, <2>2, <2>3
<1> QED BY <1>13, <1>14, <1>15, <1>16, <1>17, <1>18, <1>19, <1>20, <1>21, <1>22
        DEF GateInv

\* Every step keeps the gates in order.
LEMMA GateNext ==
  TypeInv /\ RingInv /\ OpInv /\ GateInv /\ [Next]_vars => GateInv'
<1> SUFFICES ASSUME TypeInv, RingInv, OpInv, GateInv, [Next]_vars PROVE GateInv'
  OBVIOUS
<1>1. ASSUME NEW t \in Threads, StartCall(t) \/ ThreadStep(t) PROVE GateInv'
  BY <1>1, GateCalls, GateClaim, GateEnqueues, GateCopies DEF ThreadStep, ThreadGoesOn
<1>2. ASSUME \/ \E w \in Workers : WorkerStep(w)
             \/ \E x \in Slots : DeviceStep(x)
             \/ Close \/ UNCHANGED vars
      PROVE  GateInv'
  BY <1>2, GateWorkers
<1>3. ASSUME NEW s \in Streams, StreamStep(s) PROVE GateInv'
  BY <1>3, GatePasses, GateParks, GateCopies DEF StreamStep
<1> QED BY <1>1, <1>2, <1>3 DEF Next
-----------------------------------------------------------------------------
\* The types, the rings, the operations and the gates are correct in every
\* state of the engine.
THEOREM GatesCorrect == Spec => [](TypeInv /\ RingInv /\ OpInv /\ GateInv)
<1>1. Init => GateInv
  BY GateInit
<1>2. TypeInv /\ RingInv /\ OpInv /\ GateInv /\ [Next]_vars => GateInv'
  BY GateNext
<1> QED BY <1>1, <1>2, OpsCorrect, PTL DEF Spec

\* stream_wait_value32_geq and park_gate_cb hold the stream until the operation
\* is settled: in every state, the operation of every gate a stream has passed
\* has its result, however its sequence numbers wrap and its slots are reused.
THEOREM StreamsHeld == Spec => []HeldUntilSettled
<1>1. GateInv => HeldUntilSettled
  BY DEF GateInv
<1> QED BY <1>1, GatesCorrect, PTL

\* Moving a gate word to a value less far behind moves it forward.
LEMMA MovesForward ==
  ASSUME TypeInv, GateInv, NEW s \in Streams, NEW v \in Word,
         gate' = [gate EXCEPT ![s] = v], Lag(s, v) < Lag(s, gate[s])
  PROVE  \A r \in Streams : gate'[r] # gate[r] => CyclicLess(gate[r], gate'[r])
<1>1. gate'[s] = v /\ \A r \in Streams : r # s => gate'[r] = gate[r]
  BY GateTypes
<1>2. /\ Released(nextSeq[s]) \in Word /\ gate[s] \in Word
      /\ Lag(s, gate[s]) \in Nat /\ Lag(s, v) \in Nat
  BY GateTypes, Lags
<1>3. Lag(s, v) <= Lag(s, gate[s]) /\ Lag(s, gate[s]) <= Half
  BY <1>2 DEF GateInv, InWindow
<1>4. CyclicLess(gate[s], v)
  BY <1>2, <1>3, WindowOrder DEF Lag
<1> QED BY <1>1, <1>4

\* The steps that store the gate word move it forward.
LEMMA ForwardNext ==
  ASSUME TypeInv, RingInv, OpInv, GateInv, Next
  PROVE  \A s \in Streams : gate'[s] # gate[s] => CyclicLess(gate[s], gate'[s])
<1> DEFINE Forward == \A s \in Streams :
             gate'[s] # gate[s] => CyclicLess(gate[s], gate'[s])
<1>1. ASSUME NEW w \in Workers, CompleteStreamRead(w) \/ FinishWrite(w)
      PROVE  Forward
  <2>1. PICK x \in Slots : x = Here(w)
    BY HereType DEF TypeInv, TypeOK
  <2>2. /\ Executing(x)
        /\ gate' = IF IsStream(x) THEN [gate EXCEPT ![CallAt(x).strm] = Released(seq[x])]
                                  ELSE gate
    <3>1. x[1] = w
      BY <2>1 DEF Here, SlotAt
    <3> QED BY <1>1, <2>1, <3>1 DEF CompleteStreamRead, FinishWrite, Scanning,
                                    Executing, ReleaseGate
  <2>3. CASE ~IsStream(x)
    BY <2>2, <2>3
  <2>4. CASE IsStream(x)
    <3>1. Live(x)
      BY <2>2, LiveNamed
    <3>2. PICK s \in Streams : s = CallAt(x).strm
      BY <2>4, <3>1, LiveNamed
    <3>3. PICK v \in Word : v = Released(seq[x])
      BY GateTypes, WordClosed
    <3>4. Lag(s, v) < Lag(s, gate[s])
      BY <2>4, <3>1, <3>2, <3>3 DEF GateInv, Unreleased, LagRel
    <3>5. gate' = [gate EXCEPT ![s] = v]
      BY <2>2, <2>4, <3>2, <3>3
    <3> QED BY <3>4, <3>5, MovesForward
  <2> QED BY <2>3, <2>4
<1>2. ASSUME NEW s \in Streams, RunWrite(s) PROVE Forward
  <2>1. PICK i : i = spos[s] + 1
    OBVIOUS
  <2>2. /\ spos[s] < Len(slog[s]) /\ slog[s][i].k = "write"
        /\ gate' = [gate EXCEPT ![s] = slog[s][i].v]
    BY <1>2, <2>1 DEF RunWrite, HasCommand, Command
  <2>3. i \in spos[s] + 1 .. Len(slog[s]) /\ i \in 1 .. Len(slog[s])
    BY <2>1, <2>2, GateTypes
  <2>4. i \in Due(s) /\ Arriving(s, i) /\ Val(s, i) = slog[s][i].v
    BY <2>2, <2>3 DEF Due, Arriving, Val
  <2>5. PICK v \in Word : v = slog[s][i].v
    BY <2>3, GateTypes
  <2>6. Lag(s, v) < Lag(s, gate[s])
    BY <2>4, <2>5 DEF GateInv, Ahead
  <2>7. gate' = [gate EXCEPT ![s] = v]
    BY <2>2, <2>5
  <2> QED BY <2>6, <2>7, MovesForward
<1>3. ASSUME NEW s \in Streams, Park(s) PROVE Forward
  <2>1. PICK x \in Slots, i \in Due(s) :
          /\ Arriving(s, i) /\ Val(s, i) = Arrived(seq[x])
          /\ gate' = [gate EXCEPT ![s] = Arrived(seq[x])]
    BY <1>3, ParkReads
  <2>2. PICK v \in Word : v = Arrived(seq[x])
    BY GateTypes, WordClosed
  <2>3. Lag(s, v) < Lag(s, gate[s])
    BY <2>1, <2>2 DEF GateInv, Ahead
  <2>4. gate' = [gate EXCEPT ![s] = v]
    BY <2>1, <2>2
  <2> QED BY <2>3, <2>4, MovesForward
<1>4. ASSUME UNCHANGED gate PROVE Forward
  BY <1>4
<1> HIDE DEF Forward
<1>5. ASSUME NEW t \in Threads, StartCall(t) \/ ThreadStep(t) PROVE Forward
  <2>1. UNCHANGED gate
    BY <1>5 DEF ThreadStep, ThreadGoesOn, StartCall, ClaimFull, ClaimAsync, AwaitReturns, ClaimStream,
                EnqueueGate, EnqueueWait, GateFails, Publish, EnqueueCopy, CopyFails,
                gateVars
  <2> QED BY <1>4, <2>1
<1>6. ASSUME NEW w \in Workers, WorkerStep(w) PROVE Forward
  <2>1. CompleteStreamRead(w) \/ FinishWrite(w) \/ UNCHANGED gate
    BY <1>6 DEF WorkerStep, WorkerGoesOn, BeginPass, PassSlot, LeaveGated, DispatchRead, IssueChunk,
                IssueBounce, StartFails, StartDone, PokeWhileStarting, DispatchWrite,
                CompleteAsyncRead, Drain, EndPass, Poke, gateVars
  <2> QED BY <1>1, <1>4, <2>1
<1>7. ASSUME NEW s \in Streams, StreamStep(s) PROVE Forward
  <2>1. RunWrite(s) \/ Park(s) \/ UNCHANGED gate
    BY <1>7 DEF StreamStep, RunWait, Unpark, RunCopy, gateVars
  <2> QED BY <1>2, <1>3, <1>4, <2>1
<1>8. ASSUME Close \/ \E x \in Slots : DeviceStep(x) PROVE Forward
  <2>1. UNCHANGED gate
    BY <1>8 DEF Close, DeviceStep, CompleteChunk, CompleteBounce, gateVars
  <2> QED BY <1>4, <2>1
<1>9. Forward
  BY <1>5, <1>6, <1>7, <1>8 DEF Next
<1> QED BY <1>9 DEF Forward

\* The gate word, stored by the I/O threads, the stream's writes and its host
\* callbacks without a lock, never moves backwards in the cyclic order that
\* poll_stream_pending and the waits compare it with.
THEOREM GatesForward == Spec => GateMovesForward
<1>1. TypeInv /\ RingInv /\ OpInv /\ GateInv /\ [Next]_vars
        => [\A s \in Streams : gate'[s] # gate[s] => CyclicLess(gate[s], gate'[s])]_vars
  BY ForwardNext
<1> QED BY <1>1, GatesCorrect, PTL DEF Spec, GateMovesForward
-----------------------------------------------------------------------------
(***************************************************************************)
(* An operation runs while the stream stands at its gate.  With host       *)
(* callbacks that follows from the gate's invariant.  With a write and a   *)
(* wait it also needs that nothing comes between the two.  submit_lock     *)
(* keeps other gates out, but the copy of a read is enqueued without it:   *)
(* no other thread may use a stream that a thread submits reads to.        *)
(***************************************************************************)
Unshared ==
  AlignedOnly \/ \A t, u \in Threads : \A c \in CallsOf[t], d \in CallsOf[u] :
    t # u /\ c.mode = "stream" /\ d.mode = "stream" /\ c.strm = d.strm
      => c.wr /\ d.wr

\* What a thread submits is one of its calls, and a copy one of a read.
OwnCalls ==
  \A t \in Threads : /\ pc[t] # "idle" => call[curOp[t]] \in CallsOf[t]
                     /\ pc[t] = "copy" => ~call[curOp[t]].wr

\* The write of a gate is the last command until its wait follows it.
WriteLast ==
  \A t \in Threads : pc[t] = "wait" =>
    LET s == call[curOp[t]].strm
    IN /\ Len(slog[s]) > 0 /\ slog[s][Len(slog[s])].k = "write"
       /\ slog[s][Len(slog[s])].v = Arrived(seq[curSlot[t]])

\* A wait for release q comes right after the write of arrival q.
WaitAfterWrite(s, j) ==
  /\ j > 1 /\ slog[s][j - 1].k = "write"
  /\ \E q \in Word : slog[s][j].v = Released(q) /\ slog[s][j - 1].v = Arrived(q)
Paired ==
  \A s \in Streams : \A j \in 1 .. Len(slog[s]) :
    slog[s][j].k = "wait" => WaitAfterWrite(s, j)

PairInv == OwnCalls /\ WriteLast /\ Paired

\* Before anything is submitted.
LEMMA PairInit == Init => PairInv
<1> SUFFICES ASSUME Init PROVE PairInv
  OBVIOUS
<1>1. /\ \A t \in Threads : pc[t] = "idle"
      /\ \A s \in Streams : slog[s] = <<>>
  BY DEF Init
<1> QED BY <1>1 DEF PairInv, OwnCalls, WriteLast, Paired

\* Steps that enqueue nothing.
LEMMA PairFrame ==
  ASSUME PairInv, OwnCalls', slog' = slog,
         \A t \in Threads : pc'[t] = "wait" =>
           /\ pc[t] = "wait" /\ curOp'[t] = curOp[t] /\ curSlot'[t] = curSlot[t]
           /\ call'[curOp[t]] = call[curOp[t]]
           /\ seq'[curSlot[t]] = seq[curSlot[t]]
  PROVE  PairInv'
<1>1. WriteLast'
  BY DEF PairInv, WriteLast
<1>2. Paired'
  BY DEF PairInv, Paired, WaitAfterWrite
<1> QED BY <1>1, <1>2 DEF PairInv

\* A command is enqueued; a wait only after its write.
LEMMA PairGrows ==
  ASSUME TypeInv, Paired, NEW s \in Streams, NEW n \in Nat, NEW c \in CommandType,
         GrowsBy(s, n, c),
         c.k = "wait" => /\ n > 1 /\ slog[s][n - 1].k = "write"
                         /\ \E q \in Word : /\ c.v = Released(q)
                                            /\ slog[s][n - 1].v = Arrived(q)
  PROVE  Paired'
<1>1. Len(slog[s]) \in Nat /\ n = Len(slog[s]) + 1
  BY GateTypes DEF GrowsBy
<1>2. ASSUME NEW j \in 1 .. n, slog'[s][j].k = "wait" PROVE WaitAfterWrite(s, j)'
  <2>1. CASE j = n
    <3>1. slog'[s][n] = c
      BY DEF GrowsBy
    <3>2. n > 1 => slog'[s][n - 1] = slog[s][n - 1]
      <4>1. n > 1 => n - 1 \in 1 .. Len(slog[s])
        BY <1>1
      <4> QED BY <4>1 DEF GrowsBy
    <3> QED BY <1>2, <2>1, <3>1, <3>2 DEF WaitAfterWrite
  <2>2. CASE j # n
    <3>1. j \in 1 .. Len(slog[s])
      BY <1>1, <2>2
    <3>2. slog'[s][j] = slog[s][j]
      BY <3>1 DEF GrowsBy
    <3>3. WaitAfterWrite(s, j)
      BY <1>2, <3>1, <3>2 DEF Paired
    <3>4. j - 1 \in 1 .. Len(slog[s])
      BY <1>1, <3>1, <3>3 DEF WaitAfterWrite
    <3>5. slog'[s][j - 1] = slog[s][j - 1]
      BY <3>4 DEF GrowsBy
    <3> QED BY <3>2, <3>3, <3>5 DEF WaitAfterWrite
  <2> QED BY <2>1, <2>2
<1>3. \A j \in 1 .. Len(slog'[s]) : slog'[s][j].k = "wait" => WaitAfterWrite(s, j)'
  <2>1. Len(slog'[s]) = n
    BY DEF GrowsBy
  <2> QED BY <1>2, <2>1
<1>4. ASSUME NEW r \in Streams, r # s
      PROVE  \A j \in 1 .. Len(slog'[r]) : slog'[r][j].k = "wait" => WaitAfterWrite(r, j)'
  <2>1. slog'[r] = slog[r]
    BY <1>4 DEF GrowsBy
  <2> QED BY <2>1 DEF Paired, WaitAfterWrite
<1> QED BY <1>3, <1>4 DEF Paired

\* The steps of a caller that enqueue nothing.
LEMMA PairCalls ==
  ASSUME TypeInv, RingInv, OpInv, PairInv, NEW t \in Threads,
         \/ StartCall(t) \/ ClaimFull(t) \/ ClaimAsync(t) \/ AwaitReturns(t)
         \/ ClaimStream(t) \/ GateFails(t) \/ Publish(t) \/ CopyFails(t)
  PROVE  PairInv'
<1> USE OpTypes DEF ringVars, slotVars, callVars, streamVars
<1>1. CASE StartCall(t)
  <2>1. /\ pc' = [pc EXCEPT ![t] = "claim"] /\ curOp' = [curOp EXCEPT ![t] = nextOp]
        /\ UNCHANGED <<slog, curSlot, seq>>
        /\ \E c \in CallsOf[t] : call' = [call EXCEPT ![nextOp] = c]
    BY <1>1 DEF StartCall
  <2>2. nextOp \in Ops
    BY <1>1 DEF StartCall, Ops, TypeInv, TypeOK, CallerType
  <2>3. /\ call'[nextOp] \in CallsOf[t] /\ curOp'[t] = nextOp
        /\ \A o \in Ops : o # nextOp => call'[o] = call[o]
        /\ \A u \in Threads : u # t => pc'[u] = pc[u] /\ curOp'[u] = curOp[u]
        /\ pc'[t] = "claim"
    BY <2>1, <2>2
  <2>4. \A u \in Threads : pc[u] # "idle" => curOp[u] \in Ops /\ curOp[u] # nextOp
    BY DEF OpInv, OpsUsed
  <2>5. OwnCalls'
    BY <2>3, <2>4 DEF PairInv, OwnCalls
  <2> QED BY <2>1, <2>3, <2>4, <2>5, PairFrame
<1>2. CASE ClaimFull(t) \/ AwaitReturns(t) \/ GateFails(t) \/ CopyFails(t)
  <2>1. /\ UNCHANGED <<slog, curSlot, curOp, call, seq>>
        /\ pc' = pc \/ pc' = [pc EXCEPT ![t] = "idle"]
    BY <1>2 DEF ClaimFull, AwaitReturns, GateFails, CopyFails
  <2>2. \A u \in Threads : pc'[u] = pc[u] \/ pc'[u] = "idle"
    BY <2>1
  <2>3. OwnCalls'
    BY <2>1, <2>2 DEF PairInv, OwnCalls
  <2> QED BY <2>1, <2>2, <2>3, PairFrame
<1>3. CASE ClaimAsync(t) \/ ClaimStream(t)
  <2>1. /\ UNCHANGED <<slog, curOp, call>> /\ lock = NoThread /\ pc[t] = "claim"
        /\ \A u \in Threads : u # t => pc'[u] = pc[u]
        /\ pc'[t] \in {"idle", "await", "gate"}
    BY <1>3 DEF ClaimAsync, ClaimStream
  <2>2. \A u \in Threads : pc'[u] # "wait"
    BY <2>1 DEF RingInv, Claimed
  <2>3. OwnCalls'
    BY <2>1 DEF PairInv, OwnCalls
  <2> QED BY <2>1, <2>2, <2>3, PairFrame
<1>4. CASE Publish(t)
  <2>1. /\ UNCHANGED <<slog, curOp, curSlot, call, seq>> /\ pc[t] = "publish"
        /\ \A u \in Threads : u # t => pc'[u] = pc[u]
        /\ pc'[t] = "idle" \/ (pc'[t] = "copy" /\ ~call[curOp[t]].wr)
    BY <1>4 DEF Publish
  <2>2. OwnCalls'
    BY <2>1 DEF PairInv, OwnCalls
  <2> QED BY <2>1, <2>2, PairFrame
<1> QED BY <1>1, <1>2, <1>3, <1>4

\* The steps of a caller that enqueue.
LEMMA PairEnqueues ==
  ASSUME TypeInv, RingInv, OpInv, PairInv, Unshared, NEW t \in Threads,
         EnqueueGate(t) \/ EnqueueWait(t) \/ EnqueueCopy(t)
  PROVE  PairInv'
<1> USE DEF ringVars, slotVars
<1>1. /\ curOp[t] \in Ops /\ curSlot[t] \in Slots
      /\ call[curOp[t]].mode = "stream" /\ pc[t] \in {"gate", "wait", "copy"}
  BY OpTypes DEF EnqueueGate, EnqueueWait, EnqueueCopy, OpInv, ClaimFilled, InClaim
<1>2. PICK s \in Streams : s = call[curOp[t]].strm
  <2>1. \A c \in Call : c.mode = "stream" => c.strm \in Streams
    BY DEF Call
  <2> QED BY <1>1, <2>1, OpTypes
<1>3. PICK o \in Ops, x \in Slots : o = curOp[t] /\ x = curSlot[t]
  BY <1>1
<1>4. UNCHANGED <<seq, curOp, curSlot, call>>
  BY DEF EnqueueGate, EnqueueWait, EnqueueCopy
<1>5. PICK k \in {"host", "write", "wait", "copy"}, v \in Word :
        /\ Enqueue(s, k, o, v, x)
        /\ \/ pc[t] = "gate" /\ k = "host" /\ pc' = [pc EXCEPT ![t] = "publish"]
           \/ /\ pc[t] = "gate" /\ k = "write" /\ v = Arrived(seq[x])
              /\ pc' = [pc EXCEPT ![t] = "wait"]
           \/ /\ pc[t] = "wait" /\ k = "wait" /\ v = Released(seq[x])
              /\ pc' = [pc EXCEPT ![t] = "publish"]
           \/ pc[t] = "copy" /\ k = "copy" /\ pc' = [pc EXCEPT ![t] = "idle"]
  <2>1. 0 \in Word /\ Arrived(seq[x]) \in Word /\ Released(seq[x]) \in Word
    BY GateTypes, WordClosed, SmallWords
  <2>2. CASE EnqueueGate(t) /\ AlignedOnly
    <3>1. /\ Enqueue(s, "host", o, 0, x) /\ pc[t] = "gate"
          /\ pc' = [pc EXCEPT ![t] = "publish"]
      BY <1>2, <1>3, <2>2 DEF EnqueueGate
    <3> QED BY <2>1, <3>1
  <2>3. CASE EnqueueGate(t) /\ ~AlignedOnly
    <3>1. /\ Enqueue(s, "write", o, Arrived(seq[x]), x) /\ pc[t] = "gate"
          /\ pc' = [pc EXCEPT ![t] = "wait"]
      BY <1>2, <1>3, <2>3 DEF EnqueueGate
    <3> QED BY <2>1, <3>1
  <2>4. CASE EnqueueWait(t)
    <3>1. /\ Enqueue(s, "wait", o, Released(seq[x]), x) /\ pc[t] = "wait"
          /\ pc' = [pc EXCEPT ![t] = "publish"]
      BY <1>2, <1>3, <2>4 DEF EnqueueWait, WaitValue
    <3> QED BY <2>1, <3>1
  <2>5. CASE EnqueueCopy(t)
    <3>1. /\ Enqueue(s, "copy", o, 0, x) /\ pc[t] = "copy"
          /\ pc' = [pc EXCEPT ![t] = "idle"]
      BY <1>2, <1>3, <2>5 DEF EnqueueCopy
    <3> QED BY <2>1, <3>1
  <2> QED BY <2>2, <2>3, <2>4, <2>5
<1>6. PICK c \in CommandType, n \in Nat : /\ c.k = k /\ c.v = v /\ GrowsBy(s, n, c)
  BY <1>5, Enqueued
<1>7. /\ n = Len(slog[s]) + 1 /\ Len(slog'[s]) = n /\ slog'[s][n] = c
      /\ \A r \in Streams : r # s => slog'[r] = slog[r]
      /\ Len(slog[s]) \in Nat
  BY <1>6, GateTypes DEF GrowsBy
<1>8. /\ pc'[t] \in {"publish", "wait", "idle"}
      /\ pc'[t] = "wait" => k = "write" /\ v = Arrived(seq[x])
      /\ \A u \in Threads : u # t => pc'[u] = pc[u]
  BY <1>5, OpTypes
<1>9. OwnCalls'
  BY <1>1, <1>4, <1>8 DEF PairInv, OwnCalls
<1>10. Paired'
  <2>1. k = "wait" => /\ n > 1 /\ slog[s][n - 1].k = "write"
                      /\ slog[s][n - 1].v = Arrived(seq[x]) /\ v = Released(seq[x])
    <3> SUFFICES ASSUME k = "wait"
                 PROVE /\ n > 1 /\ slog[s][n - 1].k = "write"
                       /\ slog[s][n - 1].v = Arrived(seq[x]) /\ v = Released(seq[x])
      OBVIOUS
    <3>1. pc[t] = "wait" /\ v = Released(seq[x])
      BY <1>5
    <3>2. /\ Len(slog[s]) > 0 /\ slog[s][Len(slog[s])].k = "write"
          /\ slog[s][Len(slog[s])].v = Arrived(seq[x])
      BY <1>2, <1>3, <3>1 DEF PairInv, WriteLast
    <3>3. n > 1 /\ n - 1 = Len(slog[s])
      BY <1>7, <3>2
    <3> QED BY <3>1, <3>2, <3>3
  <2>2. seq[x] \in Word
    BY GateTypes
  <2>3. c.k = "wait" => /\ n > 1 /\ slog[s][n - 1].k = "write"
                        /\ \E q \in Word : /\ c.v = Released(q)
                                           /\ slog[s][n - 1].v = Arrived(q)
    BY <1>6, <2>1, <2>2
  <2> QED BY <1>6, <2>3, PairGrows DEF PairInv
<1>11. WriteLast'
  <2> SUFFICES ASSUME NEW u \in Threads, pc'[u] = "wait",
                      NEW r, r = call[curOp[u]].strm
               PROVE /\ Len(slog'[r]) > 0 /\ slog'[r][Len(slog'[r])].k = "write"
                     /\ slog'[r][Len(slog'[r])].v = Arrived(seq[curSlot[u]])
    BY <1>4 DEF WriteLast
  <2>1. CASE u = t
    <3>1. r = s /\ c.k = "write" /\ c.v = Arrived(seq[curSlot[t]])
      BY <1>2, <1>3, <1>6, <1>8, <2>1
    <3>2. n > 0
      BY <1>7
    <3> QED BY <1>7, <2>1, <3>1, <3>2
  <2>2. CASE u # t
    <3>1. pc[u] = "wait"
      BY <1>8, <2>2
    <3>2. pc[t] = "copy"
      BY <1>1, <2>2, <3>1 DEF RingInv, Claimed
    <3>3. /\ ~AlignedOnly /\ call[curOp[u]].mode = "stream"
          /\ call[curOp[u]] \in CallsOf[u] /\ call[curOp[t]] \in CallsOf[t]
          /\ ~call[curOp[t]].wr
      BY <3>1, <3>2 DEF OpInv, ClaimFilled, InClaim, PairInv, OwnCalls
    <3>4. r # s
      BY <1>1, <1>2, <2>2, <3>3 DEF Unshared
    <3>5. r \in Streams
      BY <3>1, LiveNamed DEF InClaim
    <3>6. slog'[r] = slog[r]
      BY <1>7, <3>4, <3>5
    <3> QED BY <3>1, <3>6 DEF PairInv, WriteLast
  <2> QED BY <2>1, <2>2
<1> QED BY <1>9, <1>10, <1>11 DEF PairInv

\* Every step keeps the pairs together.
LEMMA PairNext ==
  TypeInv /\ RingInv /\ OpInv /\ PairInv /\ Unshared /\ [Next]_vars => PairInv'
<1> SUFFICES ASSUME TypeInv, RingInv, OpInv, PairInv, Unshared, [Next]_vars
             PROVE  PairInv'
  OBVIOUS
<1>1. ASSUME NEW t \in Threads, StartCall(t) \/ ThreadStep(t) PROVE PairInv'
  BY <1>1, PairCalls, PairEnqueues DEF ThreadStep, ThreadGoesOn
<1>2. ASSUME UNCHANGED <<slog, pc, curOp, curSlot, call, seq>> PROVE PairInv'
  <2>1. OwnCalls'
    BY <1>2 DEF PairInv, OwnCalls
  <2> QED BY <1>2, <2>1, PairFrame
<1> USE DEF ringVars, slotVars, callVars, streamVars
<1>3. ASSUME NEW w \in Workers, WorkerStep(w) PROVE PairInv'
  <2>1. UNCHANGED <<slog, pc, curOp, curSlot, call, seq>>
    BY <1>3 DEF WorkerStep, WorkerGoesOn, BeginPass, PassSlot, LeaveGated, DispatchRead, IssueChunk,
                IssueBounce, StartFails, StartDone, PokeWhileStarting, DispatchWrite,
                FinishWrite, CompleteStreamRead, CompleteAsyncRead, Drain, EndPass, Poke
  <2> QED BY <1>2, <2>1
<1>4. ASSUME \/ \E s \in Streams : StreamStep(s)
             \/ \E x \in Slots : DeviceStep(x)
             \/ Close \/ UNCHANGED vars
      PROVE  PairInv'
  <2>1. UNCHANGED <<slog, pc, curOp, curSlot, call, seq>>
    BY <1>4 DEF StreamStep, RunWrite, RunWait, Park, Unpark, RunCopy, DeviceStep,
                CompleteChunk, CompleteBounce, Close, vars
  <2> QED BY <1>2, <2>1
<1> QED BY <1>1, <1>3, <1>4 DEF Next

\* What is executed is what its stream stands at.
LEMMA ExecutedIsReached ==
  ASSUME TypeInv, RingInv, OpInv, GateInv, PairInv, NEW x \in Slots, Executing(x),
         IsStream(x)
  PROVE  HeldAt(CallAt(x).strm, opOf[x])
<1>1. PICK s \in Streams : s = CallAt(x).strm
  BY LiveNamed
<1>2. PICK i \in Due(s) : Tie(s, i, x) /\ ~Arriving(s, i)
                          /\ Lag(s, Val(s, i)) = LagRel(s, x)
  BY <1>1, Alone
<1>3. /\ i \in 1 .. Len(slog[s]) /\ i \in Nat /\ i > spos[s]
      /\ slog[s][i].k \in {"wait", "host"}
  BY <1>2, DueLags DEF GateInv, Arriving
<1>4. opOf[x] = slog[s][i].op
  BY <1>2 DEF Tie
<1>5. CASE slog[s][i].k = "host"
  <2>1. i = spos[s] + 1 /\ parked[s] # NotParked
    BY <1>2, <1>5 DEF Arriving, ParkedAt
  <2>2. spos[s] < Len(slog[s])
    BY <1>3, <2>1, GateTypes
  <2> QED BY <1>1, <1>4, <1>5, <2>1, <2>2 DEF HeldAt, Command
<1>6. CASE slog[s][i].k = "wait"
  <2>1. /\ i > 1 /\ slog[s][i - 1].k = "write"
        /\ \E q \in Word : slog[s][i].v = Released(q) /\ slog[s][i - 1].v = Arrived(q)
    BY <1>3, <1>6 DEF PairInv, Paired, WaitAfterWrite
  <2>2. PICK q \in Word : slog[s][i].v = Released(q) /\ slog[s][i - 1].v = Arrived(q)
    BY <2>1
  <2>3. ASSUME i > spos[s] + 1 PROVE FALSE
    <3>1. i - 1 \in spos[s] + 1 .. Len(slog[s])
      BY <1>3, <2>3, GateTypes
    <3>2. i - 1 \in Due(s) /\ Arriving(s, i - 1) /\ Val(s, i - 1) = Arrived(q)
      BY <2>1, <2>2, <3>1 DEF Due, Arriving, Val
    <3>3. Val(s, i) = Released(q)
      BY <1>6, <2>2 DEF Val
    <3>4. Lag(s, Arrived(q)) < Lag(s, gate[s])
      BY <3>2 DEF GateInv, Ahead
    <3>5. Lag(s, gate[s]) = LagRel(s, x) + 1
      BY <1>1 DEF GateInv, AtGate, OnTime
    <3>6. PICK k \in Nat : Lag(s, Released(q)) = 2 * k /\ Lag(s, Arrived(q)) = 2 * k + 1
      BY Lags
    <3> QED BY <1>2, <3>3, <3>4, <3>5, <3>6
  <2>4. i = spos[s] + 1 /\ spos[s] < Len(slog[s])
    BY <1>3, <2>3, GateTypes
  <2> QED BY <1>1, <1>4, <1>6, <2>4 DEF HeldAt, Command
<1> QED BY <1>3, <1>5, <1>6

\* On streams that are not shared every state has the invariants above.
LEMMA PairsCorrect ==
  ASSUME Unshared
  PROVE  Spec => [](TypeInv /\ RingInv /\ OpInv /\ GateInv /\ PairInv)
<1>1. Init => PairInv
  BY PairInit
<1>2. TypeInv /\ RingInv /\ OpInv /\ PairInv /\ [Next]_vars => PairInv'
  BY PairNext
<1> QED BY <1>1, <1>2, GatesCorrect, PTL DEF Spec

\* Deferred evaluation and stream order: while an I/O thread executes a stream
\* operation and reads its size and offset pointers, the stream stands at that
\* operation's gate.  With the write and wait gate a stream that a thread
\* submits reads to must be that thread's own.
THEOREM RunsAtGate == Unshared => (Spec => []ExecutesAtGate)
<1> SUFFICES ASSUME Unshared PROVE Spec => []ExecutesAtGate
  OBVIOUS
<1>1. TypeInv /\ RingInv /\ OpInv /\ GateInv /\ PairInv => ExecutesAtGate
  BY ExecutedIsReached DEF ExecutesAtGate
<1> QED BY <1>1, PairsCorrect, PTL
-----------------------------------------------------------------------------
(***************************************************************************)
(* The promise of the public header (StreamOrder).  Its state, as IoEngine *)
(* maps it, is named here; each step of the engine is one of the promise's *)
(* steps or is not seen in it.                                             *)
(***************************************************************************)

\* What a command stands for in its stream, and the order of a stream.
Stands(c) == IF c.k \in {"wait", "host"} THEN c.op ELSE NoOp
Line(s) == [i \in 1 .. Len(slog[s]) |-> Stands(slog[s][i])]

\* The order of a stream is as long as its log.
LEMMA Lines ==
  ASSUME TypeInv, NEW s \in Streams
  PROVE  /\ Line(s) \in Seq(Ops \cup {NoOp})
         /\ Len(Line(s)) = Len(slog[s])
         /\ \A i \in 1 .. Len(slog[s]) : Line(s)[i] = Stands(slog[s][i])
<1>1. Len(slog[s]) \in Nat
  BY GateTypes
<1>2. Line(s) \in [1 .. Len(slog[s]) -> Ops \cup {NoOp}]
  BY GateTypes DEF Line, Stands
<1>3. Line(s) \in Seq(Ops \cup {NoOp})
  BY <1>1, <1>2
<1>4. Len(Line(s)) = Len(slog[s])
  BY <1>1, <1>2, <1>3
<1> QED BY <1>3, <1>4 DEF Line

\* A command comes last in the order of its stream.
LEMMA LineGrows ==
  ASSUME TypeInv, NEW s \in Streams, NEW n \in Nat, NEW c \in CommandType,
         GrowsBy(s, n, c)
  PROVE  /\ Line(s)' = Append(Line(s), Stands(c))
         /\ \A r \in Streams : r # s => Line(r)' = Line(r)
<1>1. Len(slog[s]) \in Nat /\ n = Len(slog[s]) + 1 /\ Len(slog'[s]) = n
  BY GateTypes DEF GrowsBy
<1>2. Stands(c) \in Ops \cup {NoOp}
  BY DEF Stands, CommandType
<1>3. \A i \in 1 .. n : Line(s)'[i] = IF i = n THEN Stands(c) ELSE Line(s)[i]
  BY <1>1 DEF GrowsBy, Line
<1>4. /\ Line(s)' = [i \in 1 .. n |-> Line(s)'[i]]
  BY <1>1 DEF Line
<1>5. /\ Append(Line(s), Stands(c)) \in Seq(Ops \cup {NoOp})
      /\ Len(Append(Line(s), Stands(c))) = n
      /\ \A i \in 1 .. Len(slog[s]) : Append(Line(s), Stands(c))[i] = Line(s)[i]
      /\ Append(Line(s), Stands(c))[n] = Stands(c)
  BY <1>1, <1>2, Lines
<1>6. Append(Line(s), Stands(c)) = [i \in 1 .. n |-> Append(Line(s), Stands(c))[i]]
  <2>1. \A a \in Seq(Ops \cup {NoOp}) : Len(a) = n => a = [i \in 1 .. n |-> a[i]]
    <3> SUFFICES ASSUME NEW a \in Seq(Ops \cup {NoOp}), Len(a) = n
                 PROVE  a = [i \in 1 .. n |-> a[i]]
      OBVIOUS
    <3>1. a \in [1 .. n -> Ops \cup {NoOp}]
      OBVIOUS
    <3> QED BY <3>1
  <2> QED BY <1>5, <2>1
<1>7. \A i \in 1 .. n : Append(Line(s), Stands(c))[i] = Line(s)'[i]
  BY <1>1, <1>3, <1>5
<1>8. Line(s)' = Append(Line(s), Stands(c))
  BY <1>4, <1>6, <1>7
<1>9. \A r \in Streams : r # s => Line(r)' = Line(r)
  BY DEF GrowsBy, Line
<1> QED BY <1>8, <1>9

\* The rest of the promise's state.
Orders == [s \in Streams |-> Line(s)]
Taken == {o \in Ops : call[o].mode \in {"async", "sync"} /\ ret[o] = "ok"}
Running == {opOf[x] : x \in {y \in Slots : Executing(y)}}
Settled == {o \in Ops : result[o] # "none"}

\* An operation is enqueued once, after its claim.
LoggedOnce ==
  \A s \in Streams : \A i \in 1 .. Len(slog[s]) :
    slog[s][i].k \in {"wait", "host"} =>
      \A t \in Threads : pc[t] \in {"claim", "gate", "wait"}
                           => curOp[t] # slog[s][i].op

\* What a slot in use holds belongs to a stream or has been accepted.
Accepted ==
  \A x \in Slots : state[x] # "FREE" =>
    \/ IsStream(x)
    \/ CallAt(x).mode \in {"async", "sync"} /\ ret[opOf[x]] = "ok"

OnceInv == LoggedOnce /\ Accepted

\* A step that changes nothing the promise sees.
LEMMA PromiseStays ==
  ASSUME UNCHANGED <<slog, spos>>, Taken' = Taken, Running' = Running,
         Settled' = Settled
  PROVE  UNCHANGED Promise!ovars
BY DEF Promise!ovars, Taken, Running, Settled

\* A new operation is accepted to run at any time.
LEMMA PromiseAccepts ==
  ASSUME UNCHANGED <<slog, spos>>, NEW o \in Ops, Taken' = Taken \cup {o},
         Running' = Running, Settled' = Settled, o \notin Taken,
         \A s \in Streams : \A i \in 1 .. Len(slog[s]) : Line(s)[i] # o,
         TypeInv
  PROVE  Promise!ONext
<1>1. ~Promise!Ordered(o)
  <2>1. \A s \in Streams : Len(Line(s)) = Len(slog[s])
    BY Lines
  <2>2. \A s \in Streams : \A i \in 1 .. Len(Line(s)) : Line(s)[i] # o
    BY <2>1
  <2> QED BY <2>2 DEF Promise!Ordered, Line, Stands
<1>2. Promise!Accept(o)
  BY <1>1 DEF Promise!Accept, Promise!Fresh, Taken, Running, Settled
<1> QED BY <1>2 DEF Promise!ONext

\* A new operation, or other work, is put last on a stream.
LEMMA PromiseOrders ==
  ASSUME TypeInv, NEW s \in Streams, NEW n \in Nat, NEW c \in CommandType,
         GrowsBy(s, n, c), Taken' = Taken, Running' = Running,
         Settled' = Settled,
         c.k \in {"wait", "host"} =>
           /\ c.op \notin Taken
           /\ \A r \in Streams : \A i \in 1 .. Len(slog[r]) : Line(r)[i] # c.op
  PROVE  Promise!ONext
<1>1. Orders' = [Orders EXCEPT ![s] = Append(@, Stands(c))]
  BY LineGrows DEF Orders
<1>2. spos' = spos
  BY DEF GrowsBy
<1>3. CASE c.k \in {"wait", "host"}
  <2>1. Stands(c) = c.op /\ c.op \in Ops
    BY <1>3 DEF Stands, CommandType
  <2>2. ~Promise!Ordered(c.op)
    <3>1. \A r \in Streams : Len(Line(r)) = Len(slog[r])
      BY Lines
    <3>2. \A r \in Streams : \A i \in 1 .. Len(Line(r)) : Line(r)[i] # c.op
      BY <1>3, <3>1
    <3> QED BY <3>2 DEF Promise!Ordered, Line, Stands
  <2>3. Promise!Fresh(c.op)
    BY <1>3, <2>2 DEF Promise!Fresh, Taken
  <2>4. Orders' = [Orders EXCEPT ![s] = Append(@, c.op)]
    BY <1>1, <2>1
  <2>5. Promise!AcceptOn(c.op, s)
    BY <1>2, <2>3, <2>4 DEF Promise!AcceptOn, Orders, Line, Stands, Taken, Running, Settled
  <2> QED BY <2>1, <2>5 DEF Promise!ONext
<1>4. CASE c.k \notin {"wait", "host"}
  <2>1. Orders' = [Orders EXCEPT ![s] = Append(@, NoOp)]
    BY <1>1, <1>4 DEF Stands
  <2>2. Promise!AddOther(s)
    BY <1>2, <2>1 DEF Promise!AddOther, Orders, Line, Stands, Taken, Running, Settled
  <2> QED BY <2>2 DEF Promise!ONext
<1> QED BY <1>3, <1>4

\* An accepted operation, or one its stream has reached, starts.
LEMMA PromiseRuns ==
  ASSUME TypeInv, UNCHANGED <<slog, spos>>, NEW o \in Ops, Taken' = Taken,
         Settled' = Settled, Running' = Running \cup {o},
         o \notin Running \cup Settled,
         o \in Taken \/ \E s \in Streams : HeldAt(s, o)
  PROVE  Promise!ONext
<1>1. ASSUME NEW s \in Streams, HeldAt(s, o) PROVE Promise!Reached(o)
  <2>1. /\ spos[s] < Len(slog[s]) /\ spos[s] + 1 \in 1 .. Len(slog[s])
        /\ Stands(slog[s][spos[s] + 1]) = o
    BY <1>1, GateTypes DEF HeldAt, Command, Stands
  <2>2. spos[s] < Len(Line(s)) /\ Line(s)[spos[s] + 1] = o
    BY <2>1, Lines
  <2> QED BY <2>2 DEF Promise!Reached, Line, Stands
<1>2. o \in Taken \/ Promise!Reached(o)
  BY <1>1
<1>3. Promise!Run(o)
  BY <1>2 DEF Promise!Run, Taken, Running, Settled
<1> QED BY <1>3 DEF Promise!ONext

\* A running operation gets its result.
LEMMA PromiseFinishes ==
  ASSUME UNCHANGED <<slog, spos>>, NEW o \in Ops, Taken' = Taken,
         o \in Running, Running' = Running \ {o}, Settled' = Settled \cup {o}
  PROVE  Promise!ONext
<1>1. Promise!Finish(o)
  BY DEF Promise!Finish, Taken, Running, Settled
<1> QED BY <1>1 DEF Promise!ONext

\* A stream goes past an operation that is done, or other work.
LEMMA PromisePasses ==
  ASSUME TypeInv, slog' = slog, Taken' = Taken, Running' = Running, Settled' = Settled,
         NEW s \in Streams, spos[s] < Len(slog[s]),
         spos' = [spos EXCEPT ![s] = @ + 1],
         Stands(slog[s][spos[s] + 1]) \in Settled \cup {NoOp}
  PROVE  Promise!ONext
<1>1. spos[s] + 1 \in 1 .. Len(slog[s])
  BY GateTypes
<1>2. spos[s] < Len(Line(s)) /\ Line(s)[spos[s] + 1] \in Settled \cup {NoOp}
  BY <1>1, Lines
<1>3. Promise!Pass(s)
  BY <1>2 DEF Promise!Pass, Line, Stands, Taken, Running, Settled
<1> QED BY <1>3 DEF Promise!ONext

\* What a submit enqueues, and where it goes on.
LEMMA Grown ==
  ASSUME TypeInv, OpInv, NEW t \in Threads,
         EnqueueGate(t) \/ EnqueueWait(t) \/ EnqueueCopy(t)
  PROVE  \E s \in Streams, c \in CommandType, n \in Nat :
           /\ GrowsBy(s, n, c) /\ c.op = curOp[t]
           /\ call[curOp[t]].mode = "stream" /\ s = call[curOp[t]].strm
           /\ \/ pc[t] = "gate" /\ c.k = "host" /\ AlignedOnly /\ pc'[t] = "publish"
              \/ pc[t] = "gate" /\ c.k = "write" /\ pc'[t] = "wait"
              \/ pc[t] = "wait" /\ c.k = "wait" /\ pc'[t] = "publish"
              \/ pc[t] = "copy" /\ c.k = "copy" /\ pc'[t] = "idle"
<1> USE OpTypes
<1>1. /\ curOp[t] \in Ops /\ curSlot[t] \in Slots
      /\ call[curOp[t]].mode = "stream" /\ pc[t] \in {"gate", "wait", "copy"}
  BY DEF EnqueueGate, EnqueueWait, EnqueueCopy, OpInv, ClaimFilled, InClaim
<1>2. PICK s \in Streams : s = call[curOp[t]].strm
  <2>1. \A c \in Call : c.mode = "stream" => c.strm \in Streams
    BY DEF Call
  <2> QED BY <1>1, <2>1
<1>3. /\ 0 \in Word /\ Arrived(seq[curSlot[t]]) \in Word
      /\ Released(seq[curSlot[t]]) \in Word
  <2>1. seq[curSlot[t]] \in Word
    BY <1>1, GateTypes
  <2> QED BY <2>1, SmallWords, WordClosed
<1>4. PICK k \in {"write", "wait", "host", "copy"}, v \in Word :
        /\ Enqueue(s, k, curOp[t], v, curSlot[t])
        /\ \/ pc[t] = "gate" /\ k = "host" /\ AlignedOnly /\ pc'[t] = "publish"
           \/ pc[t] = "gate" /\ k = "write" /\ pc'[t] = "wait"
           \/ pc[t] = "wait" /\ k = "wait" /\ pc'[t] = "publish"
           \/ pc[t] = "copy" /\ k = "copy" /\ pc'[t] = "idle"
  <2>1. CASE EnqueueGate(t)
    <3>1. CASE AlignedOnly
      <4>1. Enqueue(s, "host", curOp[t], 0, curSlot[t]) /\ pc'[t] = "publish" /\ pc[t] = "gate"
        BY <1>2, <2>1, <3>1 DEF EnqueueGate
      <4> QED BY <1>3, <3>1, <4>1
    <3>2. CASE ~AlignedOnly
      <4>1. /\ Enqueue(s, "write", curOp[t], Arrived(seq[curSlot[t]]), curSlot[t])
            /\ pc'[t] = "wait" /\ pc[t] = "gate"
        BY <1>2, <2>1, <3>2 DEF EnqueueGate
      <4> QED BY <1>3, <4>1
    <3> QED BY <3>1, <3>2
  <2>2. CASE EnqueueWait(t)
    <3>1. /\ Enqueue(s, "wait", curOp[t], Released(seq[curSlot[t]]), curSlot[t])
          /\ pc'[t] = "publish" /\ pc[t] = "wait"
      BY <1>2, <2>2 DEF EnqueueWait, WaitValue
    <3> QED BY <1>3, <3>1
  <2>3. CASE EnqueueCopy(t)
    <3>1. /\ Enqueue(s, "copy", curOp[t], 0, curSlot[t])
          /\ pc'[t] = "idle" /\ pc[t] = "copy"
      BY <1>2, <2>3 DEF EnqueueCopy
    <3> QED BY <1>3, <3>1
  <2> QED BY <2>1, <2>2, <2>3
<1>5. PICK c \in CommandType, n \in Nat :
        c.k = k /\ c.op = curOp[t] /\ GrowsBy(s, n, c)
  <2> HIDE OpTypes
  <2>1. \E c \in CommandType : \E n \in Nat :
          /\ c.k = k /\ c.op = curOp[t] /\ c.v = v /\ c.x = curSlot[t]
          /\ GrowsBy(s, n, c)
    BY <1>1, <1>4, Enqueued
  <2> QED BY <2>1, Zenon
<1> QED BY <1>1, <1>2, <1>4, <1>5, Zenon

\* Before anything is submitted.
LEMMA OnceInit == Init => OnceInv
<1> SUFFICES ASSUME Init PROVE OnceInv
  OBVIOUS
<1>1. /\ \A x \in Slots : state[x] = "FREE"
      /\ \A s \in Streams : slog[s] = <<>>
  BY DEF Init
<1> QED BY <1>1 DEF OnceInv, LoggedOnce, Accepted

\* Steps that enqueue nothing and take no slot.
LEMMA OnceFrame ==
  ASSUME OnceInv, slog' = slog,
         \A t \in Threads : pc'[t] \in {"claim", "gate", "wait"} =>
           pc[t] \in {"claim", "gate", "wait"} /\ curOp'[t] = curOp[t],
         \A x \in Slots : state'[x] # "FREE" =>
           /\ state[x] # "FREE" /\ opOf'[x] = opOf[x]
           /\ call'[opOf[x]] = call[opOf[x]]
           /\ IsStream(x) \/ ret'[opOf[x]] = ret[opOf[x]]
  PROVE  OnceInv'
<1>1. LoggedOnce'
  BY DEF OnceInv, LoggedOnce
<1>2. Accepted'
  BY DEF OnceInv, Accepted, IsStream, CallAt
<1> QED BY <1>1, <1>2 DEF OnceInv

\* Every step enqueues and accepts an operation once.
LEMMA OnceNext ==
  TypeInv /\ RingInv /\ OpInv /\ GateInv /\ OnceInv /\ [Next]_vars => OnceInv'
<1> SUFFICES ASSUME TypeInv, RingInv, OpInv, GateInv, OnceInv, [Next]_vars
             PROVE  OnceInv'
  OBVIOUS
<1> USE OpTypes DEF ringVars, slotVars, callVars, streamVars
<1>1. ASSUME NEW t \in Threads, StartCall(t) PROVE OnceInv'
  <2>1. /\ UNCHANGED <<slog, state, opOf, ret>> /\ pc' = [pc EXCEPT ![t] = "claim"]
        /\ curOp' = [curOp EXCEPT ![t] = nextOp]
        /\ \E c \in CallsOf[t] : call' = [call EXCEPT ![nextOp] = c]
    BY <1>1 DEF StartCall
  <2>2. \A x \in Slots : opOf[x] < nextOp
    BY DEF OpInv, OpsUsed
  <2>3. Accepted'
    <3> SUFFICES ASSUME NEW x \in Slots, state[x] # "FREE"
                 PROVE  /\ call'[opOf[x]] = call[opOf[x]]
                        /\ \/ IsStream(x)
                           \/ CallAt(x).mode \in {"async", "sync"} /\ ret[opOf[x]] = "ok"
      BY <2>1 DEF Accepted, IsStream, CallAt
    <3>1. opOf[x] \in Ops /\ opOf[x] # nextOp
      BY <2>2
    <3> QED BY <2>1, <3>1 DEF OnceInv, Accepted
  <2>4. LoggedOnce'
    <3> SUFFICES ASSUME NEW s \in Streams, NEW i \in 1 .. Len(slog[s]),
                        slog[s][i].k \in {"wait", "host"}, NEW u \in Threads,
                        pc'[u] \in {"claim", "gate", "wait"}
                 PROVE  curOp'[u] # slog[s][i].op
      BY <2>1 DEF LoggedOnce
    <3>1. slog[s][i].op < nextOp /\ slog[s][i].op \in Ops
      BY GateTypes DEF GateInv, LogShape, Fits
    <3> QED BY <2>1, <3>1 DEF OnceInv, LoggedOnce
  <2> QED BY <2>3, <2>4 DEF OnceInv
<1>2. ASSUME NEW t \in Threads,
             ClaimFull(t) \/ AwaitReturns(t) \/ GateFails(t) \/ CopyFails(t)
      PROVE  OnceInv'
  <2>1. /\ UNCHANGED <<slog, state, opOf, curOp, call>>
        /\ pc' = pc \/ pc' = [pc EXCEPT ![t] = "idle"]
    BY <1>2 DEF ClaimFull, AwaitReturns, GateFails, CopyFails
  <2>2. \/ ret' = ret
        \/ ret' = [ret EXCEPT ![curOp[t]] = "failed"] /\ call[curOp[t]].mode = "stream"
    BY <1>2 DEF ClaimFull, AwaitReturns, GateFails, CopyFails, OpInv, ClaimFilled, InClaim
  <2>3. \A x \in Slots : state[x] # "FREE" => IsStream(x) \/ ret'[opOf[x]] = ret[opOf[x]]
    BY <2>2 DEF IsStream, CallAt
  <2> QED BY <2>1, <2>3, OnceFrame
<1>3. ASSUME NEW t \in Threads, ClaimAsync(t) PROVE OnceInv'
  <2> DEFINE x == SlotAt(rr, head[rr])
  <2>1. /\ UNCHANGED <<slog, curOp, call>> /\ pc[t] = "claim"
        /\ call[curOp[t]].mode \in {"async", "sync"}
        /\ opOf' = [opOf EXCEPT ![x] = curOp[t]]
        /\ state' = [state EXCEPT ![x] = "PENDING"]
        /\ ret' = [ret EXCEPT ![curOp[t]] = "ok"]
        /\ \A u \in Threads : u # t => pc'[u] = pc[u]
        /\ pc'[t] \in {"idle", "await"}
    BY <1>3 DEF ClaimAsync
  <2>2. curOp[t] \in Ops
    BY <2>1
  <2>3. LoggedOnce'
    BY <2>1 DEF OnceInv, LoggedOnce
  <2>4. Accepted'
    BY <2>1, <2>2 DEF OnceInv, Accepted, IsStream, CallAt
  <2> QED BY <2>3, <2>4 DEF OnceInv
<1>4. ASSUME NEW t \in Threads, ClaimStream(t) PROVE OnceInv'
  <2> DEFINE x == SlotAt(rr, head[rr])
  <2>1. /\ UNCHANGED <<slog, state, curOp, call, ret>> /\ pc[t] = "claim"
        /\ opOf' = [opOf EXCEPT ![x] = curOp[t]] /\ HasRoom(rr)
        /\ pc' = [pc EXCEPT ![t] = "gate"]
    BY <1>4 DEF ClaimStream
  <2>2. state[x] = "FREE"
    BY <2>1, HeadFree DEF RingInv
  <2>3. \A y \in Slots : state[y] # "FREE" => opOf'[y] = opOf[y]
    BY <2>1, <2>2
  <2>4. \A u \in Threads : pc'[u] \in {"claim", "gate", "wait"}
                             => pc[u] \in {"claim", "gate", "wait"}
    BY <2>1
  <2> HIDE DEF x
  <2> QED BY <2>1, <2>3, <2>4, OnceFrame
<1>5. ASSUME NEW t \in Threads, Publish(t) PROVE OnceInv'
  <2>1. /\ UNCHANGED <<slog, curOp, call, opOf>> /\ pc[t] = "publish"
        /\ state' = [state EXCEPT ![curSlot[t]] = "PENDING"]
        /\ \A u \in Threads : u # t => pc'[u] = pc[u]
        /\ pc'[t] \in {"idle", "copy"}
        /\ ret' = ret \/ ret' = [ret EXCEPT ![curOp[t]] = "ok"]
    BY <1>5 DEF Publish
  <2>2. opOf[curSlot[t]] = curOp[t] /\ call[curOp[t]].mode = "stream"
    BY <2>1 DEF OpInv, ClaimFilled, InClaim
  <2>3. LoggedOnce'
    BY <2>1 DEF OnceInv, LoggedOnce
  <2>4. Accepted'
    BY <2>1, <2>2 DEF OnceInv, Accepted, IsStream, CallAt
  <2> QED BY <2>3, <2>4 DEF OnceInv
<1>6. ASSUME NEW t \in Threads, EnqueueGate(t) \/ EnqueueWait(t) \/ EnqueueCopy(t)
      PROVE  OnceInv'
  <2>1. PICK s \in Streams, c \in CommandType, n \in Nat :
          /\ GrowsBy(s, n, c) /\ c.op = curOp[t]
          /\ c.k \in {"wait", "host"} => pc'[t] \notin {"claim", "gate", "wait"}
    BY <1>6, Grown
  <2>2. /\ UNCHANGED <<state, opOf, curOp, call>>
        /\ \A u \in Threads : u # t => pc'[u] = pc[u]
        /\ pc[t] \in {"gate", "wait", "copy"} /\ pc'[t] \in {"wait", "publish", "idle"}
        /\ pc'[t] = "wait" => pc[t] = "gate"
        /\ ret' = ret \/ ret' = [ret EXCEPT ![curOp[t]] = "ok"]
    BY <1>6 DEF EnqueueGate, EnqueueWait, EnqueueCopy
  <2>3. Accepted'
    BY <2>2 DEF OnceInv, Accepted, IsStream, CallAt
  <2>4. LoggedOnce'
    <3> SUFFICES ASSUME NEW r \in Streams, NEW i \in 1 .. Len(slog'[r]),
                        slog'[r][i].k \in {"wait", "host"}, NEW u \in Threads,
                        pc'[u] \in {"claim", "gate", "wait"}
                 PROVE  curOp[u] # slog'[r][i].op
      BY <2>2 DEF LoggedOnce
    <3>1. pc[u] \in {"claim", "gate", "wait"}
      BY <2>2
    <3>2. CASE r = s /\ i = n
      <4>1. slog'[r][i] = c
        BY <2>1, <3>2 DEF GrowsBy
      <4>2. u # t
        BY <2>1, <4>1
      <4> QED BY <2>1, <2>2, <3>1, <4>1, <4>2 DEF OpInv, OwnOps
    <3>3. CASE r # s \/ i # n
      <4>1. i \in 1 .. Len(slog[r]) /\ slog'[r][i] = slog[r][i]
        BY <2>1, <3>3, GateTypes DEF GrowsBy
      <4> QED BY <3>1, <4>1 DEF OnceInv, LoggedOnce
    <3> QED BY <3>2, <3>3
  <2> QED BY <2>3, <2>4 DEF OnceInv
<1>7. ASSUME NEW w \in Workers, WorkerStep(w) PROVE OnceInv'
  <2>1. UNCHANGED <<slog, pc, curOp, call, ret, opOf>>
    BY <1>7 DEF WorkerStep, WorkerGoesOn, BeginPass, PassSlot, LeaveGated, DispatchRead, IssueChunk,
                IssueBounce, StartFails, StartDone, PokeWhileStarting, DispatchWrite,
                FinishWrite, CompleteStreamRead, CompleteAsyncRead, Drain, EndPass, Poke
  <2>2. \/ state' = state
        \/ state' = [state EXCEPT ![Here(w)] = "FREE"]
        \/ state' = [state EXCEPT ![Here(w)] = "IN_FLIGHT"] /\ state[Here(w)] = "PENDING"
    BY <1>7 DEF WorkerStep, WorkerGoesOn, BeginPass, PassSlot, LeaveGated, DispatchRead, IssueChunk,
                IssueBounce, StartFails, StartDone, PokeWhileStarting, DispatchWrite,
                FinishWrite, CompleteStreamRead, CompleteAsyncRead, Drain, EndPass, Poke,
                Scanning, FreeSlot
  <2>3. \A x \in Slots : state'[x] # "FREE" => state[x] # "FREE"
    BY <2>2
  <2> QED BY <2>1, <2>3, OnceFrame
<1>8. ASSUME \/ \E s \in Streams : StreamStep(s)
             \/ \E x \in Slots : DeviceStep(x)
             \/ Close \/ UNCHANGED vars
      PROVE  OnceInv'
  <2>1. UNCHANGED <<slog, pc, curOp, call, ret, opOf, state>>
    BY <1>8 DEF StreamStep, RunWrite, RunWait, Park, Unpark, RunCopy, DeviceStep,
                CompleteChunk, CompleteBounce, Close, vars
  <2> QED BY <2>1, OnceFrame
<1> QED BY <1>1, <1>2, <1>3, <1>4, <1>5, <1>6, <1>7, <1>8 DEF Next, ThreadStep, ThreadGoesOn

\* Steps that dispatch and settle nothing.
LEMMA RunningSame ==
  ASSUME TypeInv, RingInv,
         \A w \in Workers : /\ wpc'[w] = "pwrite" <=> wpc[w] = "pwrite"
                            /\ wpc[w] = "pwrite" => wi'[w] = wi[w],
         \A y \in Slots : /\ state'[y] = "IN_FLIGHT" <=> state[y] = "IN_FLIGHT"
                          /\ state[y] # "FREE" => opOf'[y] = opOf[y]
  PROVE  Running' = Running
<1>1. \A y \in Slots : y[1] \in Workers
  BY DEF Slots
<1>2. \A y \in Slots : Executing(y)' <=> Executing(y)
  BY <1>1 DEF Executing, Here
<1>3. \A y \in Slots : Executing(y) => state[y] # "FREE"
  BY <1>1 DEF Executing, RingInv, Working
<1>4. \A y \in Slots : Executing(y) => opOf'[y] = opOf[y]
  BY <1>3
<1> QED BY <1>2, <1>4 DEF Running

\* An operation of a stream that is being submitted has not been accepted on
\* its stream, and none that a thread still claims has been accepted.
LEMMA NotYet ==
  ASSUME TypeInv, OpInv, GateInv, OnceInv, NEW t \in Threads,
         pc[t] \in {"claim", "gate", "wait"}
  PROVE  /\ curOp[t] \in Ops /\ curOp[t] \notin Taken
         /\ \A s \in Streams : \A i \in 1 .. Len(slog[s]) : Line(s)[i] # curOp[t]
<1>1. curOp[t] \in Ops /\ ret[curOp[t]] = "none"
  BY OpTypes DEF OpInv, Unpublished, InClaim
<1>2. curOp[t] # NoOp
  BY <1>1, OpTypes
<1>3. ASSUME NEW s \in Streams, NEW i \in 1 .. Len(slog[s]) PROVE Line(s)[i] # curOp[t]
  <2>1. Line(s)[i] = Stands(slog[s][i])
    BY Lines
  <2> QED BY <1>2, <2>1 DEF Stands, OnceInv, LoggedOnce
<1> QED BY <1>1, <1>3 DEF Taken

\* The steps of the callers: what they accept is new.
LEMMA PromiseThreads ==
  ASSUME TypeInv, RingInv, OpInv, GateInv, OnceInv, NEW t \in Threads,
         StartCall(t) \/ ThreadStep(t)
  PROVE  Promise!ONext \/ UNCHANGED Promise!ovars
<1> USE OpTypes DEF ringVars, slotVars, callVars, streamVars, workerVars
<1>1. CASE StartCall(t)
  <2>1. /\ UNCHANGED <<slog, spos, state, opOf, ret, result, wpc, wi>>
        /\ \E c \in CallsOf[t] : call' = [call EXCEPT ![nextOp] = c]
    BY <1>1 DEF StartCall
  <2>2. \A o \in Ops : o # nextOp => call'[o] = call[o]
    BY <2>1
  <2>3. \A o \in Ops : ret[o] = "ok" => o # nextOp
    BY DEF OpInv, OpsUsed
  <2>4. Taken' = Taken
    BY <2>1, <2>2, <2>3 DEF Taken
  <2>5. Running' = Running
    BY <2>1, RunningSame
  <2>6. Settled' = Settled
    BY <2>1 DEF Settled
  <2> QED BY <2>1, <2>4, <2>5, <2>6, PromiseStays
<1>2. CASE ClaimFull(t) \/ AwaitReturns(t) \/ GateFails(t) \/ CopyFails(t)
  <2>1. /\ UNCHANGED <<slog, spos, state, opOf, call, result, wpc, wi>>
        /\ \/ ret' = ret
           \/ ret' = [ret EXCEPT ![curOp[t]] = "failed"] /\ call[curOp[t]].mode = "stream"
    BY <1>2 DEF ClaimFull, AwaitReturns, GateFails, CopyFails, OpInv, ClaimFilled, InClaim
  <2>2. Taken' = Taken
    BY <2>1 DEF Taken
  <2>3. Running' = Running
    BY <2>1, RunningSame
  <2>4. Settled' = Settled
    BY <2>1 DEF Settled
  <2> QED BY <2>1, <2>2, <2>3, <2>4, PromiseStays
<1>3. CASE ClaimAsync(t)
  <2> DEFINE x == SlotAt(rr, head[rr])
  <2>1. /\ UNCHANGED <<slog, spos, call, result, wpc, wi>> /\ pc[t] = "claim"
        /\ call[curOp[t]].mode \in {"async", "sync"} /\ HasRoom(rr)
        /\ opOf' = [opOf EXCEPT ![x] = curOp[t]]
        /\ state' = [state EXCEPT ![x] = "PENDING"]
        /\ ret' = [ret EXCEPT ![curOp[t]] = "ok"]
    BY <1>3 DEF ClaimAsync
  <2>2. state[x] = "FREE"
    BY <2>1, HeadFree DEF RingInv
  <2> HIDE DEF x
  <2>3. \A y \in Slots : /\ state'[y] = "IN_FLIGHT" <=> state[y] = "IN_FLIGHT"
                         /\ state[y] # "FREE" => opOf'[y] = opOf[y]
    BY <2>1, <2>2
  <2>4. Running' = Running
    BY <2>1, <2>3, RunningSame
  <2>5. /\ curOp[t] \in Ops /\ curOp[t] \notin Taken
        /\ \A s \in Streams : \A i \in 1 .. Len(slog[s]) : Line(s)[i] # curOp[t]
    BY <2>1, NotYet
  <2>6. Taken' = Taken \cup {curOp[t]}
    BY <2>1, <2>5 DEF Taken
  <2>7. Settled' = Settled
    BY <2>1 DEF Settled
  <2> QED BY <2>1, <2>4, <2>5, <2>6, <2>7, PromiseAccepts
<1>4. CASE ClaimStream(t)
  <2> DEFINE x == SlotAt(rr, head[rr])
  <2>1. /\ UNCHANGED <<slog, spos, state, call, ret, result, wpc, wi>> /\ HasRoom(rr)
        /\ opOf' = [opOf EXCEPT ![x] = curOp[t]]
    BY <1>4 DEF ClaimStream
  <2>2. state[x] = "FREE"
    BY <2>1, HeadFree DEF RingInv
  <2> HIDE DEF x
  <2>3. \A y \in Slots : state[y] # "FREE" => opOf'[y] = opOf[y]
    BY <2>1, <2>2
  <2>4. Running' = Running
    BY <2>1, <2>3, RunningSame
  <2>5. Taken' = Taken /\ Settled' = Settled
    BY <2>1 DEF Taken, Settled
  <2> QED BY <2>1, <2>4, <2>5, PromiseStays
<1>5. CASE Publish(t)
  <2>1. /\ UNCHANGED <<slog, spos, call, opOf, result, wpc, wi>> /\ pc[t] = "publish"
        /\ state' = [state EXCEPT ![curSlot[t]] = "PENDING"]
        /\ ret' = ret \/ ret' = [ret EXCEPT ![curOp[t]] = "ok"]
    BY <1>5 DEF Publish
  <2>2. call[curOp[t]].mode = "stream"
    BY <2>1 DEF OpInv, ClaimFilled, InClaim
  <2>3. state[curSlot[t]] = "FREE"
    <3>1. /\ curSlot[t] = SlotAt(curSlot[t][1], head[curSlot[t][1]])
          /\ HasRoom(curSlot[t][1])
      BY <2>1 DEF RingInv, Claimed
    <3>2. curSlot[t][1] \in Workers
      BY DEF Slots
    <3> QED BY <3>1, <3>2, HeadFree DEF RingInv
  <2>4. \A y \in Slots : state'[y] = "IN_FLIGHT" <=> state[y] = "IN_FLIGHT"
    BY <2>1, <2>3
  <2>5. Running' = Running
    BY <2>1, <2>4, RunningSame
  <2>6. Taken' = Taken /\ Settled' = Settled
    BY <2>1, <2>2 DEF Taken, Settled
  <2> QED BY <2>1, <2>5, <2>6, PromiseStays
<1>6. CASE EnqueueGate(t) \/ EnqueueWait(t) \/ EnqueueCopy(t)
  <2>1. PICK s \in Streams, c \in CommandType, n \in Nat :
          /\ GrowsBy(s, n, c) /\ c.op = curOp[t]
          /\ call[curOp[t]].mode = "stream" /\ s = call[curOp[t]].strm
          /\ \/ pc[t] = "gate" /\ c.k = "host" /\ AlignedOnly /\ pc'[t] = "publish"
             \/ pc[t] = "gate" /\ c.k = "write" /\ pc'[t] = "wait"
             \/ pc[t] = "wait" /\ c.k = "wait" /\ pc'[t] = "publish"
             \/ pc[t] = "copy" /\ c.k = "copy" /\ pc'[t] = "idle"
    BY <1>6, Grown
  <2>2. /\ UNCHANGED <<state, opOf, call, result, wpc, wi>>
        /\ \/ ret' = ret
           \/ ret' = [ret EXCEPT ![curOp[t]] = "ok"] /\ pc[t] = "copy"
    BY <1>6 DEF EnqueueGate, EnqueueWait, EnqueueCopy
  <2>3. pc[t] = "copy" => call[curOp[t]].mode = "stream"
    BY DEF OpInv, ClaimFilled
  <2>4. Taken' = Taken /\ Settled' = Settled
    BY <2>2, <2>3 DEF Taken, Settled
  <2>5. Running' = Running
    BY <2>2, RunningSame
  <2>6. c.k \in {"wait", "host"} =>
          /\ c.op \notin Taken
          /\ \A r \in Streams : \A i \in 1 .. Len(slog[r]) : Line(r)[i] # c.op
    BY <2>1, NotYet
  <2> HIDE OpTypes
  <2> QED BY <2>1, <2>4, <2>5, <2>6, PromiseOrders
<1> QED BY <1>1, <1>2, <1>3, <1>4, <1>5, <1>6 DEF ThreadStep, ThreadGoesOn

\* An I/O thread starts an operation: it has been accepted or its stream
\* stands at it, and it is neither running nor settled.
LEMMA PromiseDispatch ==
  ASSUME TypeInv, RingInv, OpInv, OnceInv, ExecutesAtGate', NEW w \in Workers,
         DispatchRead(w) \/ DispatchWrite(w)
  PROVE  Promise!ONext
<1>0. PICK x \in Slots : x = Here(w)
  BY HereType DEF TypeInv, TypeOK
<1> USE DEF ringVars, slotVars, callVars, streamVars
<1>1. /\ UNCHANGED <<slog, spos, parked, call, ret, result, opOf, wi>>
      /\ wpc[w] = "scan" /\ state[x] = "PENDING"
      /\ \/ /\ state' = [state EXCEPT ![x] = "IN_FLIGHT"]
            /\ wpc' = [wpc EXCEPT ![w] = "start"]
         \/ state' = state /\ wpc' = [wpc EXCEPT ![w] = "pwrite"]
  BY <1>0 DEF DispatchRead, DispatchWrite, Scanning
<1>2. x \in Slots /\ x[1] = w
  BY <1>0 DEF Here, SlotAt
<1>3. opOf[x] \in Ops
  BY <1>1, <1>2, OpTypes
<1>4. \A y \in Slots : y[1] \in Workers
  BY DEF Slots
<1>5. \A y \in Slots : Executing(y)' <=> Executing(y) \/ y = x
  <2>1. /\ state \in [Slots -> {"FREE", "PENDING", "IN_FLIGHT"}]
        /\ wpc \in [Workers -> {"begin", "scan", "start", "pwrite", "poke", "exit"}]
    BY DEF TypeInv, TypeOK, SlotType, WorkerType
  <2>2. \A v \in Workers : Here(v)' = Here(v)
    BY <1>1 DEF Here
  <2>3. ASSUME NEW y \in Slots, y = x PROVE Executing(y)'
    BY <1>0, <1>1, <1>2, <2>1, <2>2, <2>3 DEF Executing
  <2>4. ASSUME NEW y \in Slots, y # x PROVE Executing(y)' <=> Executing(y)
    <3>1. state'[y] = state[y]
      BY <1>1, <2>1, <2>4
    <3>2. CASE y[1] = w
      BY <1>0, <1>1, <2>1, <2>2, <2>4, <3>1, <3>2 DEF Executing
    <3>3. CASE y[1] # w
      <4>1. wpc'[y[1]] = wpc[y[1]]
        BY <1>1, <1>4, <2>1, <3>3
      <4> QED BY <1>4, <2>2, <3>1, <4>1 DEF Executing
    <3> QED BY <3>2, <3>3
  <2> QED BY <2>3, <2>4
<1>6. Running' = Running \cup {opOf[x]}
  BY <1>1, <1>2, <1>5 DEF Running
<1>7. \A y \in Slots : Executing(y) => state[y] # "FREE" /\ y # x
  <2>1. \A y \in Slots : Executing(y) => state[y] # "FREE"
    BY <1>4 DEF Executing, RingInv, Working
  <2>2. ~Executing(x)
    BY <1>1, <1>2 DEF Executing
  <2> QED BY <2>1, <2>2
<1>8. opOf[x] \notin Running
  BY <1>1, <1>2, <1>7 DEF Running, OpInv, OneSlotPerOp
<1>9. opOf[x] \notin Settled
  BY <1>1, <1>2 DEF Settled, OpInv, OneSlotPerOp
<1>10. opOf[x] \in Taken \/ \E s \in Streams : HeldAt(s, opOf[x])
  <2>1. CASE IsStream(x)
    <3>1. CallAt(x).strm \in Streams
      <4>1. \A c \in Call : c.mode = "stream" => c.strm \in Streams
        BY DEF Call
      <4> QED BY <1>3, <2>1, <4>1, OpTypes DEF IsStream, CallAt
    <3>2. Executing(x)' /\ IsStream(x)'
      BY <1>1, <1>2, <1>5, <2>1 DEF IsStream, CallAt
    <3>3. HeldAt(CallAt(x).strm, opOf[x])'
      BY <1>2, <3>2 DEF ExecutesAtGate
    <3>4. HeldAt(CallAt(x).strm, opOf[x])
      BY <1>1, <3>3 DEF HeldAt, CallAt, Command
    <3> QED BY <3>1, <3>4
  <2>2. CASE ~IsStream(x)
    BY <1>1, <1>2, <1>3, <2>2 DEF OnceInv, Accepted, CallAt, Taken
  <2> QED BY <2>1, <2>2
<1>11. Taken' = Taken /\ Settled' = Settled
  BY <1>1 DEF Taken, Settled
<1> QED BY <1>1, <1>3, <1>6, <1>8, <1>9, <1>10, <1>11, PromiseRuns

\* An I/O thread settles an operation it has been running.
LEMMA PromiseSettles ==
  ASSUME TypeInv, RingInv, OpInv, NEW w \in Workers,
         FinishWrite(w) \/ CompleteStreamRead(w) \/ CompleteAsyncRead(w)
  PROVE  Promise!ONext
<1>0. PICK x \in Slots : x = Here(w)
  BY HereType DEF TypeInv, TypeOK
<1> USE DEF ringVars, slotVars, callVars, streamVars
<1>1. /\ UNCHANGED <<slog, spos, call, ret, opOf>>
      /\ \E r \in {"ok", "err"} : result' = [result EXCEPT ![opOf[x]] = r]
      /\ state' = [state EXCEPT ![x] = "FREE"]
      /\ \/ wpc[w] = "pwrite" /\ wpc' = [wpc EXCEPT ![w] = "scan"]
         \/ wpc[w] = "scan" /\ wpc' = wpc /\ state[x] = "IN_FLIGHT"
      /\ wi' = [wi EXCEPT ![w] = WAdd(@, 1)]
  BY <1>0 DEF FinishWrite, CompleteStreamRead, CompleteAsyncRead, Scanning, Advance, FreeSlot
<1>2. x \in Slots /\ x[1] = w
  BY <1>0 DEF Here, SlotAt
<1>3. \A y \in Slots : y[1] \in Workers
  BY DEF Slots
<1>4. Executing(x) /\ state[x] # "FREE"
  BY <1>0, <1>1, <1>2 DEF Executing, RingInv, Working
<1>5. opOf[x] \in Ops
  BY <1>2, <1>4, OpTypes
<1>6. \A y \in Slots : Executing(y)' <=> Executing(y) /\ y # x
  <2>1. /\ state \in [Slots -> {"FREE", "PENDING", "IN_FLIGHT"}]
        /\ wpc \in [Workers -> {"begin", "scan", "start", "pwrite", "poke", "exit"}]
        /\ wi \in [Workers -> Word]
    BY DEF TypeInv, TypeOK, SlotType, WorkerType
  <2>2. wpc'[w] # "pwrite"
    BY <1>1, <2>1
  <2>3. ASSUME NEW y \in Slots, y = x PROVE ~Executing(y)'
    <3>1. state'[y] = "FREE"
      BY <1>1, <2>1, <2>3
    <3> QED BY <1>2, <2>2, <2>3, <3>1 DEF Executing
  <2>4. ASSUME NEW y \in Slots, y # x PROVE Executing(y)' <=> Executing(y)
    <3>1. state'[y] = state[y]
      BY <1>1, <2>1, <2>4
    <3>2. CASE y[1] = w
      BY <1>0, <1>1, <2>2, <2>4, <3>1, <3>2 DEF Executing
    <3>3. CASE y[1] # w
      <4>1. wpc'[y[1]] = wpc[y[1]] /\ Here(y[1])' = Here(y[1])
        BY <1>1, <1>3, <2>1, <3>3 DEF Here
      <4> QED BY <3>1, <4>1 DEF Executing
    <3> QED BY <3>2, <3>3
  <2> QED BY <2>3, <2>4
<1>7. \A y \in Slots : Executing(y) /\ opOf[y] = opOf[x] => y = x
  <2>1. \A y \in Slots : Executing(y) => state[y] # "FREE"
    BY <1>3 DEF Executing, RingInv, Working
  <2> QED BY <1>2, <1>4, <2>1 DEF OpInv, OneSlotPerOp
<1>8. opOf[x] \in Running
  BY <1>2, <1>4 DEF Running
<1>9. Running' = Running \ {opOf[x]}
  BY <1>1, <1>2, <1>6, <1>7 DEF Running
<1>10. Settled' = Settled \cup {opOf[x]}
  BY <1>1, <1>5, OpTypes DEF Settled
<1>11. Taken' = Taken
  BY <1>1 DEF Taken
<1> QED BY <1>1, <1>5, <1>8, <1>9, <1>10, <1>11, PromiseFinishes

\* What else the I/O threads, the device and the driver's close do is not seen.
LEMMA PromiseQuiet ==
  ASSUME TypeInv, RingInv,
         \/ \E w \in Workers :
              \/ BeginPass(w) \/ PassSlot(w) \/ LeaveGated(w) \/ IssueChunk(w)
              \/ IssueBounce(w) \/ StartFails(w) \/ StartDone(w)
              \/ PokeWhileStarting(w) \/ Drain(w) \/ EndPass(w) \/ Poke(w)
         \/ \E x \in Slots : DeviceStep(x)
         \/ Close \/ UNCHANGED vars
  PROVE  UNCHANGED Promise!ovars
<1> USE DEF vars, ringVars, slotVars, callVars, streamVars, workerVars
<1>1. UNCHANGED <<state, opOf, call, ret, result, slog, spos>>
  BY DEF BeginPass, PassSlot, LeaveGated, IssueChunk, IssueBounce, StartFails,
         StartDone, PokeWhileStarting, Drain, EndPass, Poke, DeviceStep, CompleteChunk,
         CompleteBounce, Close
<1>2. Running' = Running
  <2>1. CASE UNCHANGED <<wpc, wi>>
    BY <1>1, <2>1, RunningSame
  <2>2. CASE \E w \in Workers :
               \/ BeginPass(w) \/ PassSlot(w) \/ LeaveGated(w) \/ IssueChunk(w)
               \/ IssueBounce(w) \/ StartFails(w) \/ StartDone(w)
               \/ PokeWhileStarting(w) \/ Drain(w) \/ EndPass(w) \/ Poke(w)
    <3>1. PICK w \in Workers :
               \/ BeginPass(w) \/ PassSlot(w) \/ LeaveGated(w) \/ IssueChunk(w)
               \/ IssueBounce(w) \/ StartFails(w) \/ StartDone(w)
               \/ PokeWhileStarting(w) \/ Drain(w) \/ EndPass(w) \/ Poke(w)
      BY <2>2
    <3>2. /\ \A v \in Workers : v # w => wpc'[v] = wpc[v] /\ wi'[v] = wi[v]
          /\ wpc'[w] # "pwrite" /\ wpc[w] # "pwrite"
      BY <3>1, RingTypes
         DEF BeginPass, PassSlot, LeaveGated, IssueChunk, IssueBounce, StartFails,
             StartDone, PokeWhileStarting, Drain, EndPass, Poke, Scanning, Advance,
             ScanEnded
    <3>3. \A v \in Workers : /\ wpc'[v] = "pwrite" <=> wpc[v] = "pwrite"
                             /\ wpc[v] = "pwrite" => wi'[v] = wi[v]
      BY <3>2
    <3> QED BY <1>1, <3>3, RunningSame
  <2>3. CASE (\E x \in Slots : DeviceStep(x)) \/ Close \/ UNCHANGED vars
    <3>1. UNCHANGED <<wpc, wi>>
      BY <2>3 DEF DeviceStep, CompleteChunk, CompleteBounce, Close
    <3> QED BY <2>1, <3>1
  <2> QED BY <2>2, <2>3
<1>3. Taken' = Taken /\ Settled' = Settled
  BY <1>1 DEF Taken, Settled
<1> QED BY <1>1, <1>2, <1>3, PromiseStays

\* A stream goes past a command only when what it stands for is done.
LEMMA PromiseStreams ==
  ASSUME TypeInv, RingInv, GateInv, HeldUntilSettled', NEW s \in Streams, StreamStep(s)
  PROVE  Promise!ONext \/ UNCHANGED Promise!ovars
<1> USE DEF ringVars, slotVars, callVars, streamVars, workerVars
<1>1. UNCHANGED <<state, opOf, call, ret, result, slog, wpc, wi>>
  BY DEF StreamStep, RunWrite, RunWait, Park, Unpark, RunCopy
<1>2. Running' = Running
  BY <1>1, RunningSame
<1>3. Taken' = Taken /\ Settled' = Settled
  BY <1>1 DEF Taken, Settled
<1>4. CASE Park(s)
  <2>1. spos' = spos
    BY <1>4 DEF Park
  <2> QED BY <1>1, <1>2, <1>3, <2>1, PromiseStays
<1>5. CASE RunWrite(s) \/ RunCopy(s) \/ RunWait(s) \/ Unpark(s)
  <2>1. spos' = [spos EXCEPT ![s] = @ + 1] /\ spos[s] < Len(slog[s])
    BY <1>5 DEF RunWrite, RunCopy, RunWait, Unpark, Step, HasCommand, GateInv, LogShape
  <2>2. spos[s] + 1 \in 1 .. Len(slog[s]) /\ spos'[s] = spos[s] + 1
    BY <2>1, GateTypes
  <2>3. /\ slog[s][spos[s] + 1].op \in Ops
        /\ slog[s][spos[s] + 1].k \in {"wait", "host"}
             => result[slog[s][spos[s] + 1].op] # "none"
    <3>1. spos[s] + 1 \in 1 .. spos'[s]
      BY <2>2, GateTypes
    <3> QED BY <1>1, <2>2, <3>1, GateTypes DEF HeldUntilSettled
  <2>4. Stands(slog[s][spos[s] + 1]) \in Settled \cup {NoOp}
    BY <2>3 DEF Stands, Settled
  <2> QED BY <1>1, <1>2, <1>3, <2>1, <2>4, PromisePasses
<1> QED BY <1>4, <1>5 DEF StreamStep

\* The public header's promise: submitted operations run one at a time per
\* stream, in stream order, when the stream has reached them and before it
\* goes on, and each is done once.  As for RunsAtGate, with the write and wait
\* gate a stream that a thread submits reads to must be that thread's own.
THEOREM PromiseKept == Unshared => (Spec => KeepsPromise)
<1> SUFFICES ASSUME Unshared PROVE Spec => KeepsPromise
  OBVIOUS
<1>1. Init => Promise!OInit
  <2> SUFFICES ASSUME Init PROVE Promise!OInit
    OBVIOUS
  <2>1. /\ \A s \in Streams : slog[s] = <<>>
        /\ \A x \in Slots : state[x] = "FREE"
        /\ \A w \in Workers : wpc[w] = "begin"
        /\ \A o \in Ops : ret[o] = "none" /\ result[o] = "none"
        /\ spos = [s \in Streams |-> 0]
    BY DEF Init
  <2>2. \A x \in Slots : ~Executing(x)
    BY <2>1 DEF Executing, Slots
  <2>3. Orders = [s \in Streams |-> <<>>]
    BY <2>1 DEF Orders, Line
  <2>4. Taken = {} /\ Running = {} /\ Settled = {}
    BY <2>1, <2>2 DEF Taken, Running, Settled
  <2> QED BY <2>1, <2>3, <2>4
          DEF Promise!OInit, Orders, Line, Stands, Taken, Running, Settled
<1>2. /\ TypeInv /\ RingInv /\ OpInv /\ GateInv /\ OnceInv
      /\ ExecutesAtGate' /\ HeldUntilSettled' /\ [Next]_vars
      => [Promise!ONext]_(Promise!ovars)
  <2> SUFFICES ASSUME TypeInv, RingInv, OpInv, GateInv, OnceInv, ExecutesAtGate',
                      HeldUntilSettled', [Next]_vars
               PROVE  Promise!ONext \/ UNCHANGED Promise!ovars
    OBVIOUS
  <2>1. ASSUME NEW t \in Threads, StartCall(t) \/ ThreadStep(t)
        PROVE  Promise!ONext \/ UNCHANGED Promise!ovars
    BY <2>1, PromiseThreads
  <2>2. ASSUME NEW w \in Workers, WorkerStep(w)
        PROVE  Promise!ONext \/ UNCHANGED Promise!ovars
    BY <2>2, PromiseDispatch, PromiseSettles, PromiseQuiet DEF WorkerStep, WorkerGoesOn
  <2>3. ASSUME NEW s \in Streams, StreamStep(s)
        PROVE  Promise!ONext \/ UNCHANGED Promise!ovars
    BY <2>3, PromiseStreams
  <2>4. CASE (\E x \in Slots : DeviceStep(x)) \/ Close \/ UNCHANGED vars
    BY <2>4, PromiseQuiet
  <2> QED BY <2>1, <2>2, <2>3, <2>4 DEF Next
<1>3. Init => OnceInv
  BY OnceInit
<1>4. TypeInv /\ RingInv /\ OpInv /\ GateInv /\ OnceInv /\ [Next]_vars => OnceInv'
  BY OnceNext
<1>5. Spec => []ExecutesAtGate
  BY RunsAtGate
<1> QED BY <1>1, <1>2, <1>3, <1>4, <1>5, GatesCorrect, StreamsHeld, PTL
        DEF Spec, KeepsPromise, Promise!OSpec
-----------------------------------------------------------------------------
(***************************************************************************)
(* The tail of a read.  Its last, partial block goes to the bounce buffer  *)
(* of the stream, and a copy kernel takes it from there when the stream    *)
(* has passed the read's wait.  Buffer and descriptor are one per stream:  *)
(* between a read's completion and its copy no other read may run there.   *)
(***************************************************************************)

\* An operation holds a stream with one command.
GatesOnce ==
  \A s \in Streams : \A i, j \in 1 .. Len(slog[s]) :
    /\ slog[s][i].k \in {"wait", "host"} /\ slog[s][j].k \in {"wait", "host"}
    /\ slog[s][i].op = slog[s][j].op
    => i = j

\* What is beyond the command a stream stands at has not been settled.
LaterUnsettled ==
  \A s \in Streams : \A j \in spos[s] + 2 .. Len(slog[s]) :
    slog[s][j].k \in {"wait", "host"} => result[slog[s][j].op] = "none"

\* The copy of a read comes right after its wait.
WaitedFor(s, n, o) == n > 0 /\ slog[s][n].k = "wait" /\ slog[s][n].op = o
CopyPlaced ==
  \A s \in Streams : \A i \in 1 .. Len(slog[s]) :
    slog[s][i].k = "copy" => WaitedFor(s, i - 1, slog[s][i].op)
CopyNext ==
  \A t \in Threads : pc[t] \in {"publish", "copy"} /\ ~AlignedOnly =>
    LET s == call[curOp[t]].strm IN WaitedFor(s, Len(slog[s]), curOp[t])

\* Until it is settled a read with a tail is in a slot that counts its bounce.
TailsRun ==
  \A o \in tailed : result[o] = "none" =>
    \E x \in Slots : state[x] = "IN_FLIGHT" /\ opOf[x] = o /\ nb[x] > 0

\* The descriptor is that read's, and so are the bytes of the bounce buffer
\* when its bounce has been read without an error.
TailReads ==
  \A x \in Slots : state[x] = "IN_FLIGHT" /\ IsStream(x) /\ nb[x] > 0 =>
    LET s == CallAt(x).strm
    IN /\ descDst[s] = opOf[x]
       /\ devB[x] > 0 \/ cqErr[x] \/ err[x] \/ bounce[s] = opOf[x]

\* Both stay so until the copy, which may not even be enqueued yet.
CopyComing(s, o) ==
  \/ \E i \in spos[s] + 1 .. Len(slog[s]) :
       slog[s][i].k = "copy" /\ slog[s][i].op = o
  \/ \E t \in Threads : pc[t] = "copy" /\ curOp[t] = o /\ call[o].strm = s
TailKept ==
  \A s \in Streams : \A o \in tailed :
    CopyComing(s, o) /\ result[o] = "ok"
      => descN[s] /\ descDst[s] = o /\ bounce[s] = o

TailInv == GatesOnce /\ LaterUnsettled /\ CopyPlaced /\ CopyNext /\ TailsRun
             /\ TailReads /\ TailKept /\ TailDelivered

\* The types of the bounce buffers and the descriptors.
LEMMA TailTypes ==
  ASSUME TypeInv
  PROVE  /\ nb \in [Slots -> 0 .. BounceSlots] /\ BounceSlots \in Nat
         /\ devB \in [Slots -> Nat]
         /\ bounce \in [Streams -> Ops \cup {NoOp}]
         /\ descDst \in [Streams -> Ops \cup {NoOp}]
         /\ descN \in [Streams -> BOOLEAN]
         /\ tailed \subseteq Ops
  BY EngineAssumption
     DEF TypeInv, TypeOK, SlotType, DeviceType, StreamType, HistoryType

\* A stream operation in a slot in use names its stream.
LEMMA StreamOf ==
  ASSUME TypeInv, NEW x \in Slots, state[x] # "FREE", IsStream(x)
  PROVE  CallAt(x).strm \in Streams
<1>1. \A c \in Call : c.mode = "stream" => c.strm \in Streams
  BY DEF Call
<1> QED BY <1>1, OpTypes DEF IsStream, CallAt

\* Before anything is submitted.
LEMMA TailInit == Init => TailInv
<1> SUFFICES ASSUME Init PROVE TailInv
  OBVIOUS
<1>1. /\ \A t \in Threads : pc[t] = "idle"
      /\ \A s \in Streams : slog[s] = <<>> /\ spos[s] = 0
      /\ \A x \in Slots : state[x] = "FREE"
      /\ tailed = {}
  BY DEF Init
<1> QED BY <1>1 DEF TailInv, GatesOnce, LaterUnsettled, CopyPlaced, CopyNext,
                    TailsRun, TailReads, TailKept, TailDelivered

\* One read at a time is in flight on a stream.
LEMMA OneRuns ==
  ASSUME TypeInv, OpInv, ExecutesAtGate, NEW x \in Slots, NEW y \in Slots,
         state[x] = "IN_FLIGHT", state[y] = "IN_FLIGHT", IsStream(x), IsStream(y),
         CallAt(x).strm = CallAt(y).strm
  PROVE  x = y
<1>1. HeldAt(CallAt(x).strm, opOf[x]) /\ HeldAt(CallAt(y).strm, opOf[y])
  BY DEF ExecutesAtGate, Executing
<1>2. opOf[x] = opOf[y]
  BY <1>1 DEF HeldAt
<1> QED BY <1>2 DEF OpInv, OneSlotPerOp

\* Nothing runs on a stream between the end of a read and its copy.
LEMMA NoneRuns ==
  ASSUME TypeInv, OpInv, GateInv, TailInv, ExecutesAtGate, NEW s \in Streams,
         NEW o \in Ops, result[o] # "none", CopyComing(s, o),
         NEW x \in Slots, state[x] = "IN_FLIGHT", IsStream(x), CallAt(x).strm = s
  PROVE  FALSE
<1>1. /\ spos[s] < Len(slog[s]) /\ slog[s][spos[s] + 1].op = opOf[x]
      /\ slog[s][spos[s] + 1].k \in {"wait", "host"}
  BY DEF ExecutesAtGate, Executing, HeldAt, Command
<1>2. result[opOf[x]] = "none" /\ opOf[x] # o
  BY DEF OpInv, OneSlotPerOp
<1>3. spos[s] \in Nat /\ Len(slog[s]) \in Nat
  BY GateTypes
<1>4. ASSUME NEW n \in 1 .. Len(slog[s]), n > spos[s], WaitedFor(s, n, o)
      PROVE  FALSE
  <2>1. n # spos[s] + 1
    BY <1>1, <1>2, <1>4 DEF WaitedFor
  <2>2. n \in spos[s] + 2 .. Len(slog[s])
    BY <1>3, <1>4, <2>1
  <2> QED BY <1>4, <2>2 DEF WaitedFor, TailInv, LaterUnsettled
<1>5. ASSUME NEW i \in spos[s] + 1 .. Len(slog[s]), slog[s][i].k = "copy",
             slog[s][i].op = o
      PROVE  FALSE
  <2>1. i \in 1 .. Len(slog[s]) /\ i # spos[s] + 1
    BY <1>1, <1>3, <1>5
  <2>2. WaitedFor(s, i - 1, o)
    BY <1>5, <2>1 DEF TailInv, CopyPlaced
  <2>3. i - 1 \in 1 .. Len(slog[s]) /\ i - 1 > spos[s]
    BY <1>3, <1>5, <2>1
  <2> QED BY <1>4, <2>2, <2>3
<1>6. ASSUME NEW t \in Threads, pc[t] = "copy", curOp[t] = o, call[o].strm = s
      PROVE  FALSE
  <2>1. ~AlignedOnly
    BY <1>6 DEF OpInv, ClaimFilled
  <2>2. WaitedFor(s, Len(slog[s]), o)
    BY <1>6, <2>1 DEF TailInv, CopyNext
  <2>3. Len(slog[s]) \in 1 .. Len(slog[s]) /\ Len(slog[s]) > spos[s]
    BY <1>1, <1>3
  <2> QED BY <1>4, <2>2, <2>3
<1> QED BY <1>5, <1>6 DEF CopyComing

\* What is copied is a read of that stream.
LEMMA CopyOf ==
  ASSUME TypeInv, OpInv, GateInv, NEW s \in Streams, NEW o \in Ops, CopyComing(s, o)
  PROVE  call[o].mode = "stream" /\ call[o].strm = s
<1>1. ASSUME NEW i \in spos[s] + 1 .. Len(slog[s]), slog[s][i].k = "copy",
             slog[s][i].op = o
      PROVE  call[o].mode = "stream" /\ call[o].strm = s
  <2>1. i \in 1 .. Len(slog[s])
    BY <1>1, GateTypes
  <2> QED BY <1>1, <2>1 DEF GateInv, LogShape, Fits
<1>2. ASSUME NEW t \in Threads, pc[t] = "copy", curOp[t] = o, call[o].strm = s
      PROVE  call[o].mode = "stream" /\ call[o].strm = s
  BY <1>2 DEF OpInv, ClaimFilled
<1> QED BY <1>1, <1>2 DEF CopyComing

\* Steps that leave the streams, their bounce buffers and all results alone.
LEMMA TailFrame ==
  ASSUME TypeInv, OpInv, TailInv,
         UNCHANGED <<slog, spos, result, tailVars, tailed, delivered>>,
         \A t \in Threads : pc'[t] \in {"publish", "copy"} =>
           /\ pc[t] \in {"publish", "copy"} /\ curOp'[t] = curOp[t]
           /\ call'[curOp[t]] = call[curOp[t]],
         \A x \in Slots : state[x] = "IN_FLIGHT" =>
           /\ state'[x] = "IN_FLIGHT" /\ opOf'[x] = opOf[x]
           /\ nb[x] > 0 => nb'[x] > 0,
         \A x \in Slots : state'[x] = "IN_FLIGHT" /\ nb'[x] > 0 /\ IsStream(x)' =>
           /\ state[x] = "IN_FLIGHT" /\ nb[x] > 0 /\ call'[opOf[x]] = call[opOf[x]]
           /\ devB[x] > 0 \/ cqErr[x] \/ err[x] => devB'[x] > 0 \/ cqErr'[x] \/ err'[x]
  PROVE  TailInv'
<1> USE DEF tailVars
<1>1. GatesOnce' /\ LaterUnsettled' /\ CopyPlaced' /\ TailDelivered'
  BY DEF TailInv, GatesOnce, LaterUnsettled, CopyPlaced, WaitedFor, TailDelivered
<1>2. CopyNext'
  BY DEF TailInv, CopyNext, WaitedFor
<1>3. TailsRun'
  BY DEF TailInv, TailsRun
<1>4. TailReads'
  <2> SUFFICES ASSUME NEW x \in Slots, state'[x] = "IN_FLIGHT", IsStream(x)',
                      nb'[x] > 0, NEW s, s = CallAt(x).strm'
               PROVE  /\ descDst[s] = opOf'[x]
                      /\ devB'[x] > 0 \/ cqErr'[x] \/ err'[x] \/ bounce[s] = opOf'[x]
    BY DEF TailReads
  <2>1. /\ state[x] = "IN_FLIGHT" /\ nb[x] > 0 /\ opOf'[x] = opOf[x]
        /\ call'[opOf[x]] = call[opOf[x]]
    OBVIOUS
  <2>2. IsStream(x) /\ s = CallAt(x).strm
    BY <2>1 DEF IsStream, CallAt
  <2> QED BY <2>1, <2>2 DEF TailInv, TailReads
<1>5. TailKept'
  <2> SUFFICES ASSUME NEW s \in Streams, NEW o \in tailed, CopyComing(s, o)',
                      result[o] = "ok"
               PROVE  descN[s] /\ descDst[s] = o /\ bounce[s] = o
    BY DEF TailKept
  <2>1. CopyComing(s, o)
    <3>1. ASSUME NEW t \in Threads, pc'[t] = "copy", curOp'[t] = o, call'[o].strm = s
          PROVE  pc[t] = "copy" /\ curOp[t] = o /\ call[o].strm = s
      <4>1. pc[t] \in {"publish", "copy"} /\ curOp[t] = o /\ call'[o] = call[o]
        BY <3>1
      <4>2. pc[t] # "publish"
        BY <4>1 DEF OpInv, Unpublished, InClaim
      <4> QED BY <3>1, <4>1, <4>2
    <3> QED BY <3>1 DEF CopyComing
  <2> QED BY <2>1 DEF TailInv, TailKept
<1> QED BY <1>1, <1>2, <1>3, <1>4, <1>5 DEF TailInv

\* The steps of a caller that enqueue nothing.
LEMMA TailCalls ==
  ASSUME TypeInv, RingInv, OpInv, TailInv, NEW t \in Threads,
         \/ StartCall(t) \/ ClaimFull(t) \/ ClaimAsync(t) \/ AwaitReturns(t)
         \/ ClaimStream(t) \/ GateFails(t) \/ Publish(t) \/ CopyFails(t)
  PROVE  TailInv'
<1> USE OpTypes, TailTypes
    DEF ringVars, slotVars, callVars, devVars, streamVars, tailVars, histVars
<1>1. CASE StartCall(t)
  <2>1. /\ pc' = [pc EXCEPT ![t] = "claim"] /\ curOp' = [curOp EXCEPT ![t] = nextOp]
        /\ UNCHANGED <<slog, spos, result, tailVars, tailed, delivered, state, opOf, nb,
                       devB, cqErr, err>>
        /\ \E c \in CallsOf[t] : call' = [call EXCEPT ![nextOp] = c]
    BY <1>1 DEF StartCall
  <2>2. \A o \in Ops : o # nextOp => call'[o] = call[o]
    BY <2>1
  <2>3. \A u \in Threads : pc'[u] \in {"publish", "copy"} =>
          /\ pc[u] \in {"publish", "copy"} /\ curOp'[u] = curOp[u]
          /\ call'[curOp[u]] = call[curOp[u]]
    <3> SUFFICES ASSUME NEW u \in Threads, pc'[u] \in {"publish", "copy"}
                 PROVE  /\ pc[u] \in {"publish", "copy"} /\ curOp'[u] = curOp[u]
                        /\ call'[curOp[u]] = call[curOp[u]]
      OBVIOUS
    <3>1. u # t
      BY <2>1
    <3>2. curOp[u] \in Ops /\ curOp[u] # nextOp
      BY <2>1, <3>1 DEF OpInv, OpsUsed
    <3> QED BY <2>1, <2>2, <3>1, <3>2
  <2>4. \A x \in Slots : state[x] # "FREE" => call'[opOf[x]] = call[opOf[x]]
    BY <2>2 DEF OpInv, OpsUsed
  <2> QED BY <2>1, <2>3, <2>4, TailFrame
<1>2. CASE ClaimFull(t) \/ AwaitReturns(t) \/ GateFails(t) \/ CopyFails(t)
  <2>1. /\ UNCHANGED <<slog, spos, result, tailVars, tailed, delivered, state, opOf, nb,
                       devB, cqErr, err, curOp, call>>
        /\ pc' = pc \/ pc' = [pc EXCEPT ![t] = "idle"]
    BY <1>2 DEF ClaimFull, AwaitReturns, GateFails, CopyFails
  <2>2. \A u \in Threads : pc'[u] = pc[u] \/ pc'[u] = "idle"
    BY <2>1
  <2> QED BY <2>1, <2>2, TailFrame
<1>3. CASE ClaimAsync(t) \/ ClaimStream(t)
  <2> DEFINE x == SlotAt(rr, head[rr])
  <2>1. /\ UNCHANGED <<slog, spos, result, tailVars, tailed, delivered, nb, devB, cqErr,
                       err, curOp, call>>
        /\ opOf' = [opOf EXCEPT ![x] = curOp[t]]
        /\ state' = state \/ state' = [state EXCEPT ![x] = "PENDING"]
        /\ \A u \in Threads : u # t => pc'[u] = pc[u]
        /\ pc'[t] \in {"idle", "await", "gate"} /\ HasRoom(rr)
    BY <1>3 DEF ClaimAsync, ClaimStream
  <2>2. state[x] = "FREE"
    BY <2>1, HeadFree DEF RingInv
  <2> HIDE DEF x
  <2>3. \A y \in Slots : /\ state[y] = "IN_FLIGHT" => /\ state'[y] = "IN_FLIGHT"
                                                       /\ opOf'[y] = opOf[y]
                         /\ state'[y] = "IN_FLIGHT" => state[y] = "IN_FLIGHT"
    BY <2>1, <2>2
  <2> QED BY <2>1, <2>3, TailFrame
<1>4. CASE Publish(t)
  <2>1. /\ UNCHANGED <<slog, spos, result, tailVars, tailed, delivered, opOf, nb, devB,
                       cqErr, err, curOp, call>>
        /\ state' = [state EXCEPT ![curSlot[t]] = "PENDING"]
        /\ pc[t] = "publish"
        /\ \A u \in Threads : u # t => pc'[u] = pc[u]
    BY <1>4 DEF Publish
  <2>2. state[curSlot[t]] = "FREE"
    <3>1. /\ curSlot[t] = SlotAt(curSlot[t][1], head[curSlot[t][1]])
          /\ HasRoom(curSlot[t][1]) /\ curSlot[t][1] \in Workers
      BY <2>1 DEF RingInv, Claimed, Slots
    <3> QED BY <3>1, HeadFree DEF RingInv
  <2>3. \A y \in Slots : /\ state[y] = "IN_FLIGHT" => state'[y] = "IN_FLIGHT"
                         /\ state'[y] = "IN_FLIGHT" => state[y] = "IN_FLIGHT"
    BY <2>1, <2>2
  <2> QED BY <2>1, <2>3, TailFrame
<1> QED BY <1>1, <1>2, <1>3, <1>4

\* Two threads that meet on a stream are not both at a read.
LEMMA Apart ==
  ASSUME TypeInv, RingInv, OpInv, PairInv, Unshared, ~AlignedOnly,
         NEW t \in Threads, NEW u \in Threads, t # u,
         pc[t] \in {"gate", "wait", "copy"}, pc[u] \in {"publish", "copy"}
  PROVE  call[curOp[u]].strm # call[curOp[t]].strm
<1>1. pc[t] = "copy" \/ pc[u] = "copy"
  BY DEF RingInv, Claimed
<1>2. /\ call[curOp[t]] \in CallsOf[t] /\ call[curOp[u]] \in CallsOf[u]
      /\ pc[t] = "copy" => ~call[curOp[t]].wr
      /\ pc[u] = "copy" => ~call[curOp[u]].wr
  BY DEF PairInv, OwnCalls
<1>3. call[curOp[t]].mode = "stream" /\ call[curOp[u]].mode = "stream"
  BY DEF OpInv, ClaimFilled, InClaim
<1> QED BY <1>1, <1>2, <1>3 DEF Unshared

\* The steps of a caller that enqueue.
LEMMA TailEnqueues ==
  ASSUME TypeInv, RingInv, OpInv, GateInv, PairInv, OnceInv, TailInv, Unshared,
         NEW t \in Threads, EnqueueGate(t) \/ EnqueueWait(t) \/ EnqueueCopy(t)
  PROVE  TailInv'
<1> USE DEF ringVars, slotVars, callVars, devVars, streamVars, tailVars, histVars
<1>1. PICK s \in Streams, c \in CommandType, n \in Nat :
        /\ GrowsBy(s, n, c) /\ c.op = curOp[t]
        /\ call[curOp[t]].mode = "stream" /\ s = call[curOp[t]].strm
        /\ \/ pc[t] = "gate" /\ c.k = "host" /\ AlignedOnly /\ pc'[t] = "publish"
           \/ pc[t] = "gate" /\ c.k = "write" /\ pc'[t] = "wait"
           \/ pc[t] = "wait" /\ c.k = "wait" /\ pc'[t] = "publish"
           \/ pc[t] = "copy" /\ c.k = "copy" /\ pc'[t] = "idle"
  BY Grown
<1>2. /\ UNCHANGED <<result, tailVars, tailed, delivered, state, opOf, nb, devB, cqErr,
                     err, curOp, call>>
      /\ \A u \in Threads : u # t => pc'[u] = pc[u]
  BY OpTypes DEF EnqueueGate, EnqueueWait, EnqueueCopy
<1>3. /\ n = Len(slog[s]) + 1 /\ Len(slog'[s]) = n
      /\ slog'[s][n] = c /\ spos' = spos
      /\ \A i \in 1 .. n - 1 : slog'[s][i] = slog[s][i]
      /\ \A r \in Streams : r # s => slog'[r] = slog[r]
      /\ \A r \in Streams : Len(slog[r]) \in Nat /\ spos[r] \in Nat
      /\ \A r \in Streams : spos[r] <= Len(slog[r])
  <2>1. \A r \in Streams : Len(slog[r]) \in Nat /\ spos[r] \in Nat
    BY GateTypes
  <2>2. \A r \in Streams : spos[r] <= Len(slog[r])
    BY DEF GateInv, LogShape
  <2>3. n = Len(slog[s]) + 1 /\ n - 1 = Len(slog[s])
    BY <1>1, <2>1 DEF GrowsBy
  <2>4. GrowsBy(s, n, c)
    BY <1>1
  <2>5. \A i \in 1 .. n - 1 : slog'[s][i] = slog[s][i]
    BY <2>3, <2>4 DEF GrowsBy
  <2> QED BY <2>1, <2>2, <2>3, <2>4, <2>5 DEF GrowsBy
<1>4. GatesOnce'
  <2>1. ASSUME NEW i \in 1 .. n - 1, slog[s][i].k \in {"wait", "host"},
               c.k \in {"wait", "host"}
        PROVE  slog[s][i].op # c.op
    <3>1. i \in 1 .. Len(slog[s]) /\ pc[t] \in {"gate", "wait"}
      BY <1>1, <1>3, <2>1
    <3> QED BY <1>1, <2>1, <3>1 DEF OnceInv, LoggedOnce
  <2>2. ASSUME NEW i \in 1 .. n, NEW j \in 1 .. n,
               slog'[s][i].k \in {"wait", "host"}, slog'[s][j].k \in {"wait", "host"},
               slog'[s][i].op = slog'[s][j].op
        PROVE  i = j
    <3>1. CASE i = n \/ j = n
      <4>1. \A k \in 1 .. n : k = n \/ k \in 1 .. n - 1
        OBVIOUS
      <4> QED BY <1>3, <2>1, <2>2, <3>1, <4>1
    <3>2. CASE i # n /\ j # n
      <4>1. i \in 1 .. n - 1 /\ j \in 1 .. n - 1
        BY <3>2
      <4>2. i \in 1 .. Len(slog[s]) /\ j \in 1 .. Len(slog[s])
        BY <1>3, <4>1
      <4> QED BY <1>3, <2>2, <4>1, <4>2 DEF TailInv, GatesOnce
    <3> QED BY <3>1, <3>2
  <2>3. ASSUME NEW r \in Streams, r # s, NEW i \in 1 .. Len(slog'[r]),
               NEW j \in 1 .. Len(slog'[r]),
               slog'[r][i].k \in {"wait", "host"}, slog'[r][j].k \in {"wait", "host"},
               slog'[r][i].op = slog'[r][j].op
        PROVE  i = j
    BY <1>3, <2>3 DEF TailInv, GatesOnce
  <2> QED BY <1>3, <2>2, <2>3 DEF GatesOnce
<1>5. LaterUnsettled'
  <2> SUFFICES ASSUME NEW r \in Streams, NEW j \in spos[r] + 2 .. Len(slog'[r]),
                      slog'[r][j].k \in {"wait", "host"}
               PROVE  result[slog'[r][j].op] = "none"
    BY <1>2, <1>3 DEF LaterUnsettled
  <2>1. CASE r = s /\ j = n
    <3>1. pc[t] \in {"gate", "wait"}
      BY <1>1, <1>3, <2>1
    <3> QED BY <1>1, <1>3, <2>1, <3>1 DEF OpInv, Unpublished, InClaim
  <2>2. CASE r # s \/ j # n
    <3>1. j \in spos[r] + 2 .. Len(slog[r]) /\ slog'[r][j] = slog[r][j]
      BY <1>3, <2>2
    <3> QED BY <3>1 DEF TailInv, LaterUnsettled
  <2> QED BY <2>1, <2>2
<1>6. CopyPlaced'
  <2> SUFFICES ASSUME NEW r \in Streams, NEW i \in 1 .. Len(slog'[r]),
                      slog'[r][i].k = "copy"
               PROVE  /\ i - 1 > 0 /\ slog'[r][i - 1].k = "wait"
                      /\ slog'[r][i - 1].op = slog'[r][i].op
    BY DEF CopyPlaced, WaitedFor
  <2>1. CASE r = s /\ i = n
    <3>1. pc[t] = "copy" /\ ~AlignedOnly
      BY <1>1, <1>3, <2>1 DEF OpInv, ClaimFilled
    <3>2. WaitedFor(s, n - 1, c.op)
      <4>1. WaitedFor(s, Len(slog[s]), curOp[t])
        BY <1>1, <3>1 DEF TailInv, CopyNext
      <4>2. n - 1 = Len(slog[s])
        BY <1>3
      <4> QED BY <1>1, <4>1, <4>2
    <3>3. n - 1 \in 1 .. n - 1
      BY <1>3, <3>2 DEF WaitedFor
    <3> QED BY <1>3, <2>1, <3>2, <3>3 DEF WaitedFor
  <2>2. CASE r = s /\ i # n
    <3>1. i \in 1 .. n - 1 /\ i \in 1 .. Len(slog[s])
      BY <1>3, <2>2
    <3>2. slog'[s][i] = slog[s][i]
      BY <1>3, <3>1
    <3>3. WaitedFor(s, i - 1, slog[s][i].op)
      BY <2>2, <3>1, <3>2 DEF TailInv, CopyPlaced
    <3>4. i - 1 \in 1 .. n - 1
      BY <3>1, <3>3 DEF WaitedFor
    <3> QED BY <1>3, <2>2, <3>2, <3>3, <3>4 DEF WaitedFor
  <2>3. CASE r # s
    <3>1. slog'[r] = slog[r]
      BY <1>3, <2>3
    <3> QED BY <3>1 DEF TailInv, CopyPlaced, WaitedFor
  <2> QED BY <2>1, <2>2, <2>3
<1>7. CopyNext'
  <2> SUFFICES ASSUME NEW u \in Threads, pc'[u] \in {"publish", "copy"}, ~AlignedOnly,
                      NEW r, r = call[curOp[u]].strm
               PROVE  /\ Len(slog'[r]) > 0 /\ slog'[r][Len(slog'[r])].k = "wait"
                      /\ slog'[r][Len(slog'[r])].op = curOp[u]
    BY <1>2 DEF CopyNext, WaitedFor
  <2>1. CASE u = t
    <3>1. c.k = "wait" /\ r = s
      BY <1>1, <2>1
    <3>2. n > 0
      BY <1>3
    <3> QED BY <1>1, <1>3, <2>1, <3>1, <3>2
  <2>2. CASE u # t
    <3>1. pc[u] \in {"publish", "copy"} /\ pc[t] \in {"gate", "wait", "copy"}
      BY <1>1, <1>2, <2>2
    <3>2. r # s
      BY <1>1, <2>2, <3>1, Apart
    <3>3. r \in Streams
      <4>1. call[curOp[u]].mode = "stream" /\ call[curOp[u]] \in Call
        BY <3>1, OpTypes DEF OpInv, ClaimFilled, InClaim
      <4> QED BY <4>1 DEF Call
    <3>4. WaitedFor(r, Len(slog[r]), curOp[u])
      BY <3>1 DEF TailInv, CopyNext
    <3> QED BY <1>3, <3>2, <3>3, <3>4 DEF WaitedFor
  <2> QED BY <2>1, <2>2
<1>8. TailsRun' /\ TailReads'
  BY <1>2 DEF TailInv, TailsRun, TailReads, IsStream, CallAt
<1>9. TailKept'
  <2> SUFFICES ASSUME NEW r \in Streams, NEW o \in tailed, CopyComing(r, o)',
                      result[o] = "ok"
               PROVE  descN[r] /\ descDst[r] = o /\ bounce[r] = o
    BY <1>2 DEF TailKept
  <2>1. ASSUME NEW i \in spos'[r] + 1 .. Len(slog'[r]), slog'[r][i].k = "copy",
               slog'[r][i].op = o
        PROVE  CopyComing(r, o)
    <3>1. CASE r = s /\ i = n
      BY <1>1, <1>3, <2>1, <3>1 DEF CopyComing
    <3>2. CASE r # s \/ i # n
      <4>1. i \in spos[r] + 1 .. Len(slog[r]) /\ slog'[r][i] = slog[r][i]
        BY <1>3, <2>1, <3>2
      <4> QED BY <2>1, <4>1 DEF CopyComing
    <3> QED BY <3>1, <3>2
  <2>2. ASSUME NEW u \in Threads, pc'[u] = "copy", curOp'[u] = o, call'[o].strm = r
        PROVE  CopyComing(r, o)
    <3>1. u # t
      BY <1>1, <2>2
    <3> QED BY <1>2, <2>2, <3>1 DEF CopyComing
  <2>3. CopyComing(r, o)
    BY <2>1, <2>2 DEF CopyComing
  <2> QED BY <2>3 DEF TailInv, TailKept
<1>10. TailDelivered'
  <2> SUFFICES ASSUME NEW r \in Streams, NEW i \in 1 .. spos[r],
                      slog'[r][i].k = "copy", result[slog'[r][i].op] = "ok",
                      slog'[r][i].op \in tailed
               PROVE  slog'[r][i].op \in delivered
    BY <1>2, <1>3 DEF TailDelivered
  <2>1. spos[r] \in Nat /\ Len(slog[r]) \in Nat /\ spos[r] <= Len(slog[r])
    BY <1>3
  <2>2. i \in 1 .. Len(slog[r])
    BY <2>1
  <2>3. slog'[r][i] = slog[r][i]
    BY <1>3, <2>2
  <2> QED BY <2>3 DEF TailInv, TailDelivered
<1> QED BY <1>4, <1>5, <1>6, <1>7, <1>8, <1>9, <1>10 DEF TailInv

\* The steps of an I/O thread and of the device that read no bounce and settle
\* nothing.
LEMMA TailQuiet ==
  ASSUME TypeInv, OpInv, TailInv,
         \/ \E w \in Workers :
              \/ BeginPass(w) \/ PassSlot(w) \/ LeaveGated(w) \/ DispatchRead(w)
              \/ IssueChunk(w) \/ StartFails(w) \/ StartDone(w)
              \/ PokeWhileStarting(w) \/ DispatchWrite(w) \/ Drain(w) \/ EndPass(w)
              \/ Poke(w)
         \/ \E x \in Slots : CompleteChunk(x)
         \/ Close \/ UNCHANGED vars
  PROVE  TailInv'
<1> USE DEF vars, ringVars, slotVars, callVars, devVars, streamVars, histVars
<1>1. UNCHANGED <<slog, spos, result, tailVars, tailed, delivered, pc, curOp, call,
                  opOf>>
  BY DEF BeginPass, PassSlot, LeaveGated, DispatchRead, IssueChunk, StartFails, StartDone,
         PokeWhileStarting, DispatchWrite, Drain, EndPass, Poke, CompleteChunk, Close
<1>2. CASE UNCHANGED <<state, nb, devB>>
             /\ \A y \in Slots : cqErr[y] \/ err[y] => cqErr'[y] \/ err'[y]
  BY <1>1, <1>2, TailFrame
<1>3. ASSUME NEW w \in Workers,
             \/ BeginPass(w) \/ PassSlot(w) \/ LeaveGated(w) \/ IssueChunk(w)
             \/ StartDone(w) \/ DispatchWrite(w) \/ Drain(w) \/ EndPass(w)
      PROVE  TailInv'
  <2>1. UNCHANGED <<state, nb, devB, cqErr, err>>
    BY <1>3 DEF BeginPass, PassSlot, LeaveGated, IssueChunk, StartDone, DispatchWrite,
                Drain, EndPass
  <2> QED BY <1>2, <2>1
<1>4. ASSUME NEW w \in Workers, StartFails(w) PROVE TailInv'
  <2>1. UNCHANGED <<state, nb, devB, cqErr>> /\ err' = [err EXCEPT ![Here(w)] = TRUE]
    BY <1>4 DEF StartFails
  <2> QED BY <1>2, <2>1, OpTypes
<1>5. ASSUME NEW w \in Workers, PokeWhileStarting(w) \/ Poke(w) PROVE TailInv'
  <2>1. UNCHANGED <<state, nb, devB>> /\ Poll(w)
    BY <1>5 DEF PokeWhileStarting, Poke
  <2>2. \A y \in Slots : cqErr[y] \/ err[y] => cqErr'[y] \/ err'[y]
    BY <2>1 DEF Poll, ErrAfterCallbacks
  <2> QED BY <1>2, <2>1, <2>2
<1>6. ASSUME NEW x \in Slots, CompleteChunk(x) PROVE TailInv'
  <2>1. /\ UNCHANGED <<state, nb, devB, err>>
        /\ \E ok \in BOOLEAN : cqErr' = [cqErr EXCEPT ![x] = @ \/ ~ok]
    BY <1>6 DEF CompleteChunk
  <2>2. \A y \in Slots : cqErr[y] => cqErr'[y]
    BY <2>1, OpTypes
  <2> QED BY <1>2, <2>1, <2>2
<1>7. ASSUME NEW w \in Workers, DispatchRead(w) PROVE TailInv'
  <2>1. PICK x \in Slots : x = Here(w)
    BY RingTypes
  <2>2. /\ state[x] = "PENDING" /\ state' = [state EXCEPT ![x] = "IN_FLIGHT"]
        /\ nb' = [nb EXCEPT ![x] = 0] /\ err' = [err EXCEPT ![x] = FALSE]
        /\ UNCHANGED <<devB, cqErr>>
    BY <1>7, <2>1 DEF DispatchRead, Scanning
  <2>3. /\ nb'[x] = 0
        /\ \A y \in Slots : y # x => /\ state'[y] = state[y] /\ nb'[y] = nb[y]
                                     /\ err'[y] = err[y]
    BY <2>2, OpTypes, TailTypes
  <2>4. \A y \in Slots : state[y] = "IN_FLIGHT" =>
          state'[y] = "IN_FLIGHT" /\ nb'[y] = nb[y]
    BY <2>2, <2>3
  <2>5. \A y \in Slots : state'[y] = "IN_FLIGHT" /\ nb'[y] > 0 =>
          state[y] = "IN_FLIGHT" /\ nb[y] > 0 /\ err'[y] = err[y]
    BY <2>3
  <2> QED BY <1>1, <2>2, <2>4, <2>5, TailFrame
<1>8. CASE Close \/ UNCHANGED vars
  <2>1. UNCHANGED <<state, nb, devB, cqErr, err>>
    BY <1>8 DEF Close
  <2> QED BY <1>2, <2>1
<1> QED BY <1>3, <1>4, <1>5, <1>6, <1>7, <1>8

\* A read of the bounce buffer is issued.
LEMMA TailIssues ==
  ASSUME TypeInv, RingInv, OpInv, GateInv, TailInv, ExecutesAtGate,
         NEW w \in Workers, IssueBounce(w)
  PROVE  TailInv'
<1> USE DEF ringVars, slotVars, callVars, streamVars
<1>1. PICK x \in Slots : x = Here(w)
  BY RingTypes
<1>2. /\ UNCHANGED <<slog, spos, result, descN, delivered, pc, curOp, call, opOf, state,
                     cqErr, err>>
      /\ nb' = [nb EXCEPT ![x] = @ + 1] /\ devB' = [devB EXCEPT ![x] = @ + 1]
      /\ state[x] = "IN_FLIGHT"
  BY <1>1 DEF IssueBounce, RingInv, Working
<1>3. /\ nb'[x] > 0 /\ devB'[x] > 0
      /\ \A y \in Slots : y # x => nb'[y] = nb[y] /\ devB'[y] = devB[y]
      /\ \A y \in Slots : nb[y] > 0 => nb'[y] > 0
  <2>1. nb[x] \in Nat /\ devB[x] \in Nat
    BY TailTypes
  <2>2. nb'[x] = nb[x] + 1 /\ devB'[x] = devB[x] + 1
    BY <1>2, TailTypes
  <2> QED BY <1>2, <2>1, <2>2, TailTypes
<1>4. CASE ~IsStream(x)
  <2>1. UNCHANGED <<bounce, descDst, tailed>>
    BY <1>1, <1>4 DEF IssueBounce
  <2>2. ~IsStream(x)'
    BY <1>2, <1>4 DEF IsStream, CallAt
  <2> QED BY <1>2, <1>3, <2>1, <2>2, TailFrame DEF tailVars
<1>5. CASE IsStream(x)
  <2>1. PICK s \in Streams : s = CallAt(x).strm
    BY <1>2, <1>5, StreamOf
  <2>2. PICK o \in Ops : o = opOf[x]
    BY <1>2, OpTypes
  <2>3. /\ bounce' = [bounce EXCEPT ![s] = NoOp] /\ descDst' = [descDst EXCEPT ![s] = o]
        /\ tailed' = tailed \cup {o}
    BY <1>1, <1>5, <2>1, <2>2 DEF IssueBounce
  <2>4. /\ descDst'[s] = o
        /\ \A r \in Streams : r # s => bounce'[r] = bounce[r] /\ descDst'[r] = descDst[r]
    BY <2>3, TailTypes
  <2>5. result[o] = "none"
    BY <1>2, <2>2 DEF OpInv, OneSlotPerOp
  <2>6. GatesOnce' /\ LaterUnsettled' /\ CopyPlaced' /\ CopyNext'
    BY <1>2 DEF TailInv, GatesOnce, LaterUnsettled, CopyPlaced, CopyNext, WaitedFor
  <2>7. TailsRun'
    BY <1>2, <1>3, <2>2, <2>3 DEF TailInv, TailsRun
  <2>8. TailReads'
    <3> SUFFICES ASSUME NEW y \in Slots, state[y] = "IN_FLIGHT", IsStream(y), nb'[y] > 0,
                        NEW r, r = CallAt(y).strm
                 PROVE  /\ descDst'[r] = opOf[y]
                        /\ devB'[y] > 0 \/ cqErr[y] \/ err[y] \/ bounce'[r] = opOf[y]
      BY <1>2 DEF TailReads, IsStream, CallAt
    <3>1. CASE y = x
      BY <1>3, <2>1, <2>2, <2>4, <3>1
    <3>2. CASE y # x
      <4>1. r # s
        BY <1>2, <1>5, <2>1, <3>2, OneRuns
      <4>2. r \in Streams
        BY StreamOf
      <4>3. nb[y] > 0 /\ devB'[y] = devB[y]
        BY <1>3, <3>2
      <4> QED BY <2>4, <4>1, <4>2, <4>3 DEF TailInv, TailReads
    <3> QED BY <3>1, <3>2
  <2>9. TailKept'
    <3> SUFFICES ASSUME NEW r \in Streams, NEW p \in tailed', CopyComing(r, p),
                        result[p] = "ok"
                 PROVE  descN[r] /\ descDst'[r] = p /\ bounce'[r] = p
      BY <1>2 DEF TailKept, CopyComing
    <3>1. p \in tailed /\ p \in Ops
      BY <2>3, <2>5, TailTypes
    <3>2. r # s
      BY <1>2, <1>5, <2>1, <3>1, NoneRuns
    <3> QED BY <2>4, <3>1, <3>2 DEF TailInv, TailKept
  <2>10. TailDelivered'
    <3> SUFFICES ASSUME NEW r \in Streams, NEW i \in 1 .. spos[r], slog[r][i].k = "copy",
                        result[slog[r][i].op] = "ok", slog[r][i].op \in tailed'
                 PROVE  slog[r][i].op \in delivered
      BY <1>2 DEF TailDelivered
    <3>1. slog[r][i].op \in tailed
      BY <2>3, <2>5
    <3> QED BY <3>1 DEF TailInv, TailDelivered
  <2> QED BY <2>6, <2>7, <2>8, <2>9, <2>10 DEF TailInv
<1> QED BY <1>4, <1>5

\* The device completes a read of the bounce buffer.
LEMMA TailLands ==
  ASSUME TypeInv, RingInv, OpInv, GateInv, TailInv, ExecutesAtGate,
         NEW x \in Slots, CompleteBounce(x)
  PROVE  TailInv'
<1> USE DEF ringVars, slotVars, callVars, streamVars
<1>1. PICK ok \in BOOLEAN :
        /\ cqErr' = [cqErr EXCEPT ![x] = @ \/ ~ok]
        /\ bounce' = IF IsStream(x) /\ ok
                     THEN [bounce EXCEPT ![CallAt(x).strm] = opOf[x]] ELSE bounce
  BY DEF CompleteBounce
<1>2. /\ UNCHANGED <<slog, spos, result, descDst, descN, tailed, delivered, pc, curOp,
                     call, opOf, state, nb, err>>
      /\ devB' = [devB EXCEPT ![x] = @ - 1] /\ devB[x] > 0
  BY DEF CompleteBounce
<1>3. state[x] = "IN_FLIGHT"
  <2>1. ~NoCommands(x)
    BY <1>2 DEF NoCommands
  <2> QED BY <2>1 DEF RingInv, CommandsAccounted
<1>4. \A y \in Slots : /\ y # x => devB'[y] = devB[y]
                       /\ cqErr[y] => cqErr'[y]
  BY <1>1, <1>2, TailTypes, OpTypes
<1>5. CASE ~(IsStream(x) /\ ok)
  <2>1. bounce' = bounce
    BY <1>1, <1>5
  <2>2. IsStream(x) => cqErr'[x]
    BY <1>1, <1>5, OpTypes
  <2>3. \A y \in Slots : IsStream(y) /\ (devB[y] > 0 \/ cqErr[y] \/ err[y])
                           => devB'[y] > 0 \/ cqErr'[y] \/ err'[y]
    BY <1>2, <1>4, <2>2
  <2>4. \A y \in Slots : IsStream(y)' <=> IsStream(y)
    BY <1>2 DEF IsStream, CallAt
  <2> QED BY <1>2, <2>1, <2>3, <2>4, TailFrame DEF tailVars
<1>6. CASE IsStream(x) /\ ok
  <2>1. PICK s \in Streams : s = CallAt(x).strm
    BY <1>3, <1>6, StreamOf
  <2>2. bounce'[s] = opOf[x] /\ \A r \in Streams : r # s => bounce'[r] = bounce[r]
    BY <1>1, <1>6, <2>1, TailTypes
  <2>3. GatesOnce' /\ LaterUnsettled' /\ CopyPlaced' /\ CopyNext' /\ TailsRun'
          /\ TailDelivered'
    BY <1>2 DEF TailInv, GatesOnce, LaterUnsettled, CopyPlaced, CopyNext, WaitedFor,
                TailsRun, TailDelivered
  <2>4. TailReads'
    <3> SUFFICES ASSUME NEW y \in Slots, state[y] = "IN_FLIGHT", IsStream(y), nb[y] > 0,
                        NEW r, r = CallAt(y).strm
                 PROVE  /\ descDst[r] = opOf[y]
                        /\ devB'[y] > 0 \/ cqErr'[y] \/ err[y] \/ bounce'[r] = opOf[y]
      BY <1>2 DEF TailReads, IsStream, CallAt
    <3>1. descDst[r] = opOf[y]
      BY DEF TailInv, TailReads
    <3>2. CASE y = x
      BY <2>1, <2>2, <3>1, <3>2
    <3>3. CASE y # x
      <4>1. r # s
        BY <1>3, <1>6, <2>1, <3>3, OneRuns
      <4>2. r \in Streams
        BY StreamOf
      <4> QED BY <1>4, <2>2, <3>1, <3>3, <4>1, <4>2 DEF TailInv, TailReads
    <3> QED BY <3>2, <3>3
  <2>5. TailKept'
    <3> SUFFICES ASSUME NEW r \in Streams, NEW p \in tailed, CopyComing(r, p),
                        result[p] = "ok"
                 PROVE  descN[r] /\ descDst[r] = p /\ bounce'[r] = p
      BY <1>2 DEF TailKept, CopyComing
    <3>1. r # s
      BY <1>3, <1>6, <2>1, NoneRuns, TailTypes
    <3> QED BY <2>2, <3>1 DEF TailInv, TailKept
  <2> QED BY <2>3, <2>4, <2>5 DEF TailInv
<1> QED BY <1>5, <1>6

\* An operation is settled: a read that succeeds has its tail in the bounce buffer,
\* and the descriptor says so.
LEMMA TailSettles ==
  ASSUME TypeInv, RingInv, OpInv, GateInv, TailInv, ExecutesAtGate, NEW w \in Workers,
         FinishWrite(w) \/ CompleteStreamRead(w) \/ CompleteAsyncRead(w)
  PROVE  TailInv'
<1> USE DEF ringVars, slotVars, callVars, streamVars
<1>1. PICK x \in Slots : x = Here(w)
  BY RingTypes
<1>2. /\ UNCHANGED <<slog, spos, bounce, descDst, tailed, delivered, pc, curOp, call,
                     opOf, nb, devB, cqErr, err>>
      /\ \E v \in {"ok", "err"} : result' = [result EXCEPT ![opOf[x]] = v]
      /\ state' = [state EXCEPT ![x] = "FREE"]
  BY <1>1 DEF FinishWrite, CompleteStreamRead, CompleteAsyncRead, FreeSlot, tailVars,
              histVars, devVars
<1>3. Executing(x) /\ state[x] # "FREE"
  BY <1>1, RingTypes
     DEF FinishWrite, CompleteStreamRead, CompleteAsyncRead, Scanning, Executing, RingInv,
         Working
<1>4. PICK o \in Ops : o = opOf[x]
  BY <1>3, OpTypes
<1>5. result[o] = "none" /\ \A p \in Ops : p # o => result'[p] = result[p]
  BY <1>2, <1>3, <1>4, OpTypes DEF OpInv, OneSlotPerOp
<1>6. /\ state'[x] = "FREE"
      /\ \A y \in Slots : y # x => state'[y] = state[y]
  BY <1>2, OpTypes
<1>7. GatesOnce' /\ CopyPlaced' /\ CopyNext'
  BY <1>2 DEF TailInv, GatesOnce, CopyPlaced, CopyNext, WaitedFor
<1>8. LaterUnsettled'
  <2> SUFFICES ASSUME NEW r \in Streams, NEW j \in spos[r] + 2 .. Len(slog[r]),
                      slog[r][j].k \in {"wait", "host"}
               PROVE  result'[slog[r][j].op] = "none"
    BY <1>2 DEF LaterUnsettled
  <2>1. j \in 1 .. Len(slog[r]) /\ spos[r] + 1 \in 1 .. Len(slog[r]) /\ j # spos[r] + 1
    <3>1. spos[r] \in Nat /\ Len(slog[r]) \in Nat
      BY GateTypes
    <3> QED BY <3>1
  <2>2. ASSUME slog[r][j].op = o PROVE FALSE
    <3>1. call[o].mode = "stream" /\ call[o].strm = r
      BY <2>1, <2>2 DEF GateInv, LogShape, Fits
    <3>2. HeldAt(r, o)
      BY <1>3, <1>4, <3>1 DEF ExecutesAtGate, IsStream, CallAt
    <3> QED BY <2>1, <2>2, <3>2 DEF HeldAt, Command, TailInv, GatesOnce
  <2>3. slog[r][j].op \in Ops
    BY <2>1, GateTypes
  <2> QED BY <1>5, <2>2, <2>3 DEF TailInv, LaterUnsettled
<1>9. TailsRun'
  <2> SUFFICES ASSUME NEW p \in tailed, result'[p] = "none"
               PROVE  \E y \in Slots : state'[y] = "IN_FLIGHT" /\ opOf[y] = p /\ nb[y] > 0
    BY <1>2 DEF TailsRun
  <2>1. p \in Ops /\ p # o
    <3>1. result'[o] # "none"
      BY <1>2, <1>4, OpTypes
    <3> QED BY <3>1, TailTypes
  <2>2. PICK y \in Slots : state[y] = "IN_FLIGHT" /\ opOf[y] = p /\ nb[y] > 0
    BY <1>5, <2>1 DEF TailInv, TailsRun
  <2> QED BY <1>4, <1>6, <2>1, <2>2
<1>10. TailReads'
  <2>1. \A y \in Slots : state'[y] = "IN_FLIGHT" => state[y] = "IN_FLIGHT"
    BY <1>6
  <2> QED BY <1>2, <2>1 DEF TailInv, TailReads, IsStream, CallAt
<1>11. TailKept'
  <2> SUFFICES ASSUME NEW r \in Streams, NEW p \in tailed, CopyComing(r, p),
                      result'[p] = "ok"
               PROVE  descN'[r] /\ descDst[r] = p /\ bounce[r] = p
    BY <1>2 DEF TailKept, CopyComing
  <2>1. p \in Ops
    BY TailTypes
  <2>2. CASE p = o
    <3>1. state[x] = "IN_FLIGHT" /\ nb[x] > 0
      <4>1. PICK y \in Slots : state[y] = "IN_FLIGHT" /\ opOf[y] = p /\ nb[y] > 0
        BY <1>5, <2>2 DEF TailInv, TailsRun
      <4>2. y = x
        BY <1>3, <1>4, <2>2, <4>1 DEF OpInv, OneSlotPerOp
      <4> QED BY <4>1, <4>2
    <3>2. IsStream(x) /\ CallAt(x).strm = r
      BY <1>4, <2>1, <2>2, CopyOf DEF IsStream, CallAt
    <3>3. CompleteStreamRead(w)
      BY <1>1, <3>1, <3>2 DEF FinishWrite, CompleteAsyncRead, RingInv, Working
    <3>4. AllReaped(x) /\ ~err[x] /\ descN' = [descN EXCEPT ![r] = HasTail(x)]
      <4>1. result' = [result EXCEPT ![o] = IF err[x] THEN "err" ELSE "ok"]
        BY <1>1, <1>4, <3>3 DEF CompleteStreamRead
      <4>2. ~err[x]
        BY <2>2, <4>1, OpTypes
      <4> QED BY <1>1, <3>2, <3>3, <4>2 DEF CompleteStreamRead
    <3>5. devB[x] = 0 /\ ~cqErr[x]
      <4>1. devC[x] + cqC[x] = 0 /\ devB[x] + cqB[x] = 0
        BY <3>1, <3>4 DEF AllReaped, RingInv, CommandsAccounted
      <4>2. devB[x] = 0 /\ cqC[x] = 0 /\ cqB[x] = 0
        BY <4>1, RingTypes
      <4> QED BY <4>2 DEF OpInv, ErrorsKept
    <3>6. descDst[r] = o /\ bounce[r] = o
      BY <1>4, <3>1, <3>2, <3>4, <3>5 DEF TailInv, TailReads
    <3> QED BY <2>2, <3>1, <3>4, <3>6, TailTypes DEF HasTail
  <2>3. CASE p # o
    <3>1. result[p] = "ok"
      BY <1>5, <2>1, <2>3
    <3>2. descN'[r] = descN[r]
      <4>1. CASE CompleteStreamRead(w)
        <5>1. /\ state[x] = "IN_FLIGHT" /\ IsStream(x)
              /\ descN' = [descN EXCEPT ![CallAt(x).strm] = HasTail(x)]
          BY <1>1, <4>1 DEF CompleteStreamRead, Scanning
        <5>2. CallAt(x).strm # r
          BY <2>1, <3>1, <5>1, NoneRuns
        <5> QED BY <5>1, <5>2, TailTypes
      <4>2. CASE FinishWrite(w) \/ CompleteAsyncRead(w)
        BY <4>2 DEF FinishWrite, CompleteAsyncRead, tailVars
      <4> QED BY <4>1, <4>2
    <3> QED BY <3>1, <3>2 DEF TailInv, TailKept
  <2> QED BY <2>2, <2>3
<1>12. TailDelivered'
  <2> SUFFICES ASSUME NEW r \in Streams, NEW i \in 1 .. spos[r], slog[r][i].k = "copy",
                      result'[slog[r][i].op] = "ok", slog[r][i].op \in tailed
               PROVE  slog[r][i].op \in delivered
    BY <1>2 DEF TailDelivered
  <2>1. i \in 1 .. Len(slog[r]) /\ spos[r] \in Nat
    BY GateTypes DEF GateInv, LogShape
  <2>2. slog[r][i].op # o
    <3>1. WaitedFor(r, i - 1, slog[r][i].op)
      BY <2>1 DEF TailInv, CopyPlaced
    <3>2. i - 1 \in 1 .. spos[r]
      BY <2>1, <3>1 DEF WaitedFor
    <3>3. result[slog[r][i].op] # "none"
      BY <3>1, <3>2 DEF WaitedFor, GateInv, HeldUntilSettled
    <3> QED BY <1>5, <3>3
  <2>3. slog[r][i].op \in Ops
    BY <2>1, GateTypes
  <2> QED BY <1>5, <2>2, <2>3 DEF TailInv, TailDelivered
<1> QED BY <1>7, <1>8, <1>9, <1>10, <1>11, <1>12 DEF TailInv

\* A stream goes past a command; the copy kernel finds what it is to copy.
LEMMA TailPasses ==
  ASSUME TypeInv, OpInv, GateInv, TailInv, NEW s \in Streams, StreamStep(s)
  PROVE  TailInv'
<1> USE DEF ringVars, slotVars, callVars, devVars, streamVars, tailVars, histVars
<1>1. UNCHANGED <<slog, result, tailVars, tailed, state, opOf, nb, devB, cqErr, err, pc,
                  curOp, call>>
  BY DEF StreamStep, RunWrite, RunWait, Park, Unpark, RunCopy
<1>2. CASE Park(s)
  <2>1. UNCHANGED <<spos, delivered>>
    BY <1>2 DEF Park
  <2> QED BY <1>1, <2>1, TailFrame
<1>3. CASE RunWrite(s) \/ RunWait(s) \/ Unpark(s) \/ RunCopy(s)
  <2>1. spos' = [spos EXCEPT ![s] = @ + 1] /\ spos[s] < Len(slog[s])
    BY <1>3 DEF RunWrite, RunCopy, RunWait, Unpark, Step, HasCommand, GateInv, LogShape
  <2>2. /\ \A r \in Streams : spos[r] \in Nat /\ Len(slog[r]) \in Nat
        /\ spos'[s] = spos[s] + 1 /\ spos[s] + 1 \in 1 .. Len(slog[s])
        /\ \A r \in Streams : r # s => spos'[r] = spos[r]
    <3>1. \A r \in Streams : spos[r] \in Nat /\ Len(slog[r]) \in Nat
      BY GateTypes
    <3>2. spos'[s] = spos[s] + 1 /\ \A r \in Streams : r # s => spos'[r] = spos[r]
      BY <2>1, GateTypes
    <3> QED BY <2>1, <3>1, <3>2
  <2>3. delivered \subseteq delivered'
    BY <1>3 DEF RunWrite, RunWait, Unpark, RunCopy
  <2>4. GatesOnce' /\ CopyPlaced' /\ CopyNext' /\ TailsRun' /\ TailReads'
    BY <1>1 DEF TailInv, GatesOnce, CopyPlaced, CopyNext, WaitedFor, TailsRun, TailReads,
                IsStream, CallAt
  <2>5. LaterUnsettled'
    <3> SUFFICES ASSUME NEW r \in Streams, NEW j \in spos'[r] + 2 .. Len(slog[r]),
                        slog[r][j].k \in {"wait", "host"}
                 PROVE  result[slog[r][j].op] = "none"
      BY <1>1 DEF LaterUnsettled
    <3>1. j \in spos[r] + 2 .. Len(slog[r])
      BY <2>2
    <3> QED BY <3>1 DEF TailInv, LaterUnsettled
  <2>6. TailKept'
    <3> SUFFICES ASSUME NEW r \in Streams, NEW o \in tailed, CopyComing(r, o)',
                        result[o] = "ok"
                 PROVE  descN[r] /\ descDst[r] = o /\ bounce[r] = o
      BY <1>1 DEF TailKept
    <3>1. \A i \in spos'[r] + 1 .. Len(slog[r]) : i \in spos[r] + 1 .. Len(slog[r])
      BY <2>2
    <3>2. CopyComing(r, o)
      BY <1>1, <3>1 DEF CopyComing
    <3> QED BY <3>2 DEF TailInv, TailKept
  <2>7. TailDelivered'
    <3> SUFFICES ASSUME NEW r \in Streams, NEW i \in 1 .. spos'[r], slog[r][i].k = "copy",
                        NEW o, o = slog[r][i].op, result[o] = "ok", o \in tailed
                 PROVE  o \in delivered'
      BY <1>1 DEF TailDelivered
    <3>1. CASE i \in 1 .. spos[r]
      BY <2>3, <3>1 DEF TailInv, TailDelivered
    <3>2. CASE i \notin 1 .. spos[r]
      <4>1. r = s /\ i = spos[s] + 1
        BY <2>2, <3>2
      <4>2. RunCopy(s)
        <5>1. ~AlignedOnly
          BY <2>2, <4>1 DEF GateInv, LogShape, Fits
        <5>2. ~Unpark(s)
          BY <5>1 DEF Unpark, GateInv, LogShape
        <5> QED BY <1>3, <4>1, <5>2 DEF RunWrite, RunWait, HasCommand
      <4>3. CopyComing(s, o)
        <5>1. i \in spos[s] + 1 .. Len(slog[s])
          BY <2>2, <4>1
        <5> QED BY <4>1, <5>1 DEF CopyComing
      <4>4. descN[s] /\ descDst[s] = o /\ bounce[s] = o
        BY <4>3 DEF TailInv, TailKept
      <4> QED BY <4>2, <4>4 DEF RunCopy
    <3> QED BY <3>1, <3>2
  <2> QED BY <2>4, <2>5, <2>6, <2>7 DEF TailInv
<1> QED BY <1>2, <1>3 DEF StreamStep

\* The tail invariant is inductive where no read shares its stream.
LEMMA TailNext ==
  ASSUME Unshared, TypeInv, RingInv, OpInv, GateInv, PairInv, OnceInv, ExecutesAtGate,
         TailInv, [Next]_vars
  PROVE  TailInv'
<1>1. ASSUME NEW t \in Threads, StartCall(t) \/ ThreadStep(t) PROVE TailInv'
  BY <1>1, TailCalls, TailEnqueues DEF ThreadStep, ThreadGoesOn
<1>2. ASSUME NEW w \in Workers, WorkerStep(w) PROVE TailInv'
  BY <1>2, TailQuiet, TailIssues, TailSettles DEF WorkerStep, WorkerGoesOn
<1>3. ASSUME NEW x \in Slots, DeviceStep(x) PROVE TailInv'
  BY <1>3, TailQuiet, TailLands DEF DeviceStep
<1>4. ASSUME NEW s \in Streams, StreamStep(s) PROVE TailInv'
  BY <1>4, TailPasses
<1>5. CASE Close \/ UNCHANGED vars
  BY <1>5, TailQuiet
<1> QED BY <1>1, <1>2, <1>3, <1>4, <1>5 DEF Next

\* submit_stream_bounce, bounce_cb and the copy kernel: when the copy of a read that
\* succeeded has run, the read's partial tail is in the caller's buffer, for every
\* number of reads, workers and streams.  As for RunsAtGate, a stream that a thread
\* submits reads to must be that thread's own: another thread's read could reuse the
\* bounce buffer between the wait and the copy.
THEOREM TailsDelivered == Unshared => (Spec => []TailDelivered)
<1> SUFFICES ASSUME Unshared PROVE Spec => []TailDelivered
  OBVIOUS
<1>1. Init => OnceInv /\ TailInv
  BY OnceInit, TailInit
<1>2. TypeInv /\ RingInv /\ OpInv /\ GateInv /\ OnceInv /\ [Next]_vars => OnceInv'
  BY OnceNext
<1>3. TypeInv /\ RingInv /\ OpInv /\ GateInv /\ PairInv /\ OnceInv /\ ExecutesAtGate
        /\ TailInv /\ [Next]_vars => TailInv'
  BY TailNext
<1>4. TailInv => TailDelivered
  BY DEF TailInv
<1>5. Spec => []ExecutesAtGate
  BY RunsAtGate
<1>6. Spec => [](TypeInv /\ RingInv /\ OpInv /\ GateInv /\ PairInv)
  BY PairsCorrect
<1> QED BY <1>1, <1>2, <1>3, <1>4, <1>5, <1>6, PTL DEF Spec
=============================================================================
