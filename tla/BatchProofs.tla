---------------------------- MODULE BatchProofs ----------------------------
(***************************************************************************)
(* The bookkeeping of a batch is right for every capacity, every number of *)
(* operations and every moment at which the backend writes a future.       *)
(***************************************************************************)
EXTENDS Batch, FiniteSetTheorems, TLAPS

\* The entries that hold an operation whose completion is not delivered.
Busy(e) == e \in InUse /\ ~edelivered[e]

\* An operation has at most one report.
EventsOK ==
  /\ events \in [Ops -> SUBSET (Nat \X {"complete", "failed", "canceled"})]
  /\ \A o \in Ops : events[o] = {} \/ \E x : events[o] = {x}
  /\ \A o \in Ops : o >= nextOp => events[o] = {}

\* What a busy entry says is what became of its operation, which has not been
\* reported.
Told ==
  \A e \in Entries : Busy(e) =>
    /\ cookie[e] \in Ops /\ cookie[e] < nextOp
    /\ events[cookie[e]] = {}
    /\ ecanceled[e] => cookie[e] \in asked /\ outcome[cookie[e]] # "none"
    /\ efailed[e] => future[e] = "none" /\ outcome[cookie[e]] = "rejected"
    /\ future[e] # "none" => outcome[cookie[e]] = future[e]

\* No operation is in two entries, and none is lost.
Apart ==
  \A e, f \in Entries : Busy(e) /\ Busy(f) /\ cookie[e] = cookie[f] => e = f
Kept ==
  \A o \in Ops : o < nextOp =>
    events[o] # {} \/ \E e \in Entries : Busy(e) /\ cookie[e] = o

\* The backend writes to busy entries that have no result yet.
Pending ==
  \A b \in backend : /\ Busy(b[2]) /\ cookie[b[2]] = b[1]
                     /\ ~efailed[b[2]] /\ future[b[2]] = "none"

\* A submit in progress has room for what is left of it.
Room ==
  pc = "submit" => /\ todo >= 1 /\ inflight + todo <= Capacity
                   /\ nextOp + todo <= NOps + 1

\* A destroy has outwaited the entries behind it.
Outwaited ==
  /\ pc = "destroy" => \A e \in InUse : e < i => EntryDone(e)
  /\ pc = "gone" => backend = {}

BatchInv == /\ TypeOK /\ EventsOK /\ Told /\ Apart /\ Kept /\ Pending /\ Room
            /\ Outwaited /\ InflightExact /\ ReportHonest
-----------------------------------------------------------------------------
\* Sets of entries are finite.
LEMMA EntriesFinite ==
  /\ IsFiniteSet(Entries)
  /\ \A S \in SUBSET Entries : IsFiniteSet(S) /\ Cardinality(S) \in Nat
<1>1. IsFiniteSet(Entries)
  BY BatchAssumption, FS_Interval DEF Entries
<1> QED BY <1>1, FS_Subset, FS_CardinalityType

\* An empty batch.
LEMMA BatchInit == Init => BatchInv
<1> SUFFICES ASSUME Init PROVE BatchInv
  OBVIOUS
<1> USE BatchAssumption DEF Init
<1>1. InUse = {}
  BY DEF InUse, Entries
<1>2. TypeOK
  <2>1. /\ used \in 0 .. Capacity /\ inflight \in Nat /\ i \in Nat
        /\ todo \in Nat /\ minNr \in Nat /\ nextOp \in 1 .. NOps + 1
    OBVIOUS
  <2>2. /\ cookie \in [Entries -> Ops \cup {NoOp}]
        /\ future \in [Entries -> {"none", "ok", "err"}]
        /\ efailed \in [Entries -> BOOLEAN] /\ ecanceled \in [Entries -> BOOLEAN]
        /\ edelivered \in [Entries -> BOOLEAN]
        /\ outcome \in [Ops -> {"none", "rejected", "ok", "err"}]
    OBVIOUS
  <2> QED BY <2>1, <2>2 DEF TypeOK
<1>3. InflightExact
  <2>1. {e \in InUse : ~edelivered[e]} = {}
    BY <1>1
  <2> QED BY <2>1, FS_EmptySet DEF InflightExact
<1>4. EventsOK /\ ReportHonest
  BY DEF EventsOK, ReportHonest, Reports
<1>5. Told /\ Apart /\ Pending
  BY <1>1 DEF Told, Apart, Pending, Busy
<1>6. Kept /\ Room /\ Outwaited
  BY DEF Kept, Room, Outwaited, Ops
<1> QED BY <1>2, <1>3, <1>4, <1>5, <1>6 DEF BatchInv

\* Steps that only move the owner: calls that begin or return, and the end of
\* the wait.
LEMMA OwnerMoves ==
  ASSUME BatchInv,
         \/ Submit \/ GetStatus \/ StopWaiting \/ DeliverEnds
         \/ Cancel \/ CancelEnds \/ Destroy \/ DestroyOne \/ DestroyEnds
  PROVE  BatchInv'
<1> USE DEF Submit, GetStatus, StopWaiting, DeliverEnds, Cancel, CancelEnds,
            Destroy, DestroyOne, DestroyEnds
<1>1. UNCHANGED <<entryVars, used, inflight, nextOp, backend, outcome, asked,
                  events>>
  OBVIOUS
<1>2. /\ UNCHANGED <<cookie, future, efailed, ecanceled, edelivered>>
      /\ UNCHANGED <<used, inflight, nextOp, backend, outcome, asked, events>>
      /\ InUse' = InUse /\ \A e : Busy(e)' = Busy(e)
  BY <1>1 DEF entryVars, InUse, Busy
<1>3. TypeOK'
  <2>1. /\ pc' \in {"idle", "submit", "wait", "deliver", "cancel", "destroy",
                    "gone"}
        /\ i' \in Nat /\ todo' \in Nat /\ minNr' \in Nat /\ timed' \in BOOLEAN
    <3>1. /\ pc \in {"idle", "submit", "wait", "deliver", "cancel", "destroy",
                     "gone"}
          /\ i \in Nat /\ todo \in Nat /\ minNr \in Nat /\ timed \in BOOLEAN
          /\ used \in Nat
      BY BatchAssumption DEF BatchInv, TypeOK
    <3>2. i' \in Nat
      BY <3>1
    <3>3. todo' \in Nat /\ minNr' \in Nat
      BY <3>1, BatchAssumption
    <3>4. timed' \in BOOLEAN
      BY <3>1
    <3>5. pc' \in {"idle", "submit", "wait", "deliver", "cancel", "destroy",
                   "gone"}
      BY <3>1
    <3> QED BY <3>2, <3>3, <3>4, <3>5
  <2> QED BY <1>2, <2>1 DEF BatchInv, TypeOK
<1>4. (EventsOK /\ Told /\ Apart /\ Kept /\ Pending)'
  BY <1>2 DEF BatchInv, EventsOK, Told, Apart, Kept, Pending
<1>5. Room'
  BY <1>2, BatchAssumption DEF BatchInv, TypeOK, Room, Fits
<1>6. Outwaited'
  <2>1. CASE DestroyOne
    BY <1>2, <2>1 DEF BatchInv, TypeOK, Outwaited, EntryDone, Awaited, InUse,
       Entries
  <2>2. CASE DestroyEnds
    <3>1. \A e \in InUse : EntryDone(e)
      BY <2>2, BatchAssumption DEF BatchInv, TypeOK, Outwaited, InUse, Entries
    <3>2. backend = {}
      BY <3>1 DEF BatchInv, Pending, Busy, EntryDone
    <3> QED BY <1>2, <2>2, <3>2 DEF Outwaited
  <2>3. CASE ~DestroyOne /\ ~DestroyEnds
    BY <1>2, <2>3, BatchAssumption
    DEF BatchInv, TypeOK, Outwaited, InUse, Entries
  <2> QED BY <2>1, <2>2, <2>3
<1>7. (InflightExact /\ ReportHonest)'
  BY <1>2 DEF BatchInv, InflightExact, ReportHonest, Reports
<1> QED BY <1>3, <1>4, <1>5, <1>6, <1>7 DEF BatchInv

\* entry_take gives a slot inside the array that holds nothing undelivered:
\* with no slot to reuse, every slot in use is counted by inflight, and the
\* submit has left room.
LEMMA TakenIsFree ==
  ASSUME BatchInv, pc = "submit", NEW e \in 0 .. Capacity, Taken(e)
  PROVE  /\ e \in Entries /\ ~Busy(e)
         /\ e # used => e < used
         /\ e = used => used < Capacity
<1> DEFINE free == {f \in InUse : Reusable(f)}
<1>0. used \in 0 .. Capacity /\ inflight \in Nat /\ todo \in Nat
  BY DEF BatchInv, TypeOK
<1>1. CASE free = {}
  <2>1. e = used
    BY <1>1 DEF Taken
  <2>2. {f \in InUse : ~edelivered[f]} = 0 .. used - 1
    BY <1>0, <1>1, BatchAssumption DEF InUse, Entries, Reusable
  <2>3. Cardinality(0 .. used - 1) = used
    BY <1>0, FS_Interval, BatchAssumption
  <2>4. inflight = used
    BY <2>2, <2>3 DEF BatchInv, InflightExact
  <2>5. used < Capacity
    BY <1>0, <2>4, BatchAssumption DEF BatchInv, Room
  <2> QED BY <1>0, <2>1, <2>5, BatchAssumption DEF Entries, Busy, InUse
<1>2. CASE free # {}
  <2>1. e \in InUse /\ edelivered[e]
    BY <1>2 DEF Taken, Reusable
  <2> QED BY <1>0, <2>1, BatchAssumption DEF InUse, Busy, Entries
<1> QED BY <1>1, <1>2

\* One turn of the submit loop.
LEMMA SubmitOneKeeps == ASSUME BatchInv, SubmitOne PROVE BatchInv'
<1>1. PICK e \in 0 .. Capacity, accepted \in BOOLEAN :
        /\ pc = "submit" /\ todo > 0 /\ Taken(e)
        /\ used' = IF e = used THEN used + 1 ELSE used
        /\ cookie' = [cookie EXCEPT ![e] = nextOp]
        /\ future' = [future EXCEPT ![e] = "none"]
        /\ ecanceled' = [ecanceled EXCEPT ![e] = FALSE]
        /\ edelivered' = [edelivered EXCEPT ![e] = FALSE]
        /\ efailed' = [efailed EXCEPT ![e] = ~accepted]
        /\ accepted => /\ backend' = backend \cup {<<nextOp, e>>}
                       /\ UNCHANGED outcome
        /\ ~accepted => /\ outcome' = [outcome EXCEPT ![nextOp] = "rejected"]
                        /\ UNCHANGED backend
        /\ inflight' = inflight + 1 /\ nextOp' = nextOp + 1
        /\ todo' = todo - 1
        /\ pc' = IF todo = 1 THEN "idle" ELSE "submit"
        /\ UNCHANGED <<i, minNr, timed, asked, events>>
  BY DEF SubmitOne
<1>2. /\ e \in Entries /\ ~Busy(e) /\ (e # used => e < used)
      /\ (e = used => used < Capacity)
  BY <1>1, TakenIsFree
<1>3. /\ used \in 0 .. Capacity /\ inflight \in Nat /\ todo \in Nat
      /\ nextOp \in 1 .. NOps + 1
      /\ todo >= 1 /\ inflight + todo <= Capacity /\ nextOp + todo <= NOps + 1
  BY <1>1 DEF BatchInv, TypeOK, Room
<1>4. nextOp \in Ops /\ nextOp' \in 1 .. NOps + 1 /\ used' \in 0 .. Capacity
  BY <1>1, <1>2, <1>3, BatchAssumption DEF Ops
<1>5. /\ cookie \in [Entries -> Ops \cup {NoOp}]
      /\ future \in [Entries -> {"none", "ok", "err"}]
      /\ efailed \in [Entries -> BOOLEAN] /\ ecanceled \in [Entries -> BOOLEAN]
      /\ edelivered \in [Entries -> BOOLEAN]
      /\ outcome \in [Ops -> {"none", "rejected", "ok", "err"}]
      /\ backend \subseteq Ops \X Entries
  BY DEF BatchInv, TypeOK
<1>6. \A f \in Entries : Busy(f)' <=> (f = e \/ Busy(f))
  BY <1>1, <1>2, <1>3, <1>5, BatchAssumption DEF Busy, InUse, Entries
<1>7. /\ cookie'[e] = nextOp /\ future'[e] = "none" /\ ~ecanceled'[e]
      /\ (efailed'[e] <=> ~accepted)
      /\ \A f \in Entries \ {e} : /\ cookie'[f] = cookie[f]
                                  /\ future'[f] = future[f]
                                  /\ ecanceled'[f] = ecanceled[f]
                                  /\ efailed'[f] = efailed[f]
  BY <1>1, <1>2, <1>5
<1>8. /\ \A o \in Ops \ {nextOp} : outcome'[o] = outcome[o]
      /\ ~accepted => outcome'[nextOp] = "rejected"
  BY <1>1, <1>4, <1>5
<1>9. events[nextOp] = {}
  BY <1>3, <1>4 DEF BatchInv, EventsOK, Ops
<1>10. TypeOK'
  <2>1. /\ cookie' \in [Entries -> Ops \cup {NoOp}]
        /\ future' \in [Entries -> {"none", "ok", "err"}]
        /\ efailed' \in [Entries -> BOOLEAN]
        /\ ecanceled' \in [Entries -> BOOLEAN]
        /\ edelivered' \in [Entries -> BOOLEAN]
    BY <1>1, <1>2, <1>4, <1>5
  <2>2. /\ outcome' \in [Ops -> {"none", "rejected", "ok", "err"}]
        /\ backend' \subseteq Ops \X Entries
    BY <1>1, <1>2, <1>4, <1>5
  <2>3. /\ inflight' \in Nat /\ todo' \in Nat
        /\ pc' \in {"idle", "submit", "wait", "deliver", "cancel", "destroy",
                    "gone"}
    BY <1>1, <1>3
  <2>4. /\ i' \in Nat /\ minNr' \in Nat /\ timed' \in BOOLEAN
        /\ asked' \subseteq Ops
    BY <1>1 DEF BatchInv, TypeOK
  <2> QED BY <2>1, <2>2, <2>3, <2>4, <1>4 DEF TypeOK
<1>11. EventsOK'
  <2>1. events' = events /\ \A o \in Ops : o >= nextOp' => o >= nextOp
    BY <1>1, <1>3 DEF Ops
  <2> QED BY <2>1 DEF BatchInv, EventsOK
<1>12. Told'
  <2> SUFFICES ASSUME NEW f \in Entries, Busy(f)'
               PROVE  /\ cookie'[f] \in Ops /\ cookie'[f] < nextOp'
                      /\ events'[cookie'[f]] = {}
                      /\ ecanceled'[f] => /\ cookie'[f] \in asked'
                                          /\ outcome'[cookie'[f]] # "none"
                      /\ efailed'[f] => /\ future'[f] = "none"
                                        /\ outcome'[cookie'[f]] = "rejected"
                      /\ future'[f] # "none" => outcome'[cookie'[f]] = future'[f]
    BY DEF Told
  <2>1. CASE f = e
    BY <1>1, <1>3, <1>4, <1>7, <1>8, <1>9, <2>1
  <2>2. CASE f # e
    <3>1. Busy(f)
      BY <1>6, <2>2
    <3>2. cookie[f] \in Ops /\ cookie[f] < nextOp
      BY <3>1 DEF BatchInv, Told
    <3>3. cookie'[f] = cookie[f] /\ outcome'[cookie[f]] = outcome[cookie[f]]
      BY <1>3, <1>7, <1>8, <2>2, <3>2
    <3>4. nextOp' = nextOp + 1 /\ events' = events /\ asked' = asked
      BY <1>1
    <3>5. cookie[f] < nextOp'
      BY <1>3, <3>2, <3>4 DEF Ops
    <3> QED BY <1>7, <2>2, <3>1, <3>2, <3>3, <3>4, <3>5 DEF BatchInv, Told
  <2> QED BY <2>1, <2>2
<1>13. Apart'
  <2>1. \A f \in Entries : Busy(f) => cookie[f] # nextOp
    BY <1>3 DEF BatchInv, Told, Ops
  <2> QED BY <1>6, <1>7, <2>1 DEF BatchInv, Apart
<1>14. Kept'
  <2> SUFFICES ASSUME NEW o \in Ops, o < nextOp'
               PROVE  \/ events'[o] # {}
                      \/ \E f \in Entries : Busy(f)' /\ cookie'[f] = o
    BY DEF Kept
  <2>1. CASE o = nextOp
    BY <1>2, <1>6, <1>7, <2>1
  <2>2. CASE o # nextOp
    <3>1. o < nextOp
      BY <1>1, <1>3, <2>2 DEF Ops
    <3>2. events[o] # {} \/ \E f \in Entries : Busy(f) /\ cookie[f] = o
      BY <3>1 DEF BatchInv, Kept
    <3> QED BY <1>1, <1>2, <1>6, <1>7, <3>2
  <2> QED BY <2>1, <2>2
<1>15. Pending'
  <2> SUFFICES ASSUME NEW b \in backend'
               PROVE  /\ Busy(b[2])' /\ cookie'[b[2]] = b[1]
                      /\ ~efailed'[b[2]] /\ future'[b[2]] = "none"
    BY DEF Pending
  <2>1. CASE b \in backend
    <3>1. /\ b[2] \in Entries /\ Busy(b[2]) /\ cookie[b[2]] = b[1]
          /\ ~efailed[b[2]] /\ future[b[2]] = "none"
      BY <1>5, <2>1 DEF BatchInv, Pending
    <3>2. b[2] # e
      BY <1>2, <3>1
    <3> QED BY <1>6, <1>7, <3>1, <3>2
  <2>2. CASE b \notin backend
    <3>1. accepted /\ b = <<nextOp, e>>
      BY <1>1, <2>2
    <3> QED BY <1>2, <1>6, <1>7, <3>1
  <2> QED BY <2>1, <2>2
<1>16. Room'
  BY <1>1, <1>3, BatchAssumption DEF Room
<1>17. Outwaited'
  BY <1>1 DEF Outwaited
<1>18. InflightExact'
  <2> DEFINE S == {f \in InUse : ~edelivered[f]}
  <2>1. S' = S \cup {e} /\ e \notin S
    BY <1>2, <1>6 DEF Busy, InUse
  <2>2. IsFiniteSet(S) /\ inflight = Cardinality(S)
    BY EntriesFinite DEF BatchInv, InflightExact, InUse
  <2>3. Cardinality(S \cup {e}) = Cardinality(S) + 1
    BY <2>1, <2>2, FS_AddElement
  <2> QED BY <1>1, <2>1, <2>2, <2>3 DEF InflightExact
<1>19. ReportHonest'
  <2> SUFFICES ASSUME NEW o \in Ops
               PROVE  /\ "complete" \in Reports(o)' => outcome'[o] = "ok"
                      /\ "failed" \in Reports(o)' =>
                           outcome'[o] \in {"err", "rejected"}
                      /\ "canceled" \in Reports(o)' =>
                           o \in asked' /\ outcome'[o] # "none"
    BY DEF ReportHonest
  <2>1. Reports(o)' = Reports(o) /\ asked' = asked
    BY <1>1 DEF Reports
  <2>2. CASE o = nextOp
    BY <1>9, <2>1, <2>2 DEF Reports
  <2>3. CASE o # nextOp
    BY <1>8, <2>1, <2>3 DEF BatchInv, ReportHonest
  <2> QED BY <2>2, <2>3
<1> QED BY <1>10, <1>11, <1>12, <1>13, <1>14, <1>15, <1>16, <1>17, <1>18,
           <1>19 DEF BatchInv

\* The delivery loop looks at an entry: what it reports is what the entry's
\* operation came to, and the backend has let go of the entry.
LEMMA DeliverOneKeeps == ASSUME BatchInv, DeliverOne PROVE BatchInv'
<1>1. /\ pc = "deliver" /\ i < used /\ todo > 0 /\ i' = i + 1
      /\ UNCHANGED <<cookie, future, efailed, ecanceled, used, pc, minNr,
                     timed, nextOp, backend, outcome, asked>>
  BY DEF DeliverOne
<1>2. /\ used \in 0 .. Capacity /\ i \in Nat /\ inflight \in Nat /\ todo \in Nat
      /\ edelivered \in [Entries -> BOOLEAN]
      /\ cookie \in [Entries -> Ops \cup {NoOp}]
      /\ future \in [Entries -> {"none", "ok", "err"}]
      /\ backend \subseteq Ops \X Entries
  BY DEF BatchInv, TypeOK
<1>3. i \in InUse /\ i \in Entries /\ InUse' = InUse
  BY <1>1, <1>2, BatchAssumption DEF InUse, Entries
<1>4. /\ Room' /\ Outwaited'
  BY <1>1 DEF Room, Outwaited
<1>5. CASE ~Ready(i)
  <2>1. UNCHANGED <<events, edelivered, inflight, todo>>
    BY <1>5 DEF DeliverOne
  <2>2. \A f : Busy(f)' = Busy(f)
    BY <1>1, <2>1 DEF Busy, InUse
  <2>3. TypeOK'
    BY <1>1, <1>2, <2>1 DEF BatchInv, TypeOK
  <2>4. (EventsOK /\ Told /\ Apart /\ Kept /\ Pending)'
    BY <1>1, <2>1, <2>2 DEF BatchInv, EventsOK, Told, Apart, Kept, Pending
  <2>5. (InflightExact /\ ReportHonest)'
    BY <1>1, <1>3, <2>1 DEF BatchInv, InflightExact, ReportHonest, Reports
  <2> QED BY <1>4, <2>3, <2>4, <2>5 DEF BatchInv
<1>6. CASE Ready(i)
  <2> DEFINE o == cookie[i]
  <2>1. /\ events' = [events EXCEPT ![o] = @ \cup {<<Cardinality(@), Status(i)>>}]
        /\ edelivered' = [edelivered EXCEPT ![i] = TRUE]
        /\ inflight' = inflight - 1 /\ todo' = todo - 1
    BY <1>6 DEF DeliverOne
  <2>2. Busy(i) /\ EntryDone(i)
    BY <1>3, <1>6 DEF Ready, Busy
  <2>3. /\ o \in Ops /\ o < nextOp /\ events[o] = {}
        /\ ecanceled[i] => o \in asked /\ outcome[o] # "none"
        /\ efailed[i] => future[i] = "none" /\ outcome[o] = "rejected"
        /\ future[i] # "none" => outcome[o] = future[i]
    BY <1>3, <2>2 DEF BatchInv, Told
  <2>4. events \in [Ops -> SUBSET (Nat \X {"complete", "failed", "canceled"})]
    BY DEF BatchInv, EventsOK
  <2>5. /\ events'[o] = {<<0, Status(i)>>}
        /\ \A p \in Ops \ {o} : events'[p] = events[p]
    BY <2>1, <2>3, <2>4, FS_EmptySet
  <2>6. Status(i) \in {"complete", "failed", "canceled"}
    BY DEF Status
  <2>7. \A f \in Entries : Busy(f)' <=> Busy(f) /\ f # i
    BY <1>1, <1>2, <1>3, <2>1 DEF Busy, InUse
  <2>8. \A f \in Entries : Busy(f) /\ f # i => cookie[f] # o
    BY <1>3, <2>2 DEF BatchInv, Apart
  <2>9. TypeOK'
    <3>1. edelivered' \in [Entries -> BOOLEAN]
      BY <1>2, <2>1
    <3>2. inflight' \in Nat
      <4> DEFINE S == {f \in InUse : ~edelivered[f]}
      <4>1. IsFiniteSet(S) /\ inflight = Cardinality(S) /\ i \in S
        BY <2>2, EntriesFinite DEF BatchInv, InflightExact, InUse, Busy
      <4>2. inflight # 0
        BY <4>1, FS_EmptySet
      <4> QED BY <1>2, <2>1, <4>2
    <3>3. todo' \in Nat /\ i' \in Nat
      BY <1>1, <1>2, <2>1
    <3> QED BY <1>1, <3>1, <3>2, <3>3 DEF BatchInv, TypeOK
  <2>10. EventsOK'
    <3>1. events' \in [Ops -> SUBSET (Nat \X {"complete", "failed", "canceled"})]
      <4>1. {<<0, Status(i)>>} \in SUBSET (Nat \X {"complete", "failed", "canceled"})
        BY <2>6
      <4> QED BY <2>1, <2>3, <2>4, <2>5, <4>1
    <3>2. \A p \in Ops : events'[p] = {} \/ \E x : events'[p] = {x}
      BY <2>5 DEF BatchInv, EventsOK
    <3>3. \A p \in Ops : p >= nextOp' => events'[p] = {}
      <4>1. nextOp' = nextOp /\ nextOp \in Nat
        BY <1>1, BatchAssumption DEF BatchInv, TypeOK
      <4>2. ~(o >= nextOp)
        BY <2>3, <4>1 DEF Ops
      <4> QED BY <2>5, <4>1, <4>2 DEF BatchInv, EventsOK
    <3> QED BY <3>1, <3>2, <3>3 DEF EventsOK
  <2>11. Told'
    <3> SUFFICES ASSUME NEW f \in Entries, Busy(f)'
                 PROVE  /\ cookie'[f] \in Ops /\ cookie'[f] < nextOp'
                        /\ events'[cookie'[f]] = {}
                        /\ ecanceled'[f] => /\ cookie'[f] \in asked'
                                            /\ outcome'[cookie'[f]] # "none"
                        /\ efailed'[f] => /\ future'[f] = "none"
                                          /\ outcome'[cookie'[f]] = "rejected"
                        /\ future'[f] # "none" =>
                             outcome'[cookie'[f]] = future'[f]
      BY DEF Told
    <3>1. Busy(f) /\ cookie[f] # o
      BY <2>7, <2>8
    <3>2. cookie[f] \in Ops /\ events'[cookie[f]] = events[cookie[f]]
      BY <2>5, <3>1 DEF BatchInv, Told
    <3> QED BY <1>1, <3>1, <3>2 DEF BatchInv, Told
  <2>12. Apart'
    BY <1>1, <2>7 DEF BatchInv, Apart
  <2>13. Kept'
    <3> SUFFICES ASSUME NEW p \in Ops, p < nextOp'
                 PROVE  \/ events'[p] # {}
                        \/ \E f \in Entries : Busy(f)' /\ cookie'[f] = p
      BY DEF Kept
    <3>1. CASE p = o
      BY <2>5, <3>1
    <3>2. CASE p # o
      <4>1. events[p] # {} \/ \E f \in Entries : Busy(f) /\ cookie[f] = p
        BY <1>1 DEF BatchInv, Kept
      <4> QED BY <1>1, <2>5, <2>7, <3>2, <4>1
    <3> QED BY <3>1, <3>2
  <2>14. Pending'
    <3> SUFFICES ASSUME NEW b \in backend
                 PROVE  /\ Busy(b[2])' /\ cookie[b[2]] = b[1]
                        /\ ~efailed[b[2]] /\ future[b[2]] = "none"
      BY <1>1 DEF Pending
    <3>1. /\ b[2] \in Entries /\ Busy(b[2]) /\ cookie[b[2]] = b[1]
          /\ ~efailed[b[2]] /\ future[b[2]] = "none"
      BY <1>2 DEF BatchInv, Pending
    <3>2. b[2] # i
      BY <2>2, <3>1 DEF EntryDone
    <3> QED BY <2>7, <3>1, <3>2
  <2>15. InflightExact'
    <3> DEFINE S == {f \in InUse : ~edelivered[f]}
    <3>1. IsFiniteSet(S) /\ inflight = Cardinality(S) /\ i \in S
      BY <2>2, EntriesFinite DEF BatchInv, InflightExact, InUse, Busy
    <3>2. S' = S \ {i}
      BY <1>3, <2>7 DEF Busy, InUse
    <3>3. Cardinality(S \ {i}) = Cardinality(S) - 1
      BY <3>1, FS_RemoveElement
    <3> QED BY <2>1, <3>1, <3>2, <3>3 DEF InflightExact
  <2>16. ReportHonest'
    <3> SUFFICES ASSUME NEW p \in Ops
                 PROVE  /\ "complete" \in Reports(p)' => outcome[p] = "ok"
                        /\ "failed" \in Reports(p)' =>
                             outcome[p] \in {"err", "rejected"}
                        /\ "canceled" \in Reports(p)' =>
                             p \in asked /\ outcome[p] # "none"
      BY <1>1 DEF ReportHonest
    <3>1. CASE p = o
      <4>1. Reports(p)' = {Status(i)}
        <5> DEFINE st == Status(i)
        <5>1. Reports(p)' = {ev[2] : ev \in {<<0, st>>}}
          BY <2>5, <3>1 DEF Reports
        <5>2. <<0, st>>[2] = st
          OBVIOUS
        <5> HIDE DEF st
        <5>3. {ev[2] : ev \in {<<0, st>>}} = {st}
          BY <5>2
        <5> QED BY <5>1, <5>3 DEF st
      <4>2. future[i] \in {"none", "ok", "err"}
        BY <1>2, <1>3
      <4> QED BY <2>2, <2>3, <3>1, <4>1, <4>2 DEF Status, EntryDone
    <3>2. CASE p # o
      <4>1. Reports(p)' = Reports(p)
        BY <2>5, <3>2 DEF Reports
      <4> QED BY <4>1 DEF BatchInv, ReportHonest
    <3> QED BY <3>1, <3>2
  <2> QED BY <1>4, <2>9, <2>10, <2>11, <2>12, <2>13, <2>14, <2>15, <2>16
      DEF BatchInv
<1> QED BY <1>5, <1>6

\* opends_batch_cancel marks an entry after it has waited for its result.
LEMMA CancelOneKeeps == ASSUME BatchInv, CancelOne PROVE BatchInv'
<1>1. /\ pc = "cancel" /\ i < used /\ i' = i + 1
      /\ UNCHANGED <<cookie, future, efailed, edelivered, used, inflight, pc,
                     todo, minNr, timed, nextOp, backend, outcome, events>>
  BY DEF CancelOne
<1>2. /\ used \in 0 .. Capacity /\ i \in Nat /\ asked \subseteq Ops
      /\ ecanceled \in [Entries -> BOOLEAN]
  BY DEF BatchInv, TypeOK
<1>3. i \in InUse /\ i \in Entries /\ InUse' = InUse
  BY <1>1, <1>2, BatchAssumption DEF InUse, Entries
<1>4. \A f : Busy(f)' = Busy(f)
  BY <1>1 DEF Busy, InUse
<1>5. \/ UNCHANGED <<ecanceled, asked>>
      \/ /\ Busy(i) /\ EntryDone(i)
         /\ ecanceled' = [ecanceled EXCEPT ![i] = TRUE]
         /\ asked' = asked \cup {cookie[i]}
  BY <1>3 DEF CancelOne, Busy, EntryDone, Awaited
<1>6. Busy(i) => /\ cookie[i] \in Ops
                 /\ EntryDone(i) => outcome[cookie[i]] # "none"
  <2>1. future[i] \in {"none", "ok", "err"}
    BY <1>3 DEF BatchInv, TypeOK
  <2> QED BY <1>3, <2>1 DEF BatchInv, Told, EntryDone
<1>7. asked \subseteq asked' /\ asked' \subseteq Ops
  BY <1>2, <1>5, <1>6
<1>8. TypeOK'
  <2>1. ecanceled' \in [Entries -> BOOLEAN] /\ i' \in Nat
    <3>1. i' \in Nat
      BY <1>1, <1>2
    <3>2. CASE UNCHANGED <<ecanceled, asked>>
      BY <1>2, <3>1, <3>2
    <3>3. CASE ecanceled' = [ecanceled EXCEPT ![i] = TRUE]
      BY <1>2, <3>1, <3>3
    <3> QED BY <1>5, <3>2, <3>3
  <2> QED BY <1>1, <1>7, <2>1 DEF BatchInv, TypeOK
<1>9. (EventsOK /\ Apart /\ Kept /\ Pending /\ Room /\ Outwaited)'
  BY <1>1, <1>4
  DEF BatchInv, EventsOK, Apart, Kept, Pending, Room, Outwaited
<1>10. Told'
  <2> SUFFICES ASSUME NEW f \in Entries, Busy(f), ecanceled'[f]
               PROVE  cookie[f] \in asked' /\ outcome[cookie[f]] # "none"
    BY <1>1, <1>4 DEF BatchInv, Told
  <2>1. CASE ecanceled[f]
    BY <1>7, <2>1 DEF BatchInv, Told
  <2>2. CASE ~ecanceled[f]
    <3>1. f = i /\ EntryDone(i) /\ asked' = asked \cup {cookie[i]}
      BY <1>2, <1>5, <2>2
    <3> QED BY <1>6, <3>1
  <2> QED BY <2>1, <2>2
<1>11. InflightExact'
  BY <1>1, <1>3 DEF BatchInv, InflightExact
<1>12. ReportHonest'
  BY <1>1, <1>7 DEF BatchInv, ReportHonest, Reports
<1> QED BY <1>8, <1>9, <1>10, <1>11, <1>12 DEF BatchInv

\* The backend writes a future, at whatever moment: the entry it is in still
\* holds the operation.
LEMMA CompleteKeeps == ASSUME BatchInv, Complete PROVE BatchInv'
<1>1. PICK b \in backend, r \in {"ok", "err"} :
        /\ backend' = backend \ {b}
        /\ outcome' = [outcome EXCEPT ![b[1]] = r]
        /\ future' = [future EXCEPT ![b[2]] = r]
        /\ UNCHANGED <<cookie, efailed, ecanceled, edelivered, used, inflight,
                       pc, i, todo, minNr, timed, nextOp, asked, events>>
  BY DEF Complete
<1> DEFINE o == b[1]
           e == b[2]
<1>2. /\ future \in [Entries -> {"none", "ok", "err"}]
      /\ outcome \in [Ops -> {"none", "rejected", "ok", "err"}]
      /\ backend \subseteq Ops \X Entries
  BY DEF BatchInv, TypeOK
<1>3. o \in Ops /\ e \in Entries
  BY <1>2
<1>4. Busy(e) /\ cookie[e] = o /\ ~efailed[e] /\ future[e] = "none"
  BY DEF BatchInv, Pending
<1> HIDE DEF o, e
<1>5. /\ \A f : Busy(f)' = Busy(f)
      /\ InUse' = InUse
  BY <1>1 DEF Busy, InUse
<1>6. \A f \in Entries : Busy(f) /\ f # e => cookie[f] # o
  BY <1>3, <1>4 DEF BatchInv, Apart
<1>7. /\ future'[e] = r /\ outcome'[o] = r
      /\ \A f \in Entries \ {e} : future'[f] = future[f]
      /\ \A p \in Ops \ {o} : outcome'[p] = outcome[p]
  BY <1>1, <1>2, <1>3 DEF o, e
<1>8. events[o] = {}
  BY <1>3, <1>4 DEF BatchInv, Told
<1>9. TypeOK'
  <2>1. /\ future' \in [Entries -> {"none", "ok", "err"}]
        /\ outcome' \in [Ops -> {"none", "rejected", "ok", "err"}]
        /\ backend' \subseteq Ops \X Entries
    BY <1>1, <1>2, <1>3 DEF o, e
  <2> QED BY <1>1, <2>1 DEF BatchInv, TypeOK
<1>10. (EventsOK /\ Apart /\ Kept /\ Room)'
  BY <1>1, <1>5 DEF BatchInv, EventsOK, Apart, Kept, Room
<1>11. Told'
  <2> SUFFICES ASSUME NEW f \in Entries, Busy(f)
               PROVE  /\ ecanceled[f] => cookie[f] \in asked /\ outcome'[cookie[f]] # "none"
                      /\ efailed[f] => future'[f] = "none" /\ outcome'[cookie[f]] = "rejected"
                      /\ future'[f] # "none" => outcome'[cookie[f]] = future'[f]
    BY <1>1, <1>5 DEF BatchInv, Told
  <2>1. CASE f = e
    BY <1>3, <1>4, <1>7, <2>1 DEF BatchInv, Told
  <2>2. CASE f # e
    <3>1. cookie[f] \in Ops \ {o}
      BY <1>6, <2>2 DEF BatchInv, Told
    <3> QED BY <1>7, <2>2, <3>1 DEF BatchInv, Told
  <2> QED BY <2>1, <2>2
<1>12. Pending'
  <2> SUFFICES ASSUME NEW c \in backend'
               PROVE  /\ Busy(c[2]) /\ cookie[c[2]] = c[1]
                      /\ ~efailed[c[2]] /\ future'[c[2]] = "none"
    BY <1>1, <1>5 DEF Pending
  <2>1. /\ c \in backend /\ c # b /\ Busy(c[2]) /\ cookie[c[2]] = c[1]
        /\ ~efailed[c[2]] /\ future[c[2]] = "none"
    BY <1>1 DEF BatchInv, Pending
  <2>2. c[2] \in Entries /\ c = <<c[1], c[2]>> /\ b = <<o, e>>
    BY <1>2, <2>1 DEF o, e
  <2>3. c[2] # e
    BY <1>4, <2>1, <2>2
  <2> QED BY <1>7, <2>1, <2>2, <2>3
<1>13. Outwaited'
  <2>1. \A f \in InUse : EntryDone(f) => EntryDone(f)'
    BY <1>1, <1>4, <1>7 DEF EntryDone, InUse
  <2> QED BY <1>1, <1>5, <2>1 DEF BatchInv, Outwaited
<1>14. InflightExact'
  BY <1>1, <1>5 DEF BatchInv, InflightExact
<1>15. ReportHonest'
  BY <1>1, <1>7, <1>8 DEF BatchInv, ReportHonest, Reports
<1> QED BY <1>9, <1>10, <1>11, <1>12, <1>13, <1>14, <1>15 DEF BatchInv

\* Every step keeps the invariant.
LEMMA BatchNext == BatchInv /\ [Next]_vars => BatchInv'
<1> SUFFICES ASSUME BatchInv, [Next]_vars PROVE BatchInv'
  OBVIOUS
<1>1. CASE UNCHANGED vars
  <2>1. \A e : Busy(e)' = Busy(e)
    BY <1>1 DEF vars, entryVars, Busy, InUse
  <2>2. (EventsOK /\ Told /\ Apart /\ Kept /\ Pending)'
    BY <1>1, <2>1 DEF BatchInv, EventsOK, Told, Apart, Kept, Pending, vars,
       entryVars
  <2>3. (TypeOK /\ Room /\ Outwaited /\ InflightExact /\ ReportHonest)'
    BY <1>1 DEF BatchInv, TypeOK, Room, Outwaited, InflightExact,
       ReportHonest, Reports, EntryDone, InUse, vars, entryVars
  <2> QED BY <2>2, <2>3 DEF BatchInv
<1>2. CASE SubmitOne
  BY <1>2, SubmitOneKeeps
<1>3. CASE DeliverOne
  BY <1>3, DeliverOneKeeps
<1>4. CASE CancelOne
  BY <1>4, CancelOneKeeps
<1>5. CASE Complete
  BY <1>5, CompleteKeeps
<1>6. CASE \/ Submit \/ GetStatus \/ StopWaiting \/ DeliverEnds
           \/ Cancel \/ CancelEnds \/ Destroy \/ DestroyOne \/ DestroyEnds
  BY <1>6, OwnerMoves
<1> QED BY <1>1, <1>2, <1>3, <1>4, <1>5, <1>6 DEF Next, Owner

\* The inductive invariant holds of every reachable state.
LEMMA BatchSafe == Spec => []BatchInv
BY BatchInit, BatchNext, PTL DEF Spec
-----------------------------------------------------------------------------
\* opends_batch_submit and opends_batch_get_status compare with a count that
\* is exact, whatever was submitted, delivered, cancelled and reused before.
THEOREM BatchCountExact == Spec => [](TypeOK /\ InflightExact)
<1>1. BatchInv => TypeOK /\ InflightExact
  BY DEF BatchInv
<1> QED BY <1>1, BatchSafe, PTL

\* No operation of a batch is reported twice and none is lost: until its
\* report, exactly one entry holds it.
THEOREM BatchReportsOnce == Spec => []ReportedOnce
<1>1. ASSUME BatchInv PROVE ReportedOnce
  <2> SUFFICES ASSUME NEW o \in Ops, o < nextOp
               PROVE  Cardinality(events[o])
                        + Cardinality({e \in InUse : cookie[e] = o /\ ~edelivered[e]})
                        = 1
    BY DEF ReportedOnce
  <2> DEFINE H == {e \in InUse : cookie[e] = o /\ ~edelivered[e]}
  <2>1. H = {e \in Entries : Busy(e) /\ cookie[e] = o}
    BY DEF Busy, InUse
  <2>2. CASE events[o] = {}
    <3>1. PICK e \in Entries : Busy(e) /\ cookie[e] = o
      BY <1>1, <2>2 DEF BatchInv, Kept
    <3>2. H = {e}
      BY <1>1, <2>1, <3>1 DEF BatchInv, Apart
    <3> HIDE DEF H
    <3>3. Cardinality(H) = 1 /\ Cardinality(events[o]) = 0
      BY <2>2, <3>2, FS_Singleton, FS_EmptySet
    <3> QED BY <3>3 DEF H
  <2>3. CASE events[o] # {}
    <3>1. PICK x : events[o] = {x}
      BY <1>1, <2>3 DEF BatchInv, EventsOK
    <3>2. H = {}
      BY <1>1, <2>1, <2>3 DEF BatchInv, Told
    <3> HIDE DEF H
    <3>3. Cardinality(H) = 0 /\ Cardinality(events[o]) = 1
      BY <3>1, <3>2, FS_Singleton, FS_EmptySet
    <3> QED BY <3>3 DEF H
  <2> QED BY <2>2, <2>3
<1> QED BY <1>1, BatchSafe, PTL

\* The status an event carries is what became of its operation, and an
\* operation is reported cancelled only if a cancel went over it.
THEOREM BatchReportsHonest == Spec => []ReportHonest
<1>1. BatchInv => ReportHonest
  BY DEF BatchInv
<1> QED BY <1>1, BatchSafe, PTL

\* The backend never writes a future whose entry has been given to another
\* operation, nor one that opends_batch_destroy has freed.
THEOREM BatchFutureOwned == Spec => []FutureOwned
<1>1. BatchInv => FutureOwned
  BY DEF BatchInv, Pending, Outwaited, FutureOwned, Busy
<1> QED BY <1>1, BatchSafe, PTL
=============================================================================
