------------------------------- MODULE Batch -------------------------------
(***************************************************************************)
(* Batch I/O over the asynchronous calls (src/src/opends_batch_async.c).   *)
(* One owner calls the batch functions (a batch is not thread-safe) while  *)
(* the backend completes the futures, which live in the batch's entries,   *)
(* at any moment.  An operation is a number, its cookie.                   *)
(***************************************************************************)
EXTENDS Naturals, FiniteSets

CONSTANTS Capacity,  \* nr of opends_batch_setup
          MaxNr,     \* bound: nr of a submit or of a get_status
          NOps       \* bound: operations submitted

ASSUME BatchAssumption ==
  Capacity \in Nat \ {0} /\ MaxNr \in Nat /\ NOps \in Nat

Ops     == 1 .. NOps
NoOp    == 0
Entries == 0 .. Capacity - 1

VARIABLES
  cookie, future,               \* struct batch_entry
  efailed, ecanceled, edelivered,
  used, inflight,               \* struct async_batch
  pc,        \* where the owner is
  i, todo,   \* loop index; operations left to submit, or events left to fill
  minNr,     \* min_nr of the get_status in progress
  timed,     \* whether it has a timeout
  nextOp,
  backend,   \* the backend holds <<op, entry>>: it will write that future
  outcome,   \* what became of each operation: "none", "rejected", "ok", "err"
  asked,     \* operations that an opends_batch_cancel has gone over
  events     \* events[o]: the statuses reported for o

entryVars == <<cookie, future, efailed, ecanceled, edelivered>>
vars == <<entryVars, used, inflight, pc, i, todo, minNr, timed, nextOp,
          backend, outcome, asked, events>>

InUse == {e \in Entries : e < used}

\* opends_batch_setup: calloc.
Init ==
  /\ cookie = [e \in Entries |-> NoOp]
  /\ future = [e \in Entries |-> "none"]
  /\ efailed = [e \in Entries |-> FALSE]
  /\ ecanceled = [e \in Entries |-> FALSE]
  /\ edelivered = [e \in Entries |-> FALSE]
  /\ used = 0 /\ inflight = 0
  /\ pc = "idle" /\ i = 0 /\ todo = 0 /\ minNr = 0 /\ timed = FALSE
  /\ nextOp = 1
  /\ backend = {}
  /\ outcome = [o \in Ops |-> "none"]
  /\ asked = {}
  /\ events = [o \in Ops |-> {}]
-----------------------------------------------------------------------------
(***************************************************************************)
(* Faulty variants of definitions below, paired with the property that     *)
(* catches each in PROJECT.json.                                           *)
(***************************************************************************)
\* A slot is taken again as soon as its operation is done.
DoneReusable(e) == efailed[e] \/ future[e] # "none"
\* min_nr is checked against *nr only.
BadMayAsk(min, max) == min <= max
\* get_status does not look at delivered.
BadReady(e) == e < used /\ (efailed[e] \/ future[e] # "none")
\* get_status reports a future that was never written.
EagerReady(e) == e < used /\ ~edelivered[e]
\* The status is taken from failed alone.
BadStatus(e) ==
  IF ecanceled[e] THEN "canceled"
  ELSE IF efailed[e] THEN "failed" ELSE "complete"
-----------------------------------------------------------------------------
\* entry_done
EntryDone(e) == efailed[e] \/ future[e] # "none"

\* A slot frees once its completion is delivered.
Reusable(e) == edelivered[e]

\* entry_take: the first reusable entry, or the next unused one.
Taken(e) ==
  LET free == {f \in InUse : Reusable(f)}
  IN IF free = {} THEN e = used
                  ELSE e \in free /\ \A f \in free : e <= f

\* nr <= capacity - inflight; the unsigned difference is never negative.
Fits(n) == n <= Capacity - inflight

\* opends_batch_submit is called; with too many operations it returns
\* OPENDS_BATCH_FULL and changes nothing.
Submit ==
  /\ pc = "idle"
  /\ \E n \in 1 .. MaxNr : /\ Fits(n)
                           /\ nextOp + n - 1 <= NOps
                           /\ todo' = n
  /\ pc' = "submit"
  /\ UNCHANGED <<entryVars, used, inflight, i, minNr, timed, nextOp, backend,
                 outcome, asked, events>>

\* One turn of its loop: take an entry, clear it, start the operation.
SubmitOne ==
  \E e \in 0 .. Capacity :
    /\ pc = "submit" /\ todo > 0 /\ Taken(e)
    /\ used' = IF e = used THEN used + 1 ELSE used
    /\ cookie' = [cookie EXCEPT ![e] = nextOp]
    /\ future' = [future EXCEPT ![e] = "none"]
    /\ ecanceled' = [ecanceled EXCEPT ![e] = FALSE]
    /\ edelivered' = [edelivered EXCEPT ![e] = FALSE]
    /\ \E accepted \in BOOLEAN :
         /\ efailed' = [efailed EXCEPT ![e] = ~accepted]
         /\ IF accepted
            THEN backend' = backend \cup {<<nextOp, e>>} /\ UNCHANGED outcome
            ELSE /\ outcome' = [outcome EXCEPT ![nextOp] = "rejected"]
                 /\ UNCHANGED backend
    /\ inflight' = inflight + 1
    /\ nextOp' = nextOp + 1
    /\ todo' = todo - 1
    /\ pc' = IF todo = 1 THEN "idle" ELSE "submit"
    /\ UNCHANGED <<i, minNr, timed, asked, events>>

MayAsk(min, max) == min <= max /\ min <= inflight

\* opends_batch_get_status is called; otherwise it returns
\* OPENDS_INVALID_VALUE and changes nothing.
GetStatus ==
  /\ pc = "idle"
  /\ \E min, max \in 0 .. MaxNr : /\ MayAsk(min, max)
                                  /\ minNr' = min /\ todo' = max
  /\ \E t \in BOOLEAN : timed' = t
  /\ pc' = "wait"
  /\ UNCHANGED <<entryVars, used, inflight, i, nextOp, backend, outcome, asked,
                 events>>

Ready(e) == e < used /\ ~edelivered[e] /\ EntryDone(e)

\* The polling loop ends: min_nr are ready, or the timeout has expired.
StopWaiting ==
  /\ pc = "wait"
  /\ Cardinality({e \in Entries : Ready(e)}) >= minNr \/ timed
  /\ pc' = "deliver" /\ i' = 0
  /\ UNCHANGED <<entryVars, used, inflight, todo, minNr, timed, nextOp,
                 backend, outcome, asked, events>>

Status(e) ==
  IF ecanceled[e] THEN "canceled"
  ELSE IF efailed[e] \/ future[e] = "err" THEN "failed" ELSE "complete"

\* The delivery loop looks at entry i.
DeliverOne ==
  /\ pc = "deliver" /\ i < used /\ todo > 0
  /\ i' = i + 1
  /\ IF Ready(i)
     THEN /\ events' = [events EXCEPT ![cookie[i]] =
                          @ \cup {<<Cardinality(@), Status(i)>>}]
          /\ edelivered' = [edelivered EXCEPT ![i] = TRUE]
          /\ inflight' = inflight - 1
          /\ todo' = todo - 1
     ELSE UNCHANGED <<events, edelivered, inflight, todo>>
  /\ UNCHANGED <<cookie, future, efailed, ecanceled, used, pc, minNr, timed,
                 nextOp, backend, outcome, asked>>

DeliverEnds ==
  /\ pc = "deliver" /\ (i >= used \/ todo = 0)
  /\ pc' = "idle" /\ todo' = 0 /\ i' = 0 /\ minNr' = 0 /\ timed' = FALSE
  /\ UNCHANGED <<entryVars, used, inflight, nextOp, backend, outcome, asked,
                 events>>

\* opends_async_await on entry e's future returns.
Awaited(e) == future[e] # "none"

\* opends_batch_cancel and opends_batch_destroy are called.
Cancel ==
  /\ pc = "idle" /\ pc' = "cancel" /\ i' = 0
  /\ UNCHANGED <<entryVars, used, inflight, todo, minNr, timed, nextOp,
                 backend, outcome, asked, events>>

CancelOne ==
  /\ pc = "cancel" /\ i < used
  /\ \/ edelivered[i] /\ UNCHANGED <<ecanceled, asked>>
     \/ /\ ~edelivered[i] /\ (efailed[i] \/ Awaited(i))
        /\ ecanceled' = [ecanceled EXCEPT ![i] = TRUE]
        /\ asked' = asked \cup {cookie[i]}
  /\ i' = i + 1
  /\ UNCHANGED <<cookie, future, efailed, edelivered, used, inflight, pc, todo,
                 minNr, timed, nextOp, backend, outcome, events>>

CancelEnds ==
  /\ pc = "cancel" /\ i >= used
  /\ pc' = "idle" /\ i' = 0
  /\ UNCHANGED <<entryVars, used, inflight, todo, minNr, timed, nextOp,
                 backend, outcome, asked, events>>

Destroy ==
  /\ pc = "idle" /\ pc' = "destroy" /\ i' = 0
  /\ UNCHANGED <<entryVars, used, inflight, todo, minNr, timed, nextOp,
                 backend, outcome, asked, events>>

DestroyOne ==
  /\ pc = "destroy" /\ i < used
  /\ efailed[i] \/ Awaited(i)
  /\ i' = i + 1
  /\ UNCHANGED <<entryVars, used, inflight, pc, todo, minNr, timed, nextOp,
                 backend, outcome, asked, events>>

\* The entries and the batch are freed.
DestroyEnds ==
  /\ pc = "destroy" /\ i >= used
  /\ pc' = "gone"
  /\ UNCHANGED <<entryVars, used, inflight, i, todo, minNr, timed, nextOp,
                 backend, outcome, asked, events>>

\* The backend completes an operation: async_future_complete.
Complete ==
  \E b \in backend, r \in {"ok", "err"} :
    /\ backend' = backend \ {b}
    /\ outcome' = [outcome EXCEPT ![b[1]] = r]
    /\ future' = [future EXCEPT ![b[2]] = r]
    /\ UNCHANGED <<cookie, efailed, ecanceled, edelivered, used, inflight, pc,
                   i, todo, minNr, timed, nextOp, asked, events>>

Owner ==
  \/ SubmitOne \/ StopWaiting \/ DeliverOne \/ DeliverEnds
  \/ CancelOne \/ CancelEnds \/ DestroyOne \/ DestroyEnds

Next ==
  Submit \/ GetStatus \/ Cancel \/ Destroy \/ Owner \/ Complete

Spec == Init /\ [][Next]_vars

\* The owner goes on inside a call, and the backend completes what it holds.
FairSpec == Spec /\ WF_vars(Owner) /\ WF_vars(Complete)
-----------------------------------------------------------------------------
TypeOK ==
  /\ cookie \in [Entries -> Ops \cup {NoOp}]
  /\ future \in [Entries -> {"none", "ok", "err"}]
  /\ efailed \in [Entries -> BOOLEAN] /\ ecanceled \in [Entries -> BOOLEAN]
  /\ edelivered \in [Entries -> BOOLEAN]
  /\ used \in 0 .. Capacity /\ inflight \in Nat
  /\ pc \in {"idle", "submit", "wait", "deliver", "cancel", "destroy", "gone"}
  /\ i \in Nat /\ todo \in Nat /\ minNr \in Nat /\ timed \in BOOLEAN
  /\ nextOp \in 1 .. NOps + 1
  /\ backend \subseteq Ops \X Entries
  /\ outcome \in [Ops -> {"none", "rejected", "ok", "err"}]
  /\ asked \subseteq Ops

Reports(o) == {ev[2] : ev \in events[o]}

\* inflight counts the entries whose completion has not been delivered: a
\* submit is refused exactly when there are not enough free slots, and
\* entry_take never runs past the array.
InflightExact ==
  inflight = Cardinality({e \in InUse : ~edelivered[e]})

\* Each operation is reported exactly once: until then its entry holds it.
ReportedOnce ==
  \A o \in Ops : o < nextOp =>
    Cardinality(events[o])
      + Cardinality({e \in InUse : cookie[e] = o /\ ~edelivered[e]}) = 1

\* What is reported is what happened: complete for success, failed for a
\* rejected or failed operation, canceled only after a cancel.
ReportHonest ==
  \A o \in Ops :
    /\ "complete" \in Reports(o) => outcome[o] = "ok"
    /\ "failed" \in Reports(o) => outcome[o] \in {"err", "rejected"}
    /\ "canceled" \in Reports(o) => o \in asked /\ outcome[o] # "none"

\* The backend writes a future only while its entry still belongs to the
\* operation, and never once the batch is freed.
FutureOwned ==
  /\ \A b \in backend : cookie[b[2]] = b[1] /\ ~edelivered[b[2]]
  /\ pc = "gone" => backend = {}

\* Every call returns; a get_status without timeout too, since it never
\* waits for more operations than there are in flight.
BatchCallsReturn == pc # "idle" ~> pc \in {"idle", "gone"}
=============================================================================
