--------------------------- MODULE StreamRegistry ---------------------------
(***************************************************************************)
(* Registration of accelerator streams and the lock-free lookup of the     *)
(* submit path: opends_stream_register, opends_stream_deregister and       *)
(* opends_stream_get of src/src/opends_aisio.c over the open-addressing    *)
(* map of src/src/ds_stream_map.h.  Registrations are serialised by        *)
(* reg_lock; lookups take no lock.                                         *)
(***************************************************************************)
EXTENDS Integers, FiniteSets

CONSTANTS Threads, Keys,
          MaxStreams,  \* MAX_STREAMS
          Cap,         \* STREAM_MAP_SIZE
          Hash,        \* ds_stream_map_hash, any function into the table
          Null, NoThread

ASSUME RegistryAssumption ==
  /\ MaxStreams \in Nat \ {0} /\ Cap = 2 * MaxStreams
  /\ Hash \in [Keys -> 0 .. Cap - 1]
  /\ Null \notin Keys /\ NoThread \notin Threads

Cells   == 0 .. Cap - 1
Indices == 0 .. MaxStreams - 1
Miss    == -1

VARIABLES
  key, idx,   \* the map's entries
  n,          \* n_streams
  owner,      \* owner[i]: the key streams[i] was set up for
  lock,       \* reg_lock
  pc,         \* where a thread is in a call
  want,       \* the stream handle of its call
  at,         \* its probe number p in a lookup, or the cell of its insert
  res,        \* what its last lookup returned
  ret,        \* what its last registration returned
  sure,       \* the stream was in the map when its lookup began
  live        \* streams registered and not deregistered

vars == <<key, idx, n, owner, lock, pc, want, at, res, ret, sure, live>>

Init ==
  /\ key = [c \in Cells |-> Null] /\ idx = [c \in Cells |-> 0]
  /\ n = 0
  /\ owner = [i \in Indices |-> Null]
  /\ lock = NoThread
  /\ pc = [t \in Threads |-> "idle"]
  /\ want = [t \in Threads |-> Null]
  /\ at = [t \in Threads |-> 0]
  /\ res = [t \in Threads |-> Miss]
  /\ ret = [t \in Threads |-> "none"]
  /\ sure = [t \in Threads |-> FALSE]
  /\ live = {}

\* (h + p) & mask
Cell(k, p) == (Hash[k] + p) % Cap

\* The walk of ds_stream_map_get and _put for k goes on past a cell.
Occupied(c, k) == key[c] \notin {k, Null}

\* k's cell can be reached: the walk from its hash finds it.
Reaches(k, p) ==
  key[Cell(k, p)] = k /\ \A q \in 0 .. p - 1 : Occupied(Cell(k, q), k)
InMap(k) == \E p \in Cells : Reaches(k, p)

\* Probe p of an insert of k finds the first empty cell.
FirstEmpty(k, p) ==
  key[Cell(k, p)] = Null /\ \A q \in 0 .. p - 1 : key[Cell(k, q)] # Null
-----------------------------------------------------------------------------
(***************************************************************************)
(* Faulty variants of definitions below, paired with the property that     *)
(* catches each in PROJECT.json.                                           *)
(***************************************************************************)
\* ds_stream_map_put does not store the index.
DropsIndex(t) ==
  /\ pc[t] = "put"
  /\ \E p \in Cells : /\ FirstEmpty(want[t], p)
                     /\ at' = [at EXCEPT ![t] = Cell(want[t], p)]
  /\ pc' = [pc EXCEPT ![t] = "publish"]
  /\ UNCHANGED <<key, idx, n, owner, lock, want, res, ret, sure, live>>
\* ds_stream_map_put starts at cell 0.
PutFromZero(t) ==
  /\ pc[t] = "put"
  /\ \E c \in Cells : /\ key[c] = Null /\ \A d \in 0 .. c - 1 : key[d] # Null
                     /\ idx' = [idx EXCEPT ![c] = n]
                     /\ at' = [at EXCEPT ![t] = c]
  /\ pc' = [pc EXCEPT ![t] = "publish"]
  /\ UNCHANGED <<key, n, owner, lock, want, res, ret, sure, live>>
\* The walk stops at the first cell that holds another key.
BadGoesOn(c, k) == FALSE
\* A registration does not look the stream up.
BadKnown(k) == FALSE
\* n_streams > MAX_STREAMS instead of >=.
BadRoom == n <= MaxStreams
\* A failed allocation takes back a stream that was counted.
FailCountsDown(t) ==
  /\ pc[t] = "register" /\ lock = NoThread
  /\ ~InMap(want[t]) /\ n \in 1 .. MaxStreams - 1
  /\ owner' = [owner EXCEPT ![n] = Null]
  /\ n' = n - 1
  /\ ret' = [ret EXCEPT ![t] = "nomem"]
  /\ pc' = [pc EXCEPT ![t] = "idle"]
  /\ UNCHANGED <<key, idx, lock, want, at, res, sure, live>>
-----------------------------------------------------------------------------
\* opends_stream_register is called.
Register(t) ==
  /\ pc[t] = "idle"
  /\ \E k \in Keys : want' = [want EXCEPT ![t] = k]
  /\ pc' = [pc EXCEPT ![t] = "register"]
  /\ UNCHANGED <<key, idx, n, owner, lock, at, res, ret, sure, live>>

\* ds_stream_map_get under reg_lock, where no insert is going on.
Known(k) == InMap(k)

Returns(t, r) ==
  /\ ret' = [ret EXCEPT ![t] = r]
  /\ pc' = [pc EXCEPT ![t] = "idle"]
  /\ live' = IF r = "ok" THEN live \cup {want[t]} ELSE live

\* The stream is already in the map: nothing to do.
AlreadyThere(t) ==
  /\ pc[t] = "register" /\ lock = NoThread
  /\ Known(want[t])
  /\ Returns(t, "ok")
  /\ UNCHANGED <<key, idx, n, owner, lock, want, at, res, sure>>

HasRoom == n < MaxStreams

NoRoom(t) ==
  /\ pc[t] = "register" /\ lock = NoThread
  /\ ~Known(want[t]) /\ ~HasRoom
  /\ Returns(t, "full")
  /\ UNCHANGED <<key, idx, n, owner, lock, want, at, res, sure>>

\* streams[n] gets its gate word, next_seq = 0 and its bounce buffer.
SetUp(t) ==
  /\ pc[t] = "register" /\ lock = NoThread
  /\ ~Known(want[t]) /\ HasRoom
  /\ lock' = t
  /\ owner' = [owner EXCEPT ![n] = want[t]]
  /\ pc' = [pc EXCEPT ![t] = "put"]
  /\ UNCHANGED <<key, idx, n, want, at, res, ret, sure, live>>

\* stream_bounce_alloc fails: streams[n] is left unused.
AllocFails(t) ==
  /\ pc[t] = "register" /\ lock = NoThread
  /\ ~Known(want[t]) /\ HasRoom
  /\ owner' = [owner EXCEPT ![n] = Null]
  /\ Returns(t, "nomem")
  /\ UNCHANGED <<key, idx, n, lock, want, at, res, sure>>

\* ds_stream_map_put: the index goes into the first empty cell.  There is
\* one, as the map has room for twice as many streams; without one the
\* registration would free the bounce buffer and fail.
PutIndex(t) ==
  /\ pc[t] = "put"
  /\ \E p \in Cells : /\ FirstEmpty(want[t], p)
                     /\ idx' = [idx EXCEPT ![Cell(want[t], p)] = n]
                     /\ at' = [at EXCEPT ![t] = Cell(want[t], p)]
  /\ pc' = [pc EXCEPT ![t] = "publish"]
  /\ UNCHANGED <<key, n, owner, lock, want, res, ret, sure, live>>

\* Then the key is stored with release; n_streams moves on; unlock.
PublishKey(t) ==
  /\ pc[t] = "publish"
  /\ key' = [key EXCEPT ![at[t]] = want[t]]
  /\ n' = n + 1
  /\ lock' = NoThread
  /\ Returns(t, "ok")
  /\ UNCHANGED <<idx, owner, want, at, res, sure>>

\* opends_stream_deregister: the driver forgets nothing.
Deregister(t) ==
  /\ pc[t] = "idle"
  /\ \E k \in live : live' = live \ {k}
  /\ UNCHANGED <<key, idx, n, owner, lock, pc, want, at, res, ret, sure>>

\* opends_stream_get is called by a submit, without the lock.
Lookup(t) ==
  /\ pc[t] = "idle"
  /\ \E k \in Keys : /\ want' = [want EXCEPT ![t] = k]
                     /\ sure' = [sure EXCEPT ![t] = \E c \in Cells : key[c] = k]
  /\ at' = [at EXCEPT ![t] = 0]
  /\ pc' = [pc EXCEPT ![t] = "probe"]
  /\ UNCHANGED <<key, idx, n, owner, lock, res, ret, live>>

\* The walk goes on past a cell that holds another key.
GoesOn(c, k) == Occupied(c, k)

ProbePast(t) ==
  LET c == Cell(want[t], at[t])
  IN /\ pc[t] = "probe" /\ at[t] < Cap /\ GoesOn(c, want[t])
     /\ at' = [at EXCEPT ![t] = @ + 1]
     /\ UNCHANGED <<key, idx, n, owner, lock, pc, want, res, ret, sure, live>>

\* The walk ends at the key, at an empty cell, or after the whole table.
ProbeEnds(t) ==
  LET c == Cell(want[t], at[t])
  IN /\ pc[t] = "probe" /\ (at[t] >= Cap \/ ~GoesOn(c, want[t]))
     /\ res' = [res EXCEPT ![t] = IF at[t] < Cap /\ key[c] = want[t]
                                  THEN idx[c] ELSE Miss]
     /\ pc' = [pc EXCEPT ![t] = "got"]
     /\ UNCHANGED <<key, idx, n, owner, lock, want, at, ret, sure, live>>

\* The submit goes on with what it got, and returns.
UseResult(t) ==
  /\ pc[t] = "got"
  /\ pc' = [pc EXCEPT ![t] = "idle"]
  /\ UNCHANGED <<key, idx, n, owner, lock, want, at, res, ret, sure, live>>

Step(t) ==
  \/ Register(t) \/ AlreadyThere(t) \/ NoRoom(t) \/ SetUp(t) \/ AllocFails(t)
  \/ PutIndex(t) \/ PublishKey(t) \/ Deregister(t)
  \/ Lookup(t) \/ ProbePast(t) \/ ProbeEnds(t) \/ UseResult(t)

Next == \E t \in Threads : Step(t)

Spec == Init /\ [][Next]_vars
-----------------------------------------------------------------------------
TypeOK ==
  /\ key \in [Cells -> Keys \cup {Null}] /\ idx \in [Cells -> Indices]
  /\ n \in 0 .. MaxStreams
  /\ owner \in [Indices -> Keys \cup {Null}]
  /\ lock \in Threads \cup {NoThread}
  /\ pc \in [Threads -> {"idle", "register", "put", "publish", "probe", "got"}]
  /\ want \in [Threads -> Keys \cup {Null}]
  /\ at \in [Threads -> 0 .. Cap]
  /\ res \in [Threads -> Indices \cup {Miss}]
  /\ ret \in [Threads -> {"none", "ok", "full", "nomem"}]
  /\ sure \in [Threads -> BOOLEAN]
  /\ live \subseteq Keys

\* The invariant the lock-free reader rests on (ds_stream_map.h:40-47): a key
\* in the map is on the walk from its hash.
OnPath == \A c \in Cells : key[c] # Null
            => \E p \in Cells : c = Cell(key[c], p) /\ Reaches(key[c], p)

\* A lookup of a registered stream finds it, whatever is inserted meanwhile.
RegisteredIsFound ==
  \A t \in Threads : pc[t] = "got" /\ sure[t] => res[t] # Miss

\* A hit is the stream's own state, set up and counted, or about to be.
HitIsOwn ==
  \A t \in Threads : pc[t] = "got" /\ res[t] # Miss => owner[res[t]] = want[t]

\* Threads that register one stream at the same time get one state for it.
OneStatePerStream ==
  /\ \A c, d \in Cells : key[c] # Null /\ key[c] = key[d] => c = d
  /\ \A i, j \in 0 .. n - 1 : owner[i] = owner[j] => i = j

\* The gate word and next_seq of a stream in the map are never set up again.
StateIsKept ==
  [][\A c \in Cells : key[c] # Null => owner'[idx[c]] = owner[idx[c]]]_vars
=============================================================================
