------------------------ MODULE StreamRegistryProofs ------------------------
(***************************************************************************)
(* The lock-free lookup of registered streams is right for every number of *)
(* threads and streams, every table size and every hash function.          *)
(***************************************************************************)
EXTENDS StreamRegistry, TLAPS

\* A probe stays within the table.
LEMMA CellType ==
  ASSUME NEW k \in Keys, NEW p \in Nat PROVE Cell(k, p) \in Cells
  BY RegistryAssumption DEF Cell, Cells

\* Only the holder of reg_lock is between lookup and publication.
LockHeld ==
  \A t \in Threads : pc[t] \in {"put", "publish"} => lock = t

\* A call has a stream handle.
Asked == \A t \in Threads : pc[t] # "idle" => want[t] \in Keys

\* The insert in progress: its stream is not in the map yet, streams[n] is
\* its own, and the cell it has chosen is the first empty one.
Inserting ==
  \A t \in Threads :
    /\ pc[t] \in {"put", "publish"} =>
         /\ n < MaxStreams /\ owner[n] = want[t]
         /\ \A c \in Cells : key[c] # want[t]
    /\ pc[t] = "publish" =>
         \E p \in Cells : /\ FirstEmpty(want[t], p)
                          /\ at[t] = Cell(want[t], p)
                          /\ idx[at[t]] = n

\* An entry's index is a counted stream that was set up for its key.
Linked ==
  \A c \in Cells : key[c] # Null => idx[c] < n /\ owner[idx[c]] = key[c]

\* No stream has two entries.
OneEntry == \A c, d \in Cells : key[c] # Null /\ key[c] = key[d] => c = d

\* A lookup of a stream that was in the map has it ahead.
Ahead ==
  \A t \in Threads : pc[t] = "probe" /\ sure[t] =>
    \E p \in Cells : at[t] <= p /\ Reaches(want[t], p)

\* A hit has come from an entry of the stream.
Hit ==
  \A t \in Threads : pc[t] = "got" /\ res[t] # Miss =>
    \E c \in Cells : key[c] = want[t] /\ idx[c] = res[t]

MapInv == TypeOK /\ LockHeld /\ Asked /\ Inserting /\ Linked /\ OneEntry
            /\ OnPath /\ Ahead /\ Hit /\ RegisteredIsFound
-----------------------------------------------------------------------------
\* The empty map satisfies the invariant.
LEMMA MapInit == Init => MapInv
<1> SUFFICES ASSUME Init PROVE MapInv
  OBVIOUS
<1> USE RegistryAssumption DEF Init
<1>1. TypeOK
  BY DEF TypeOK, Cells, Indices, Miss
<1> QED BY <1>1 DEF MapInv, LockHeld, Asked, Inserting, Linked, OneEntry,
                    OnPath, Ahead, Hit, RegisteredIsFound

\* A published entry stays where it is: a step changes at most one cell, from
\* empty, so every walk that reached a key still does.
LEMMA WalksStay ==
  ASSUME MapInv, NEW t \in Threads, PublishKey(t),
         NEW k \in Keys, NEW p \in Cells, Reaches(k, p)
  PROVE  Reaches(k, p)'
<1>1. key[at[t]] = Null
  BY DEF MapInv, Inserting, FirstEmpty, PublishKey
<1>2. ASSUME NEW q \in 0 .. p, key[Cell(k, q)] # Null
      PROVE  key'[Cell(k, q)] = key[Cell(k, q)]
  <2>1. Cell(k, q) \in Cells
    BY CellType DEF Cells
  <2> QED BY <1>1, <1>2, <2>1 DEF PublishKey, MapInv, TypeOK
<1>3. p \in 0 .. p /\ \A q \in 0 .. p - 1 : q \in 0 .. p
  BY DEF Cells
<1>4. k # Null
  BY RegistryAssumption
<1>5. key'[Cell(k, p)] = k
  BY <1>2, <1>3, <1>4 DEF Reaches
<1>6. ASSUME NEW q \in 0 .. p - 1 PROVE key'[Cell(k, q)] \notin {k, Null}
  BY <1>2, <1>3 DEF Reaches, Occupied
<1>7. Cell(k, p)' = Cell(k, p) /\ \A q \in 0 .. p - 1 : Cell(k, q)' = Cell(k, q)
  BY DEF Cell
<1> QED BY <1>5, <1>6, <1>7 DEF Reaches, Occupied, Cell

\* Publishing a key.
LEMMA PublishKeeps ==
  ASSUME MapInv, NEW t \in Threads, PublishKey(t) PROVE MapInv'
<1> DEFINE k == want[t]
<1>1. /\ k \in Keys /\ k # Null /\ lock = t /\ n < MaxStreams
      /\ owner[n] = k /\ \A c \in Cells : key[c] # k
  BY RegistryAssumption DEF MapInv, Asked, Inserting, LockHeld, PublishKey
<1>2. PICK p \in Cells : FirstEmpty(k, p) /\ at[t] = Cell(k, p) /\ idx[at[t]] = n
  BY DEF MapInv, Inserting, PublishKey
<1>3. at[t] \in Cells /\ key[at[t]] = Null
  BY <1>1, <1>2, CellType DEF FirstEmpty, Cells
<1>4. /\ key' = [key EXCEPT ![at[t]] = k] /\ n' = n + 1 /\ lock' = NoThread
      /\ pc' = [pc EXCEPT ![t] = "idle"] /\ ret' = [ret EXCEPT ![t] = "ok"]
      /\ live' = live \cup {k}
      /\ UNCHANGED <<idx, owner, want, at, res, sure>>
  BY DEF PublishKey, Returns
<1> HIDE DEF k
<1>5. key' \in [Cells -> Keys \cup {Null}] /\ key'[at[t]] = k
      /\ \A c \in Cells : c # at[t] => key'[c] = key[c]
  BY <1>1, <1>3, <1>4 DEF MapInv, TypeOK
<1>6. TypeOK'
  BY <1>1, <1>4, <1>5, RegistryAssumption DEF MapInv, TypeOK
<1>7. (LockHeld /\ Asked)'
  BY <1>1, <1>4 DEF MapInv, TypeOK, LockHeld, Asked
<1>8. Inserting'
  BY <1>1, <1>4 DEF MapInv, TypeOK, Inserting, LockHeld
<1>9. (Linked /\ OneEntry)'
  <2>1. Linked'
    BY <1>1, <1>2, <1>3, <1>4, <1>5 DEF MapInv, TypeOK, Linked, Indices
  <2>2. OneEntry'
    BY <1>1, <1>3, <1>5 DEF MapInv, OneEntry
  <2> QED BY <2>1, <2>2
<1>10. ASSUME NEW j \in Keys, NEW q \in Cells, Reaches(j, q)
       PROVE  Reaches(j, q)'
  BY <1>10, WalksStay
<1>11. Reaches(k, p)'
  <2>1. \A q \in 0 .. p - 1 : Cell(k, q) \in Cells /\ key[Cell(k, q)] # Null
    BY <1>1, <1>2, CellType DEF FirstEmpty, Cells
  <2>2. \A q \in 0 .. p - 1 : Cell(k, q) # at[t]
    BY <1>3, <2>1
  <2>3. \A q \in 0 .. p - 1 : key'[Cell(k, q)] \notin {k, Null}
    BY <1>1, <1>5, <2>1, <2>2
  <2>4. key'[Cell(k, p)] = k
    BY <1>2, <1>5
  <2>5. k' = k
    BY <1>4 DEF k
  <2> QED BY <2>3, <2>4, <2>5 DEF Reaches, Occupied, Cell
<1>12. OnPath'
  <2> SUFFICES ASSUME NEW c \in Cells, key'[c] # Null
               PROVE  \E q \in Cells : c = Cell(key'[c], q)
                                         /\ Reaches(key[c], q)'
    BY DEF OnPath, Cell
  <2>1. CASE c = at[t]
    <3>1. key'[c] = k /\ c = Cell(k, p)
      BY <2>1, <1>2, <1>5
    <3> QED BY <3>1, <1>11, <1>4 DEF Reaches, Occupied, Cell, k
  <2>2. CASE c # at[t]
    <3>1. key'[c] = key[c] /\ key[c] \in Keys
      BY <2>2, <1>5 DEF MapInv, TypeOK
    <3>2. PICK q \in Cells : c = Cell(key[c], q) /\ Reaches(key[c], q)
      BY <3>1 DEF MapInv, OnPath
    <3>3. PICK j \in Keys : j = key[c]
      BY <3>1
    <3>4. Reaches(j, q)'
      BY <1>10, <3>2, <3>3
    <3> QED BY <3>1, <3>2, <3>3, <3>4 DEF Reaches, Occupied, Cell
  <2> QED BY <2>1, <2>2
<1>13. Ahead'
  <2> SUFFICES ASSUME NEW r \in Threads, pc'[r] = "probe", sure'[r]
               PROVE  \E q \in Cells : at'[r] <= q /\ Reaches(want[r], q)'
    BY DEF Ahead
  <2>1. pc[r] = "probe" /\ sure[r] /\ want[r] \in Keys
    BY <1>4 DEF MapInv, TypeOK, Asked
  <2>2. PICK q \in Cells : at[r] <= q /\ Reaches(want[r], q)
    BY <2>1 DEF MapInv, Ahead
  <2>3. PICK j \in Keys : j = want[r]
    BY <2>1
  <2>4. Reaches(j, q)'
    BY <1>10, <2>2, <2>3
  <2> QED BY <1>4, <2>2, <2>3, <2>4 DEF Reaches, Occupied, Cell
<1>14. (Hit /\ RegisteredIsFound)'
  <2>1. RegisteredIsFound'
    BY <1>4 DEF MapInv, TypeOK, RegisteredIsFound
  <2>2. Hit'
    BY <1>3, <1>4, <1>5, RegistryAssumption DEF MapInv, TypeOK, Hit, Asked
  <2> QED BY <2>1, <2>2
<1> QED BY <1>6, <1>7, <1>8, <1>9, <1>12, <1>13, <1>14 DEF MapInv

\* Steps that leave the map alone leave every walk alone.
LEMMA SameWalks ==
  ASSUME key' = key
  PROVE  /\ OnPath => OnPath'
         /\ \A k, p : Reaches(k, p)' = Reaches(k, p)
         /\ \A k, p : FirstEmpty(k, p)' = FirstEmpty(k, p)
  BY DEF OnPath, Reaches, Occupied, FirstEmpty, Cell

\* Registration up to the insert.
LEMMA RegisterKeeps ==
  ASSUME MapInv, NEW t \in Threads,
         \/ Register(t) \/ AlreadyThere(t) \/ NoRoom(t) \/ AllocFails(t)
         \/ Deregister(t)
  PROVE  MapInv'
<1> USE DEF Register, AlreadyThere, NoRoom, AllocFails, Deregister, Returns
<1>1. /\ UNCHANGED <<key, idx, n, lock, at, res, sure>>
      /\ pc'[t] \in {"idle", "register"} /\ pc[t] \notin {"put", "publish"}
      /\ \A r \in Threads \ {t} : pc'[r] = pc[r] /\ want'[r] = want[r]
  BY DEF MapInv, TypeOK
<1>2. TypeOK'
  <2>1. want' \in [Threads -> Keys \cup {Null}]
    BY DEF MapInv, TypeOK
  <2>2. owner' \in [Indices -> Keys \cup {Null}]
    BY DEF MapInv, TypeOK
  <2>3. pc' \in [Threads -> {"idle", "register", "put", "publish", "probe",
                             "got"}]
    BY DEF MapInv, TypeOK
  <2>4. ret' \in [Threads -> {"none", "ok", "full", "nomem"}]
    BY DEF MapInv, TypeOK
  <2>5. live' \subseteq Keys
    BY DEF MapInv, TypeOK, Asked
  <2> QED BY <1>1, <2>1, <2>2, <2>3, <2>4, <2>5 DEF MapInv, TypeOK
<1>3. (LockHeld /\ Asked)'
  <2>1. LockHeld'
    BY <1>1 DEF MapInv, LockHeld
  <2>2. Asked'
    BY <1>1 DEF MapInv, TypeOK, Asked
  <2> QED BY <2>1, <2>2
<1>4. \A i \in Indices : i # n => owner'[i] = owner[i]
  BY DEF MapInv, TypeOK
<1>5. \/ UNCHANGED owner
      \/ lock = NoThread
  OBVIOUS
<1>6. Inserting'
  <2>1. CASE UNCHANGED owner
    BY <1>1, <2>1, SameWalks DEF MapInv, Inserting
  <2>2. CASE lock = NoThread
    BY <1>1, <2>2, RegistryAssumption DEF MapInv, Inserting, LockHeld
  <2> QED BY <1>5, <2>1, <2>2
<1>7. (Linked /\ OneEntry /\ OnPath)'
  <2>1. Linked'
    BY <1>1, <1>4 DEF MapInv, TypeOK, Linked
  <2> QED BY <1>1, <2>1, SameWalks DEF MapInv, OneEntry
<1>8. (Ahead /\ Hit /\ RegisteredIsFound)'
  BY <1>1, SameWalks DEF MapInv, Ahead, Hit, RegisteredIsFound
<1> QED BY <1>2, <1>3, <1>6, <1>7, <1>8 DEF MapInv

\* The lock is taken and streams[n] set up.
LEMMA SetUpKeeps ==
  ASSUME MapInv, NEW t \in Threads, SetUp(t) PROVE MapInv'
<1>1. /\ UNCHANGED <<key, idx, n, want, at, res, sure, ret, live>>
      /\ pc[t] = "register" /\ lock = NoThread /\ lock' = t
      /\ ~InMap(want[t]) /\ n < MaxStreams
      /\ pc' = [pc EXCEPT ![t] = "put"]
      /\ owner' = [owner EXCEPT ![n] = want[t]]
  BY DEF SetUp, Known, HasRoom
<1>2. n \in Indices /\ want[t] \in Keys
  BY <1>1, RegistryAssumption DEF MapInv, TypeOK, Asked, Indices
<1>3. \A c \in Cells : key[c] # want[t]
  BY <1>1, <1>2, RegistryAssumption DEF MapInv, OnPath, InMap
<1>4. TypeOK'
  BY <1>1, <1>2 DEF MapInv, TypeOK
<1>5. (LockHeld /\ Asked)'
  BY <1>1, RegistryAssumption DEF MapInv, TypeOK, LockHeld, Asked
<1>6. Inserting'
  BY <1>1, <1>2, <1>3, RegistryAssumption DEF MapInv, TypeOK, Inserting,
     LockHeld
<1>7. (Linked /\ OneEntry /\ OnPath)'
  <2>1. Linked'
    BY <1>1 DEF MapInv, TypeOK, Linked
  <2> QED BY <1>1, <2>1, SameWalks DEF MapInv, OneEntry
<1>8. (Ahead /\ Hit /\ RegisteredIsFound)'
  BY <1>1, SameWalks DEF MapInv, TypeOK, Ahead, Hit, RegisteredIsFound
<1> QED BY <1>4, <1>5, <1>6, <1>7, <1>8 DEF MapInv

\* The index is stored in the first empty cell.
LEMMA PutKeeps ==
  ASSUME MapInv, NEW t \in Threads, PutIndex(t) PROVE MapInv'
<1>1. PICK p \in Cells :
        /\ FirstEmpty(want[t], p)
        /\ idx' = [idx EXCEPT ![Cell(want[t], p)] = n]
        /\ at' = [at EXCEPT ![t] = Cell(want[t], p)]
  BY DEF PutIndex
<1>2. /\ UNCHANGED <<key, n, owner, lock, want, res, ret, sure, live>>
      /\ pc[t] = "put" /\ pc' = [pc EXCEPT ![t] = "publish"]
  BY DEF PutIndex
<1> DEFINE d == Cell(want[t], p)
<1>3. want[t] \in Keys /\ d \in Cells /\ key[d] = Null /\ n \in Indices
  <2>1. want[t] \in Keys /\ n < MaxStreams
    BY <1>2 DEF MapInv, Asked, Inserting
  <2>2. d \in Cells
    BY <2>1, CellType DEF Cells
  <2>3. n \in Indices
    BY <2>1, RegistryAssumption DEF MapInv, TypeOK, Indices
  <2> QED BY <1>1, <2>1, <2>2, <2>3 DEF FirstEmpty
<1>4. \A c \in Cells : key[c] # Null => idx'[c] = idx[c]
  BY <1>1, <1>3 DEF MapInv, TypeOK
<1>5. at'[t] = d /\ idx'[d] = n /\ \A r \in Threads \ {t} : at'[r] = at[r]
  BY <1>1, <1>3 DEF MapInv, TypeOK
<1>6. TypeOK'
  <2>1. idx' \in [Cells -> Indices]
    BY <1>1, <1>3 DEF MapInv, TypeOK
  <2>2. at' \in [Threads -> 0 .. Cap]
    BY <1>1, <1>3, RegistryAssumption DEF MapInv, TypeOK, Cells
  <2> QED BY <1>2, <2>1, <2>2 DEF MapInv, TypeOK
<1>7. (LockHeld /\ Asked)'
  BY <1>2 DEF MapInv, TypeOK, LockHeld, Asked
<1>8. Inserting'
  <2> SUFFICES ASSUME NEW r \in Threads, pc'[r] \in {"put", "publish"}
      PROVE /\ n < MaxStreams /\ owner[n] = want[r]
            /\ \A c \in Cells : key[c] # want[r]
            /\ \E q \in Cells : /\ FirstEmpty(want[r], q)
                                /\ at'[r] = Cell(want[r], q)
                                /\ idx'[at'[r]] = n
    BY <1>2, SameWalks DEF Inserting, Cell
  <2>1. r = t
    BY <1>2 DEF MapInv, TypeOK, LockHeld
  <2>2. \E q \in Cells : /\ FirstEmpty(want[t], q)
                        /\ at'[t] = Cell(want[t], q)
                        /\ idx'[at'[t]] = n
    BY <1>1, <1>5
  <2> QED BY <1>2, <2>1, <2>2 DEF MapInv, Inserting
<1>9. (Linked /\ OneEntry /\ OnPath)'
  <2>1. Linked'
    BY <1>2, <1>4 DEF MapInv, Linked
  <2> QED BY <1>2, <2>1, SameWalks DEF MapInv, OneEntry
<1>10. (Ahead /\ Hit /\ RegisteredIsFound)'
  <2>1. Ahead'
    BY <1>2, <1>5, SameWalks DEF MapInv, TypeOK, Ahead
  <2>2. Hit'
    BY <1>2, <1>4, RegistryAssumption DEF MapInv, TypeOK, Hit, Asked
  <2>3. RegisteredIsFound'
    BY <1>2 DEF MapInv, TypeOK, RegisteredIsFound
  <2> QED BY <2>1, <2>2, <2>3
<1> QED BY <1>6, <1>7, <1>8, <1>9, <1>10 DEF MapInv

\* The lookup reads the map and changes nothing in it.
LEMMA LookupKeeps ==
  ASSUME MapInv, NEW t \in Threads,
         Lookup(t) \/ ProbePast(t) \/ ProbeEnds(t) \/ UseResult(t)
  PROVE  MapInv'
<1> USE DEF Lookup, ProbePast, ProbeEnds, UseResult
<1>1. /\ UNCHANGED <<key, idx, n, owner, lock, ret, live>>
      /\ pc'[t] \in {"idle", "probe", "got"}
      /\ pc[t] \in {"idle", "probe", "got"}
      /\ \A r \in Threads \ {t} : /\ pc'[r] = pc[r] /\ want'[r] = want[r]
                                   /\ at'[r] = at[r] /\ res'[r] = res[r]
                                   /\ sure'[r] = sure[r]
  BY DEF MapInv, TypeOK
<1>2. TypeOK'
  <2>1. want' \in [Threads -> Keys \cup {Null}]
    BY DEF MapInv, TypeOK
  <2>2. at' \in [Threads -> 0 .. Cap]
    BY RegistryAssumption DEF MapInv, TypeOK
  <2>3. res' \in [Threads -> Indices \cup {Miss}]
    BY CellType DEF MapInv, TypeOK, Asked
  <2>4. sure' \in [Threads -> BOOLEAN]
    BY DEF MapInv, TypeOK
  <2>5. pc' \in [Threads -> {"idle", "register", "put", "publish", "probe",
                             "got"}]
    BY DEF MapInv, TypeOK
  <2> QED BY <1>1, <2>1, <2>2, <2>3, <2>4, <2>5 DEF MapInv, TypeOK
<1>3. (LockHeld /\ Asked)'
  <2>1. LockHeld'
    BY <1>1 DEF MapInv, LockHeld
  <2>2. Asked'
    BY <1>1 DEF MapInv, TypeOK, Asked
  <2> QED BY <2>1, <2>2
<1>4. (Inserting /\ Linked /\ OneEntry /\ OnPath)'
  <2>1. Inserting'
    BY <1>1, SameWalks DEF MapInv, Inserting
  <2>2. Linked'
    BY <1>1 DEF MapInv, Linked
  <2> QED BY <1>1, <2>1, <2>2, SameWalks DEF MapInv, OneEntry
<1>5. (Ahead /\ Hit /\ RegisteredIsFound)'
  <2>1. CASE Lookup(t)
    <3>1. pc'[t] = "probe" /\ at'[t] = 0 /\ want'[t] \in Keys
          /\ (sure'[t] => \E c \in Cells : key[c] = want'[t])
      BY <2>1 DEF MapInv, TypeOK
    <3>2. sure'[t] => \E p \in Cells : Reaches(want'[t], p)
      BY <3>1, RegistryAssumption DEF MapInv, OnPath
    <3>3. Ahead'
      BY <1>1, <3>1, <3>2, SameWalks DEF MapInv, Ahead, Cells
    <3>4. (Hit /\ RegisteredIsFound)'
      BY <1>1, <3>1 DEF MapInv, Hit, RegisteredIsFound
    <3> QED BY <3>3, <3>4
  <2>2. CASE ProbePast(t)
    <3>1. /\ pc[t] = "probe" /\ pc'[t] = "probe" /\ at'[t] = at[t] + 1
          /\ want' = want /\ sure' = sure /\ res' = res
          /\ key[Cell(want[t], at[t])] # want[t]
      BY <2>2 DEF MapInv, TypeOK, GoesOn, Occupied
    <3>2. sure[t] => \E p \in Cells : at[t] + 1 <= p /\ Reaches(want[t], p)
      BY <3>1 DEF MapInv, TypeOK, Ahead, Reaches, Cells
    <3>3. Ahead'
      BY <1>1, <3>1, <3>2, SameWalks DEF MapInv, Ahead
    <3>4. (Hit /\ RegisteredIsFound)'
      BY <1>1, <3>1 DEF MapInv, Hit, RegisteredIsFound
    <3> QED BY <3>3, <3>4
  <2>3. CASE ProbeEnds(t)
    <3> DEFINE c == Cell(want[t], at[t])
    <3>1. /\ pc[t] = "probe" /\ pc'[t] = "got" /\ want' = want
          /\ sure' = sure /\ at' = at /\ want[t] \in Keys
          /\ at[t] >= Cap \/ key[c] \in {want[t], Null}
          /\ res'[t] = IF at[t] < Cap /\ key[c] = want[t] THEN idx[c]
                                                          ELSE Miss
      BY <2>3 DEF MapInv, TypeOK, GoesOn, Occupied, Asked
    <3>2. at[t] \in Nat /\ c \in Cells
      BY <3>1, CellType DEF MapInv, TypeOK
    <3>3. sure[t] => at[t] < Cap /\ key[c] = want[t]
      <4> SUFFICES ASSUME sure[t] PROVE at[t] < Cap /\ key[c] = want[t]
        OBVIOUS
      <4>1. PICK p \in Cells : at[t] <= p /\ Reaches(want[t], p)
        BY <3>1 DEF MapInv, Ahead
      <4>2. at[t] < Cap
        BY <4>1, <3>2, RegistryAssumption DEF Cells
      <4>3. CASE at[t] = p
        BY <4>2, <4>1, <4>3 DEF Reaches
      <4>4. CASE at[t] # p
        <5>1. at[t] \in 0 .. p - 1
          BY <4>1, <4>4, <3>2 DEF Cells
        <5>2. Occupied(c, want[t])
          BY <4>1, <5>1 DEF Reaches
        <5> QED BY <3>1, <4>2, <5>2, <3>2, RegistryAssumption DEF Occupied
      <4> QED BY <4>3, <4>4
    <3>4. idx[c] # Miss
      BY <3>2, RegistryAssumption DEF MapInv, TypeOK, Indices, Miss
    <3>5. RegisteredIsFound'
      BY <1>1, <3>1, <3>3, <3>4 DEF MapInv, RegisteredIsFound
    <3>6. Hit'
      BY <1>1, <3>1, <3>2 DEF MapInv, Hit
    <3>7. Ahead'
      BY <1>1, <3>1, SameWalks DEF MapInv, Ahead
    <3> QED BY <3>5, <3>6, <3>7
  <2>4. CASE UseResult(t)
    BY <1>1, <2>4, SameWalks DEF MapInv, TypeOK, Ahead, Hit, RegisteredIsFound
  <2> QED BY <2>1, <2>2, <2>3, <2>4
<1> QED BY <1>2, <1>3, <1>4, <1>5 DEF MapInv

\* The invariant is inductive.
LEMMA MapNext == MapInv /\ [Next]_vars => MapInv'
<1> SUFFICES ASSUME MapInv, [Next]_vars PROVE MapInv'
  OBVIOUS
<1>1. CASE UNCHANGED vars
  BY <1>1, SameWalks DEF MapInv, vars, TypeOK, LockHeld, Asked, Inserting,
     Linked, OneEntry, Ahead, Hit, RegisteredIsFound
<1>2. ASSUME NEW t \in Threads, Step(t) PROVE MapInv'
  BY <1>2, RegisterKeeps, SetUpKeeps, PutKeeps, PublishKeeps, LookupKeeps
  DEF Step
<1> QED BY <1>1, <1>2 DEF Next

\* The map's invariant holds in every behaviour.
LEMMA MapSafe == Spec => []MapInv
<1>1. Init => MapInv
  BY MapInit
<1>2. MapInv /\ [Next]_vars => MapInv'
  BY MapNext
<1> QED BY <1>1, <1>2, PTL DEF Spec

\* opends_stream_get, without a lock, finds every stream whose registration
\* has been published, whatever is being inserted beside it, and for every
\* hash function: the claim of the comment at ds_stream_map.h:40-47.
THEOREM LookupComplete == Spec => []RegisteredIsFound
<1>1. MapInv => RegisteredIsFound
  BY DEF MapInv
<1> QED BY <1>1, MapSafe, PTL

\* A key in the map is always on the walk from its hash.
THEOREM MapOnPath == Spec => []OnPath
<1>1. MapInv => OnPath
  BY DEF MapInv
<1> QED BY <1>1, MapSafe, PTL

\* What a lookup returns is the state that was set up for that stream.
THEOREM LookupSound == Spec => []HitIsOwn
<1>1. MapInv => HitIsOwn
  <2> SUFFICES ASSUME MapInv, NEW t \in Threads, pc[t] = "got", res[t] # Miss
               PROVE  owner[res[t]] = want[t]
    BY DEF HitIsOwn
  <2>1. PICK c \in Cells : key[c] = want[t] /\ idx[c] = res[t]
    BY DEF MapInv, Hit
  <2>2. key[c] # Null
    BY <2>1, RegistryAssumption DEF MapInv, Asked
  <2> QED BY <2>1, <2>2 DEF MapInv, Linked
<1> QED BY <1>1, MapSafe, PTL

\* A stream in the map keeps its gate word and its sequence counter: a later
\* registration, failed or not, never sets its state up again.
THEOREM StatesKept == Spec => StateIsKept
<1> DEFINE Keeps == \A c \in Cells : key[c] # Null
                                      => owner'[idx[c]] = owner[idx[c]]
<1>1. MapInv /\ [Next]_vars => Keeps
  <2> SUFFICES ASSUME MapInv, [Next]_vars, NEW c \in Cells, key[c] # Null
               PROVE  owner'[idx[c]] = owner[idx[c]]
    OBVIOUS
  <2>1. idx[c] # n /\ idx[c] \in Indices
    BY RegistryAssumption DEF MapInv, Linked, TypeOK
  <2>2. \/ owner' = owner
        \/ \E t \in Threads : owner' = [owner EXCEPT ![n] = want[t]]
        \/ owner' = [owner EXCEPT ![n] = Null]
    BY DEF Next, Step, vars, Register, AlreadyThere, NoRoom, SetUp, AllocFails,
           PutIndex, PublishKey, Deregister, Lookup, ProbePast, ProbeEnds,
           UseResult
  <2> QED BY <2>1, <2>2 DEF MapInv, TypeOK
<1>2. MapInv /\ [Next]_vars => [Keeps]_vars
  BY <1>1
<1> QED BY <1>2, MapSafe, PTL DEF Spec, StateIsKept
-----------------------------------------------------------------------------
\* Every counted stream has its entry in the map.
Counted ==
  \A i \in 0 .. n - 1 :
    \E c \in Cells : key[c] # Null /\ key[c] = owner[i] /\ idx[c] = i

\* Only publication counts a stream, and it has just entered it; an entry is
\* never emptied, nor its index or its owner changed.
LEMMA CountedNext == MapInv /\ Counted /\ [Next]_vars => Counted'
<1> SUFFICES ASSUME MapInv, Counted, [Next]_vars PROVE Counted'
  OBVIOUS
<1>1. ASSUME UNCHANGED <<key, n>>,
             \A c \in Cells : key[c] # Null => idx'[c] = idx[c],
             \A i \in 0 .. n - 1 : owner'[i] = owner[i]
      PROVE  Counted'
  BY <1>1 DEF Counted
<1>2. CASE UNCHANGED vars
  BY <1>1, <1>2 DEF vars
<1>3. ASSUME NEW t \in Threads, Step(t) PROVE Counted'
  <2>1. CASE \/ Register(t) \/ AlreadyThere(t) \/ NoRoom(t) \/ Deregister(t)
             \/ Lookup(t) \/ ProbePast(t) \/ ProbeEnds(t) \/ UseResult(t)
    BY <1>1, <2>1 DEF Register, AlreadyThere, NoRoom, Deregister, Lookup,
       ProbePast, ProbeEnds, UseResult
  <2>2. CASE SetUp(t) \/ AllocFails(t)
    <3>1. /\ UNCHANGED <<key, n, idx>>
          /\ \E k \in Keys \cup {Null} : owner' = [owner EXCEPT ![n] = k]
      BY <2>2 DEF SetUp, AllocFails, MapInv, TypeOK
    <3>2. \A i \in 0 .. n - 1 : i \in Indices /\ i # n
      BY RegistryAssumption DEF MapInv, TypeOK, Indices
    <3>3. \A i \in 0 .. n - 1 : owner'[i] = owner[i]
      BY <3>1, <3>2 DEF MapInv, TypeOK
    <3> QED BY <1>1, <3>1, <3>3
  <2>3. CASE PutIndex(t)
    <3>1. PICK p \in Cells :
            /\ FirstEmpty(want[t], p)
            /\ idx' = [idx EXCEPT ![Cell(want[t], p)] = n]
      BY <2>3 DEF PutIndex
    <3>2. UNCHANGED <<key, n, owner>> /\ key[Cell(want[t], p)] = Null
      BY <2>3, <3>1 DEF PutIndex, FirstEmpty
    <3>3. \A c \in Cells : key[c] # Null => idx'[c] = idx[c]
      BY <3>1, <3>2 DEF MapInv, TypeOK
    <3> QED BY <1>1, <3>2, <3>3
  <2>4. CASE PublishKey(t)
    <3>1. /\ key' = [key EXCEPT ![at[t]] = want[t]] /\ n' = n + 1
          /\ UNCHANGED <<idx, owner>> /\ pc[t] = "publish"
      BY <2>4 DEF PublishKey
    <3>2. want[t] \in Keys /\ want[t] # Null /\ owner[n] = want[t]
      BY <3>1, RegistryAssumption DEF MapInv, Asked, Inserting
    <3>3. PICK p \in Cells : /\ FirstEmpty(want[t], p)
                             /\ at[t] = Cell(want[t], p) /\ idx[at[t]] = n
      BY <3>1 DEF MapInv, Inserting
    <3>4. at[t] \in Cells /\ key[at[t]] = Null
      BY <3>2, <3>3, CellType DEF FirstEmpty, Cells
    <3>5. /\ key'[at[t]] = want[t]
          /\ \A c \in Cells : key[c] # Null => key'[c] = key[c]
      BY <3>1, <3>4 DEF MapInv, TypeOK
    <3> SUFFICES ASSUME NEW i \in 0 .. n' - 1
                 PROVE  \E c \in Cells :
                          key'[c] # Null /\ key'[c] = owner[i] /\ idx[c] = i
      BY <3>1 DEF Counted
    <3>6. CASE i = n
      BY <3>2, <3>3, <3>4, <3>5, <3>6
    <3>7. CASE i # n
      <4>1. i \in 0 .. n - 1
        BY <3>1, <3>7 DEF MapInv, TypeOK
      <4> QED BY <3>5, <4>1 DEF Counted
    <3> QED BY <3>6, <3>7
  <2> QED BY <1>3, <2>1, <2>2, <2>3, <2>4 DEF Step
<1> QED BY <1>2, <1>3 DEF Next

\* Types: n_streams never passes MAX_STREAMS, and every index stored in the
\* map or returned from it is one of streams[].
THEOREM RegistryTyped == Spec => []TypeOK
<1>1. MapInv => TypeOK
  BY DEF MapInv
<1> QED BY <1>1, MapSafe, PTL

\* However many threads register one stream at the same time, and however
\* often an attempt fails halfway, it has one entry and one gate.
THEOREM OneState == Spec => []OneStatePerStream
<1>1. Init => Counted
  BY DEF Init, Counted
<1>2. MapInv /\ Counted => OneStatePerStream
  <2> SUFFICES ASSUME MapInv, Counted,
                      NEW i \in 0 .. n - 1, NEW j \in 0 .. n - 1,
                      owner[i] = owner[j]
               PROVE  i = j
    BY DEF MapInv, OneEntry, OneStatePerStream
  <2>1. PICK c \in Cells : key[c] # Null /\ key[c] = owner[i] /\ idx[c] = i
    BY DEF Counted
  <2>2. PICK d \in Cells : key[d] # Null /\ key[d] = owner[j] /\ idx[d] = j
    BY DEF Counted
  <2> QED BY <2>1, <2>2 DEF MapInv, OneEntry
<1> QED BY <1>1, <1>2, CountedNext, MapSafe, PTL DEF Spec
=============================================================================
