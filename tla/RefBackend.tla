----------------------------- MODULE RefBackend -----------------------------
(***************************************************************************)
(* Registration in the reference backend (src/src/opends_ref.c): a table   *)
(* of base addresses, searched and changed with no lock.  A change is two  *)
(* steps, the loads with the search and the stores; what two threads do in *)
(* between is a data race, and a store may undo another's.  Its I/O is in  *)
(* DataPath.                                                               *)
(***************************************************************************)
EXTENDS Calls

CONSTANT RefMaxBufs            \* REF_MAX_BUFS

ASSUME RefAssumption == RefMaxBufs \in Nat \ {0}

VARIABLES refOpen,             \* driver_open
          slot, count          \* ref_registered, ref_registered_count

refVars == <<refOpen, slot, count>>

None == "none"
RefInit ==
  /\ refOpen = FALSE /\ count = 0
  /\ slot = [i \in 0 .. RefMaxBufs - 1 |-> None]

Entered == {slot[i] : i \in 0 .. count - 1}
-----------------------------------------------------------------------------
RefDriverOpen ==
  /\ Quiet /\ ~refOpen /\ refOpen' = TRUE
  /\ UNCHANGED <<slot, count, appVars>>

\* Faulty variant of RefDriverClose: the table is kept.
RefCloseKeeps ==
  /\ Quiet /\ refOpen /\ refOpen' = FALSE /\ mine' = {}
  /\ UNCHANGED <<slot, count, callVars, heap>>

RefDriverClose ==
  /\ Quiet /\ refOpen /\ refOpen' = FALSE
  /\ count' = 0 /\ mine' = {}
  /\ UNCHANGED <<slot, callVars, heap>>

RefHandleRegister(t)   == LoadCount(t, 1) /\ UNCHANGED <<refVars, mine, heap>>
RefHandleDeregister(t) == LoadCount(t, -1) /\ UNCHANGED <<refVars, mine, heap>>
RefCounted(t)          == StoreCount(t) /\ UNCHANGED <<refVars, mine, heap>>

\* opends_alloc: memory nobody uses; the driver need not be open.
RefAlloc(t, b) ==
  /\ call[t] = Idle /\ b \notin heap \cup mine \cup Entered
  /\ heap' = heap \cup {b}
  /\ UNCHANGED <<refVars, callVars, mine>>

\* opends_free: nothing at all if the buffer is registered.
RefFree(t, b) ==
  /\ call[t] = Idle /\ b \in heap \ Entered
  /\ heap' = heap \ {b}
  /\ UNCHANGED <<refVars, callVars, mine>>

RefBufRegister(t, b) ==
  /\ call[t] = Idle /\ refOpen /\ b \notin Entered /\ count < RefMaxBufs
  /\ Now(t, [op |-> "enter", b |-> b, n |-> count])
  /\ UNCHANGED <<refVars, live, useCount, mine, heap>>

RefEnter(t) ==
  /\ call[t].op = "enter"
  /\ slot' = [slot EXCEPT ![call[t].n] = call[t].b]
  /\ count' = call[t].n + 1
  /\ mine' = mine \cup {call[t].b}
  /\ Now(t, Idle) /\ UNCHANGED <<refOpen, live, useCount, heap>>

RefBufDeregister(t, b) ==
  /\ call[t] = Idle /\ refOpen
  /\ \E i \in 0 .. count - 1 :
       /\ slot[i] = b /\ \A j \in 0 .. i - 1 : slot[j] # b
       /\ Now(t, [op |-> "remove", b |-> b, i |-> i, n |-> count - 1])
  /\ UNCHANGED <<refVars, live, useCount, mine, heap>>

\* Faulty variant of RefRemove: the last entry is dropped, the gap kept.
RefDropsLast(t) ==
  /\ call[t].op = "remove"
  /\ count' = call[t].n /\ mine' = mine \ {call[t].b}
  /\ Now(t, Idle) /\ UNCHANGED <<refOpen, slot, live, useCount, heap>>

\* The last entry takes the place of the one removed.
RefRemove(t) ==
  /\ call[t].op = "remove"
  /\ slot' = [slot EXCEPT ![call[t].i] = slot[call[t].n]]
  /\ count' = call[t].n
  /\ mine' = mine \ {call[t].b}
  /\ Now(t, Idle) /\ UNCHANGED <<refOpen, live, useCount, heap>>

RefNext ==
  \/ RefDriverOpen \/ RefDriverClose
  \/ \E t \in Threads :
       \/ RefHandleRegister(t) \/ RefHandleDeregister(t) \/ RefCounted(t)
       \/ RefEnter(t) \/ RefRemove(t)
       \/ \E b \in Addrs : \/ RefAlloc(t, b) \/ RefFree(t, b)
                           \/ RefBufRegister(t, b) \/ RefBufDeregister(t, b)

\* Between calls the table is what the application registered, each once, and
\* use_count the number of handles it holds.
RefExact ==
  Quiet => /\ Entered = mine /\ count = Cardinality(mine)
           /\ useCount = live
=============================================================================
