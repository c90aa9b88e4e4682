------------------------------- MODULE Calls -------------------------------
(***************************************************************************)
(* The threads of an application that call the library, and the counter    *)
(* of file handles every backend keeps.  opends.h lets registrations run   *)
(* at the same time, and opening and closing only alone.                   *)
(***************************************************************************)
EXTENDS Integers, FiniteSets

CONSTANTS Threads,
          Addrs,          \* base addresses of buffers
          MaxHandles      \* bound: handles registered

ASSUME CallsAssumption == MaxHandles \in Nat

VARIABLES call,           \* what each thread is in the middle of
          live,           \* handles the application holds
          useCount,       \* use_count
          mine, heap      \* buffers it has registered; has from opends_alloc

callVars == <<call, live, useCount>>
appVars  == <<callVars, mine, heap>>

Idle  == [op |-> "idle"]
Quiet == \A t \in Threads : call[t] = Idle
Now(t, c) == call' = [call EXCEPT ![t] = c]

CallsInit ==
  /\ call = [t \in Threads |-> Idle]
  /\ live = 0 /\ useCount = 0 /\ mine = {} /\ heap = {}

\* A thread has a handle more or less: d is 1 or -1.
Allowed(d) == live + d \in 0 .. MaxHandles

\* use_count++ and use_count-- of opends_ref.c and opends_gds.c: a load and a
\* store, with no lock.
LoadCount(t, d) ==
  /\ call[t] = Idle /\ Allowed(d)
  /\ Now(t, [op |-> "count", n |-> useCount + d])
  /\ live' = live + d
  /\ UNCHANGED useCount

StoreCount(t) ==
  /\ call[t].op = "count"
  /\ useCount' = call[t].n
  /\ Now(t, Idle) /\ UNCHANGED live

\* __atomic_fetch_add and __atomic_fetch_sub of opends_aisio.c.
AtomicCount(t, d) ==
  /\ call[t] = Idle /\ Allowed(d)
  /\ useCount' = useCount + d /\ live' = live + d
  /\ UNCHANGED call
=============================================================================
