----------------------------- MODULE GdsBackend -----------------------------
(***************************************************************************)
(* Lifecycle and registration in the GDS backend (src/src/opends_gds.c),   *)
(* which keeps a flag and a counter and leaves the rest to cuFile and the  *)
(* CUDA allocator.  Both are external: any call of theirs may fail, and    *)
(* cuFile drops its registrations when it is closed.                       *)
(***************************************************************************)
EXTENDS Calls

VARIABLES gdsOpen,              \* driver_open
          cuOpen, cuBufs,       \* cuFile: opened; its registered buffers
          cuHandles,            \* cuFile: number of handles
          gpu                   \* cudaMalloc'ed memory

gdsVars == <<gdsOpen, cuOpen, cuBufs, cuHandles, gpu>>

GdsInit == /\ gdsOpen = FALSE /\ cuOpen = FALSE
           /\ cuBufs = {} /\ cuHandles = 0 /\ gpu = {}
-----------------------------------------------------------------------------
GdsDriverOpen ==
  /\ Quiet /\ ~gdsOpen
  /\ cuOpen' = TRUE /\ gdsOpen' = TRUE
  /\ UNCHANGED <<cuBufs, cuHandles, gpu, appVars>>

\* When cuFileDriverClose fails the driver stays open.
GdsDriverClose ==
  /\ Quiet /\ gdsOpen
  /\ cuOpen' = FALSE /\ cuBufs' = {} /\ gdsOpen' = FALSE
  /\ mine' = {}
  /\ UNCHANGED <<cuHandles, gpu, callVars, heap>>

GdsHandleRegister(t) ==
  /\ LoadCount(t, 1)
  /\ cuHandles' = cuHandles + 1
  /\ UNCHANGED <<gdsOpen, cuOpen, cuBufs, gpu, mine, heap>>

GdsHandleDeregister(t) ==
  /\ LoadCount(t, -1)
  /\ cuHandles' = cuHandles - 1
  /\ UNCHANGED <<gdsOpen, cuOpen, cuBufs, gpu, mine, heap>>

GdsCounted(t) == StoreCount(t) /\ UNCHANGED <<gdsVars, mine, heap>>

\* opends_alloc: cudaMalloc, then cuFileBufRegister; undone if that fails.
GdsMalloc(t, b) ==
  /\ call[t] = Idle /\ b \notin gpu \cup cuBufs
  /\ gpu' = gpu \cup {b}
  /\ Now(t, [op |-> "malloc", b |-> b])
  /\ UNCHANGED <<gdsOpen, cuOpen, cuBufs, cuHandles, live, useCount, mine, heap>>

GdsAllocRegister(t) ==
  /\ call[t].op = "malloc" /\ Now(t, Idle)
  /\ \/ /\ cuOpen
        /\ cuBufs' = cuBufs \cup {call[t].b} /\ heap' = heap \cup {call[t].b}
        /\ UNCHANGED gpu
     \/ gpu' = gpu \ {call[t].b} /\ UNCHANGED <<cuBufs, heap>>
  /\ UNCHANGED <<gdsOpen, cuOpen, cuHandles, live, useCount, mine>>

\* opends_free; whether cuFileBufDeregister succeeds is not looked at.
GdsFree(t, b) ==
  /\ call[t] = Idle /\ b \in heap \ mine
  /\ cuBufs' = cuBufs \ {b} /\ gpu' = gpu \ {b} /\ heap' = heap \ {b}
  /\ UNCHANGED <<gdsOpen, cuOpen, cuHandles, callVars, mine>>

GdsBufRegister(t, b) ==
  /\ call[t] = Idle /\ gdsOpen /\ b \notin cuBufs
  /\ cuBufs' = cuBufs \cup {b} /\ mine' = mine \cup {b}
  /\ UNCHANGED <<gdsOpen, cuOpen, cuHandles, gpu, callVars, heap>>

GdsBufDeregister(t, b) ==
  /\ call[t] = Idle /\ gdsOpen /\ b \in cuBufs
  /\ cuBufs' = cuBufs \ {b} /\ mine' = mine \ {b}
  /\ UNCHANGED <<gdsOpen, cuOpen, cuHandles, gpu, callVars, heap>>

GdsNext ==
  \/ GdsDriverOpen \/ GdsDriverClose
  \/ \E t \in Threads :
       \/ GdsHandleRegister(t) \/ GdsHandleDeregister(t) \/ GdsCounted(t)
       \/ GdsAllocRegister(t)
       \/ \E b \in Addrs : \/ GdsMalloc(t, b) \/ GdsFree(t, b)
                           \/ GdsBufRegister(t, b) \/ GdsBufDeregister(t, b)

\* Between calls no memory or handle is left behind by a failed call, cuFile
\* has what the application registered, and use_count is exact.
GdsExact ==
  /\ gdsOpen = cuOpen
  /\ Quiet => /\ gpu = heap /\ mine \subseteq cuBufs
              /\ cuBufs \subseteq mine \cup heap
              /\ cuHandles = live /\ useCount = live
=============================================================================
