------------------------------ MODULE Contract ------------------------------
(***************************************************************************)
(* What src/include/opends.h promises of opening, closing and registering, *)
(* whichever library an application is linked with.  A call that fails     *)
(* changes nothing.                                                        *)
(***************************************************************************)
EXTENDS Integers

CONSTANT Addrs       \* base addresses of buffers

VARIABLES isOpen,    \* opends_driver_open has succeeded
          mapped,    \* what opends_buf_register has registered
          held,      \* what opends_alloc has handed out
          handles    \* what opends_use_count returns

vars == <<isOpen, mapped, held, handles>>

Init == isOpen = FALSE /\ mapped = {} /\ held = {} /\ handles = 0

Open ==
  /\ ~isOpen /\ isOpen' = TRUE
  /\ UNCHANGED <<mapped, held, handles>>

\* Nothing stays registered; what was allocated may be released or kept.
Close ==
  /\ isOpen /\ isOpen' = FALSE
  /\ mapped' = {} /\ held' \in {held, {}}
  /\ UNCHANGED handles

Register(b) ==
  /\ isOpen /\ b \notin mapped /\ mapped' = mapped \cup {b}
  /\ UNCHANGED <<isOpen, held, handles>>

Deregister(b) ==
  /\ isOpen /\ b \in mapped /\ mapped' = mapped \ {b}
  /\ UNCHANGED <<isOpen, held, handles>>

Alloc(b) ==
  /\ b \notin held /\ held' = held \cup {b}
  /\ UNCHANGED <<isOpen, mapped, handles>>

\* What the application freed is not left registered.
Free(b) ==
  /\ b \in held \ mapped /\ held' = held \ {b}
  /\ UNCHANGED <<isOpen, mapped, handles>>

CountHandle ==
  /\ handles' \in {handles - 1, handles + 1} /\ handles' >= 0
  /\ UNCHANGED <<isOpen, mapped, held>>

Next ==
  \/ Open \/ Close \/ CountHandle
  \/ \E b \in Addrs : Register(b) \/ Deregister(b) \/ Alloc(b) \/ Free(b)

Spec == Init /\ [][Next]_vars
=============================================================================
