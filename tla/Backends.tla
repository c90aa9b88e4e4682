------------------------------ MODULE Backends ------------------------------
(***************************************************************************)
(* An application and the one library it is linked with: libopends of the  *)
(* aisio (Driver), the reference or the GDS backend, chosen when it was    *)
(* built.  All three implement the interface of opends.h (Contract).       *)
(***************************************************************************)
EXTENDS Driver, RefBackend, GdsBackend

VARIABLE backend

backVars == <<driverVars, refVars, gdsVars, appVars, backend>>

Init ==
  /\ DriverInit /\ RefInit /\ GdsInit /\ CallsInit
  /\ backend \in {"aisio", "ref", "gds"}

\* opends_handle_register of opends_aisio.c needs the driver; deregistering
\* does not.
AisioHandle(t) ==
  \/ InService /\ AtomicCount(t, 1)
  \/ pc = "idle" /\ AtomicCount(t, -1)

Next ==
  \/ /\ backend = "aisio"
     /\ \/ DriverNext /\ UNCHANGED appVars
        \/ /\ \E t \in Threads : AisioHandle(t)
           /\ UNCHANGED <<driverVars, mine, heap>>
     /\ UNCHANGED <<refVars, gdsVars, backend>>
  \/ backend = "ref" /\ RefNext /\ UNCHANGED <<driverVars, gdsVars, backend>>
  \/ backend = "gds" /\ GdsNext /\ UNCHANGED <<driverVars, refVars, backend>>

\* An open or a close goes on, and an I/O thread that sees stop leaves.
DriverStep == /\ OpenStep \/ CloseStep
              /\ UNCHANGED <<refVars, gdsVars, appVars, backend>>
LeaveStep(w) == ThreadExits(w) /\ UNCHANGED <<refVars, gdsVars, appVars, backend>>

Spec == /\ Init /\ [][Next]_backVars
        /\ WF_backVars(DriverStep)
        /\ \A w \in Workers : WF_backVars(LeaveStep(w))
-----------------------------------------------------------------------------
\* Whichever library it is, what the application sees of opening, closing,
\* registering and allocating is the one contract: in particular a close
\* leaves nothing registered, even one that runs through several steps, and
\* an open that fails halfway is as if it had not been called.
C == INSTANCE Contract WITH
       isOpen  <- CASE backend = "aisio" -> ready
                    [] backend = "ref" -> refOpen
                    [] OTHER -> gdsOpen,
       mapped  <- CASE backend = "aisio" -> IF ready THEN maps ELSE {}
                    [] backend = "ref" -> Entered
                    [] OTHER -> mine,
       held    <- CASE backend = "aisio" -> IF ready THEN allocs ELSE {}
                    [] OTHER -> heap,
       handles <- useCount
KeepsContract == C!Spec

\* What the library has on record is what its answers told the application.
RecordsExact ==
  CASE backend = "aisio" -> TableExact /\ useCount = live
    [] backend = "ref" -> RefExact
    [] OTHER -> GdsExact
=============================================================================
