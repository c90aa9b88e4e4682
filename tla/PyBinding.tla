----------------------------- MODULE PyBinding -----------------------------
(***************************************************************************)
(* The Python binding (src/python/opends/_file.py): the reference count    *)
(* that opens and closes the process-wide driver, the cache of registered  *)
(* buffers, and the cleanup that runs at exit and on signals.              *)
(*                                                                         *)
(* A signal handler runs on the main thread between any two steps of what  *)
(* that thread is doing, a second one inside the first, so a thread is a   *)
(* stack of frames of which the top one runs.  A step ends where a lock is *)
(* taken or given back or a C call returns.  Each thread has one file and  *)
(* one buffer, named after the thread.                                     *)
(***************************************************************************)
EXTENDS Naturals, Sequences, FiniteSets

CONSTANTS Threads, Main, NoOne,
          SharedBuffers, \* threads use each other's buffers too
          HandleFails,   \* opends_handle_register can fail
          CloseFails,    \* opends_driver_close can fail, as it does in
                         \* opends_gds.c, and leave the driver open
          SignalAt,      \* when signals come: "never", "outside" the calls
                         \* of the main thread, "anywhere"
          Chained,       \* what the previous handler does: "kills", "returns"
          NCalls, NSignals \* bounds: calls, signals

ASSUME BindingAssumption ==
  /\ Main \in Threads /\ NoOne \notin Threads
  /\ SharedBuffers \in BOOLEAN /\ HandleFails \in BOOLEAN
  /\ CloseFails \in BOOLEAN
  /\ SignalAt \in {"never", "outside", "anywhere"}
  /\ Chained \subseteq {"kills", "returns"}
  /\ NCalls \in Nat /\ NSignals \in Nat

VARIABLES
  refs, pinned,   \* _driver_refs, _pinned
  cleaning,       \* _cleaning
  lock,           \* _lock, reentrant: its owner and depth
  regs, regLock,  \* _registry._regs and its lock, not reentrant
  file,           \* the thread's OpenDSFile has a handle
  hooked,         \* _signal_cleanup is installed
  stack,          \* the frames of each thread, the running one first
  cOpen, cBufs,   \* the C driver: open, its registered buffers
  closeFailed,    \* history: an opends_driver_close has failed
  alive,          \* the process
  calls, signals  \* made so far

binding == <<refs, pinned, cleaning, regs, file, hooked>>
driver  == <<cOpen, cBufs, closeFailed>>
bounds  == <<calls, signals>>
vars    == <<binding, lock, regLock, stack, driver, alive, bounds>>

Init ==
  /\ refs = 0 /\ pinned = {} /\ cleaning = FALSE
  /\ lock = [owner |-> NoOne, depth |-> 0]
  /\ regs = {} /\ regLock = NoOne
  /\ file = [t \in Threads |-> FALSE] /\ hooked = FALSE
  /\ stack = [t \in Threads |-> <<>>]
  /\ cOpen = FALSE /\ cBufs = {} /\ closeFailed = FALSE /\ alive = TRUE
  /\ calls = 0 /\ signals = 0
-----------------------------------------------------------------------------
(* Frames and locks. *)

\* What a frame does, where it is, on which buffer, and the Boolean its
\* caller keeps: first of register_buffer, pinned of deregister_buffer.
Frame(op, pc, p) == [op |-> op, pc |-> pc, p |-> p, flag |-> FALSE]

Top(t)    == Head(stack[t])
At(t, pc) == alive /\ stack[t] # <<>> /\ Top(t).pc = pc
Goto(t, pc) ==
  stack' = [stack EXCEPT ![t] = <<[Top(t) EXCEPT !.pc = pc]>> \o Tail(@)]
GotoWith(t, pc, flag) ==
  stack' = [stack EXCEPT
             ![t] = <<[Top(t) EXCEPT !.pc = pc, !.flag = flag]>> \o Tail(@)]
Return(t) == stack' = [stack EXCEPT ![t] = Tail(@)]

\* A faulty variant: _lock is not waited for.
BadMayLock(t) == TRUE

MayLock(t) == lock.owner \in {NoOne, t}
Lock(t)    == lock' = [owner |-> t, depth |-> lock.depth + 1]
Unlock     == lock' = IF lock.depth = 1 THEN [owner |-> NoOne, depth |-> 0]
                                        ELSE [lock EXCEPT !.depth = @ - 1]
-----------------------------------------------------------------------------
(* Faulty variants, paired with properties in PROJECT.json. *)

\* The reference is given back only when the buffer was pinned before.
BadGivesBack(t) == Top(t).op = "pin" /\ ~Top(t).flag
\* The cache outlives the driver.
BadCleared == regs
\* The reentrancy guard is missing.
BadReentered == FALSE
-----------------------------------------------------------------------------
(* The calls of the application. *)

Uses(t) == IF SharedBuffers THEN Threads ELSE {t}

\* A frame of a signal handler or of the exit, before which the interpreter
\* has joined the threads.
InCleanup(f) == f.op \in {"signal", "exit"}
Exiting == \E i \in DOMAIN stack[Main] : stack[Main][i].op = "exit"

Begin(t, f) ==
  /\ alive /\ ~Exiting /\ stack[t] = <<>> /\ calls < NCalls
  /\ stack' = [stack EXCEPT ![t] = <<f>>]
  /\ calls' = calls + 1
  /\ UNCHANGED <<refs, pinned, cleaning, regs, hooked, lock, regLock, driver,
                 alive, signals>>

OpenFile(t)  == ~file[t] /\ Begin(t, Frame("open", "driver", t))
                /\ UNCHANGED file
\* handle_deregister, and _fh is None from here on.
CloseFile(t) == file[t] /\ Begin(t, Frame("close", "release", t))
                /\ file' = [file EXCEPT ![t] = FALSE]
ReadOrWrite(t) ==
  /\ file[t] /\ UNCHANGED file
  /\ \E p \in Uses(t) : Begin(t, Frame("io", "ensure", p))
RegisterBuffer(t) ==
  \E p \in Uses(t) : Begin(t, Frame("pin", "first", p)) /\ UNCHANGED file
DeregisterBuffer(t) ==
  \E p \in Uses(t) : Begin(t, Frame("unpin", "unpin", p)) /\ UNCHANGED file
-----------------------------------------------------------------------------
(* _ensure_driver. *)

AfterEnsure(t) == IF Top(t).op = "open" THEN "handle" ELSE "ensure"
Ensure(t) ==
  /\ At(t, "driver") /\ MayLock(t) /\ Lock(t)
  /\ Goto(t, IF refs = 0 THEN "c_open" ELSE "count")
  /\ UNCHANGED <<binding, regLock, driver, alive, bounds>>

\* opends_driver_open, which refuses an open driver and may fail; then the
\* exception leaves the call.
DriverOpen(t) ==
  /\ At(t, "c_open")
  /\ \/ /\ ~cOpen /\ cOpen' = TRUE
        /\ Goto(t, "count") /\ UNCHANGED lock
     \/ Unlock /\ Return(t) /\ UNCHANGED cOpen
  /\ UNCHANGED <<binding, regLock, cBufs, closeFailed, alive, bounds>>

\* _install_signal_handlers: only the main thread may.
Hooked(t) == hooked \/ t = Main

Count(t) ==
  /\ At(t, "count")
  /\ refs' = refs + 1 /\ Unlock
  /\ hooked' = Hooked(t)
  /\ Goto(t, AfterEnsure(t))
  /\ UNCHANGED <<pinned, cleaning, regs, file, regLock, driver, alive, bounds>>

\* OpenDSFile.__init__ after _ensure_driver; a failure closes the file
\* descriptor and nothing else.
HandleRegister(t) ==
  /\ At(t, "handle")
  /\ \/ cOpen /\ file' = [file EXCEPT ![t] = TRUE]
     \/ (HandleFails \/ ~cOpen) /\ UNCHANGED file
  /\ Return(t)
  /\ UNCHANGED <<refs, pinned, cleaning, regs, hooked, lock, regLock, driver,
                 alive, bounds>>
-----------------------------------------------------------------------------
(* _Registry.ensure and drop. *)

AfterRegister(t) == IF Top(t).op = "pin" THEN "pin" ELSE "io"

InCache(t) ==
  /\ At(t, "ensure") /\ regLock = NoOne /\ Top(t).p \in regs
  /\ Goto(t, AfterRegister(t))
  /\ UNCHANGED <<binding, lock, regLock, driver, alive, bounds>>

NotInCache(t) ==
  /\ At(t, "ensure") /\ regLock = NoOne /\ Top(t).p \notin regs
  /\ regLock' = t
  /\ Goto(t, "c_register")
  /\ UNCHANGED <<binding, lock, driver, alive, bounds>>

\* register_buffer gives back the reference it took.
GivesBack(t) == Top(t).op = "pin" /\ Top(t).flag

\* opends_buf_register; that the driver has the buffer counts as success.
BufRegister(t) ==
  /\ At(t, "c_register")
  /\ regLock' = NoOne
  /\ \/ /\ cOpen /\ cBufs' = cBufs \cup {Top(t).p}
        /\ regs' = regs \cup {Top(t).p}
        /\ Goto(t, AfterRegister(t))
     \/ /\ UNCHANGED <<cBufs, regs>>
        /\ IF GivesBack(t) THEN Goto(t, "release") ELSE Return(t)
  /\ UNCHANGED <<refs, pinned, cleaning, file, hooked, lock, cOpen,
                 closeFailed, alive, bounds>>

\* The I/O call of _submit returns.
IoReturns(t) ==
  /\ At(t, "io") /\ Return(t)
  /\ UNCHANGED <<binding, lock, regLock, driver, alive, bounds>>

Drop(t) ==
  /\ At(t, "drop") /\ regLock = NoOne
  /\ IF Top(t).p \in regs
       THEN regLock' = t /\ regs' = regs \ {Top(t).p} /\ Goto(t, "c_drop")
       ELSE /\ UNCHANGED <<regLock, regs>>
            /\ IF Top(t).flag THEN Goto(t, "release") ELSE Return(t)
  /\ UNCHANGED <<refs, pinned, cleaning, file, hooked, lock, driver, alive,
                 bounds>>

BufDeregister(t) ==
  /\ At(t, "c_drop")
  /\ cBufs' = cBufs \ {Top(t).p} /\ regLock' = NoOne
  /\ IF Top(t).flag THEN Goto(t, "release") ELSE Return(t)
  /\ UNCHANGED <<binding, lock, cOpen, closeFailed, alive, bounds>>
-----------------------------------------------------------------------------
(* register_buffer and deregister_buffer under _lock. *)

First(t) ==
  /\ At(t, "first") /\ MayLock(t)
  /\ IF Top(t).p \in pinned THEN GotoWith(t, "ensure", FALSE)
                            ELSE GotoWith(t, "driver", TRUE)
  /\ UNCHANGED <<binding, lock, regLock, driver, alive, bounds>>

Pin(t) ==
  /\ At(t, "pin") /\ MayLock(t)
  /\ pinned' = pinned \cup {Top(t).p} /\ Return(t)
  /\ UNCHANGED <<refs, cleaning, regs, file, hooked, lock, regLock, driver,
                 alive, bounds>>

Unpin(t) ==
  /\ At(t, "unpin") /\ MayLock(t)
  /\ pinned' = pinned \ {Top(t).p}
  /\ GotoWith(t, "drop", Top(t).p \in pinned)
  /\ UNCHANGED <<refs, cleaning, regs, file, hooked, lock, regLock, driver,
                 alive, bounds>>
-----------------------------------------------------------------------------
(* _release_driver. *)

IsLast      == refs = 1
Decremented == IF refs = 0 THEN 0 ELSE refs - 1

Release(t) ==
  /\ At(t, "release") /\ MayLock(t) /\ ~IsLast
  /\ refs' = Decremented /\ Return(t)
  /\ UNCHANGED <<pinned, cleaning, regs, file, hooked, lock, regLock, driver,
                 alive, bounds>>

ReleaseLast(t) ==
  /\ At(t, "release") /\ MayLock(t) /\ IsLast
  /\ Lock(t) /\ refs' = Decremented /\ pinned' = {}
  /\ Goto(t, "clear")
  /\ UNCHANGED <<cleaning, regs, file, hooked, regLock, driver, alive, bounds>>

\* _Registry.clear, from here and from _cleanup.
Clear(t) ==
  /\ At(t, "clear") /\ regLock = NoOne
  /\ regLock' = t /\ Goto(t, "c_clear")
  /\ UNCHANGED <<binding, lock, driver, alive, bounds>>

Cleared == {}

BufDeregisterAll(t) ==
  /\ At(t, "c_clear")
  /\ cBufs' = cBufs \ regs /\ regs' = Cleared /\ regLock' = NoOne
  /\ Goto(t, "c_close")
  /\ UNCHANGED <<refs, pinned, cleaning, file, hooked, lock, cOpen,
                 closeFailed, alive, bounds>>

AfterCleanup == 0

\* opends_driver_close, which drops what is still registered; or it fails
\* and changes nothing.  _release_driver, which has counted already, raises
\* then; _cleanup takes no notice.
DriverClose(t) ==
  /\ At(t, "c_close")
  /\ \/ cOpen' = FALSE /\ cBufs' = {} /\ UNCHANGED closeFailed
     \/ /\ CloseFails /\ cOpen
        /\ closeFailed' = TRUE /\ UNCHANGED <<cOpen, cBufs>>
  /\ Unlock
  /\ IF InCleanup(Top(t)) THEN refs' = AfterCleanup /\ Goto(t, "cleaned")
                          ELSE UNCHANGED refs /\ Return(t)
  /\ UNCHANGED <<pinned, cleaning, regs, file, hooked, regLock, alive, bounds>>
-----------------------------------------------------------------------------
(* Signals, exit and _cleanup. *)

Outside == \A i \in DOMAIN stack[Main] : InCleanup(stack[Main][i])

Signal ==
  /\ alive /\ hooked /\ signals < NSignals
  /\ SignalAt = "anywhere" \/ (SignalAt = "outside" /\ Outside)
  /\ stack' = [stack EXCEPT
                ![Main] = <<Frame("signal", "cleanup", Main)>> \o @]
  /\ signals' = signals + 1
  /\ UNCHANGED <<binding, lock, regLock, driver, alive, calls>>

\* The interpreter joins the threads and calls _cleanup.
Exit ==
  /\ alive /\ \A t \in Threads : stack[t] = <<>>
  /\ stack' = [stack EXCEPT ![Main] = <<Frame("exit", "cleanup", Main)>>]
  /\ UNCHANGED <<binding, lock, regLock, driver, alive, bounds>>

Reentered == cleaning

\* Where a frame goes when its _cleanup is over.
Chain(f) == IF f.op = "exit" THEN "exit" ELSE "chain"

Cleanup ==
  /\ At(Main, "cleanup")
  /\ IF Reentered THEN Goto(Main, Chain(Top(Main))) /\ UNCHANGED cleaning
                  ELSE Goto(Main, "clean") /\ cleaning' = TRUE
  /\ UNCHANGED <<refs, pinned, regs, file, hooked, lock, regLock, driver,
                 alive, bounds>>

InUse == refs > 0

CleanupLocked ==
  /\ At(Main, "clean") /\ MayLock(Main)
  /\ IF InUse THEN Lock(Main) /\ pinned' = {} /\ Goto(Main, "clear")
              ELSE UNCHANGED <<lock, pinned>> /\ Goto(Main, "cleaned")
  /\ UNCHANGED <<refs, cleaning, regs, file, hooked, regLock, driver, alive,
                 bounds>>

Cleaned ==
  /\ At(Main, "cleaned")
  /\ cleaning' = FALSE /\ Goto(Main, Chain(Top(Main)))
  /\ UNCHANGED <<refs, pinned, regs, file, hooked, lock, regLock, driver,
                 alive, bounds>>

\* _signal_cleanup goes on to the handler it replaced.
ChainReturns ==
  /\ At(Main, "chain") /\ "returns" \in Chained
  /\ Return(Main)
  /\ UNCHANGED <<binding, lock, regLock, driver, alive, bounds>>

Dies ==
  /\ At(Main, "exit") \/ (At(Main, "chain") /\ "kills" \in Chained)
  /\ alive' = FALSE
  /\ UNCHANGED <<binding, lock, regLock, stack, driver, bounds>>
-----------------------------------------------------------------------------
Call(t) == OpenFile(t) \/ CloseFile(t) \/ ReadOrWrite(t) \/ RegisterBuffer(t)
           \/ DeregisterBuffer(t)

Step(t) ==
  \/ Ensure(t) \/ DriverOpen(t) \/ Count(t) \/ HandleRegister(t)
  \/ InCache(t) \/ NotInCache(t) \/ BufRegister(t) \/ IoReturns(t)
  \/ Drop(t) \/ BufDeregister(t) \/ First(t) \/ Pin(t) \/ Unpin(t)
  \/ Release(t) \/ ReleaseLast(t) \/ Clear(t) \/ BufDeregisterAll(t)
  \/ DriverClose(t)

CleanupStep == Cleanup \/ CleanupLocked \/ Cleaned \/ ChainReturns \/ Dies

Next ==
  \/ \E t \in Threads : Call(t) \/ Step(t)
  \/ Signal \/ Exit \/ CleanupStep

Spec == Init /\ [][Next]_vars

\* The interpreter runs every thread that can run.
FairSpec ==
  /\ Spec /\ WF_vars(CleanupStep) /\ \A t \in Threads : WF_vars(Step(t))
-----------------------------------------------------------------------------
Quiet == alive /\ \A t \in Threads : stack[t] = <<>>

\* Between calls the count is the number of open files and of buffers
\* registered by register_buffer, so that the driver is closed when the last
\* of either is released; until a signal has taken the driver away.
RefsExact ==
  Quiet /\ signals = 0 =>
    refs = Cardinality({t \in Threads : file[t]}) + Cardinality(pinned)

\* While nobody holds _lock the driver is open exactly when it is counted,
\* also after failed opens and after _cleanup.  Only a failed close parts the
\* two, and for good: the driver is then open, uncounted, and is never closed
\* or counted again.
DriverCounted ==
  lock.owner = NoOne =>
    IF closeFailed THEN cOpen /\ refs = 0 ELSE cOpen <=> refs > 0

\* I/O is made on an open driver and on a buffer that this driver has
\* registered, not an earlier one; until a signal has taken the driver away.
IoHasDriver ==
  signals = 0 =>
    \A t \in Threads : At(t, "io") => cOpen /\ Top(t).p \in cBufs

\* Calls, handlers and the cleanup at exit come to an end.
PyCallsReturn ==
  \A t \in Threads : stack[t] # <<>> ~> stack[t] = <<>> \/ ~alive

\* A process that ends, by itself or by a signal, has closed its driver.
DeadIsClosed == ~alive => ~cOpen
=============================================================================
