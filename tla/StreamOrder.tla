---------------------------- MODULE StreamOrder ----------------------------
(***************************************************************************)
(* What the public header promises of submitted operations                 *)
(* (src/include/opends.h, "Stream-ordered I/O" and "Asynchronous I/O"): an *)
(* operation associated with a stream runs when the stream reaches it,     *)
(* alone among the operations of that stream, and the stream goes past it  *)
(* once it is done; an asynchronous operation runs at any time.  Each      *)
(* operation is done once.  A stream also carries other work, which the    *)
(* operations are ordered with.                                            *)
(***************************************************************************)
EXTENDS Naturals, Sequences

CONSTANTS Ops, Streams, Other

VARIABLES order,   \* order[s]: operations and other work on s, in stream order
          passed,  \* passed[s]: how many entries the stream has gone past
          free,    \* accepted operations not associated with a stream
          running, \* operations being executed
          done     \* operations that have a result

ovars == <<order, passed, free, running, done>>

OInit ==
  /\ order = [s \in Streams |-> <<>>]
  /\ passed = [s \in Streams |-> 0]
  /\ free = {} /\ running = {} /\ done = {}

Ordered(o) == \E s \in Streams : \E i \in 1 .. Len(order[s]) : order[s][i] = o
Fresh(o) == ~Ordered(o) /\ o \notin free

Accept(o) ==
  /\ Fresh(o)
  /\ free' = free \cup {o}
  /\ UNCHANGED <<order, passed, running, done>>

AcceptOn(o, s) ==
  /\ Fresh(o)
  /\ order' = [order EXCEPT ![s] = Append(@, o)]
  /\ UNCHANGED <<passed, free, running, done>>

AddOther(s) ==
  /\ order' = [order EXCEPT ![s] = Append(@, Other)]
  /\ UNCHANGED <<passed, free, running, done>>

\* The stream has reached o: everything before o has been passed.
Reached(o) ==
  \E s \in Streams : passed[s] < Len(order[s]) /\ order[s][passed[s] + 1] = o

Run(o) ==
  /\ o \in free \/ Reached(o)
  /\ o \notin running \cup done
  /\ running' = running \cup {o}
  /\ UNCHANGED <<order, passed, free, done>>

Finish(o) ==
  /\ o \in running
  /\ running' = running \ {o}
  /\ done' = done \cup {o}
  /\ UNCHANGED <<order, passed, free>>

Pass(s) ==
  /\ passed[s] < Len(order[s])
  /\ order[s][passed[s] + 1] \in done \cup {Other}
  /\ passed' = [passed EXCEPT ![s] = @ + 1]
  /\ UNCHANGED <<order, free, running, done>>

ONext ==
  \/ \E o \in Ops : Accept(o) \/ Run(o) \/ Finish(o)
  \/ \E o \in Ops, s \in Streams : AcceptOn(o, s)
  \/ \E s \in Streams : AddOther(s) \/ Pass(s)

OSpec == OInit /\ [][ONext]_ovars
=============================================================================
