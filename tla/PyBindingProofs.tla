-------------------------- MODULE PyBindingProofs --------------------------
(***************************************************************************)
(* Proofs about the Python binding (PyBinding).                            *)
(*                                                                         *)
(* FramesInv says what a frame at each of its steps knows of _lock, of the *)
(* reference count and of the C driver, and that of the cleanups stacked   *)
(* on the main thread one at most is past the reentrancy guard; it holds   *)
(* as long as no signal comes inside a call of the main thread.  HeldInv   *)
(* counts the references: each belongs to a file or to a pinned buffer, or *)
(* to a call that is about to make one of these or to give it back.        *)
(***************************************************************************)
EXTENDS PyBinding, FiniteSetTheorems, TLAPS

Ops == {"open", "close", "io", "pin", "unpin", "signal", "exit"}
Pcs == {"driver", "c_open", "count", "handle", "release", "clear", "c_clear",
        "c_close", "ensure", "c_register", "io", "first", "pin", "unpin",
        "drop", "c_drop", "cleanup", "clean", "cleaned", "chain", "exit"}
Frames == [op : Ops, pc : Pcs, p : Threads, flag : BOOLEAN]

\* Frames that hold _lock, and those of a cleanup past the reentrancy guard.
LockPcs  == {"c_open", "count", "clear", "c_clear", "c_close"}
CleanPcs == {"clean", "clear", "c_clear", "c_close", "cleaned"}
Cleans(f) == InCleanup(f) /\ f.pc \in CleanPcs

\* The steps of each operation.
StepOf(op, pc) ==
  \/ op = "open" /\ pc \in {"driver", "c_open", "count", "handle"}
  \/ op = "close" /\ pc \in {"release", "clear", "c_clear", "c_close"}
  \/ op = "io" /\ pc \in {"ensure", "c_register", "io"}
  \/ op = "pin" /\ pc \in {"first", "driver", "c_open", "count", "ensure",
                               "c_register", "pin", "release", "clear",
                               "c_clear", "c_close"}
  \/ op = "unpin" /\ pc \in {"unpin", "drop", "c_drop", "release", "clear",
                                 "c_clear", "c_close"}
  \/ op = "signal" /\ pc \in {"cleanup", "clean", "clear", "c_clear",
                                  "c_close", "cleaned", "chain"}
  \/ op = "exit" /\ pc \in {"cleanup", "clean", "clear", "c_clear",
                                "c_close", "cleaned", "exit"}

\* What frame f of thread t knows.
Knows(t, f) ==
  /\ StepOf(f.op, f.pc)
  /\ InCleanup(f) => t = Main
  /\ f.op = "signal" => signals > 0
  /\ Cleans(f) => cleaning
  /\ f.pc \in LockPcs => lock.owner = t
  /\ f.pc = "c_open" => refs = 0 /\ (cOpen <=> closeFailed)
  /\ f.pc = "count" => cOpen /\ ~closeFailed
  /\ f.pc \in {"clear", "c_clear", "c_close"} => ~closeFailed
  /\ f.pc \in {"clear", "c_clear", "c_close"} /\ ~InCleanup(f) => refs = 0

Typed ==
  /\ stack \in [Threads -> Seq(Frames)]
  /\ refs \in Nat /\ cOpen \in BOOLEAN /\ cleaning \in BOOLEAN
  /\ signals \in Nat
  /\ lock \in [owner : Threads \cup {NoOne}, depth : {0, 1}]
  /\ lock.owner = NoOne <=> lock.depth = 0

FramesKnow ==
  \A t \in Threads : \A i \in 1 .. Len(stack[t]) : Knows(t, stack[t][i])

\* A call of the application is the only frame of its thread.
CallsAlone ==
  \A t \in Threads : \A i \in 1 .. Len(stack[t]) :
    InCleanup(stack[t][i]) \/ Len(stack[t]) = 1

OneCleans ==
  \A t \in Threads : \A i, j \in 1 .. Len(stack[t]) :
    Cleans(stack[t][i]) /\ Cleans(stack[t][j]) => i = j

LockHeld ==
  lock.owner # NoOne =>
    \E i \in 1 .. Len(stack[lock.owner]) : stack[lock.owner][i].pc \in LockPcs

\* No signal comes inside a call of the main thread, or none has come yet.
Calm == SignalAt # "anywhere" \/ signals = 0

\* Also while somebody holds _lock, a failed close has left the driver open and
\* uncounted.
Counted ==
  /\ DriverCounted
  /\ closeFailed \in BOOLEAN /\ (closeFailed => cOpen /\ refs = 0)

Good ==
  /\ Typed /\ FramesKnow /\ CallsAlone /\ OneCleans /\ LockHeld
  /\ Counted
FramesInv == signals \in Nat /\ (Calm => Good)
-----------------------------------------------------------------------------
(* The three ways a stack changes. *)

\* Goto puts another frame in the place of the top one.
LEMMA Replaced ==
  ASSUME NEW S, NEW s \in Seq(S), s # <<>>, NEW f \in S
  PROVE  /\ <<f>> \o Tail(s) \in Seq(S)
         /\ Len(<<f>> \o Tail(s)) = Len(s)
         /\ (<<f>> \o Tail(s))[1] = f
         /\ \A i \in 2 .. Len(s) : (<<f>> \o Tail(s))[i] = s[i]
  OBVIOUS

\* Return takes the top frame away.
LEMMA Popped ==
  ASSUME NEW S, NEW s \in Seq(S), s # <<>>
  PROVE  /\ Tail(s) \in Seq(S)
         /\ Len(Tail(s)) = Len(s) - 1
         /\ \A i \in 1 .. Len(s) - 1 : Tail(s)[i] = s[i + 1]
  OBVIOUS

\* A signal puts a frame on top.
LEMMA Pushed ==
  ASSUME NEW S, NEW s \in Seq(S), NEW f \in S
  PROVE  /\ <<f>> \o s \in Seq(S)
         /\ Len(<<f>> \o s) = Len(s) + 1
         /\ (<<f>> \o s)[1] = f
         /\ \A i \in 2 .. Len(s) + 1 : (<<f>> \o s)[i] = s[i - 1]
  OBVIOUS

\* A stack with a frame is not empty.
LEMMA OneIsSome ==
  ASSUME NEW S, NEW s \in Seq(S), Len(s) = 1
  PROVE  s # <<>>
  OBVIOUS

\* The running frame is the first one.
LEMMA TopIsFirst ==
  ASSUME NEW S, NEW s \in Seq(S), s # <<>>
  PROVE  Head(s) = s[1] /\ Head(s) \in S /\ 1 \in 1 .. Len(s) /\ Len(s) \in Nat
  OBVIOUS

\* What a step that replaces the top frame of t does to the stacks.
LEMMA GotoEffect ==
  ASSUME Typed, NEW t \in Threads, stack[t] # <<>>, NEW f \in Frames,
         stack' = [stack EXCEPT ![t] = <<f>> \o Tail(@)]
  PROVE  /\ stack' \in [Threads -> Seq(Frames)]
         /\ \A u \in Threads \ {t} : stack'[u] = stack[u]
         /\ Len(stack'[t]) = Len(stack[t]) /\ Len(stack[t]) \in Nat \ {0}
         /\ stack'[t][1] = f
         /\ \A i \in 2 .. Len(stack[t]) : stack'[t][i] = stack[t][i]
  BY Replaced, TopIsFirst DEF Typed

\* What a step that takes the top frame of t away does to the stacks.
LEMMA ReturnEffect ==
  ASSUME Typed, NEW t \in Threads, stack[t] # <<>>, Return(t)
  PROVE  /\ stack' \in [Threads -> Seq(Frames)]
         /\ \A u \in Threads \ {t} : stack'[u] = stack[u]
         /\ Len(stack'[t]) = Len(stack[t]) - 1 /\ Len(stack[t]) \in Nat \ {0}
         /\ \A i \in 1 .. Len(stack[t]) - 1 : stack'[t][i] = stack[t][i + 1]
  BY Popped, TopIsFirst DEF Typed, Return

\* The top frame, which is what a step looks at.
LEMMA TopKnows ==
  ASSUME Good, NEW t \in Threads, stack[t] # <<>>
  PROVE  /\ Top(t) = stack[t][1] /\ Top(t) \in Frames /\ Knows(t, Top(t))
         /\ InCleanup(Top(t)) \/ Len(stack[t]) = 1
         /\ 1 \in 1 .. Len(stack[t])
<1>1. stack[t] \in Seq(Frames)
  BY DEF Good, Typed
<1> QED
  BY <1>1, TopIsFirst DEF Good, Top, FramesKnow, CallsAlone

\* A step that moves a frame and touches nothing a frame knows about.
LEMMA QuietGoto ==
  ASSUME Good, NEW t \in Threads, stack[t] # <<>>, NEW f \in Frames,
         stack' = [stack EXCEPT ![t] = <<f>> \o Tail(@)],
         f.op = Top(t).op, Knows(t, f),
         Cleans(f) => Cleans(Top(t)),
         f.pc \in LockPcs <=> Top(t).pc \in LockPcs,
         UNCHANGED <<refs, cOpen, closeFailed, cleaning, lock, signals>>
  PROVE  Good'
<1>1. /\ stack' \in [Threads -> Seq(Frames)]
      /\ \A u \in Threads \ {t} : stack'[u] = stack[u]
      /\ Len(stack'[t]) = Len(stack[t]) /\ Len(stack[t]) \in Nat \ {0}
      /\ stack'[t][1] = f
      /\ \A i \in 2 .. Len(stack[t]) : stack'[t][i] = stack[t][i]
  BY GotoEffect DEF Good
<1>2. /\ Top(t) = stack[t][1]
      /\ InCleanup(Top(t)) \/ Len(stack[t]) = 1
      /\ 1 \in 1 .. Len(stack[t])
  BY TopKnows
<1>3. Typed'
  BY <1>1 DEF Good, Typed
<1>4. FramesKnow'
  BY <1>1 DEF Good, FramesKnow, Knows
<1>5. CallsAlone'
  <2> SUFFICES ASSUME NEW u \in Threads, NEW i \in 1 .. Len(stack'[u])
               PROVE  InCleanup(stack'[u][i]) \/ Len(stack'[u]) = 1
    BY DEF CallsAlone, InCleanup
  <2>1. CASE u = t /\ i = 1
    BY <1>1, <1>2, <2>1 DEF InCleanup
  <2>2. CASE ~(u = t /\ i = 1)
    <3>1. /\ i \in 1 .. Len(stack[u]) /\ Len(stack'[u]) = Len(stack[u])
          /\ stack'[u][i] = stack[u][i]
      BY <1>1, <2>2
    <3> QED
      BY <3>1 DEF Good, CallsAlone
  <2> QED
    BY <2>1, <2>2
<1>6. OneCleans'
  <2> SUFFICES ASSUME NEW u \in Threads, NEW i \in 1 .. Len(stack'[u]),
                      NEW j \in 1 .. Len(stack'[u]),
                      Cleans(stack'[u][i]), Cleans(stack'[u][j])
               PROVE  i = j
    BY DEF OneCleans, Cleans, InCleanup
  <2> QED
    BY <1>1, <1>2 DEF Good, OneCleans
<1>7. LockHeld'
  <2>1. CASE lock.owner = NoOne
    BY <2>1 DEF LockHeld
  <2>2. CASE lock.owner # NoOne
    <3>1. PICK i \in 1 .. Len(stack[lock.owner]) :
                 stack[lock.owner][i].pc \in LockPcs
      BY <2>2 DEF Good, LockHeld
    <3>2. lock.owner \in Threads
      BY <2>2 DEF Good, Typed
    <3>3. i \in 1 .. Len(stack'[lock.owner]) /\ stack'[lock.owner][i].pc \in LockPcs
      BY <1>1, <1>2, <3>1, <3>2
    <3> QED
      BY <3>3 DEF LockHeld
  <2> QED
    BY <2>1, <2>2
<1>8. Counted'
  BY DEF Good, Counted, DriverCounted
<1> QED
  BY <1>3, <1>4, <1>5, <1>6, <1>7, <1>8 DEF Good

\* A step that ends a frame without _lock and touches nothing a frame knows
\* about.
LEMMA QuietReturn ==
  ASSUME Good, NEW t \in Threads, stack[t] # <<>>, Return(t),
         Top(t).pc \notin LockPcs,
         UNCHANGED <<refs, cOpen, closeFailed, cleaning, lock, signals>>
  PROVE  Good'
<1>1. /\ stack' \in [Threads -> Seq(Frames)]
      /\ \A u \in Threads \ {t} : stack'[u] = stack[u]
      /\ Len(stack'[t]) = Len(stack[t]) - 1 /\ Len(stack[t]) \in Nat \ {0}
      /\ \A i \in 1 .. Len(stack[t]) - 1 : stack'[t][i] = stack[t][i + 1]
  BY ReturnEffect DEF Good
<1>2. /\ Top(t) = stack[t][1]
      /\ InCleanup(Top(t)) \/ Len(stack[t]) = 1
      /\ 1 \in 1 .. Len(stack[t])
  BY TopKnows
<1>3. Typed'
  BY <1>1 DEF Good, Typed
<1>4. FramesKnow'
  <2> SUFFICES ASSUME NEW u \in Threads, NEW i \in 1 .. Len(stack'[u])
               PROVE  Knows(u, stack[u][i])'
    BY DEF FramesKnow
  <2>1. \E j \in 1 .. Len(stack[u]) : stack'[u][i] = stack[u][j]
    <3>1. CASE u = t
      <4>1. i + 1 \in 1 .. Len(stack[t]) /\ stack'[t][i] = stack[t][i + 1]
        BY <1>1, <3>1
      <4> QED
        BY <3>1, <4>1
    <3> QED
      BY <3>1, <1>1
  <2> QED
    BY <2>1 DEF Good, FramesKnow, Knows
<1>5. CallsAlone'
  <2> SUFFICES ASSUME NEW u \in Threads, NEW i \in 1 .. Len(stack'[u])
               PROVE  InCleanup(stack'[u][i]) \/ Len(stack'[u]) = 1
    BY DEF CallsAlone, InCleanup
  <2>1. CASE u = t
    <3>1. Len(stack[t]) # 1 /\ i + 1 \in 1 .. Len(stack[t])
      BY <2>1, <1>1
    <3> QED
      BY <2>1, <3>1, <1>1 DEF Good, CallsAlone
  <2> QED
    BY <2>1, <1>1 DEF Good, CallsAlone
<1>6. OneCleans'
  <2> SUFFICES ASSUME NEW u \in Threads, NEW i \in 1 .. Len(stack'[u]),
                      NEW j \in 1 .. Len(stack'[u]),
                      Cleans(stack'[u][i]), Cleans(stack'[u][j])
               PROVE  i = j
    BY DEF OneCleans, Cleans, InCleanup
  <2>1. CASE u = t
    <3>1. i + 1 \in 1 .. Len(stack[t]) /\ j + 1 \in 1 .. Len(stack[t])
      BY <2>1, <1>1
    <3>2. Cleans(stack[t][i + 1]) /\ Cleans(stack[t][j + 1])
      BY <2>1, <1>1
    <3> QED
      BY <3>1, <3>2 DEF Good, OneCleans
  <2> QED
    BY <2>1, <1>1 DEF Good, OneCleans
<1>7. LockHeld'
  <2>1. CASE lock.owner = NoOne
    BY <2>1 DEF LockHeld
  <2>2. CASE lock.owner # NoOne
    <3>1. PICK i \in 1 .. Len(stack[lock.owner]) :
                 stack[lock.owner][i].pc \in LockPcs
      BY <2>2 DEF Good, LockHeld
    <3>2. lock.owner \in Threads
      BY <2>2 DEF Good, Typed
    <3>3. CASE lock.owner = t
      <4>1. i - 1 \in 1 .. Len(stack'[t]) /\ stack'[t][i - 1].pc \in LockPcs
        BY <1>1, <1>2, <3>1, <3>3
      <4> QED
        BY <4>1, <3>3 DEF LockHeld
    <3>4. CASE lock.owner # t
      BY <1>1, <3>1, <3>2, <3>4 DEF LockHeld
    <3> QED
      BY <3>3, <3>4
  <2> QED
    BY <2>1, <2>2
<1>8. Counted'
  BY DEF Good, Counted, DriverCounted
<1> QED
  BY <1>3, <1>4, <1>5, <1>6, <1>7, <1>8 DEF Good
-----------------------------------------------------------------------------
(* Steps that take, use or give back _lock. *)

\* No frame but the top one of t holds _lock.
OthersFree(t) ==
  \A u \in Threads : \A i \in 1 .. Len(stack[u]) :
    (u = t /\ i = 1) \/ stack[u][i].pc \notin LockPcs

\* _lock is free, or t may take it again: then no frame holds it, unless it is
\* the top one of t.
LEMMA MayLockFrees ==
  ASSUME Good, NEW t \in Threads, stack[t] # <<>>, MayLock(t),
         Top(t).pc \notin LockPcs, ~InCleanup(Top(t)) \/ Cleans(Top(t))
  PROVE  lock.owner = NoOne /\ lock.depth = 0 /\ OthersFree(t)
<1>1. /\ Top(t) = stack[t][1]
      /\ InCleanup(Top(t)) \/ Len(stack[t]) = 1
      /\ 1 \in 1 .. Len(stack[t])
  BY TopKnows
<1>2. ASSUME NEW i \in 1 .. Len(stack[t])
      PROVE  stack[t][i].pc \notin LockPcs
  <2>1. CASE i = 1
    BY <2>1, <1>1
  <2>2. CASE i # 1
    <3>1. InCleanup(stack[t][i]) /\ Cleans(Top(t))
      BY <1>1, <2>2 DEF Good, CallsAlone
    <3>2. ~Cleans(stack[t][i])
      BY <1>1, <2>2, <3>1 DEF Good, OneCleans
    <3>3. Knows(t, stack[t][i])
      BY DEF Good, FramesKnow
    <3> QED
      BY <3>1, <3>2, <3>3
         DEF Cleans, CleanPcs, LockPcs, Knows, StepOf, InCleanup
  <2> QED
    BY <2>1, <2>2
<1>3. lock.owner = NoOne
  BY <1>2 DEF Good, LockHeld, MayLock
<1>4. lock.depth = 0
  BY <1>3 DEF Good, Typed
<1>5. OthersFree(t)
  BY <1>3, BindingAssumption DEF OthersFree, Good, FramesKnow, Knows
<1> QED
  BY <1>3, <1>4, <1>5

\* The frame that holds _lock is the only one.
LEMMA HolderAlone ==
  ASSUME Good, NEW t \in Threads, stack[t] # <<>>, Top(t).pc \in LockPcs
  PROVE  lock = [owner |-> t, depth |-> 1] /\ OthersFree(t)
<1>1. /\ Top(t) = stack[t][1] /\ Knows(t, Top(t))
      /\ InCleanup(Top(t)) \/ Len(stack[t]) = 1
      /\ 1 \in 1 .. Len(stack[t])
  BY TopKnows
<1>2. lock = [owner |-> t, depth |-> 1]
  BY <1>1, BindingAssumption DEF Knows, Good, Typed
<1>3. ASSUME NEW i \in 1 .. Len(stack[t]), i # 1
      PROVE  stack[t][i].pc \notin LockPcs
  <2>a. InCleanup(stack[t][i]) /\ InCleanup(Top(t))
    BY <1>1, <1>3 DEF Good, CallsAlone
  <2>1. InCleanup(stack[t][i]) /\ Cleans(Top(t))
    BY <2>a, <1>1 DEF Cleans, CleanPcs, LockPcs, Knows, StepOf, InCleanup
  <2>2. ~Cleans(stack[t][i])
    BY <1>1, <1>3, <2>1 DEF Good, OneCleans
  <2>3. Knows(t, stack[t][i])
    BY DEF Good, FramesKnow
  <2> QED
    BY <2>1, <2>2, <2>3 DEF Cleans, CleanPcs, LockPcs, Knows, StepOf, InCleanup
<1>4. OthersFree(t)
  BY <1>2, <1>3 DEF OthersFree, Good, FramesKnow, Knows
<1> QED
  BY <1>2, <1>4

\* What the parts of the state besides the stacks have to be after a step.
Rest ==
  /\ refs \in Nat /\ cOpen \in BOOLEAN
  /\ lock \in [owner : Threads \cup {NoOne}, depth : {0, 1}]
  /\ lock.owner = NoOne <=> lock.depth = 0
  /\ Counted

\* A step of the frame that has, takes or gives back _lock.
LEMMA LockGoto ==
  ASSUME Good, NEW t \in Threads, stack[t] # <<>>, NEW f \in Frames,
         stack' = [stack EXCEPT ![t] = <<f>> \o Tail(@)],
         OthersFree(t), f.op = Top(t).op, Knows(t, f)', Rest',
         Cleans(f) => Cleans(Top(t)),
         IF f.pc \in LockPcs THEN lock'.owner = t ELSE lock'.owner = NoOne,
         UNCHANGED <<cleaning, signals>>
  PROVE  Good'
<1>1. /\ stack' \in [Threads -> Seq(Frames)]
      /\ \A u \in Threads \ {t} : stack'[u] = stack[u]
      /\ Len(stack'[t]) = Len(stack[t]) /\ Len(stack[t]) \in Nat \ {0}
      /\ stack'[t][1] = f
      /\ \A i \in 2 .. Len(stack[t]) : stack'[t][i] = stack[t][i]
  BY GotoEffect DEF Good
<1>2. /\ Top(t) = stack[t][1]
      /\ InCleanup(Top(t)) \/ Len(stack[t]) = 1
      /\ 1 \in 1 .. Len(stack[t])
  BY TopKnows
<1>a. ASSUME NEW u \in Threads, NEW i \in 1 .. Len(stack'[u]),
             ~(u = t /\ i = 1)
      PROVE  /\ i \in 1 .. Len(stack[u]) /\ Len(stack'[u]) = Len(stack[u])
             /\ stack'[u][i] = stack[u][i]
  BY <1>1, <1>a
<1>3. Typed'
  BY <1>1 DEF Good, Typed, Rest
<1>4. FramesKnow'
  <2> SUFFICES ASSUME NEW u \in Threads, NEW i \in 1 .. Len(stack'[u])
               PROVE  Knows(u, stack[u][i])'
    BY DEF FramesKnow
  <2>1. CASE u = t /\ i = 1
    BY <2>1, <1>1 DEF Knows
  <2>2. CASE ~(u = t /\ i = 1)
    <3>1. Knows(u, stack[u][i]) /\ stack'[u][i] = stack[u][i]
      BY <2>2, <1>a DEF Good, FramesKnow
    <3>2. stack[u][i].pc \notin LockPcs
      BY <2>2, <1>a DEF OthersFree
    <3> QED
      BY <3>1, <3>2 DEF Knows, LockPcs
  <2> QED
    BY <2>1, <2>2
<1>5. CallsAlone'
  <2> SUFFICES ASSUME NEW u \in Threads, NEW i \in 1 .. Len(stack'[u])
               PROVE  InCleanup(stack'[u][i]) \/ Len(stack'[u]) = 1
    BY DEF CallsAlone, InCleanup
  <2>1. CASE u = t /\ i = 1
    BY <1>1, <1>2, <2>1 DEF InCleanup
  <2>2. CASE ~(u = t /\ i = 1)
    BY <1>a, <2>2 DEF Good, CallsAlone
  <2> QED
    BY <2>1, <2>2
<1>6. OneCleans'
  <2> SUFFICES ASSUME NEW u \in Threads, NEW i \in 1 .. Len(stack'[u]),
                      NEW j \in 1 .. Len(stack'[u]),
                      Cleans(stack'[u][i]), Cleans(stack'[u][j])
               PROVE  i = j
    BY DEF OneCleans, Cleans, InCleanup
  <2> QED
    BY <1>1, <1>2 DEF Good, OneCleans
<1>7. LockHeld'
  BY <1>1, <1>2 DEF LockHeld
<1> QED
  BY <1>3, <1>4, <1>5, <1>6, <1>7 DEF Good, Rest

\* A call ends and leaves _lock free.
LEMMA LockReturn ==
  ASSUME Good, NEW t \in Threads, stack[t] # <<>>, Return(t),
         OthersFree(t), ~InCleanup(Top(t)), Rest', lock'.owner = NoOne,
         UNCHANGED <<cleaning, signals>>
  PROVE  Good'
<1>1. /\ stack' \in [Threads -> Seq(Frames)]
      /\ \A u \in Threads \ {t} : stack'[u] = stack[u]
      /\ Len(stack'[t]) = Len(stack[t]) - 1
  BY ReturnEffect DEF Good
<1>2. Len(stack[t]) = 1
  BY TopKnows
<1>a. ASSUME NEW u \in Threads, NEW i \in 1 .. Len(stack'[u])
      PROVE  u # t /\ i \in 1 .. Len(stack[u]) /\ stack'[u] = stack[u]
  BY <1>1, <1>2
<1>3. Typed'
  BY <1>1 DEF Good, Typed, Rest
<1>4. FramesKnow'
  <2> SUFFICES ASSUME NEW u \in Threads, NEW i \in 1 .. Len(stack'[u])
               PROVE  Knows(u, stack[u][i])'
    BY DEF FramesKnow
  <2>1. Knows(u, stack[u][i]) /\ stack'[u][i] = stack[u][i]
    BY <1>a DEF Good, FramesKnow
  <2>2. stack[u][i].pc \notin LockPcs
    BY <1>a DEF OthersFree
  <2> QED
    BY <2>1, <2>2 DEF Knows, LockPcs
<1>5. CallsAlone'
  BY <1>a DEF Good, CallsAlone, InCleanup
<1>6. OneCleans'
  BY <1>a DEF Good, OneCleans, Cleans, InCleanup
<1>7. LockHeld'
  BY DEF LockHeld
<1> QED
  BY <1>3, <1>4, <1>5, <1>6, <1>7 DEF Good, Rest
-----------------------------------------------------------------------------
(* The steps of the calls. *)

\* The frame Goto puts in the place of the top one.
LEMMA MovedFrame ==
  ASSUME NEW f \in Frames, NEW pc, StepOf(f.op, pc)
  PROVE  /\ [f EXCEPT !.pc = pc] \in Frames
         /\ [f EXCEPT !.pc = pc].op = f.op /\ [f EXCEPT !.pc = pc].pc = pc
         /\ [f EXCEPT !.pc = pc].p = f.p /\ [f EXCEPT !.pc = pc].flag = f.flag
<1>1. pc \in Pcs
  BY DEF StepOf, Pcs
<1> QED
  BY <1>1 DEF Frames

\* A step of a call, or of a cleanup inside _lock, that touches nothing a
\* frame knows about.
MayMove(from, to) ==
  \/ from \notin LockPcs /\ to \notin LockPcs /\ to \notin CleanPcs
  \/ from = "clear" /\ to = "c_clear"
  \/ from = "c_clear" /\ to = "c_close"

\* Such a step keeps the invariant.
LEMMA QuietFrame ==
  ASSUME Good, NEW t \in Threads, stack[t] # <<>>, NEW f \in Frames,
         stack' = [stack EXCEPT ![t] = <<f>> \o Tail(@)],
         f.op = Top(t).op, StepOf(Top(t).op, f.pc), MayMove(Top(t).pc, f.pc),
         UNCHANGED <<refs, cOpen, closeFailed, cleaning, lock, signals>>
  PROVE  Good'
<1>1. Top(t) \in Frames /\ Knows(t, Top(t))
  BY TopKnows
<1>2. Knows(t, f)
  BY <1>1 DEF Knows, LockPcs, CleanPcs, Cleans, InCleanup, MayMove
<1>3. /\ Cleans(f) => Cleans(Top(t))
      /\ f.pc \in LockPcs <=> Top(t).pc \in LockPcs
  BY DEF Cleans, InCleanup, LockPcs, CleanPcs, MayMove
<1> QED
  BY <1>2, <1>3, QuietGoto

\* The same for Goto.
LEMMA QuietMove ==
  ASSUME Good, NEW t \in Threads, stack[t] # <<>>, NEW to,
         Goto(t, to), StepOf(Top(t).op, to), MayMove(Top(t).pc, to),
         UNCHANGED <<refs, cOpen, closeFailed, cleaning, lock, signals>>
  PROVE  Good'
<1> DEFINE f == [Top(t) EXCEPT !.pc = to]
<1>1. f \in Frames /\ f.op = Top(t).op /\ f.pc = to
  BY TopKnows, MovedFrame
<1>2. stack' = [stack EXCEPT ![t] = <<f>> \o Tail(@)]
  BY DEF Goto
<1> HIDE DEF f
<1> QED
  BY <1>1, <1>2, QuietFrame

\* The same for GotoWith.
LEMMA QuietMoveWith ==
  ASSUME Good, NEW t \in Threads, stack[t] # <<>>, NEW to,
         NEW b \in BOOLEAN, GotoWith(t, to, b),
         StepOf(Top(t).op, to), MayMove(Top(t).pc, to),
         UNCHANGED <<refs, cOpen, closeFailed, cleaning, lock, signals>>
  PROVE  Good'
<1> DEFINE f == [Top(t) EXCEPT !.pc = to, !.flag = b]
<1>1. f \in Frames /\ f.op = Top(t).op /\ f.pc = to
  <2>1. Top(t) \in Frames
    BY TopKnows
  <2> QED
    BY <2>1 DEF Frames, StepOf, Pcs
<1>2. stack' = [stack EXCEPT ![t] = <<f>> \o Tail(@)]
  BY DEF GotoWith
<1> HIDE DEF f
<1> QED
  BY <1>1, <1>2, QuietFrame

\* The registry, the I/O and the pinning of a buffer.
LEMMA RegistrySteps ==
  ASSUME Good, NEW t \in Threads,
         \/ HandleRegister(t) \/ InCache(t) \/ NotInCache(t) \/ BufRegister(t)
         \/ IoReturns(t) \/ Drop(t) \/ BufDeregister(t) \/ First(t) \/ Pin(t)
         \/ Unpin(t) \/ Clear(t) \/ BufDeregisterAll(t)
  PROVE  Good'
<1>a. stack[t] # <<>>
  BY DEF HandleRegister, InCache, NotInCache, BufRegister, IoReturns, Drop,
         BufDeregister, First, Pin, Unpin, Clear, BufDeregisterAll, At
<1>1. ASSUME Top(t).pc \notin LockPcs, Return(t),
             UNCHANGED <<refs, cOpen, closeFailed, cleaning, lock, signals>>
      PROVE  Good'
  BY <1>a, <1>1, QuietReturn
<1>2. StepOf(Top(t).op, Top(t).pc)
  BY <1>a, TopKnows DEF Knows
<1>3. CASE HandleRegister(t)
  BY <1>3, <1>1 DEF HandleRegister, At, LockPcs, driver, bounds
<1>4. CASE InCache(t)
  <2>1. StepOf(Top(t).op, AfterRegister(t))
    BY <1>2, <1>4 DEF InCache, At, StepOf, AfterRegister
  <2> QED
    BY <2>1, <1>4, <1>a, QuietMove
       DEF InCache, At, MayMove, LockPcs, CleanPcs, AfterRegister, binding, driver, bounds
<1>5. CASE NotInCache(t)
  <2>1. StepOf(Top(t).op, "c_register")
    BY <1>2, <1>5 DEF NotInCache, At, StepOf
  <2> QED
    BY <2>1, <1>5, <1>a, QuietMove
       DEF NotInCache, At, MayMove, LockPcs, CleanPcs, binding, driver, bounds
<1>6. CASE BufRegister(t)
  <2>1. StepOf(Top(t).op, AfterRegister(t))
    BY <1>2, <1>6 DEF BufRegister, At, StepOf, AfterRegister
  <2>2. GivesBack(t) =>
          StepOf(Top(t).op, "release")
    BY <1>2, <1>6 DEF BufRegister, At, StepOf, GivesBack
  <2>3. Top(t).pc = "c_register" /\ UNCHANGED <<refs, cOpen, closeFailed, cleaning, lock, signals>>
    BY <1>6 DEF BufRegister, At, bounds
  <2>4. Goto(t, AfterRegister(t)) \/ (GivesBack(t) /\ Goto(t, "release"))
        \/ Return(t)
    BY <1>6 DEF BufRegister
  <2> QED
    BY <2>1, <2>2, <2>3, <2>4, <1>1, <1>a, QuietMove
       DEF MayMove, LockPcs, CleanPcs, AfterRegister
<1>7. CASE IoReturns(t)
  BY <1>7, <1>1 DEF IoReturns, At, LockPcs, binding, driver, bounds
<1>8. CASE Drop(t)
  <2>1. /\ StepOf(Top(t).op, "c_drop")
        /\ StepOf(Top(t).op, "release")
    BY <1>2, <1>8 DEF Drop, At, StepOf
  <2>2. Top(t).pc = "drop" /\ UNCHANGED <<refs, cOpen, closeFailed, cleaning, lock, signals>>
    BY <1>8 DEF Drop, At, driver, bounds
  <2>3. Goto(t, "c_drop") \/ Goto(t, "release") \/ Return(t)
    BY <1>8 DEF Drop
  <2> QED
    BY <2>1, <2>2, <2>3, <1>1, <1>a, QuietMove DEF MayMove, LockPcs, CleanPcs
<1>9. CASE BufDeregister(t)
  <2>1. StepOf(Top(t).op, "release")
    BY <1>2, <1>9 DEF BufDeregister, At, StepOf
  <2>2. Top(t).pc = "c_drop" /\ UNCHANGED <<refs, cOpen, closeFailed, cleaning, lock, signals>>
    BY <1>9 DEF BufDeregister, At, binding, bounds
  <2>3. Goto(t, "release") \/ Return(t)
    BY <1>9 DEF BufDeregister
  <2> QED
    BY <2>1, <2>2, <2>3, <1>1, <1>a, QuietMove DEF MayMove, LockPcs, CleanPcs
<1>10. CASE First(t)
  <2>1. /\ StepOf(Top(t).op, "ensure")
        /\ StepOf(Top(t).op, "driver")
    BY <1>2, <1>10 DEF First, At, StepOf
  <2>2. Top(t).pc = "first" /\ UNCHANGED <<refs, cOpen, closeFailed, cleaning, lock, signals>>
    BY <1>10 DEF First, At, binding, driver, bounds
  <2>3. GotoWith(t, "ensure", FALSE) \/ GotoWith(t, "driver", TRUE)
    BY <1>10 DEF First
  <2> QED
    BY <2>1, <2>2, <2>3, <1>a, QuietMoveWith DEF MayMove, LockPcs, CleanPcs
<1>11. CASE Pin(t)
  BY <1>11, <1>1 DEF Pin, At, LockPcs, driver, bounds
<1>12. CASE Unpin(t)
  <2>1. StepOf(Top(t).op, "drop")
    BY <1>2, <1>12 DEF Unpin, At, StepOf
  <2>2. Top(t).pc = "unpin" /\ UNCHANGED <<refs, cOpen, closeFailed, cleaning, lock, signals>>
    BY <1>12 DEF Unpin, At, driver, bounds
  <2>3. GotoWith(t, "drop", Top(t).p \in pinned)
    BY <1>12 DEF Unpin
  <2>4. MayMove(Top(t).pc, "drop")
    BY <2>2 DEF MayMove, LockPcs, CleanPcs
  <2> QED
    <3> DEFINE b == Top(t).p \in pinned
    <3>1. b \in BOOLEAN /\ GotoWith(t, "drop", b)
      BY <2>3
    <3> HIDE DEF b
    <3> QED
      BY <2>1, <2>2, <2>4, <3>1, <1>a, QuietMoveWith
<1>13. CASE Clear(t)
  <2>1. StepOf(Top(t).op, "c_clear")
    BY <1>2, <1>13 DEF Clear, At, StepOf
  <2>2. Top(t).pc = "clear" /\ UNCHANGED <<refs, cOpen, closeFailed, cleaning, lock, signals>>
    BY <1>13 DEF Clear, At, binding, driver, bounds
  <2>3. Goto(t, "c_clear")
    BY <1>13 DEF Clear
  <2> QED
    BY <2>1, <2>2, <2>3, <1>a, QuietMove DEF MayMove
<1>14. CASE BufDeregisterAll(t)
  <2>1. StepOf(Top(t).op, "c_close")
    BY <1>2, <1>14 DEF BufDeregisterAll, At, StepOf
  <2>2. Top(t).pc = "c_clear" /\ UNCHANGED <<refs, cOpen, closeFailed, cleaning, lock, signals>>
    BY <1>14 DEF BufDeregisterAll, At, bounds
  <2>3. Goto(t, "c_close")
    BY <1>14 DEF BufDeregisterAll
  <2> QED
    BY <2>1, <2>2, <2>3, <1>a, QuietMove DEF MayMove
<1> QED
  BY <1>3, <1>4, <1>5, <1>6, <1>7, <1>8, <1>9, <1>10, <1>11, <1>12, <1>13,
     <1>14

\* _ensure_driver and _release_driver.
LEMMA DriverSteps ==
  ASSUME Good, NEW t \in Threads,
         \/ Ensure(t) \/ DriverOpen(t) \/ Count(t)
         \/ Release(t) \/ ReleaseLast(t) \/ DriverClose(t)
  PROVE  Good'
<1>a. stack[t] # <<>>
  BY DEF Ensure, DriverOpen, Count, Release, ReleaseLast, DriverClose, At
<1>b. Top(t) \in Frames /\ Knows(t, Top(t))
  BY <1>a, TopKnows
<1>c. ASSUME NEW pc, StepOf(Top(t).op, pc), Goto(t, pc), OthersFree(t), Rest',
             UNCHANGED <<cleaning, signals>>,
             pc \in CleanPcs => Top(t).pc \in CleanPcs \/ ~InCleanup(Top(t)),
             IF pc \in LockPcs THEN lock'.owner = t ELSE lock'.owner = NoOne,
             pc = "c_open" => refs' = 0 /\ (cOpen' <=> closeFailed'),
             pc = "count" => cOpen' /\ ~closeFailed',
             pc \in {"clear", "c_clear", "c_close"} => ~closeFailed',
             pc \in {"clear", "c_clear", "c_close"} /\ ~InCleanup(Top(t))
               => refs' = 0
      PROVE  Good'
  <2>1. PICK f \in Frames :
          /\ f.op = Top(t).op /\ f.pc = pc
          /\ stack' = [stack EXCEPT ![t] = <<f>> \o Tail(@)]
    BY <1>b, <1>c, MovedFrame DEF Goto
  <2>3. Cleans(f) => Cleans(Top(t))
    BY <1>c, <2>1 DEF Cleans, InCleanup
  <2>4. Knows(t, f)'
    BY <1>b, <1>c, <2>1, <2>3 DEF Knows, Cleans, InCleanup
  <2> QED
    BY <1>a, <1>c, <2>1, <2>3, <2>4, LockGoto
<1>1. CASE Ensure(t)
  <2>1. Top(t).pc = "driver" /\ Top(t).op \in {"open", "pin"}
    BY <1>b, <1>1 DEF Ensure, At, Knows, StepOf
  <2>2. lock.owner = NoOne /\ lock.depth = 0 /\ OthersFree(t)
    BY <1>a, <1>1, <2>1, MayLockFrees DEF Ensure, LockPcs, InCleanup
  <2>3. lock' = [owner |-> t, depth |-> 1]
    BY <1>1, <2>2 DEF Ensure, Lock
  <2>4. UNCHANGED <<refs, cOpen, closeFailed, cleaning, signals>>
    BY <1>1 DEF Ensure, binding, driver, bounds
  <2>5. Rest'
    BY <2>3, <2>4, BindingAssumption DEF Rest, Good, Typed, Counted, DriverCounted
  <2>a. \/ refs = 0 /\ (cOpen <=> closeFailed)
        \/ refs # 0 /\ cOpen /\ ~closeFailed
    BY <2>2 DEF Good, Counted, DriverCounted, Typed
  <2>b. StepOf(Top(t).op, "c_open") /\ StepOf(Top(t).op, "count")
    BY <2>1 DEF StepOf
  <2>6. CASE refs = 0
    <3>1. Goto(t, "c_open")
      BY <1>1, <2>6 DEF Ensure
    <3> QED
      BY <1>c, <2>2, <2>3, <2>4, <2>5, <2>6, <2>a, <2>b, <3>1
         DEF LockPcs, CleanPcs
  <2>7. CASE refs # 0
    <3>1. Goto(t, "count")
      BY <1>1, <2>7 DEF Ensure
    <3> QED
      BY <1>c, <2>2, <2>3, <2>4, <2>5, <2>7, <2>a, <2>b, <3>1
         DEF LockPcs, CleanPcs
  <2> QED
    BY <2>6, <2>7
<1>2. CASE DriverOpen(t)
  <2>1. /\ Top(t).pc = "c_open" /\ Top(t).op \in {"open", "pin"}
        /\ refs = 0 /\ (cOpen <=> closeFailed)
    BY <1>b, <1>2 DEF DriverOpen, At, Knows, StepOf
  <2>2. lock = [owner |-> t, depth |-> 1] /\ OthersFree(t)
    BY <1>a, <2>1, HolderAlone DEF LockPcs
  <2>3. UNCHANGED <<refs, closeFailed, cleaning, signals>>
    BY <1>2 DEF DriverOpen, binding, bounds
  <2>4. CASE ~cOpen /\ cOpen' = TRUE /\ Goto(t, "count") /\ UNCHANGED lock
    <3>1. Rest'
      BY <2>2, <2>3, <2>4, BindingAssumption DEF Rest, Good, Typed, Counted, DriverCounted
    <3> QED
      BY <1>c, <2>1, <2>2, <2>3, <2>4, <3>1 DEF StepOf, LockPcs, CleanPcs
  <2>5. CASE Unlock /\ Return(t) /\ UNCHANGED cOpen
    <3>1. lock' = [owner |-> NoOne, depth |-> 0]
      BY <2>2, <2>5 DEF Unlock
    <3>2. Rest'
      BY <2>1, <2>3, <2>5, <3>1 DEF Rest, Good, Typed, Counted, DriverCounted
    <3> QED
      BY <1>a, <2>1, <2>2, <2>3, <2>5, <3>1, <3>2, LockReturn DEF InCleanup
  <2> QED
    BY <1>2, <2>4, <2>5 DEF DriverOpen
<1>3. CASE Count(t)
  <2>1. Top(t).pc = "count" /\ Top(t).op \in {"open", "pin"}
        /\ cOpen /\ ~closeFailed
    BY <1>b, <1>3 DEF Count, At, Knows, StepOf
  <2>2. lock = [owner |-> t, depth |-> 1] /\ OthersFree(t)
    BY <1>a, <2>1, HolderAlone DEF LockPcs
  <2>3. /\ refs' = refs + 1 /\ lock' = [owner |-> NoOne, depth |-> 0]
        /\ UNCHANGED <<cOpen, closeFailed, cleaning, signals>>
    BY <1>3, <2>2 DEF Count, Unlock, driver, bounds
  <2>4. Rest'
    BY <2>1, <2>3 DEF Rest, Good, Typed, Counted, DriverCounted
  <2>5. AfterEnsure(t) \in {"handle", "ensure"} /\ StepOf(Top(t).op, AfterEnsure(t))
    BY <2>1 DEF AfterEnsure, StepOf
  <2> QED
    BY <1>c, <1>3, <2>1, <2>2, <2>3, <2>4, <2>5 DEF Count, LockPcs, CleanPcs
<1>4. CASE Release(t)
  <2>1. Top(t).pc = "release" /\ ~InCleanup(Top(t))
    BY <1>b, <1>4 DEF Release, At, Knows, StepOf, InCleanup
  <2>2. lock.owner = NoOne /\ lock.depth = 0 /\ OthersFree(t)
    BY <1>a, <1>4, <2>1, MayLockFrees DEF Release, LockPcs
  <2>3. /\ refs' = Decremented /\ refs # 1
        /\ UNCHANGED <<lock, cOpen, closeFailed, cleaning, signals>>
    BY <1>4 DEF Release, driver, bounds, IsLast
  <2>4. Rest'
    BY <2>2, <2>3 DEF Rest, Good, Typed, Counted, DriverCounted, Decremented
  <2> QED
    BY <1>a, <1>4, <2>1, <2>2, <2>3, <2>4, LockReturn DEF Release
<1>5. CASE ReleaseLast(t)
  <2>1. Top(t).pc = "release" /\ Top(t).op \in {"close", "pin", "unpin"}
    BY <1>b, <1>5 DEF ReleaseLast, At, Knows, StepOf
  <2>2. lock.owner = NoOne /\ lock.depth = 0 /\ OthersFree(t)
    BY <1>a, <1>5, <2>1, MayLockFrees DEF ReleaseLast, LockPcs, InCleanup
  <2>3. /\ refs' = 0 /\ lock' = [owner |-> t, depth |-> 1]
        /\ UNCHANGED <<cOpen, closeFailed, cleaning, signals>>
    BY <1>5, <2>2 DEF ReleaseLast, Lock, driver, bounds, IsLast, Decremented
  <2>a. ~closeFailed
    BY <1>5 DEF ReleaseLast, IsLast, Good, Counted
  <2>4. Rest'
    BY <2>3, BindingAssumption DEF Rest, Good, Typed, Counted, DriverCounted
  <2> QED
    BY <1>c, <1>5, <2>1, <2>2, <2>3, <2>4, <2>a
       DEF ReleaseLast, StepOf, LockPcs, InCleanup
<1>6. CASE DriverClose(t)
  <2>1. Top(t).pc = "c_close"
    BY <1>6 DEF DriverClose, At
  <2>2. lock = [owner |-> t, depth |-> 1] /\ OthersFree(t)
    BY <1>a, <2>1, HolderAlone DEF LockPcs
  <2>3. /\ lock' = [owner |-> NoOne, depth |-> 0]
        /\ UNCHANGED <<cleaning, signals>>
    BY <1>6, <2>2 DEF DriverClose, Unlock, bounds
  <2>4. refs' = 0 /\ ~closeFailed
    BY <1>6, <1>b, <2>1 DEF DriverClose, AfterCleanup, Knows
  <2>5. Rest'
    <3>1. CASE cOpen' = FALSE /\ UNCHANGED closeFailed
      <4>1. cOpen' \in BOOLEAN /\ ~cOpen' /\ closeFailed' \in BOOLEAN /\ ~closeFailed'
        BY <2>4, <3>1 DEF Good, Counted
      <4> QED
        BY <2>3, <2>4, <4>1 DEF Rest, Counted, DriverCounted
    <3>2. CASE cOpen /\ closeFailed' = TRUE /\ UNCHANGED cOpen
      <4>1. cOpen' \in BOOLEAN /\ cOpen' /\ closeFailed' \in BOOLEAN /\ closeFailed'
        BY <3>2 DEF Good, Typed
      <4> QED
        BY <2>3, <2>4, <4>1 DEF Rest, Counted, DriverCounted
    <3> QED
      BY <1>6, <3>1, <3>2 DEF DriverClose
  <2>6. CASE InCleanup(Top(t))
    <3>1. StepOf(Top(t).op, "cleaned") /\ Goto(t, "cleaned")
      BY <1>6, <2>6 DEF DriverClose, StepOf, InCleanup
    <3> QED
      BY <1>c, <2>1, <2>2, <2>3, <2>4, <2>5, <3>1 DEF LockPcs, CleanPcs
  <2>7. CASE ~InCleanup(Top(t))
    BY <1>a, <1>6, <2>2, <2>3, <2>5, <2>7, LockReturn DEF DriverClose
  <2> QED
    BY <2>6, <2>7
<1> QED
  BY <1>1, <1>2, <1>3, <1>4, <1>5, <1>6
-----------------------------------------------------------------------------
(* Calls that begin, signals, exit and _cleanup. *)

\* A thread with nothing to do gets a frame.
LEMMA FirstFrame ==
  ASSUME Good, NEW t \in Threads, stack[t] = <<>>, NEW f \in Frames,
         stack' = [stack EXCEPT ![t] = <<f>>],
         Knows(t, f), f.pc \notin LockPcs, ~Cleans(f),
         UNCHANGED <<refs, cOpen, closeFailed, cleaning, lock, signals>>
  PROVE  Good'
<1>1. /\ stack' \in [Threads -> Seq(Frames)]
      /\ \A u \in Threads \ {t} : stack'[u] = stack[u]
      /\ Len(stack'[t]) = 1 /\ Len(stack[t]) = 0 /\ stack'[t][1] = f
  BY DEF Good, Typed
<1>2. Typed'
  BY <1>1 DEF Good, Typed
<1>3. FramesKnow'
  BY <1>1 DEF Good, FramesKnow, Knows
<1>4. CallsAlone'
  BY <1>1 DEF Good, CallsAlone, InCleanup
<1>5. OneCleans'
  <2> SUFFICES ASSUME NEW u \in Threads, NEW i \in 1 .. Len(stack'[u]),
                      NEW j \in 1 .. Len(stack'[u]),
                      Cleans(stack'[u][i]), Cleans(stack'[u][j])
               PROVE  i = j
    BY DEF OneCleans, Cleans, InCleanup
  <2> QED
    BY <1>1 DEF Good, OneCleans
<1>6. LockHeld'
  BY <1>1 DEF Good, LockHeld, Typed
<1>7. Counted'
  BY DEF Good, Counted, DriverCounted
<1> QED
  BY <1>2, <1>3, <1>4, <1>5, <1>6, <1>7 DEF Good

\* The frame a call, a signal or the exit begins with.
LEMMA NewFrame ==
  ASSUME NEW op \in Ops, NEW pc \in Pcs, NEW p \in Threads
  PROVE  /\ Frame(op, pc, p) \in Frames /\ Frame(op, pc, p).op = op
         /\ Frame(op, pc, p).pc = pc /\ Frame(op, pc, p).p = p
         /\ Frame(op, pc, p).flag = FALSE
  BY DEF Frame, Frames

\* A call of the application begins.
LEMMA CallSteps ==
  ASSUME Good, NEW t \in Threads, Call(t)
  PROVE  Good'
<1>1. ASSUME NEW p \in Threads, NEW op \in {"open", "close", "io", "pin", "unpin"},
             NEW pc \in {"driver", "release", "ensure", "first", "unpin"},
             StepOf(op, pc), Begin(t, Frame(op, pc, p))
      PROVE  Good'
  <2>1. PICK f \in Frames : f = Frame(op, pc, p) /\ f.op = op /\ f.pc = pc
    <3>1. op \in Ops /\ pc \in Pcs
      BY DEF Ops, Pcs
    <3>2. /\ Frame(op, pc, p) \in Frames
          /\ Frame(op, pc, p).op = op /\ Frame(op, pc, p).pc = pc
      BY <3>1 DEF Frame, Frames
    <3> QED
      BY <3>2
  <2>2. Knows(t, f) /\ f.pc \notin LockPcs /\ ~Cleans(f)
    BY <1>1, <2>1 DEF Knows, LockPcs, Cleans, InCleanup
  <2> QED
    BY <1>1, <2>1, <2>2, FirstFrame DEF Begin, driver, bounds
<1>2. CASE OpenFile(t)
  BY <1>1, <1>2 DEF OpenFile, StepOf
<1>3. CASE CloseFile(t)
  BY <1>1, <1>3 DEF CloseFile, StepOf
<1>a. Uses(t) \subseteq Threads
  BY DEF Uses
<1>4. CASE ReadOrWrite(t)
  BY <1>1, <1>4, <1>a DEF ReadOrWrite, StepOf
<1>5. CASE RegisterBuffer(t)
  BY <1>1, <1>5, <1>a DEF RegisterBuffer, StepOf
<1>6. CASE DeregisterBuffer(t)
  BY <1>1, <1>6, <1>a DEF DeregisterBuffer, StepOf
<1> QED
  BY <1>2, <1>3, <1>4, <1>5, <1>6 DEF Call

\* The interpreter exits.
LEMMA ExitStep ==
  ASSUME Good, Exit
  PROVE  Good'
<1>1. PICK f \in Frames : /\ f = Frame("exit", "cleanup", Main)
                          /\ f.op = "exit" /\ f.pc = "cleanup"
  <2>1. "exit" \in Ops /\ "cleanup" \in Pcs /\ Main \in Threads
    BY BindingAssumption DEF Ops, Pcs
  <2>3. /\ Frame("exit", "cleanup", Main) \in Frames
        /\ Frame("exit", "cleanup", Main).op = "exit"
        /\ Frame("exit", "cleanup", Main).pc = "cleanup"
    BY <2>1, NewFrame
  <2> QED
    BY <2>3
<1>2. Knows(Main, f) /\ f.pc \notin LockPcs /\ ~Cleans(f)
  BY <1>1 DEF Knows, LockPcs, CleanPcs, Cleans, InCleanup, StepOf
<1> QED
  BY <1>1, <1>2, FirstFrame, BindingAssumption
     DEF Exit, binding, driver, bounds

\* A signal outside the calls of the main thread.
LEMMA SignalStep ==
  ASSUME Good, Signal, Calm'
  PROVE  Good'
<1>1. PICK f \in Frames :
        /\ f.op = "signal" /\ f.pc = "cleanup"
        /\ stack' = [stack EXCEPT ![Main] = <<f>> \o @]
  <2>1. "signal" \in Ops /\ "cleanup" \in Pcs /\ Main \in Threads
    BY BindingAssumption DEF Ops, Pcs
  <2>2. stack' = [stack EXCEPT ![Main] = <<Frame("signal", "cleanup", Main)>> \o @]
    BY DEF Signal
  <2>3. /\ Frame("signal", "cleanup", Main) \in Frames
        /\ Frame("signal", "cleanup", Main).op = "signal"
        /\ Frame("signal", "cleanup", Main).pc = "cleanup"
    BY <2>1, NewFrame
  <2> QED
    BY <2>2, <2>3
<1>2. /\ signals' = signals + 1 /\ signals \in Nat
      /\ UNCHANGED <<refs, cOpen, closeFailed, cleaning, lock>>
  BY DEF Signal, binding, driver, Good, Typed
<1>3. Outside
  BY <1>2 DEF Signal, Calm
<1>4. stack[Main] \in Seq(Frames) /\ Main \in Threads
  BY BindingAssumption DEF Good, Typed
<1>5. /\ stack' \in [Threads -> Seq(Frames)]
      /\ \A u \in Threads \ {Main} : stack'[u] = stack[u]
      /\ Len(stack'[Main]) = Len(stack[Main]) + 1 /\ Len(stack[Main]) \in Nat
      /\ stack'[Main][1] = f
      /\ \A i \in 2 .. Len(stack[Main]) + 1 : stack'[Main][i] = stack[Main][i - 1]
  <2>1. stack'[Main] = <<f>> \o stack[Main]
    BY <1>1, <1>4 DEF Good, Typed
  <2> QED
    BY <1>1, <1>4, <2>1, Pushed DEF Good, Typed
<1>a. ASSUME NEW u \in Threads, NEW i \in 1 .. Len(stack'[u]),
             ~(u = Main /\ i = 1)
      PROVE  \/ /\ u = Main /\ i - 1 \in 1 .. Len(stack[u])
                /\ stack'[u][i] = stack[u][i - 1]
             \/ u # Main /\ stack'[u] = stack[u] /\ i \in 1 .. Len(stack[u])
  BY <1>5, <1>a
<1>6. Typed'
  BY <1>2, <1>5 DEF Good, Typed
<1>7. FramesKnow'
  <2> SUFFICES ASSUME NEW u \in Threads, NEW i \in 1 .. Len(stack'[u])
               PROVE  Knows(u, stack[u][i])'
    BY DEF FramesKnow
  <2>1. CASE u = Main /\ i = 1
    BY <1>1, <1>2, <1>5, <2>1
       DEF Knows, LockPcs, CleanPcs, Cleans, InCleanup, StepOf
  <2>2. CASE ~(u = Main /\ i = 1)
    <3>1. \E j \in 1 .. Len(stack[u]) : stack'[u][i] = stack[u][j]
      BY <2>2, <1>a
    <3> QED
      BY <3>1, <1>2 DEF Good, FramesKnow, Knows
  <2> QED
    BY <2>1, <2>2
<1>8. CallsAlone'
  <2> SUFFICES ASSUME NEW u \in Threads, NEW i \in 1 .. Len(stack'[u])
               PROVE  InCleanup(stack'[u][i]) \/ Len(stack'[u]) = 1
    BY DEF CallsAlone, InCleanup
  <2>1. CASE u = Main /\ i = 1
    BY <1>1, <1>5, <2>1 DEF InCleanup
  <2>2. CASE u = Main /\ i # 1
    BY <1>3, <1>4, <1>a, <2>2 DEF Outside
  <2>3. CASE u # Main
    BY <1>a, <2>3 DEF Good, CallsAlone
  <2> QED
    BY <2>1, <2>2, <2>3
<1>9. OneCleans'
  <2> SUFFICES ASSUME NEW u \in Threads, NEW i \in 1 .. Len(stack'[u]),
                      NEW j \in 1 .. Len(stack'[u]),
                      Cleans(stack'[u][i]), Cleans(stack'[u][j])
               PROVE  i = j
    BY DEF OneCleans, Cleans, InCleanup
  <2>1. ~Cleans(f)
    BY <1>1 DEF Cleans, CleanPcs
  <2>2. CASE u = Main
    <3>1. i # 1 /\ j # 1
      BY <1>5, <2>1, <2>2
    <3>2. /\ i - 1 \in 1 .. Len(stack[u]) /\ j - 1 \in 1 .. Len(stack[u])
          /\ Cleans(stack[u][i - 1]) /\ Cleans(stack[u][j - 1])
      BY <1>a, <2>2, <3>1
    <3>3. i - 1 = j - 1
      BY <3>2 DEF Good, OneCleans
    <3> QED
      BY <3>3
  <2>3. CASE u # Main
    BY <1>a, <2>3 DEF Good, OneCleans
  <2> QED
    BY <2>2, <2>3
<1>10. LockHeld'
  <2>1. CASE lock.owner = NoOne
    BY <1>2, <2>1 DEF LockHeld
  <2>2. CASE lock.owner # NoOne
    <3>1. PICK i \in 1 .. Len(stack[lock.owner]) :
                 stack[lock.owner][i].pc \in LockPcs
      BY <2>2 DEF Good, LockHeld
    <3>2. lock.owner \in Threads
      BY <2>2 DEF Good, Typed
    <3>3. CASE lock.owner = Main
      <4>1. /\ i + 1 \in 1 .. Len(stack'[Main])
            /\ stack'[Main][i + 1].pc \in LockPcs
        BY <1>5, <3>1, <3>3
      <4> QED
        BY <1>2, <4>1, <3>3 DEF LockHeld
    <3>4. CASE lock.owner # Main
      BY <1>2, <1>5, <3>1, <3>2, <3>4 DEF LockHeld
    <3> QED
      BY <3>3, <3>4
  <2> QED
    BY <2>1, <2>2
<1>11. Counted'
  BY <1>2 DEF Good, Counted, DriverCounted
<1> QED
  BY <1>6, <1>7, <1>8, <1>9, <1>10, <1>11 DEF Good

\* A step that enters or leaves the part of _cleanup that the reentrancy guard
\* protects.
LEMMA GuardGoto ==
  ASSUME Good, stack[Main] # <<>>, NEW f \in Frames,
         stack' = [stack EXCEPT ![Main] = <<f>> \o Tail(@)],
         f.op = Top(Main).op, Knows(Main, f)', cleaning' \in BOOLEAN,
         f.pc \notin LockPcs, Top(Main).pc \notin LockPcs,
         \A i \in 2 .. Len(stack[Main]) : ~Cleans(stack[Main][i]),
         UNCHANGED <<refs, cOpen, closeFailed, lock, signals>>
  PROVE  Good'
<1>0. Main \in Threads
  BY BindingAssumption
<1>1. /\ stack' \in [Threads -> Seq(Frames)]
      /\ \A u \in Threads \ {Main} : stack'[u] = stack[u]
      /\ Len(stack'[Main]) = Len(stack[Main]) /\ Len(stack[Main]) \in Nat \ {0}
      /\ stack'[Main][1] = f
      /\ \A i \in 2 .. Len(stack[Main]) : stack'[Main][i] = stack[Main][i]
  BY <1>0, GotoEffect DEF Good
<1>2. /\ Top(Main) = stack[Main][1]
      /\ InCleanup(Top(Main)) \/ Len(stack[Main]) = 1
      /\ 1 \in 1 .. Len(stack[Main])
  BY <1>0, TopKnows
<1>a. ASSUME NEW u \in Threads, NEW i \in 1 .. Len(stack'[u]),
             ~(u = Main /\ i = 1)
      PROVE  /\ i \in 1 .. Len(stack[u]) /\ Len(stack'[u]) = Len(stack[u])
             /\ stack'[u][i] = stack[u][i] /\ ~Cleans(stack[u][i])
  <2>1. /\ i \in 1 .. Len(stack[u]) /\ Len(stack'[u]) = Len(stack[u])
        /\ stack'[u][i] = stack[u][i]
    BY <1>1, <1>a
  <2>2. CASE u = Main
    BY <1>1, <1>a, <2>1, <2>2
  <2>3. CASE u # Main
    BY <2>1, <2>3 DEF Good, FramesKnow, Knows, Cleans
  <2> QED
    BY <2>1, <2>2, <2>3
<1>3. Typed'
  BY <1>1 DEF Good, Typed
<1>4. FramesKnow'
  <2> SUFFICES ASSUME NEW u \in Threads, NEW i \in 1 .. Len(stack'[u])
               PROVE  Knows(u, stack[u][i])'
    BY DEF FramesKnow
  <2>1. CASE u = Main /\ i = 1
    BY <2>1, <1>1 DEF Knows
  <2>2. CASE ~(u = Main /\ i = 1)
    <3>1. /\ Knows(u, stack[u][i]) /\ stack'[u][i] = stack[u][i]
          /\ ~Cleans(stack[u][i])
      BY <2>2, <1>a DEF Good, FramesKnow
    <3> QED
      BY <3>1 DEF Knows, Cleans, InCleanup
  <2> QED
    BY <2>1, <2>2
<1>5. CallsAlone'
  <2> SUFFICES ASSUME NEW u \in Threads, NEW i \in 1 .. Len(stack'[u])
               PROVE  InCleanup(stack'[u][i]) \/ Len(stack'[u]) = 1
    BY DEF CallsAlone, InCleanup
  <2>1. CASE u = Main /\ i = 1
    BY <1>1, <1>2, <2>1 DEF InCleanup
  <2>2. CASE ~(u = Main /\ i = 1)
    BY <1>a, <2>2 DEF Good, CallsAlone
  <2> QED
    BY <2>1, <2>2
<1>6. OneCleans'
  <2> SUFFICES ASSUME NEW u \in Threads, NEW i \in 1 .. Len(stack'[u]),
                      NEW j \in 1 .. Len(stack'[u]),
                      Cleans(stack'[u][i]), Cleans(stack'[u][j])
               PROVE  i = j
    BY DEF OneCleans, Cleans, InCleanup
  <2> QED
    BY <1>a
<1>7. LockHeld'
  <2>1. CASE lock.owner = NoOne
    BY <2>1 DEF LockHeld
  <2>2. CASE lock.owner # NoOne
    <3>1. PICK i \in 1 .. Len(stack[lock.owner]) :
                 stack[lock.owner][i].pc \in LockPcs
      BY <2>2 DEF Good, LockHeld
    <3>2. lock.owner \in Threads
      BY <2>2 DEF Good, Typed
    <3>3. i \in 1 .. Len(stack'[lock.owner]) /\ stack'[lock.owner][i].pc \in LockPcs
      BY <1>1, <1>2, <3>1, <3>2
    <3> QED
      BY <3>3 DEF LockHeld
  <2> QED
    BY <2>1, <2>2
<1>8. Counted'
  BY DEF Good, Counted, DriverCounted
<1> QED
  BY <1>3, <1>4, <1>5, <1>6, <1>7, <1>8 DEF Good

\* _cleanup and what follows it.
LEMMA CleanupSteps ==
  ASSUME Good, CleanupStep
  PROVE  Good'
<1>0. Main \in Threads /\ stack[Main] # <<>>
  BY BindingAssumption
     DEF CleanupStep, Cleanup, CleanupLocked, Cleaned, ChainReturns, Dies, At
<1>a. Top(Main) \in Frames /\ Knows(Main, Top(Main)) /\ Top(Main) = stack[Main][1]
      /\ 1 \in 1 .. Len(stack[Main])
  BY <1>0, TopKnows
<1>b. ASSUME Top(Main).pc \in {"cleanup", "cleaned"}
      PROVE  /\ StepOf(Top(Main).op, Chain(Top(Main)))
             /\ Chain(Top(Main)) \in {"chain", "exit"}
             /\ InCleanup(Top(Main)) /\ StepOf(Top(Main).op, "clean")
  BY <1>a, <1>b DEF Knows, StepOf, Chain, InCleanup
<1>1. CASE Cleanup
  <2>1. /\ Top(Main).pc = "cleanup"
        /\ UNCHANGED <<refs, cOpen, closeFailed, lock, signals>>
    BY <1>1 DEF Cleanup, At, driver, bounds
  <2>2. CASE Reentered
    <3>1. Goto(Main, Chain(Top(Main))) /\ UNCHANGED cleaning
      BY <1>1, <2>2 DEF Cleanup
    <3> QED
      BY <1>0, <1>b, <2>1, <3>1, QuietMove DEF MayMove, LockPcs, CleanPcs
  <2>3. CASE ~Reentered
    <3>1. Goto(Main, "clean") /\ cleaning' = TRUE /\ ~cleaning
      BY <1>1, <2>3 DEF Cleanup, Reentered
    <3>2. PICK f \in Frames :
            /\ f.op = Top(Main).op /\ f.pc = "clean"
            /\ stack' = [stack EXCEPT ![Main] = <<f>> \o Tail(@)]
      BY <1>a, <1>b, <2>1, <3>1, MovedFrame DEF Goto
    <3>3. \A i \in 2 .. Len(stack[Main]) : ~Cleans(stack[Main][i])
      BY <1>0, <3>1 DEF Good, FramesKnow, Knows
    <3>4. cleaning' \in BOOLEAN /\ cleaning'
      BY <3>1
    <3>5. Knows(Main, f)'
      BY <1>a, <1>b, <2>1, <3>2, <3>4 DEF Knows, Cleans, InCleanup, LockPcs
    <3> QED
      BY <1>0, <2>1, <3>2, <3>3, <3>4, <3>5, GuardGoto DEF LockPcs
  <2> QED
    BY <2>2, <2>3
<1>2. CASE CleanupLocked
  <2>1. /\ Top(Main).pc = "clean" /\ MayLock(Main)
        /\ UNCHANGED <<refs, cOpen, closeFailed, cleaning, signals>>
    BY <1>2 DEF CleanupLocked, At, driver, bounds
  <2>2. Cleans(Top(Main)) /\ StepOf(Top(Main).op, "clear")
        /\ StepOf(Top(Main).op, "cleaned")
    BY <1>a, <2>1 DEF Knows, StepOf, Cleans, CleanPcs, InCleanup
  <2>3. lock.owner = NoOne /\ lock.depth = 0 /\ OthersFree(Main)
    BY <1>0, <2>1, <2>2, MayLockFrees DEF LockPcs
  <2>4. CASE InUse
    <3>1. Goto(Main, "clear") /\ lock' = [owner |-> Main, depth |-> 1]
      BY <1>2, <2>3, <2>4 DEF CleanupLocked, Lock
    <3>2. PICK f \in Frames :
            /\ f.op = Top(Main).op /\ f.pc = "clear"
            /\ stack' = [stack EXCEPT ![Main] = <<f>> \o Tail(@)]
      BY <1>a, <2>2, <3>1, MovedFrame DEF Goto
    <3>3. Rest'
      BY <1>0, <2>1, <3>1, BindingAssumption
         DEF Rest, Good, Typed, Counted, DriverCounted
    <3>a. ~closeFailed
      BY <2>4 DEF InUse, Good, Counted
    <3>4. Knows(Main, f)'
      BY <1>a, <2>1, <2>2, <3>1, <3>2, <3>a DEF Knows, Cleans, InCleanup, LockPcs
    <3> QED
      BY <1>0, <2>1, <2>2, <2>3, <3>1, <3>2, <3>3, <3>4, LockGoto DEF LockPcs
  <2>5. CASE ~InUse
    <3>1. Goto(Main, "cleaned") /\ UNCHANGED lock
      BY <1>2, <2>5 DEF CleanupLocked
    <3>2. PICK f \in Frames :
            /\ f.op = Top(Main).op /\ f.pc = "cleaned"
            /\ stack' = [stack EXCEPT ![Main] = <<f>> \o Tail(@)]
      BY <1>a, <2>2, <3>1, MovedFrame DEF Goto
    <3>3. Knows(Main, f)
      BY <1>a, <2>1, <2>2, <3>2 DEF Knows, Cleans, InCleanup, LockPcs
    <3> QED
      BY <1>0, <2>1, <2>2, <3>1, <3>2, <3>3, QuietGoto DEF LockPcs
  <2> QED
    BY <2>4, <2>5
<1>3. CASE Cleaned
  <2>1. /\ Top(Main).pc = "cleaned" /\ Goto(Main, Chain(Top(Main)))
        /\ cleaning' = FALSE /\ UNCHANGED <<refs, cOpen, closeFailed, lock, signals>>
    BY <1>3 DEF Cleaned, At, driver, bounds
  <2>2. PICK f \in Frames :
          /\ f.op = Top(Main).op /\ f.pc = Chain(Top(Main))
          /\ stack' = [stack EXCEPT ![Main] = <<f>> \o Tail(@)]
    BY <1>a, <1>b, <2>1, MovedFrame DEF Goto
  <2>3. Cleans(Top(Main))
    BY <1>b, <2>1 DEF Cleans, CleanPcs
  <2>4. \A i \in 2 .. Len(stack[Main]) : ~Cleans(stack[Main][i])
    BY <1>0, <1>a, <2>3 DEF Good, OneCleans
  <2>5. cleaning' \in BOOLEAN
    BY <2>1
  <2>6. Knows(Main, f)'
    BY <1>a, <1>b, <2>1, <2>2 DEF Knows, Cleans, InCleanup, LockPcs, CleanPcs
  <2> QED
    BY <1>0, <1>b, <2>1, <2>2, <2>4, <2>5, <2>6, GuardGoto DEF LockPcs
<1>4. CASE ChainReturns
  BY <1>0, <1>4, QuietReturn
     DEF ChainReturns, At, LockPcs, binding, driver, bounds
<1>5. CASE Dies
  <2>1. UNCHANGED <<stack, refs, cOpen, closeFailed, cleaning, lock, signals>>
    BY <1>5 DEF Dies, binding, driver, bounds
  <2> QED
    BY <2>1 DEF Good, Typed, FramesKnow, CallsAlone, OneCleans, LockHeld,
                Counted, DriverCounted, Knows, Cleans, InCleanup
<1> QED
  BY <1>1, <1>2, <1>3, <1>4, <1>5 DEF CleanupStep

\* FramesInv at the start, where no thread has a frame.
LEMMA GoodInit == Init => Good
<1> SUFFICES ASSUME Init
             PROVE  Good
  OBVIOUS
<1>1. /\ stack = [t \in Threads |-> <<>>]
      /\ lock = [owner |-> NoOne, depth |-> 0] /\ refs = 0 /\ cleaning = FALSE
      /\ cOpen = FALSE /\ closeFailed = FALSE /\ signals = 0
  BY DEF Init
<1>2. /\ cOpen \in BOOLEAN /\ cleaning \in BOOLEAN /\ ~cOpen
      /\ closeFailed \in BOOLEAN /\ ~closeFailed
  BY <1>1
<1>3. \A t \in Threads : Len(stack[t]) = 0
  BY <1>1
<1>4. Typed
  BY <1>1, <1>2 DEF Typed
<1>5. Counted
  BY <1>1, <1>2 DEF Counted, DriverCounted
<1>6. FramesKnow /\ CallsAlone /\ OneCleans
  BY <1>3 DEF FramesKnow, CallsAlone, OneCleans
<1> QED
  BY <1>1, <1>4, <1>5, <1>6 DEF Good, LockHeld

\* Every step keeps FramesInv; a state with fewer signals is calm too.
LEMMA FramesStep == FramesInv /\ [Next]_vars => FramesInv'
<1> SUFFICES ASSUME FramesInv, [Next]_vars
             PROVE  signals' \in Nat /\ (Calm' => Good')
  BY DEF FramesInv
<1>a. signals' \in Nat
  <2>1. UNCHANGED signals \/ signals' = signals + 1
    BY DEF Next, Signal, Exit, CleanupStep, Cleanup, CleanupLocked, Cleaned,
           ChainReturns, Dies, Call, OpenFile, CloseFile, ReadOrWrite,
           RegisterBuffer, DeregisterBuffer, Begin, Step, Ensure, DriverOpen,
           Count, HandleRegister, InCache, NotInCache, BufRegister, IoReturns,
           Drop, BufDeregister, First, Pin, Unpin, Release, ReleaseLast, Clear,
           BufDeregisterAll, DriverClose, bounds, vars
  <2> QED
    BY <2>1 DEF FramesInv
<1> SUFFICES ASSUME Calm'
             PROVE  Good'
  BY <1>a
<1>1. CASE UNCHANGED vars
  <2>1. UNCHANGED <<stack, refs, cOpen, closeFailed, cleaning, lock, signals>>
    BY <1>1 DEF vars, binding, driver, bounds
  <2>2. Good
    BY <2>1 DEF FramesInv, Calm
  <2>3. Counted'
    BY <2>1, <2>2 DEF Good, Counted, DriverCounted
  <2> QED
    BY <2>1, <2>2, <2>3 DEF Good, Typed, FramesKnow, CallsAlone, OneCleans,
                            LockHeld, Knows, Cleans, InCleanup
<1>2. CASE Signal
  <2>1. Calm
    BY <1>2 DEF Calm, Signal, FramesInv
  <2> QED
    BY <1>2, <2>1, SignalStep DEF FramesInv
<1>3. ASSUME UNCHANGED signals
      PROVE  Good
  BY <1>3 DEF FramesInv, Calm
<1>4. CASE Exit
  BY <1>3, <1>4, ExitStep DEF Exit, bounds
<1>5. CASE CleanupStep
  <2>1. UNCHANGED signals
    BY <1>5 DEF CleanupStep, Cleanup, CleanupLocked, Cleaned, ChainReturns, Dies,
                bounds
  <2> QED
    BY <1>3, <1>5, <2>1, CleanupSteps
<1>6. ASSUME NEW t \in Threads, Call(t)
      PROVE  Good'
  <2>1. UNCHANGED signals
    BY <1>6 DEF Call, OpenFile, CloseFile, ReadOrWrite, RegisterBuffer,
                DeregisterBuffer, Begin
  <2> QED
    BY <1>3, <1>6, <2>1, CallSteps
<1>7. ASSUME NEW t \in Threads, Step(t)
      PROVE  Good'
  <2>1. UNCHANGED signals
    BY <1>7 DEF Step, Ensure, DriverOpen, Count, HandleRegister, InCache,
                NotInCache, BufRegister, IoReturns, Drop, BufDeregister, First,
                Pin, Unpin, Release, ReleaseLast, Clear, BufDeregisterAll,
                DriverClose, bounds
  <2>2. Good
    BY <1>3, <2>1
  <2> QED
    BY <1>7, <2>2, RegistrySteps, DriverSteps DEF Step
<1> QED
  BY <1>1, <1>2, <1>4, <1>5, <1>6, <1>7 DEF Next

\* FramesInv is an invariant of the binding.
THEOREM FramesAlways == Spec => []FramesInv
<1>1. Init => FramesInv
  BY GoodInit DEF FramesInv, Good, Typed
<1> QED
  BY <1>1, FramesStep, PTL DEF Spec

\* As long as no signal comes inside a call of the main thread, the driver is
\* open exactly when it is counted whenever nobody holds _lock (_ensure_driver,
\* _release_driver and _cleanup): after failed opens, last releases racing
\* first opens, and signal handlers inside signal handlers.  An
\* opends_driver_close that fails is the one exception, and what it leaves is
\* final: the driver open, the count zero.
THEOREM DriverIsCounted ==
  ASSUME SignalAt # "anywhere"
  PROVE  Spec => []DriverCounted
<1>1. FramesInv => DriverCounted
  BY DEF FramesInv, Calm, Good, Counted
<1> QED
  BY <1>1, FramesAlways, PTL
-----------------------------------------------------------------------------
(***************************************************************************)
(* The references.  Until a signal comes and until the exit, each thread   *)
(* runs one call at most; a reference belongs to the thread's file or to   *)
(* its pinned buffer, or to the call that is making or ending one of these.*)
(***************************************************************************)
Doing(t, op, pcs) == stack[t] # <<>> /\ Top(t).op = op /\ Top(t).pc \in pcs

FileRef(t) ==
  \/ file[t]
  \/ Doing(t, "open", {"handle"})
  \/ Doing(t, "close", {"release"})
PinRef(t) ==
  \/ t \in pinned
  \/ Doing(t, "pin", {"ensure", "c_register", "pin", "release"}) /\ Top(t).flag
  \/ Doing(t, "unpin", {"drop", "c_drop", "release"}) /\ Top(t).flag

FileRefs == {t \in Threads : FileRef(t)}
PinRefs  == {t \in Threads : PinRef(t)}

\* A failed opends_handle_register keeps its reference, nothing else does.
RefsCounted ==
  /\ refs >= Cardinality(FileRefs) + Cardinality(PinRefs)
  /\ ~HandleFails => refs = Cardinality(FileRefs) + Cardinality(PinRefs)

\* How a running call stands to the thread's file and buffer.
CallTied(t) ==
  stack[t] # <<>> =>
    /\ Top(t).p = t
    /\ Top(t).op \in {"open", "close"} => ~file[t]
    /\ Top(t).op = "io" => file[t]
    /\ Top(t).op = "pin" /\ Top(t).pc # "first"
         => (Top(t).flag <=> t \notin pinned)
    /\ Top(t).op = "pin" /\ Top(t).pc \in {"driver", "c_open", "count",
                                           "release", "clear", "c_clear", "c_close"}
         => Top(t).flag
    /\ Top(t).op = "unpin" /\ Top(t).pc # "unpin" => t \notin pinned
    /\ Top(t).op = "unpin" /\ Top(t).pc = "release" => Top(t).flag

\* How a running call stands to the registry.
CallRegistered(t) ==
  stack[t] # <<>> =>
    /\ Top(t).pc \in {"c_register", "c_drop", "c_clear"} => regLock = t
    /\ Top(t).pc = "c_drop" => t \notin regs
    /\ Top(t).pc = "c_close" => regs = {}
    /\ Top(t).pc = "io" => t \in regs

Held ==
  /\ file \in [Threads -> BOOLEAN] /\ pinned \subseteq Threads
  /\ RefsCounted /\ regs \subseteq cBufs
  /\ \A t \in Threads : CallTied(t) /\ CallRegistered(t)

Joined == \A t \in Threads \ {Main} : stack[t] = <<>>

HeldInv == signals = 0 /\ ~SharedBuffers => IF Exiting THEN Joined ELSE Held

\* Before a signal and before the exit a thread has one frame at most.
Working == Good /\ signals = 0 /\ ~Exiting

\* That frame is a call of the application.
LEMMA OneCall ==
  ASSUME Working, NEW t \in Threads, stack[t] # <<>>
  PROVE  /\ Len(stack[t]) = 1 /\ ~InCleanup(Top(t))
         /\ Top(t) \in Frames /\ Top(t) = stack[t][1] /\ Knows(t, Top(t))
<1>1. /\ Top(t) = stack[t][1] /\ Top(t) \in Frames /\ Knows(t, Top(t))
      /\ InCleanup(Top(t)) \/ Len(stack[t]) = 1
      /\ 1 \in 1 .. Len(stack[t])
  BY TopKnows DEF Working
<1>2. stack[t] \in Seq(Frames)
  BY DEF Working, Good, Typed
<1>3. ASSUME InCleanup(Top(t)) PROVE FALSE
  <2>1. t = Main /\ Top(t).op = "exit"
    BY <1>1, <1>3 DEF Working, Knows, InCleanup
  <2> QED
    BY <1>1, <1>2, <2>1 DEF Working, Exiting
<1> QED
  BY <1>1, <1>3

\* No other thread's stack changes, and nobody exits.
OnlyCall(t) ==
  /\ \A u \in Threads \ {t} : stack'[u] = stack[u] /\ Top(u)' = Top(u)
  /\ ~Exiting'

\* A call goes on.
LEMMA CallMoves ==
  ASSUME Working, NEW t \in Threads, stack[t] # <<>>, NEW pc,
         StepOf(Top(t).op, pc), Goto(t, pc)
  PROVE  /\ stack'[t] # <<>> /\ OnlyCall(t)
         /\ Top(t)'.op = Top(t).op /\ Top(t)'.pc = pc
         /\ Top(t)'.p = Top(t).p /\ Top(t)'.flag = Top(t).flag
<1>1. /\ Len(stack[t]) = 1 /\ ~InCleanup(Top(t))
      /\ Top(t) \in Frames /\ Top(t) = stack[t][1]
  BY OneCall
<1>2. PICK f \in Frames :
        /\ f.op = Top(t).op /\ f.pc = pc /\ f.p = Top(t).p /\ f.flag = Top(t).flag
        /\ stack' = [stack EXCEPT ![t] = <<f>> \o Tail(@)]
  BY <1>1, MovedFrame DEF Goto
<1>3. /\ stack' \in [Threads -> Seq(Frames)]
      /\ \A u \in Threads \ {t} : stack'[u] = stack[u]
      /\ Len(stack'[t]) = 1 /\ stack'[t][1] = f
  BY <1>1, <1>2, GotoEffect DEF Working, Good
<1>a. stack'[t] \in Seq(Frames) /\ stack'[t] # <<>>
  <2>1. stack'[t] \in Seq(Frames)
    BY <1>3
  <2> QED
    BY <1>3, <2>1, OneIsSome
<1>4. stack'[t] # <<>> /\ Top(t)' = f
  BY <1>3, <1>a, TopIsFirst DEF Top
<1>5. \A u \in Threads \ {t} : stack'[u] = stack[u] /\ Top(u)' = Top(u)
  BY <1>3 DEF Top
<1>6. ~Exiting'
  <2>1. CASE t = Main
    <3>1. DOMAIN stack'[Main] = {1}
      BY <1>3, <1>a, <2>1
    <3> QED
      BY <1>1, <1>2, <1>3, <2>1, <3>1 DEF Exiting, InCleanup
  <2>2. CASE t # Main
    BY <1>5, <2>2, BindingAssumption DEF Exiting, Working
  <2> QED
    BY <2>1, <2>2
<1> QED
  BY <1>2, <1>4, <1>5, <1>6 DEF OnlyCall

\* A call goes on and sets its flag.
LEMMA CallMarks ==
  ASSUME Working, NEW t \in Threads, stack[t] # <<>>, NEW pc, NEW b \in BOOLEAN,
         StepOf(Top(t).op, pc), GotoWith(t, pc, b)
  PROVE  /\ stack'[t] # <<>> /\ OnlyCall(t)
         /\ Top(t)'.op = Top(t).op /\ Top(t)'.pc = pc
         /\ Top(t)'.p = Top(t).p /\ Top(t)'.flag = b
<1>1. /\ Len(stack[t]) = 1 /\ ~InCleanup(Top(t))
      /\ Top(t) \in Frames /\ Top(t) = stack[t][1]
  BY OneCall
<1>2. PICK f \in Frames :
        /\ f.op = Top(t).op /\ f.pc = pc /\ f.p = Top(t).p /\ f.flag = b
        /\ stack' = [stack EXCEPT ![t] = <<f>> \o Tail(@)]
  <2> DEFINE f == [Top(t) EXCEPT !.pc = pc, !.flag = b]
  <2>1. /\ f \in Frames
        /\ f.op = Top(t).op /\ f.pc = pc /\ f.p = Top(t).p /\ f.flag = b
    BY <1>1 DEF Frames, StepOf, Pcs
  <2>2. stack' = [stack EXCEPT ![t] = <<f>> \o Tail(@)]
    BY DEF GotoWith
  <2> HIDE DEF f
  <2> QED
    BY <2>1, <2>2
<1>3. /\ stack' \in [Threads -> Seq(Frames)]
      /\ \A u \in Threads \ {t} : stack'[u] = stack[u]
      /\ Len(stack'[t]) = 1 /\ stack'[t][1] = f
  BY <1>1, <1>2, GotoEffect DEF Working, Good
<1>a. stack'[t] \in Seq(Frames) /\ stack'[t] # <<>>
  <2>1. stack'[t] \in Seq(Frames)
    BY <1>3
  <2> QED
    BY <1>3, <2>1, OneIsSome
<1>4. stack'[t] # <<>> /\ Top(t)' = f
  BY <1>3, <1>a, TopIsFirst DEF Top
<1>5. \A u \in Threads \ {t} : stack'[u] = stack[u] /\ Top(u)' = Top(u)
  BY <1>3 DEF Top
<1>6. ~Exiting'
  <2>1. CASE t = Main
    <3>1. DOMAIN stack'[Main] = {1}
      BY <1>3, <1>a, <2>1
    <3> QED
      BY <1>1, <1>2, <1>3, <2>1, <3>1 DEF Exiting, InCleanup
  <2>2. CASE t # Main
    BY <1>5, <2>2, BindingAssumption DEF Exiting, Working
  <2> QED
    BY <2>1, <2>2
<1> QED
  BY <1>2, <1>4, <1>5, <1>6 DEF OnlyCall

\* A call returns.
LEMMA CallEnds ==
  ASSUME Working, NEW t \in Threads, stack[t] # <<>>, Return(t)
  PROVE  stack'[t] = <<>> /\ OnlyCall(t)
<1>1. Len(stack[t]) = 1
  BY OneCall
<1>2. /\ stack' \in [Threads -> Seq(Frames)]
      /\ \A u \in Threads \ {t} : stack'[u] = stack[u]
      /\ Len(stack'[t]) = 0
  BY <1>1, ReturnEffect DEF Working, Good
<1>3. stack'[t] = <<>>
  BY <1>2
<1>4. \A u \in Threads \ {t} : stack'[u] = stack[u] /\ Top(u)' = Top(u)
  BY <1>2 DEF Top
<1>5. ~Exiting'
  BY <1>3, <1>4, BindingAssumption DEF Exiting, Working
<1> QED
  BY <1>3, <1>4, <1>5 DEF OnlyCall

\* A call begins.
LEMMA CallBegins ==
  ASSUME Working, NEW t \in Threads, NEW op \in Ops \ {"signal", "exit"},
         NEW pc \in Pcs, NEW p \in Threads, Begin(t, Frame(op, pc, p))
  PROVE  /\ stack[t] = <<>> /\ stack'[t] # <<>> /\ OnlyCall(t)
         /\ Top(t)'.op = op /\ Top(t)'.pc = pc
         /\ Top(t)'.p = p /\ Top(t)'.flag = FALSE
<1> DEFINE f == Frame(op, pc, p)
<1>1. f \in Frames /\ f.op = op /\ f.pc = pc /\ f.p = p /\ f.flag = FALSE
  BY DEF Frame, Frames
<1>2. stack[t] = <<>> /\ stack' = [stack EXCEPT ![t] = <<f>>]
  BY DEF Begin
<1> HIDE DEF f
<1>3. /\ \A u \in Threads \ {t} : stack'[u] = stack[u]
      /\ stack'[t] = <<f>>
  BY <1>2 DEF Working, Good, Typed
<1>4. stack'[t] # <<>> /\ Top(t)' = f
  BY <1>3 DEF Top
<1>5. \A u \in Threads \ {t} : stack'[u] = stack[u] /\ Top(u)' = Top(u)
  BY <1>3 DEF Top
<1>6. ~Exiting'
  <2>1. CASE t = Main
    BY <1>1, <1>3, <2>1 DEF Exiting
  <2>2. CASE t # Main
    BY <1>5, <2>2, BindingAssumption DEF Exiting, Working
  <2> QED
    BY <2>1, <2>2
<1> QED
  BY <1>1, <1>2, <1>4, <1>5, <1>6 DEF OnlyCall
-----------------------------------------------------------------------------
(* Counting the references. *)

\* A set of threads that differs from another in t at most.
LEMMA CountOne ==
  ASSUME IsFiniteSet(Threads), NEW S \in SUBSET Threads, NEW T \in SUBSET Threads,
         NEW t \in Threads, \A u \in Threads \ {t} : u \in T <=> u \in S
  PROVE  /\ Cardinality(S) \in Nat /\ Cardinality(T) \in Nat
         /\ (t \in T <=> t \in S) => Cardinality(T) = Cardinality(S)
         /\ t \in T /\ t \notin S => Cardinality(T) = Cardinality(S) + 1
         /\ t \notin T /\ t \in S => Cardinality(T) = Cardinality(S) - 1
<1>1. IsFiniteSet(S) /\ IsFiniteSet(T)
  BY FS_Subset
<1>2. Cardinality(S) \in Nat /\ Cardinality(T) \in Nat
  BY <1>1, FS_CardinalityType
<1>3. (t \in T <=> t \in S) => T = S
  OBVIOUS
<1>4. ASSUME t \in T, t \notin S
      PROVE  Cardinality(T) = Cardinality(S) + 1
  <2>1. T = S \cup {t}
    BY <1>4
  <2> QED
    BY <1>1, <1>4, <2>1, FS_AddElement
<1>5. ASSUME t \notin T, t \in S
      PROVE  Cardinality(T) = Cardinality(S) - 1
  <2>1. T = S \ {t}
    BY <1>5
  <2> QED
    BY <1>1, <1>5, <2>1, FS_RemoveElement
<1> QED
  BY <1>2, <1>3, <1>4, <1>5

\* What a step of t may leave of the other threads' references.
OthersKeep(t) ==
  \A u \in Threads \ {t} :
    (FileRef(u)' <=> FileRef(u)) /\ (PinRef(u)' <=> PinRef(u))

\* How the two counts change with the references of t.
LEMMA RefsChange ==
  ASSUME IsFiniteSet(Threads), NEW t \in Threads, OthersKeep(t)
  PROVE  /\ Cardinality(FileRefs) \in Nat /\ Cardinality(PinRefs) \in Nat
         /\ Cardinality(FileRefs)' \in Nat /\ Cardinality(PinRefs)' \in Nat
         /\ (FileRef(t)' <=> FileRef(t))
              => Cardinality(FileRefs)' = Cardinality(FileRefs)
         /\ FileRef(t)' /\ ~FileRef(t)
              => Cardinality(FileRefs)' = Cardinality(FileRefs) + 1
         /\ ~FileRef(t)' /\ FileRef(t)
              => Cardinality(FileRefs)' = Cardinality(FileRefs) - 1
         /\ (PinRef(t)' <=> PinRef(t))
              => Cardinality(PinRefs)' = Cardinality(PinRefs)
         /\ PinRef(t)' /\ ~PinRef(t)
              => Cardinality(PinRefs)' = Cardinality(PinRefs) + 1
         /\ ~PinRef(t)' /\ PinRef(t)
              => Cardinality(PinRefs)' = Cardinality(PinRefs) - 1
<1>1. /\ FileRefs \in SUBSET Threads /\ FileRefs' \in SUBSET Threads
      /\ PinRefs \in SUBSET Threads /\ PinRefs' \in SUBSET Threads
  BY DEF FileRefs, PinRefs
<1>2. /\ \A u \in Threads \ {t} : u \in FileRefs' <=> u \in FileRefs
      /\ \A u \in Threads \ {t} : u \in PinRefs' <=> u \in PinRefs
  BY DEF OthersKeep, FileRefs, PinRefs
<1>3. /\ t \in FileRefs <=> FileRef(t)
      /\ t \in FileRefs' <=> FileRef(t)'
      /\ t \in PinRefs <=> PinRef(t)
      /\ t \in PinRefs' <=> PinRef(t)'
  BY DEF FileRefs, PinRefs
<1>4. /\ Cardinality(FileRefs) \in Nat /\ Cardinality(FileRefs') \in Nat
      /\ (t \in FileRefs' <=> t \in FileRefs)
           => Cardinality(FileRefs') = Cardinality(FileRefs)
      /\ t \in FileRefs' /\ t \notin FileRefs
           => Cardinality(FileRefs') = Cardinality(FileRefs) + 1
      /\ t \notin FileRefs' /\ t \in FileRefs
           => Cardinality(FileRefs') = Cardinality(FileRefs) - 1
  BY <1>1, <1>2, CountOne
<1>5. /\ Cardinality(PinRefs) \in Nat /\ Cardinality(PinRefs') \in Nat
      /\ (t \in PinRefs' <=> t \in PinRefs)
           => Cardinality(PinRefs') = Cardinality(PinRefs)
      /\ t \in PinRefs' /\ t \notin PinRefs
           => Cardinality(PinRefs') = Cardinality(PinRefs) + 1
      /\ t \notin PinRefs' /\ t \in PinRefs
           => Cardinality(PinRefs') = Cardinality(PinRefs) - 1
  BY <1>1, <1>2, CountOne
<1> QED
  BY <1>3, <1>4, <1>5

\* Who has a reference is counted.
LEMMA RefIsCounted ==
  ASSUME IsFiniteSet(Threads), RefsCounted, refs \in Nat, NEW t \in Threads
  PROVE  /\ FileRef(t) \/ PinRef(t) => refs > 0
         /\ FileRef(t) /\ PinRef(t) => refs > 1
         /\ \A u \in Threads \ {t} : (FileRef(t) \/ PinRef(t))
               /\ (FileRef(u) \/ PinRef(u)) => refs > 1
<1>1. /\ FileRefs \in SUBSET Threads /\ PinRefs \in SUBSET Threads
      /\ IsFiniteSet(FileRefs) /\ IsFiniteSet(PinRefs)
  BY FS_Subset DEF FileRefs, PinRefs
<1>2. Cardinality(FileRefs) \in Nat /\ Cardinality(PinRefs) \in Nat
  BY <1>1, FS_CardinalityType
<1>3. ASSUME NEW S, IsFiniteSet(S), NEW x \in S
      PROVE  Cardinality(S) > 0
  <2>1. Cardinality(S) = Cardinality(S \ {x}) + 1 /\ Cardinality(S \ {x}) \in Nat
    <3>1. IsFiniteSet(S \ {x}) /\ Cardinality(S \ {x}) = Cardinality(S) - 1
      BY <1>3, FS_RemoveElement
    <3>2. Cardinality(S) \in Nat /\ Cardinality(S \ {x}) \in Nat
      BY <1>3, <3>1, FS_CardinalityType
    <3> QED
      BY <3>1, <3>2
  <2> QED
    BY <2>1
<1>4. ASSUME NEW S, IsFiniteSet(S), NEW x \in S, NEW y \in S, x # y
      PROVE  Cardinality(S) > 1
  <2>1. /\ IsFiniteSet(S \ {x}) /\ Cardinality(S \ {x}) = Cardinality(S) - 1
        /\ Cardinality(S) \in Nat
    BY <1>4, FS_RemoveElement, FS_CardinalityType
  <2>2. Cardinality(S \ {x}) > 0
    BY <1>3, <1>4, <2>1
  <2> QED
    BY <2>1, <2>2
<1>5. \A u \in Threads : (FileRef(u) <=> u \in FileRefs) /\ (PinRef(u) <=> u \in PinRefs)
  BY DEF FileRefs, PinRefs
<1>6. refs >= Cardinality(FileRefs) + Cardinality(PinRefs)
  BY DEF RefsCounted
<1>7. /\ \A u \in FileRefs : Cardinality(FileRefs) > 0
      /\ \A u \in PinRefs : Cardinality(PinRefs) > 0
      /\ \A u, v \in FileRefs : u # v => Cardinality(FileRefs) > 1
      /\ \A u, v \in PinRefs : u # v => Cardinality(PinRefs) > 1
  BY <1>1, <1>3, <1>4
<1> QED
  BY <1>2, <1>5, <1>6, <1>7
-----------------------------------------------------------------------------
(* The steps of the calls and the references. *)

\* A step of t leaves the other calls as they are.
LEMMA OthersKept ==
  ASSUME NEW t \in Threads, OnlyCall(t),
         \A u \in Threads \ {t} :
           file'[u] = file[u] /\ (u \in pinned' <=> u \in pinned)
  PROVE  /\ OthersKeep(t)
         /\ \A u \in Threads \ {t} : CallTied(u) => CallTied(u)'
<1> SUFFICES ASSUME NEW u \in Threads \ {t}
             PROVE  /\ FileRef(u)' <=> FileRef(u)
                    /\ PinRef(u)' <=> PinRef(u)
                    /\ CallTied(u) => CallTied(u)'
  BY DEF OthersKeep
<1>1. /\ stack'[u] = stack[u] /\ Top(u)' = Top(u) /\ file'[u] = file[u]
      /\ u \in pinned' <=> u \in pinned
  BY DEF OnlyCall
<1> QED
  BY <1>1 DEF FileRef, PinRef, CallTied, Doing

\* A step that touches neither the registry nor the count, and after which t
\* has the references it had.
LEMMA PlainStep ==
  ASSUME Working, Held, IsFiniteSet(Threads), NEW t \in Threads, OnlyCall(t),
         file' \in [Threads -> BOOLEAN], pinned' \subseteq Threads,
         \A u \in Threads \ {t} :
           file'[u] = file[u] /\ (u \in pinned' <=> u \in pinned),
         UNCHANGED <<refs, regs, regLock, cBufs>>,
         FileRef(t)' <=> FileRef(t), PinRef(t)' <=> PinRef(t),
         CallTied(t)', CallRegistered(t)'
  PROVE  Held'
<1>1. OthersKeep(t) /\ \A u \in Threads \ {t} : CallTied(u) => CallTied(u)'
  BY OthersKept
<1>2. RefsCounted'
  <2>1. /\ Cardinality(FileRefs)' = Cardinality(FileRefs)
        /\ Cardinality(PinRefs)' = Cardinality(PinRefs)
    BY <1>1, RefsChange
  <2> QED
    BY <2>1 DEF RefsCounted, Held
<1>3. \A u \in Threads \ {t} : CallRegistered(u)'
  BY DEF Held, CallRegistered, OnlyCall
<1> QED
  BY <1>1, <1>2, <1>3 DEF Held

\* The same when file and pinned stay as well.
LEMMA PlainerStep ==
  ASSUME Working, Held, IsFiniteSet(Threads), NEW t \in Threads, OnlyCall(t),
         UNCHANGED <<file, pinned, refs, regs, regLock, cBufs>>,
         FileRef(t)' <=> FileRef(t), PinRef(t)' <=> PinRef(t),
         CallTied(t)', CallRegistered(t)'
  PROVE  Held'
  BY PlainStep DEF Held

\* Calls begin.
LEMMA HeldCalls ==
  ASSUME Working, Held, IsFiniteSet(Threads), ~SharedBuffers,
         NEW t \in Threads, Call(t)
  PROVE  Held' /\ ~Exiting'
<1>0. Uses(t) = {t}
  BY DEF Uses
<1>a. ASSUME NEW op \in {"open", "close", "io", "pin", "unpin"},
             NEW pc \in {"driver", "release", "ensure", "first", "unpin"},
             Begin(t, Frame(op, pc, t))
      PROVE  /\ stack[t] = <<>> /\ stack'[t] # <<>> /\ OnlyCall(t)
             /\ Top(t)'.op = op /\ Top(t)'.pc = pc /\ Top(t)'.p = t
  <2>1. op \in Ops \ {"signal", "exit"} /\ pc \in Pcs
    BY DEF Ops, Pcs
  <2> QED
    BY <1>a, <2>1, CallBegins
<1>1. CASE OpenFile(t)
  <2>1. /\ stack[t] = <<>> /\ stack'[t] # <<>> /\ OnlyCall(t)
        /\ Top(t)'.op = "open" /\ Top(t)'.pc = "driver" /\ Top(t)'.p = t
    <3>1. Begin(t, Frame("open", "driver", t))
      BY <1>0, <1>1 DEF OpenFile
    <3> QED
      BY <1>a, <3>1
  <2>2. UNCHANGED <<file, pinned, refs, regs, regLock, cBufs>> /\ ~file[t]
    BY <1>1 DEF OpenFile, Begin, driver
  <2>3. CallTied(t)' /\ CallRegistered(t)'
    BY <2>1, <2>2 DEF CallTied, CallRegistered
  <2>4. (FileRef(t)' <=> FileRef(t)) /\ (PinRef(t)' <=> PinRef(t))
    BY <2>1, <2>2 DEF FileRef, PinRef, Doing
  <2> QED
    BY <2>1, <2>2, <2>3, <2>4, PlainerStep DEF OnlyCall
<1>2. CASE CloseFile(t)
  <2>1. /\ stack[t] = <<>> /\ stack'[t] # <<>> /\ OnlyCall(t)
        /\ Top(t)'.op = "close" /\ Top(t)'.pc = "release" /\ Top(t)'.p = t
    <3>1. Begin(t, Frame("close", "release", t))
      BY <1>0, <1>2 DEF CloseFile
    <3> QED
      BY <1>a, <3>1
  <2>2. /\ UNCHANGED <<pinned, refs, regs, regLock, cBufs>> /\ file[t]
        /\ file' = [file EXCEPT ![t] = FALSE]
    BY <1>2 DEF CloseFile, Begin, driver
  <2>a. /\ file' \in [Threads -> BOOLEAN] /\ ~file'[t]
        /\ \A u \in Threads \ {t} : file'[u] = file[u]
    BY <2>2 DEF Held
  <2>3. CallTied(t)' /\ CallRegistered(t)'
    BY <2>1, <2>2, <2>a DEF CallTied, CallRegistered
  <2>4. (FileRef(t)' <=> FileRef(t)) /\ (PinRef(t)' <=> PinRef(t))
    BY <2>1, <2>2, <2>a DEF FileRef, PinRef, Doing
  <2> QED
    BY <2>1, <2>2, <2>3, <2>4, <2>a, PlainStep DEF OnlyCall, Held
<1>3. CASE ReadOrWrite(t)
  <2>1. /\ stack[t] = <<>> /\ stack'[t] # <<>> /\ OnlyCall(t)
        /\ Top(t)'.op = "io" /\ Top(t)'.pc = "ensure" /\ Top(t)'.p = t
    <3>1. Begin(t, Frame("io", "ensure", t))
      BY <1>0, <1>3 DEF ReadOrWrite
    <3> QED
      BY <1>a, <3>1
  <2>2. UNCHANGED <<file, pinned, refs, regs, regLock, cBufs>> /\ file[t]
    BY <1>3 DEF ReadOrWrite, Begin, driver
  <2>3. CallTied(t)' /\ CallRegistered(t)'
    BY <2>1, <2>2 DEF CallTied, CallRegistered
  <2>4. (FileRef(t)' <=> FileRef(t)) /\ (PinRef(t)' <=> PinRef(t))
    BY <2>1, <2>2 DEF FileRef, PinRef, Doing
  <2> QED
    BY <2>1, <2>2, <2>3, <2>4, PlainerStep DEF OnlyCall
<1>4. CASE RegisterBuffer(t)
  <2>1. /\ stack[t] = <<>> /\ stack'[t] # <<>> /\ OnlyCall(t)
        /\ Top(t)'.op = "pin" /\ Top(t)'.pc = "first" /\ Top(t)'.p = t
    <3>1. Begin(t, Frame("pin", "first", t))
      BY <1>0, <1>4 DEF RegisterBuffer
    <3> QED
      BY <1>a, <3>1
  <2>2. UNCHANGED <<file, pinned, refs, regs, regLock, cBufs>>
    BY <1>4 DEF RegisterBuffer, Begin, driver
  <2>3. CallTied(t)' /\ CallRegistered(t)'
    BY <2>1, <2>2 DEF CallTied, CallRegistered
  <2>4. (FileRef(t)' <=> FileRef(t)) /\ (PinRef(t)' <=> PinRef(t))
    BY <2>1, <2>2 DEF FileRef, PinRef, Doing
  <2> QED
    BY <2>1, <2>2, <2>3, <2>4, PlainerStep DEF OnlyCall
<1>5. CASE DeregisterBuffer(t)
  <2>1. /\ stack[t] = <<>> /\ stack'[t] # <<>> /\ OnlyCall(t)
        /\ Top(t)'.op = "unpin" /\ Top(t)'.pc = "unpin" /\ Top(t)'.p = t
    <3>1. Begin(t, Frame("unpin", "unpin", t))
      BY <1>0, <1>5 DEF DeregisterBuffer
    <3> QED
      BY <1>a, <3>1
  <2>2. UNCHANGED <<file, pinned, refs, regs, regLock, cBufs>>
    BY <1>5 DEF DeregisterBuffer, Begin, driver
  <2>3. CallTied(t)' /\ CallRegistered(t)'
    BY <2>1, <2>2 DEF CallTied, CallRegistered
  <2>4. (FileRef(t)' <=> FileRef(t)) /\ (PinRef(t)' <=> PinRef(t))
    BY <2>1, <2>2 DEF FileRef, PinRef, Doing
  <2> QED
    BY <2>1, <2>2, <2>3, <2>4, PlainerStep DEF OnlyCall
<1> QED
  BY <1>1, <1>2, <1>3, <1>4, <1>5 DEF Call

\* A step that touches the registry, and after which t has the references it
\* had.
LEMMA RegistryStep ==
  ASSUME Working, Held, IsFiniteSet(Threads), NEW t \in Threads, OnlyCall(t),
         UNCHANGED <<file, pinned, refs>>,
         FileRef(t)' <=> FileRef(t), PinRef(t)' <=> PinRef(t),
         CallTied(t)', regs' \subseteq cBufs',
         \A u \in Threads : CallRegistered(u)'
  PROVE  Held'
<1>1. OthersKeep(t) /\ \A u \in Threads \ {t} : CallTied(u) => CallTied(u)'
  BY OthersKept
<1>2. RefsCounted'
  <2>1. /\ Cardinality(FileRefs)' = Cardinality(FileRefs)
        /\ Cardinality(PinRefs)' = Cardinality(PinRefs)
    BY <1>1, RefsChange
  <2> QED
    BY <2>1 DEF RefsCounted, Held
<1> QED
  BY <1>1, <1>2 DEF Held

\* A counted driver is open, also while somebody holds _lock.
LEMMA CountedIsOpen ==
  ASSUME Working, refs > 0
  PROVE  cOpen
<1>1. CASE lock.owner = NoOne
  BY <1>1 DEF Working, Good, Counted, DriverCounted
<1>2. CASE lock.owner # NoOne
  <2>1. PICK i \in 1 .. Len(stack[lock.owner]) :
               stack[lock.owner][i].pc \in LockPcs
    BY <1>2 DEF Working, Good, LockHeld
  <2>2. lock.owner \in Threads /\ refs \in Nat
    BY <1>2 DEF Working, Good, Typed
  <2>3. stack[lock.owner] \in Seq(Frames)
    BY <2>2 DEF Working, Good, Typed
  <2>4. stack[lock.owner] # <<>>
    BY <2>1, <2>3
  <2>5. /\ Len(stack[lock.owner]) = 1 /\ ~InCleanup(Top(lock.owner))
        /\ Top(lock.owner) = stack[lock.owner][1]
        /\ Knows(lock.owner, Top(lock.owner))
    BY <2>2, <2>4, OneCall
  <2>6. i = 1
    BY <2>1, <2>5
  <2> QED
    BY <2>1, <2>2, <2>5, <2>6 DEF Knows, LockPcs
<1> QED
  BY <1>1, <1>2

\* A call that uses the registry or does I/O has a reference.
LEMMA UserIsCounted ==
  ASSUME Working, Held, IsFiniteSet(Threads), NEW t \in Threads, stack[t] # <<>>,
         Top(t).pc \in {"ensure", "c_register", "pin", "io"}
  PROVE  refs > 0
<1>1. StepOf(Top(t).op, Top(t).pc)
  BY OneCall DEF Knows
<1>2. CallTied(t) /\ RefsCounted /\ refs \in Nat
  BY DEF Held, Working, Good, Typed
<1>3. FileRef(t) \/ PinRef(t)
  BY <1>1, <1>2 DEF StepOf, CallTied, FileRef, PinRef, Doing
<1> QED
  BY <1>2, <1>3, RefIsCounted

\* While the last reference is given back no call uses the registry.
LEMMA CloserIsAlone ==
  ASSUME Working, Held, IsFiniteSet(Threads), NEW t \in Threads, stack[t] # <<>>,
         Top(t).pc \in {"clear", "c_clear", "c_close"}
  PROVE  /\ refs = 0
         /\ \A u \in Threads : stack[u] # <<>> =>
              Top(u).pc \notin {"ensure", "c_register", "pin", "io"}
<1>1. refs = 0
  BY OneCall DEF Knows
<1> QED
  BY <1>1, UserIsCounted

\* I/O and register_buffer in the registry.
LEMMA HeldRegister ==
  ASSUME Working, Held, IsFiniteSet(Threads), NEW t \in Threads,
         InCache(t) \/ NotInCache(t) \/ BufRegister(t) \/ IoReturns(t)
  PROVE  Held' /\ ~Exiting'
<1>0. stack[t] # <<>>
  BY DEF InCache, NotInCache, BufRegister, IoReturns, At
<1>a. /\ StepOf(Top(t).op, Top(t).pc) /\ CallTied(t) /\ CallRegistered(t)
      /\ Top(t).p = t
  BY <1>0, OneCall DEF Knows, Held, CallTied
<1>1. CASE InCache(t)
  <2>1. /\ Top(t).pc = "ensure" /\ Goto(t, AfterRegister(t)) /\ t \in regs
        /\ UNCHANGED <<file, pinned, refs, regs, regLock, cBufs>>
    BY <1>1, <1>a DEF InCache, At, binding, driver
  <2>2. /\ StepOf(Top(t).op, AfterRegister(t))
        /\ \/ Top(t).op = "pin" /\ AfterRegister(t) = "pin"
           \/ Top(t).op = "io" /\ AfterRegister(t) = "io"
    BY <1>a, <2>1 DEF StepOf, AfterRegister
  <2>3. /\ stack'[t] # <<>> /\ OnlyCall(t)
        /\ Top(t)'.op = Top(t).op /\ Top(t)'.pc = AfterRegister(t)
        /\ Top(t)'.p = Top(t).p /\ Top(t)'.flag = Top(t).flag
    BY <1>0, <2>1, <2>2, CallMoves
  <2>4. CallTied(t)' /\ CallRegistered(t)'
    BY <1>0, <1>a, <2>1, <2>2, <2>3 DEF CallTied, CallRegistered
  <2>5. (FileRef(t)' <=> FileRef(t)) /\ (PinRef(t)' <=> PinRef(t))
    BY <1>0, <1>a, <2>1, <2>2, <2>3 DEF FileRef, PinRef, Doing
  <2> QED
    BY <2>1, <2>3, <2>4, <2>5, PlainerStep DEF OnlyCall
<1>2. CASE NotInCache(t)
  <2>1. /\ Top(t).pc = "ensure" /\ Goto(t, "c_register") /\ regLock = NoOne
        /\ regLock' = t /\ UNCHANGED <<file, pinned, refs, regs, cBufs>>
    BY <1>2, <1>a DEF NotInCache, At, binding, driver
  <2>2. StepOf(Top(t).op, "c_register") /\ Top(t).op \in {"pin", "io"}
    BY <1>a, <2>1 DEF StepOf
  <2>3. /\ stack'[t] # <<>> /\ OnlyCall(t)
        /\ Top(t)'.op = Top(t).op /\ Top(t)'.pc = "c_register"
        /\ Top(t)'.p = Top(t).p /\ Top(t)'.flag = Top(t).flag
    BY <1>0, <2>1, <2>2, CallMoves
  <2>4. CallTied(t)'
    BY <1>0, <1>a, <2>1, <2>2, <2>3 DEF CallTied
  <2>5. \A u \in Threads : CallRegistered(u)'
    BY <2>1, <2>3, BindingAssumption DEF Held, CallRegistered, OnlyCall
  <2>6. (FileRef(t)' <=> FileRef(t)) /\ (PinRef(t)' <=> PinRef(t))
    BY <1>0, <1>a, <2>1, <2>2, <2>3 DEF FileRef, PinRef, Doing
  <2> QED
    BY <2>1, <2>3, <2>4, <2>5, <2>6, RegistryStep DEF OnlyCall, Held
<1>3. CASE BufRegister(t)
  <2>1. /\ Top(t).pc = "c_register" /\ regLock = t /\ regLock' = NoOne
        /\ UNCHANGED <<file, pinned, refs>> /\ Top(t).op \in {"pin", "io"}
    BY <1>3, <1>0, <1>a DEF BufRegister, At, StepOf, CallRegistered
  <2>2. \A u \in Threads : stack[u] # <<>> => Top(u).pc # "c_close"
    BY <1>0, <2>1, CloserIsAlone
  <2>3. CASE /\ cBufs' = cBufs \cup {Top(t).p} /\ regs' = regs \cup {Top(t).p}
             /\ Goto(t, AfterRegister(t))
    <3>1. /\ StepOf(Top(t).op, AfterRegister(t))
          /\ \/ Top(t).op = "pin" /\ AfterRegister(t) = "pin"
             \/ Top(t).op = "io" /\ AfterRegister(t) = "io"
      BY <2>1 DEF StepOf, AfterRegister
    <3>2. /\ stack'[t] # <<>> /\ OnlyCall(t)
          /\ Top(t)'.op = Top(t).op /\ Top(t)'.pc = AfterRegister(t)
          /\ Top(t)'.p = Top(t).p /\ Top(t)'.flag = Top(t).flag
      BY <1>0, <2>3, <3>1, CallMoves
    <3>3. CallTied(t)'
      BY <1>0, <1>a, <2>1, <3>1, <3>2 DEF CallTied
    <3>4. \A u \in Threads : CallRegistered(u)'
      BY <1>a, <2>1, <2>2, <2>3, <3>1, <3>2, BindingAssumption
         DEF Held, CallRegistered, OnlyCall
    <3>5. (FileRef(t)' <=> FileRef(t)) /\ (PinRef(t)' <=> PinRef(t))
      BY <1>0, <1>a, <2>1, <3>1, <3>2 DEF FileRef, PinRef, Doing
    <3>6. regs' \subseteq cBufs'
      BY <2>3 DEF Held
    <3> QED
      BY <2>1, <3>2, <3>3, <3>4, <3>5, <3>6, RegistryStep DEF OnlyCall
  <2>4. CASE UNCHANGED <<cBufs, regs>> /\ GivesBack(t) /\ Goto(t, "release")
    <3>1. StepOf(Top(t).op, "release") /\ Top(t).op = "pin" /\ Top(t).flag
      BY <2>4 DEF StepOf, GivesBack
    <3>2. /\ stack'[t] # <<>> /\ OnlyCall(t)
          /\ Top(t)'.op = Top(t).op /\ Top(t)'.pc = "release"
          /\ Top(t)'.p = Top(t).p /\ Top(t)'.flag = Top(t).flag
      BY <1>0, <2>4, <3>1, CallMoves
    <3>3. CallTied(t)'
      BY <1>0, <1>a, <2>1, <3>1, <3>2 DEF CallTied
    <3>4. \A u \in Threads : CallRegistered(u)'
      BY <1>a, <2>1, <2>4, <3>1, <3>2, BindingAssumption
         DEF Held, CallRegistered, OnlyCall
    <3>5. (FileRef(t)' <=> FileRef(t)) /\ (PinRef(t)' <=> PinRef(t))
      BY <1>0, <1>a, <2>1, <3>1, <3>2 DEF FileRef, PinRef, Doing
    <3> QED
      BY <2>1, <2>4, <3>2, <3>3, <3>4, <3>5, RegistryStep DEF OnlyCall, Held
  <2>5. CASE UNCHANGED <<cBufs, regs>> /\ ~GivesBack(t) /\ Return(t)
    <3>1. stack'[t] = <<>> /\ OnlyCall(t)
      BY <1>0, <2>5, CallEnds
    <3>2. CallTied(t)'
      BY <3>1 DEF CallTied
    <3>3. \A u \in Threads : CallRegistered(u)'
      BY <1>a, <2>1, <2>5, <3>1, BindingAssumption
         DEF Held, CallRegistered, OnlyCall
    <3>4. (FileRef(t)' <=> FileRef(t)) /\ (PinRef(t)' <=> PinRef(t))
      BY <1>0, <1>a, <2>1, <2>5, <3>1 DEF FileRef, PinRef, Doing, GivesBack, CallTied
    <3> QED
      BY <2>1, <2>5, <3>1, <3>2, <3>3, <3>4, RegistryStep DEF OnlyCall, Held
  <2> QED
    BY <1>3, <2>3, <2>4, <2>5 DEF BufRegister
<1>4. CASE IoReturns(t)
  <2>1. /\ Top(t).pc = "io" /\ Return(t) /\ Top(t).op = "io"
        /\ UNCHANGED <<file, pinned, refs, regs, regLock, cBufs>>
    BY <1>4, <1>a DEF IoReturns, At, StepOf, binding, driver
  <2>2. stack'[t] = <<>> /\ OnlyCall(t)
    BY <1>0, <2>1, CallEnds
  <2>3. CallTied(t)' /\ CallRegistered(t)'
    BY <2>2 DEF CallTied, CallRegistered
  <2>4. (FileRef(t)' <=> FileRef(t)) /\ (PinRef(t)' <=> PinRef(t))
    BY <1>0, <2>1, <2>2 DEF FileRef, PinRef, Doing
  <2> QED
    BY <2>1, <2>2, <2>3, <2>4, PlainerStep DEF OnlyCall
<1> QED
  BY <1>1, <1>2, <1>3, <1>4

\* register_buffer and deregister_buffer.
LEMMA HeldPin ==
  ASSUME Working, Held, IsFiniteSet(Threads), NEW t \in Threads,
         Drop(t) \/ BufDeregister(t) \/ First(t) \/ Pin(t) \/ Unpin(t)
  PROVE  Held' /\ ~Exiting'
<1>0. stack[t] # <<>>
  BY DEF Drop, BufDeregister, First, Pin, Unpin, At
<1>a. /\ StepOf(Top(t).op, Top(t).pc) /\ CallTied(t) /\ CallRegistered(t)
      /\ Top(t).p = t
  BY <1>0, OneCall DEF Knows, Held, CallTied
<1>1. CASE Drop(t)
  <2>1. /\ Top(t).pc = "drop" /\ Top(t).op = "unpin" /\ regLock = NoOne
        /\ UNCHANGED <<file, pinned, refs, cBufs>>
    BY <1>1, <1>a DEF Drop, At, StepOf, driver
  <2>2. StepOf(Top(t).op, "c_drop") /\ StepOf(Top(t).op, "release")
    BY <2>1 DEF StepOf
  <2>3. CASE t \in regs
    <3>1. regLock' = t /\ regs' = regs \ {t} /\ Goto(t, "c_drop")
      BY <1>1, <1>a, <2>3 DEF Drop
    <3>2. /\ stack'[t] # <<>> /\ OnlyCall(t)
          /\ Top(t)'.op = Top(t).op /\ Top(t)'.pc = "c_drop"
          /\ Top(t)'.p = Top(t).p /\ Top(t)'.flag = Top(t).flag
      BY <1>0, <2>2, <3>1, CallMoves
    <3>3. CallTied(t)'
      BY <1>0, <1>a, <2>1, <3>2 DEF CallTied
    <3>4. \A u \in Threads : CallRegistered(u)'
      BY <2>1, <3>1, <3>2, BindingAssumption DEF Held, CallRegistered, OnlyCall
    <3>5. (FileRef(t)' <=> FileRef(t)) /\ (PinRef(t)' <=> PinRef(t))
      BY <1>0, <2>1, <3>2 DEF FileRef, PinRef, Doing
    <3>6. regs' \subseteq cBufs'
      BY <2>1, <3>1 DEF Held
    <3> QED
      BY <2>1, <3>2, <3>3, <3>4, <3>5, <3>6, RegistryStep DEF OnlyCall
  <2>4. CASE t \notin regs /\ Top(t).flag
    <3>1. UNCHANGED <<regs, regLock>> /\ Goto(t, "release")
      BY <1>1, <1>a, <2>4 DEF Drop
    <3>2. /\ stack'[t] # <<>> /\ OnlyCall(t)
          /\ Top(t)'.op = Top(t).op /\ Top(t)'.pc = "release"
          /\ Top(t)'.p = Top(t).p /\ Top(t)'.flag = Top(t).flag
      BY <1>0, <2>2, <3>1, CallMoves
    <3>3. CallTied(t)' /\ CallRegistered(t)'
      BY <1>0, <1>a, <2>1, <2>4, <3>2 DEF CallTied, CallRegistered
    <3>4. (FileRef(t)' <=> FileRef(t)) /\ (PinRef(t)' <=> PinRef(t))
      BY <1>0, <2>1, <3>2 DEF FileRef, PinRef, Doing
    <3> QED
      BY <2>1, <3>1, <3>2, <3>3, <3>4, PlainerStep DEF OnlyCall
  <2>5. CASE t \notin regs /\ ~Top(t).flag
    <3>1. UNCHANGED <<regs, regLock>> /\ Return(t)
      BY <1>1, <1>a, <2>5 DEF Drop
    <3>2. stack'[t] = <<>> /\ OnlyCall(t)
      BY <1>0, <3>1, CallEnds
    <3>3. CallTied(t)' /\ CallRegistered(t)'
      BY <3>2 DEF CallTied, CallRegistered
    <3>4. (FileRef(t)' <=> FileRef(t)) /\ (PinRef(t)' <=> PinRef(t))
      BY <1>0, <2>1, <2>5, <3>2 DEF FileRef, PinRef, Doing
    <3> QED
      BY <2>1, <3>1, <3>2, <3>3, <3>4, PlainerStep DEF OnlyCall
  <2> QED
    BY <2>3, <2>4, <2>5
<1>2. CASE BufDeregister(t)
  <2>1. /\ Top(t).pc = "c_drop" /\ Top(t).op = "unpin" /\ regLock = t
        /\ t \notin regs /\ regLock' = NoOne /\ cBufs' = cBufs \ {t}
        /\ UNCHANGED <<file, pinned, refs, regs>>
    BY <1>2, <1>0, <1>a DEF BufDeregister, At, StepOf, CallRegistered, binding
  <2>2. StepOf(Top(t).op, "release")
    BY <2>1 DEF StepOf
  <2>3. regs' \subseteq cBufs'
    BY <2>1 DEF Held
  <2>4. CASE Top(t).flag
    <3>1. Goto(t, "release")
      BY <1>2, <2>4 DEF BufDeregister
    <3>2. /\ stack'[t] # <<>> /\ OnlyCall(t)
          /\ Top(t)'.op = Top(t).op /\ Top(t)'.pc = "release"
          /\ Top(t)'.p = Top(t).p /\ Top(t)'.flag = Top(t).flag
      BY <1>0, <2>2, <3>1, CallMoves
    <3>3. CallTied(t)'
      BY <1>0, <1>a, <2>1, <2>4, <3>2 DEF CallTied
    <3>4. \A u \in Threads : CallRegistered(u)'
      BY <2>1, <3>2, BindingAssumption DEF Held, CallRegistered, OnlyCall
    <3>5. (FileRef(t)' <=> FileRef(t)) /\ (PinRef(t)' <=> PinRef(t))
      BY <1>0, <2>1, <3>2 DEF FileRef, PinRef, Doing
    <3> QED
      BY <2>1, <2>3, <3>2, <3>3, <3>4, <3>5, RegistryStep DEF OnlyCall
  <2>5. CASE ~Top(t).flag
    <3>1. Return(t)
      BY <1>2, <2>5 DEF BufDeregister
    <3>2. stack'[t] = <<>> /\ OnlyCall(t)
      BY <1>0, <3>1, CallEnds
    <3>3. CallTied(t)'
      BY <3>2 DEF CallTied
    <3>4. \A u \in Threads : CallRegistered(u)'
      BY <2>1, <3>2, BindingAssumption DEF Held, CallRegistered, OnlyCall
    <3>5. (FileRef(t)' <=> FileRef(t)) /\ (PinRef(t)' <=> PinRef(t))
      BY <1>0, <2>1, <2>5, <3>2 DEF FileRef, PinRef, Doing
    <3> QED
      BY <2>1, <2>3, <3>2, <3>3, <3>4, <3>5, RegistryStep DEF OnlyCall
  <2> QED
    BY <2>4, <2>5
<1>3. CASE First(t)
  <2>1. /\ Top(t).pc = "first" /\ Top(t).op = "pin"
        /\ UNCHANGED <<file, pinned, refs, regs, regLock, cBufs>>
    BY <1>3, <1>a DEF First, At, StepOf, binding, driver
  <2>2. StepOf(Top(t).op, "ensure") /\ StepOf(Top(t).op, "driver")
    BY <2>1 DEF StepOf
  <2>3. CASE t \in pinned
    <3>1. GotoWith(t, "ensure", FALSE)
      BY <1>3, <1>a, <2>3 DEF First
    <3>2. /\ stack'[t] # <<>> /\ OnlyCall(t)
          /\ Top(t)'.op = Top(t).op /\ Top(t)'.pc = "ensure"
          /\ Top(t)'.p = Top(t).p /\ Top(t)'.flag = FALSE
      BY <1>0, <2>2, <3>1, CallMarks
    <3>3. CallTied(t)' /\ CallRegistered(t)'
      BY <1>a, <2>1, <2>3, <3>2 DEF CallTied, CallRegistered
    <3>4. (FileRef(t)' <=> FileRef(t)) /\ (PinRef(t)' <=> PinRef(t))
      BY <1>0, <2>1, <2>3, <3>2 DEF FileRef, PinRef, Doing
    <3> QED
      BY <2>1, <3>2, <3>3, <3>4, PlainerStep DEF OnlyCall
  <2>4. CASE t \notin pinned
    <3>1. GotoWith(t, "driver", TRUE)
      BY <1>3, <1>a, <2>4 DEF First
    <3>2. /\ stack'[t] # <<>> /\ OnlyCall(t)
          /\ Top(t)'.op = Top(t).op /\ Top(t)'.pc = "driver"
          /\ Top(t)'.p = Top(t).p /\ Top(t)'.flag = TRUE
      BY <1>0, <2>2, <3>1, CallMarks
    <3>3. CallTied(t)' /\ CallRegistered(t)'
      BY <1>a, <2>1, <2>4, <3>2 DEF CallTied, CallRegistered
    <3>4. (FileRef(t)' <=> FileRef(t)) /\ (PinRef(t)' <=> PinRef(t))
      BY <1>0, <2>1, <2>4, <3>2 DEF FileRef, PinRef, Doing
    <3> QED
      BY <2>1, <3>2, <3>3, <3>4, PlainerStep DEF OnlyCall
  <2> QED
    BY <2>3, <2>4
<1>4. CASE Pin(t)
  <2>1. /\ Top(t).pc = "pin" /\ Top(t).op = "pin" /\ Return(t)
        /\ pinned' = pinned \cup {t}
        /\ UNCHANGED <<file, refs, regs, regLock, cBufs>>
    BY <1>4, <1>a DEF Pin, At, StepOf, driver
  <2>2. stack'[t] = <<>> /\ OnlyCall(t)
    BY <1>0, <2>1, CallEnds
  <2>3. CallTied(t)' /\ CallRegistered(t)'
    BY <2>2 DEF CallTied, CallRegistered
  <2>4. (FileRef(t)' <=> FileRef(t)) /\ (PinRef(t)' <=> PinRef(t))
    BY <1>0, <1>a, <2>1, <2>2 DEF FileRef, PinRef, Doing, CallTied
  <2>5. /\ file' \in [Threads -> BOOLEAN] /\ pinned' \subseteq Threads
        /\ \A u \in Threads \ {t} :
             file'[u] = file[u] /\ (u \in pinned' <=> u \in pinned)
    BY <2>1 DEF Held
  <2> QED
    BY <2>1, <2>2, <2>3, <2>4, <2>5, PlainStep DEF OnlyCall
<1>5. CASE Unpin(t)
  <2>1. /\ Top(t).pc = "unpin" /\ Top(t).op = "unpin"
        /\ GotoWith(t, "drop", t \in pinned)
        /\ pinned' = pinned \ {t}
        /\ UNCHANGED <<file, refs, regs, regLock, cBufs>>
    BY <1>5, <1>a DEF Unpin, At, StepOf, driver
  <2>2. PICK b \in BOOLEAN : (b <=> t \in pinned) /\ GotoWith(t, "drop", b)
    <3> DEFINE b == t \in pinned
    <3>1. b \in BOOLEAN /\ (b <=> t \in pinned) /\ GotoWith(t, "drop", b)
      BY <2>1
    <3> HIDE DEF b
    <3> QED
      BY <3>1
  <2>3. StepOf(Top(t).op, "drop")
    BY <2>1 DEF StepOf
  <2>4. /\ stack'[t] # <<>> /\ OnlyCall(t)
        /\ Top(t)'.op = Top(t).op /\ Top(t)'.pc = "drop"
        /\ Top(t)'.p = Top(t).p /\ Top(t)'.flag = b
    BY <1>0, <2>2, <2>3, CallMarks
  <2>5. CallTied(t)' /\ CallRegistered(t)'
    BY <1>a, <2>1, <2>4 DEF CallTied, CallRegistered
  <2>6. (FileRef(t)' <=> FileRef(t)) /\ (PinRef(t)' <=> PinRef(t))
    BY <1>0, <2>1, <2>2, <2>4 DEF FileRef, PinRef, Doing
  <2>7. /\ file' \in [Threads -> BOOLEAN] /\ pinned' \subseteq Threads
        /\ \A u \in Threads \ {t} :
             file'[u] = file[u] /\ (u \in pinned' <=> u \in pinned)
    BY <2>1 DEF Held
  <2> QED
    BY <2>1, <2>4, <2>5, <2>6, <2>7, PlainStep DEF OnlyCall
<1> QED
  BY <1>1, <1>2, <1>3, <1>4, <1>5

\* _ensure_driver and OpenDSFile.__init__.
LEMMA HeldEnsure ==
  ASSUME Working, Held, IsFiniteSet(Threads), NEW t \in Threads,
         Ensure(t) \/ DriverOpen(t) \/ Count(t) \/ HandleRegister(t)
  PROVE  Held' /\ ~Exiting'
<1>0. stack[t] # <<>> /\ refs \in Nat
  BY DEF Ensure, DriverOpen, Count, HandleRegister, At, Working, Good, Typed
<1>a. /\ StepOf(Top(t).op, Top(t).pc) /\ CallTied(t) /\ CallRegistered(t)
      /\ Top(t).p = t
  BY <1>0, OneCall DEF Knows, Held, CallTied
<1>1. CASE Ensure(t)
  <2>1. /\ Top(t).pc = "driver" /\ Top(t).op \in {"open", "pin"}
        /\ UNCHANGED <<file, pinned, refs, regs, regLock, cBufs>>
    BY <1>1, <1>a DEF Ensure, At, StepOf, binding, driver
  <2>2. PICK pc \in {"c_open", "count"} : Goto(t, pc)
    BY <1>1 DEF Ensure
  <2>3. StepOf(Top(t).op, pc)
    BY <2>1 DEF StepOf
  <2>4. /\ stack'[t] # <<>> /\ OnlyCall(t)
        /\ Top(t)'.op = Top(t).op /\ Top(t)'.pc = pc
        /\ Top(t)'.p = Top(t).p /\ Top(t)'.flag = Top(t).flag
    BY <1>0, <2>2, <2>3, CallMoves
  <2>5. CallTied(t)' /\ CallRegistered(t)'
    BY <1>0, <1>a, <2>1, <2>4 DEF CallTied, CallRegistered
  <2>6. (FileRef(t)' <=> FileRef(t)) /\ (PinRef(t)' <=> PinRef(t))
    BY <1>0, <2>1, <2>4 DEF FileRef, PinRef, Doing
  <2> QED
    BY <2>1, <2>4, <2>5, <2>6, PlainerStep DEF OnlyCall
<1>2. CASE DriverOpen(t)
  <2>1. /\ Top(t).pc = "c_open" /\ Top(t).op \in {"open", "pin"}
        /\ UNCHANGED <<file, pinned, refs, regs, regLock, cBufs>>
    BY <1>2, <1>a DEF DriverOpen, At, StepOf, binding
  <2>2. CASE Goto(t, "count")
    <3>1. StepOf(Top(t).op, "count")
      BY <2>1 DEF StepOf
    <3>2. /\ stack'[t] # <<>> /\ OnlyCall(t)
          /\ Top(t)'.op = Top(t).op /\ Top(t)'.pc = "count"
          /\ Top(t)'.p = Top(t).p /\ Top(t)'.flag = Top(t).flag
      BY <1>0, <2>2, <3>1, CallMoves
    <3>3. CallTied(t)' /\ CallRegistered(t)'
      BY <1>0, <1>a, <2>1, <3>2 DEF CallTied, CallRegistered
    <3>4. (FileRef(t)' <=> FileRef(t)) /\ (PinRef(t)' <=> PinRef(t))
      BY <1>0, <2>1, <3>2 DEF FileRef, PinRef, Doing
    <3> QED
      BY <2>1, <3>2, <3>3, <3>4, PlainerStep DEF OnlyCall
  <2>3. CASE Return(t)
    <3>1. stack'[t] = <<>> /\ OnlyCall(t)
      BY <1>0, <2>3, CallEnds
    <3>2. CallTied(t)' /\ CallRegistered(t)'
      BY <3>1 DEF CallTied, CallRegistered
    <3>3. (FileRef(t)' <=> FileRef(t)) /\ (PinRef(t)' <=> PinRef(t))
      BY <1>0, <2>1, <3>1 DEF FileRef, PinRef, Doing
    <3> QED
      BY <2>1, <3>1, <3>2, <3>3, PlainerStep DEF OnlyCall
  <2> QED
    BY <1>2, <2>2, <2>3 DEF DriverOpen
<1>3. CASE Count(t)
  <2>1. /\ Top(t).pc = "count" /\ Top(t).op \in {"open", "pin"}
        /\ Goto(t, AfterEnsure(t)) /\ refs' = refs + 1
        /\ UNCHANGED <<file, pinned, regs, regLock, cBufs>>
    BY <1>3, <1>a DEF Count, At, StepOf, driver
  <2>2. /\ StepOf(Top(t).op, AfterEnsure(t))
        /\ \/ Top(t).op = "open" /\ AfterEnsure(t) = "handle"
           \/ Top(t).op = "pin" /\ AfterEnsure(t) = "ensure"
    BY <2>1 DEF StepOf, AfterEnsure
  <2>3. /\ stack'[t] # <<>> /\ OnlyCall(t)
        /\ Top(t)'.op = Top(t).op /\ Top(t)'.pc = AfterEnsure(t)
        /\ Top(t)'.p = Top(t).p /\ Top(t)'.flag = Top(t).flag
    BY <1>0, <2>1, <2>2, CallMoves
  <2>4. CallTied(t)' /\ CallRegistered(t)'
    BY <1>0, <1>a, <2>1, <2>2, <2>3 DEF CallTied, CallRegistered
  <2>5. OthersKeep(t) /\ \A u \in Threads \ {t} : CallTied(u) => CallTied(u)'
    BY <2>1, <2>3, OthersKept
  <2>6. \/ /\ FileRef(t)' /\ ~FileRef(t) /\ (PinRef(t)' <=> PinRef(t))
        \/ /\ PinRef(t)' /\ ~PinRef(t) /\ (FileRef(t)' <=> FileRef(t))
    BY <1>0, <1>a, <2>1, <2>2, <2>3 DEF FileRef, PinRef, Doing, CallTied
  <2>7. RefsCounted'
    BY <1>0, <2>1, <2>5, <2>6, RefsChange DEF RefsCounted, Held
  <2>8. \A u \in Threads \ {t} : CallRegistered(u)'
    BY <2>1, <2>3 DEF Held, CallRegistered, OnlyCall
  <2> QED
    BY <2>1, <2>3, <2>4, <2>5, <2>7, <2>8 DEF Held, OnlyCall
<1>4. CASE HandleRegister(t)
  <2>1. /\ Top(t).pc = "handle" /\ Top(t).op = "open" /\ Return(t)
        /\ UNCHANGED <<pinned, refs, regs, regLock, cBufs>>
        /\ \/ file' = [file EXCEPT ![t] = TRUE]
           \/ (HandleFails \/ ~cOpen) /\ UNCHANGED file
    BY <1>4, <1>a DEF HandleRegister, At, StepOf, driver
  <2>2. stack'[t] = <<>> /\ OnlyCall(t)
    BY <1>0, <2>1, CallEnds
  <2>3. CallTied(t)' /\ CallRegistered(t)'
    BY <2>2 DEF CallTied, CallRegistered
  <2>4. FileRef(t) /\ (PinRef(t)' <=> PinRef(t))
    BY <1>0, <2>1, <2>2 DEF FileRef, PinRef, Doing
  <2>5. cOpen
    BY <1>0, <2>4, RefIsCounted, CountedIsOpen DEF Held
  <2>6. /\ file' \in [Threads -> BOOLEAN] /\ pinned' \subseteq Threads
        /\ \A u \in Threads \ {t} :
             file'[u] = file[u] /\ (u \in pinned' <=> u \in pinned)
    BY <2>1 DEF Held
  <2>7. CASE file' = [file EXCEPT ![t] = TRUE]
    <3>1. file'[t]
      BY <2>7 DEF Held
    <3>2. FileRef(t)'
      BY <3>1 DEF FileRef
    <3> QED
      BY <2>1, <2>2, <2>3, <2>4, <2>6, <3>2, PlainStep DEF OnlyCall
  <2>8. CASE HandleFails /\ UNCHANGED file
    <3>1. ~FileRef(t)'
      BY <1>0, <1>a, <2>1, <2>2, <2>8 DEF FileRef, Doing, CallTied
    <3>2. OthersKeep(t) /\ \A u \in Threads \ {t} : CallTied(u) => CallTied(u)'
      BY <2>2, <2>6, OthersKept
    <3>3. RefsCounted'
      BY <1>0, <2>1, <2>4, <2>8, <3>1, <3>2, RefsChange DEF RefsCounted, Held
    <3>4. \A u \in Threads \ {t} : CallRegistered(u)'
      BY <2>1, <2>2 DEF Held, CallRegistered, OnlyCall
    <3> QED
      BY <2>1, <2>2, <2>3, <2>6, <3>2, <3>3, <3>4 DEF Held, OnlyCall
  <2> QED
    BY <2>1, <2>5, <2>7, <2>8
<1> QED
  BY <1>1, <1>2, <1>3, <1>4

\* _release_driver.
LEMMA HeldRelease ==
  ASSUME Working, Held, IsFiniteSet(Threads), NEW t \in Threads,
         \/ Release(t) \/ ReleaseLast(t) \/ Clear(t) \/ BufDeregisterAll(t)
         \/ DriverClose(t)
  PROVE  Held' /\ ~Exiting'
<1>0. stack[t] # <<>> /\ refs \in Nat
  BY DEF Release, ReleaseLast, Clear, BufDeregisterAll, DriverClose, At, Working,
         Good, Typed
<1>a. /\ StepOf(Top(t).op, Top(t).pc) /\ CallTied(t) /\ CallRegistered(t)
      /\ Top(t).p = t /\ ~InCleanup(Top(t))
  BY <1>0, OneCall DEF Knows, Held, CallTied
<1>b. ASSUME Top(t).pc = "release"
      PROVE  \/ /\ Top(t).op = "close" /\ FileRef(t)
             \/ /\ Top(t).op \in {"pin", "unpin"} /\ PinRef(t) /\ t \notin pinned
  BY <1>0, <1>a, <1>b DEF StepOf, FileRef, PinRef, Doing, CallTied, InCleanup
<1>1. CASE Release(t)
  <2>1. /\ Top(t).pc = "release" /\ Return(t) /\ refs # 1 /\ refs' = Decremented
        /\ UNCHANGED <<file, pinned, regs, regLock, cBufs>>
    BY <1>1 DEF Release, At, IsLast, driver
  <2>2. stack'[t] = <<>> /\ OnlyCall(t)
    BY <1>0, <2>1, CallEnds
  <2>3. CallTied(t)' /\ CallRegistered(t)'
    BY <2>2 DEF CallTied, CallRegistered
  <2>4. refs' = refs - 1
    BY <1>0, <1>b, <2>1, RefIsCounted DEF Held, Decremented
  <2>5. OthersKeep(t) /\ \A u \in Threads \ {t} : CallTied(u) => CallTied(u)'
    BY <2>1, <2>2, OthersKept
  <2>6. \/ /\ FileRef(t) /\ ~FileRef(t)' /\ (PinRef(t)' <=> PinRef(t))
        \/ /\ PinRef(t) /\ ~PinRef(t)' /\ (FileRef(t)' <=> FileRef(t))
    BY <1>0, <1>a, <1>b, <2>1, <2>2 DEF FileRef, PinRef, Doing, CallTied
  <2>7. RefsCounted'
    BY <1>0, <2>4, <2>5, <2>6, RefsChange DEF RefsCounted, Held
  <2>8. \A u \in Threads \ {t} : CallRegistered(u)'
    BY <2>1, <2>2 DEF Held, CallRegistered, OnlyCall
  <2> QED
    BY <2>1, <2>2, <2>3, <2>5, <2>7, <2>8 DEF Held, OnlyCall
<1>2. CASE ReleaseLast(t)
  <2>1. /\ Top(t).pc = "release" /\ Goto(t, "clear") /\ refs = 1 /\ refs' = 0
        /\ pinned' = {} /\ UNCHANGED <<file, regs, regLock, cBufs>>
    BY <1>2 DEF ReleaseLast, At, IsLast, Decremented, driver
  <2>2. StepOf(Top(t).op, "clear")
    BY <1>b, <2>1 DEF StepOf
  <2>3. /\ stack'[t] # <<>> /\ OnlyCall(t)
        /\ Top(t)'.op = Top(t).op /\ Top(t)'.pc = "clear"
        /\ Top(t)'.p = Top(t).p /\ Top(t)'.flag = Top(t).flag
    BY <1>0, <2>1, <2>2, CallMoves
  <2>4. pinned = {}
    <3>1. \A u \in pinned : u \in Threads /\ PinRef(u)
      BY DEF Held, PinRef
    <3>2. t \notin pinned
      BY <1>0, <1>b, <2>1, <3>1, RefIsCounted DEF Held
    <3>3. \A u \in Threads \ {t} : u \notin pinned
      BY <1>0, <1>b, <2>1, <3>1, RefIsCounted DEF Held
    <3> QED
      BY <3>1, <3>2, <3>3
  <2>5. CallTied(t)' /\ CallRegistered(t)'
    BY <1>0, <1>a, <2>1, <2>3, <2>4 DEF CallTied, CallRegistered
  <2>6. OthersKeep(t) /\ \A u \in Threads \ {t} : CallTied(u) => CallTied(u)'
    BY <2>1, <2>3, <2>4, OthersKept
  <2>7. \/ /\ FileRef(t) /\ ~FileRef(t)' /\ (PinRef(t)' <=> PinRef(t))
        \/ /\ PinRef(t) /\ ~PinRef(t)' /\ (FileRef(t)' <=> FileRef(t))
    BY <1>0, <1>a, <1>b, <2>1, <2>3, <2>4 DEF FileRef, PinRef, Doing, CallTied
  <2>8. RefsCounted'
    BY <1>0, <2>1, <2>6, <2>7, RefsChange DEF RefsCounted, Held
  <2>9. \A u \in Threads \ {t} : CallRegistered(u)'
    BY <2>1, <2>3 DEF Held, CallRegistered, OnlyCall
  <2> QED
    BY <2>1, <2>3, <2>5, <2>6, <2>8, <2>9 DEF Held, OnlyCall
<1>c. ASSUME Top(t).pc \in {"clear", "c_clear", "c_close"}
      PROVE  /\ Top(t).op \in {"close", "pin", "unpin"}
             /\ \A u \in Threads : stack[u] # <<>> =>
                  Top(u).pc \notin {"ensure", "c_register", "pin", "io"}
  BY <1>0, <1>a, <1>c, CloserIsAlone DEF StepOf, InCleanup
<1>3. CASE Clear(t)
  <2>1. /\ Top(t).pc = "clear" /\ Goto(t, "c_clear") /\ regLock = NoOne
        /\ regLock' = t /\ UNCHANGED <<file, pinned, refs, regs, cBufs>>
    BY <1>3 DEF Clear, At, binding, driver
  <2>2. StepOf(Top(t).op, "c_clear")
    BY <1>c, <2>1 DEF StepOf
  <2>3. /\ stack'[t] # <<>> /\ OnlyCall(t)
        /\ Top(t)'.op = Top(t).op /\ Top(t)'.pc = "c_clear"
        /\ Top(t)'.p = Top(t).p /\ Top(t)'.flag = Top(t).flag
    BY <1>0, <2>1, <2>2, CallMoves
  <2>4. CallTied(t)'
    BY <1>0, <1>a, <2>1, <2>3 DEF CallTied
  <2>5. \A u \in Threads : CallRegistered(u)'
    BY <2>1, <2>3, BindingAssumption DEF Held, CallRegistered, OnlyCall
  <2>6. (FileRef(t)' <=> FileRef(t)) /\ (PinRef(t)' <=> PinRef(t))
    BY <1>0, <2>1, <2>3 DEF FileRef, PinRef, Doing
  <2> QED
    BY <2>1, <2>3, <2>4, <2>5, <2>6, RegistryStep DEF OnlyCall, Held
<1>4. CASE BufDeregisterAll(t)
  <2>1. /\ Top(t).pc = "c_clear" /\ Goto(t, "c_close") /\ regLock = t
        /\ regLock' = NoOne /\ regs' = {} /\ UNCHANGED <<file, pinned, refs>>
    BY <1>0, <1>4, <1>a DEF BufDeregisterAll, At, Cleared, CallRegistered
  <2>2. StepOf(Top(t).op, "c_close")
    BY <1>c, <2>1 DEF StepOf
  <2>3. /\ stack'[t] # <<>> /\ OnlyCall(t)
        /\ Top(t)'.op = Top(t).op /\ Top(t)'.pc = "c_close"
        /\ Top(t)'.p = Top(t).p /\ Top(t)'.flag = Top(t).flag
    BY <1>0, <2>1, <2>2, CallMoves
  <2>4. CallTied(t)'
    BY <1>0, <1>a, <2>1, <2>3 DEF CallTied
  <2>5. \A u \in Threads : CallRegistered(u)'
    BY <1>c, <2>1, <2>3, BindingAssumption DEF Held, CallRegistered, OnlyCall
  <2>6. (FileRef(t)' <=> FileRef(t)) /\ (PinRef(t)' <=> PinRef(t))
    BY <1>0, <2>1, <2>3 DEF FileRef, PinRef, Doing
  <2> QED
    BY <2>1, <2>3, <2>4, <2>5, <2>6, RegistryStep DEF OnlyCall
<1>5. CASE DriverClose(t)
  <2>1. /\ Top(t).pc = "c_close" /\ Return(t) /\ regs = {}
        /\ UNCHANGED <<file, pinned, refs, regs, regLock>>
    BY <1>0, <1>5, <1>a DEF DriverClose, At, CallRegistered
  <2>2. stack'[t] = <<>> /\ OnlyCall(t)
    BY <1>0, <2>1, CallEnds
  <2>3. CallTied(t)'
    BY <2>2 DEF CallTied
  <2>4. \A u \in Threads : CallRegistered(u)'
    BY <2>1, <2>2 DEF Held, CallRegistered, OnlyCall
  <2>5. (FileRef(t)' <=> FileRef(t)) /\ (PinRef(t)' <=> PinRef(t))
    BY <1>0, <2>1, <2>2 DEF FileRef, PinRef, Doing
  <2> QED
    BY <2>1, <2>2, <2>3, <2>4, <2>5, RegistryStep DEF OnlyCall
<1> QED
  BY <1>1, <1>2, <1>3, <1>4, <1>5
-----------------------------------------------------------------------------
(* The exit, and the theorems. *)

\* A frame of the exit stays on the stack of the main thread.
LEMMA ExitGoes ==
  ASSUME Good, Exiting, stack[Main] # <<>>, NEW pc, StepOf(Top(Main).op, pc),
         Goto(Main, pc)
  PROVE  Exiting' /\ \A u \in Threads \ {Main} : stack'[u] = stack[u]
<1>0. Main \in Threads
  BY BindingAssumption
<1>1. /\ Top(Main) = stack[Main][1] /\ Top(Main) \in Frames
      /\ stack[Main] \in Seq(Frames)
  BY <1>0, TopKnows DEF Good, Typed
<1>2. PICK f \in Frames :
        /\ f.op = Top(Main).op
        /\ stack' = [stack EXCEPT ![Main] = <<f>> \o Tail(@)]
  BY <1>1, MovedFrame DEF Goto
<1>3. /\ stack' \in [Threads -> Seq(Frames)]
      /\ \A u \in Threads \ {Main} : stack'[u] = stack[u]
      /\ Len(stack'[Main]) = Len(stack[Main])
      /\ stack'[Main][1] = f
      /\ \A i \in 2 .. Len(stack[Main]) : stack'[Main][i] = stack[Main][i]
  BY <1>0, <1>2, GotoEffect DEF Good
<1>4. PICK i \in 1 .. Len(stack[Main]) : stack[Main][i].op = "exit"
  BY <1>1 DEF Exiting
<1>5. stack'[Main][i].op = "exit" /\ i \in DOMAIN stack'[Main]
  <2>1. stack'[Main] \in Seq(Frames)
    BY <1>0, <1>3
  <2> QED
    BY <1>1, <1>2, <1>3, <1>4, <2>1
<1> QED
  BY <1>3, <1>5 DEF Exiting

\* What is joined at the exit stays so.
LEMMA JoinedStep ==
  ASSUME Good, signals = 0, signals' = 0, Exiting, Joined, Next
  PROVE  Exiting' /\ Joined'
<1>0. Main \in Threads /\ stack[Main] \in Seq(Frames)
  BY BindingAssumption DEF Good, Typed
<1>1. PICK k \in 1 .. Len(stack[Main]) : stack[Main][k].op = "exit"
  BY <1>0 DEF Exiting
<1>2. stack[Main] # <<>>
  BY <1>0, <1>1
<1>3. /\ Top(Main) = stack[Main][1] /\ Knows(Main, Top(Main))
      /\ InCleanup(Top(Main)) \/ Len(stack[Main]) = 1
  BY <1>0, <1>2, TopKnows
<1>4. Top(Main).op = "exit"
  <2>1. InCleanup(Top(Main))
    BY <1>1, <1>3 DEF InCleanup
  <2> QED
    BY <1>3, <2>1 DEF Knows, InCleanup
<1>5. ASSUME NEW pc, StepOf("exit", pc), Goto(Main, pc)
      PROVE  Exiting' /\ Joined'
  <2>1. Exiting' /\ \A u \in Threads \ {Main} : stack'[u] = stack[u]
    BY <1>2, <1>4, <1>5, ExitGoes
  <2> QED
    BY <2>1 DEF Joined
<1>6. ASSUME NEW t \in Threads, Call(t) \/ Step(t)
      PROVE  Exiting' /\ Joined'
  <2>1. ~Call(t)
    BY DEF Call, OpenFile, CloseFile, ReadOrWrite, RegisterBuffer,
           DeregisterBuffer, Begin
  <2>2. Step(t)
    BY <1>6, <2>1
  <2>3. stack[t] # <<>>
    BY <2>2 DEF Step, Ensure, DriverOpen, Count, HandleRegister, InCache,
                NotInCache, BufRegister, IoReturns, Drop, BufDeregister, First,
                Pin, Unpin, Release, ReleaseLast, Clear, BufDeregisterAll,
                DriverClose, At
  <2>4. t = Main
    BY <2>3 DEF Joined
  <2>5. Top(t).op = "exit" /\ StepOf("exit", Top(t).pc)
    BY <1>3, <1>4, <2>4 DEF Knows
  <2>6. Clear(t) \/ BufDeregisterAll(t) \/ DriverClose(t)
    BY <2>2, <2>5 DEF Step, Ensure, DriverOpen, Count, HandleRegister, InCache,
                      NotInCache, BufRegister, IoReturns, Drop, BufDeregister,
                      First, Pin, Unpin, Release, ReleaseLast, At, StepOf
  <2>7. \/ Goto(Main, "c_clear") \/ Goto(Main, "c_close")
        \/ Goto(Main, "cleaned")
    BY <2>4, <2>5, <2>6 DEF Clear, BufDeregisterAll, DriverClose, InCleanup
  <2> QED
    BY <1>5, <2>7 DEF StepOf
<1>7. ~Signal
  BY DEF Signal
<1>8. ~Exit
  BY <1>0, <1>2 DEF Exit
<1>9. CASE CleanupStep
  <2>1. StepOf("exit", Top(Main).pc) /\ Chain(Top(Main)) = "exit"
    BY <1>3, <1>4 DEF Knows, Chain
  <2>2. CASE Dies
    BY <2>2 DEF Dies, Exiting, Joined
  <2>3. CASE ~Dies
    <3>1. \/ Goto(Main, Chain(Top(Main))) \/ Goto(Main, "clean")
          \/ Goto(Main, "clear") \/ Goto(Main, "cleaned")
      BY <1>9, <2>1, <2>3 DEF CleanupStep, Cleanup, CleanupLocked, Cleaned,
                              ChainReturns, At, StepOf
    <3> QED
      BY <1>5, <2>1, <3>1 DEF StepOf
  <2> QED
    BY <2>2, <2>3
<1> QED
  BY <1>6, <1>7, <1>8, <1>9 DEF Next

\* Every step keeps HeldInv.
LEMMA HeldStep ==
  ASSUME IsFiniteSet(Threads), FramesInv, HeldInv, [Next]_vars
  PROVE  HeldInv'
<1> SUFFICES ASSUME signals' = 0, ~SharedBuffers
             PROVE  IF Exiting' THEN Joined' ELSE Held'
  BY DEF HeldInv
<1>1. CASE UNCHANGED vars
  <2>1. UNCHANGED <<stack, refs, pinned, file, regs, regLock, cBufs, signals>>
    BY <1>1 DEF vars, binding, driver, bounds
  <2>2. IF Exiting THEN Joined ELSE Held
    BY <2>1 DEF HeldInv
  <2>3. CASE Exiting
    BY <2>1, <2>2, <2>3 DEF Exiting, Joined
  <2>4. CASE ~Exiting
    <3>1. \A t \in Threads : /\ FileRef(t)' <=> FileRef(t)
                             /\ PinRef(t)' <=> PinRef(t)
                             /\ CallTied(t)' <=> CallTied(t)
                             /\ CallRegistered(t)' <=> CallRegistered(t)
      BY <2>1 DEF FileRef, PinRef, CallTied, CallRegistered, Doing, Top
    <3>2. FileRefs' = FileRefs /\ PinRefs' = PinRefs
      BY <3>1 DEF FileRefs, PinRefs
    <3>3. ~Exiting'
      BY <2>1, <2>4 DEF Exiting
    <3> QED
      BY <2>1, <2>2, <2>4, <3>1, <3>2, <3>3 DEF Held, RefsCounted
  <2> QED
    BY <2>3, <2>4
<1>2. CASE Next
  <2>1. UNCHANGED signals /\ ~Signal
    <3>1. UNCHANGED signals \/ Signal
      BY <1>2 DEF Next, Exit, CleanupStep, Cleanup, CleanupLocked, Cleaned,
           ChainReturns, Dies, Call, OpenFile, CloseFile, ReadOrWrite,
           RegisterBuffer, DeregisterBuffer, Begin, Step, Ensure, DriverOpen,
           Count, HandleRegister, InCache, NotInCache, BufRegister, IoReturns,
           Drop, BufDeregister, First, Pin, Unpin, Release, ReleaseLast, Clear,
           BufDeregisterAll, DriverClose, bounds
    <3>2. ~Signal
      BY DEF Signal, FramesInv
    <3> QED
      BY <3>1, <3>2
  <2>2. signals = 0 /\ Good
    BY <2>1 DEF FramesInv, Calm
  <2>3. CASE Exiting
    <3>1. Joined
      BY <2>2, <2>3 DEF HeldInv
    <3> QED
      BY <1>2, <2>2, <2>3, <3>1, JoinedStep
  <2>4. CASE ~Exiting
    <3>1. Working /\ Held
      BY <2>2, <2>4 DEF HeldInv, Working
    <3>2. ASSUME NEW t \in Threads, Call(t) PROVE Held' /\ ~Exiting'
      BY <3>1, <3>2, HeldCalls
    <3>3. ASSUME NEW t \in Threads, Step(t) PROVE Held' /\ ~Exiting'
      BY <3>1, <3>3, HeldRegister, HeldPin, HeldEnsure, HeldRelease DEF Step
    <3>4. CASE Exit
      <4>1. Joined'
        BY <3>4 DEF Exit, Joined, Good, Typed
      <4>2. Exiting'
        <5>1. stack'[Main] = <<Frame("exit", "cleanup", Main)>>
          BY <2>2, <3>4, BindingAssumption DEF Exit, Good, Typed
        <5>2. 1 \in DOMAIN stack'[Main] /\ stack'[Main][1].op = "exit"
          BY <5>1 DEF Frame
        <5> QED
          BY <5>2 DEF Exiting
      <4> QED
        BY <4>1, <4>2
    <3>5. ~CleanupStep
      <4>1. SUFFICES ASSUME CleanupStep PROVE FALSE
        OBVIOUS
      <4>2. /\ Main \in Threads /\ stack[Main] # <<>>
            /\ Top(Main).pc \in {"cleanup", "clean", "cleaned", "chain", "exit"}
        BY <4>1, BindingAssumption
           DEF CleanupStep, Cleanup, CleanupLocked, Cleaned, ChainReturns, Dies, At
      <4>3. ~InCleanup(Top(Main)) /\ StepOf(Top(Main).op, Top(Main).pc)
        BY <3>1, <4>2, OneCall DEF Knows
      <4> QED
        BY <4>2, <4>3 DEF StepOf, InCleanup
    <3> QED
      BY <1>2, <2>1, <3>2, <3>3, <3>4, <3>5 DEF Next
  <2> QED
    BY <2>3, <2>4
<1> QED
  BY <1>1, <1>2

\* HeldInv at the start.
LEMMA HeldInit == ASSUME IsFiniteSet(Threads), Init PROVE HeldInv
<1>1. /\ stack = [t \in Threads |-> <<>>] /\ refs = 0 /\ pinned = {}
      /\ regs = {} /\ file = [t \in Threads |-> FALSE]
  BY DEF Init
<1>2. \A t \in Threads : /\ stack[t] = <<>> /\ file[t] = FALSE
                         /\ ~FileRef(t) /\ ~PinRef(t)
  BY <1>1 DEF FileRef, PinRef, Doing
<1>3. FileRefs = {} /\ PinRefs = {}
  BY <1>2 DEF FileRefs, PinRefs
<1>4. Cardinality(FileRefs) = 0 /\ Cardinality(PinRefs) = 0
  BY <1>3, FS_EmptySet
<1>5. RefsCounted
  BY <1>1, <1>4 DEF RefsCounted
<1>6. ~Exiting
  BY <1>2, BindingAssumption DEF Exiting
<1>7. \A t \in Threads : CallTied(t) /\ CallRegistered(t)
  BY <1>2 DEF CallTied, CallRegistered
<1> QED
  BY <1>1, <1>5, <1>6, <1>7 DEF HeldInv, Held

\* HeldInv is an invariant of the binding.
THEOREM HeldAlways ==
  ASSUME IsFiniteSet(Threads)
  PROVE  Spec => []HeldInv
<1>1. Init => HeldInv
  BY HeldInit
<1>2. FramesInv /\ HeldInv /\ [Next]_vars => HeldInv'
  BY HeldStep
<1> QED
  BY <1>1, <1>2, FramesAlways, PTL DEF Spec

\* Between calls, and until a signal comes, the reference count of the driver
\* is the number of open files plus that of pinned buffers, so that
\* _release_driver closes the driver with the last of them: for threads that
\* keep to their own buffers and when opends_handle_register does not fail
\* (after which OpenDSFile.__init__ keeps the reference it took).
THEOREM RefsAreExact ==
  ASSUME IsFiniteSet(Threads), ~SharedBuffers, ~HandleFails
  PROVE  Spec => []RefsExact
<1>1. HeldInv => RefsExact
  <2> SUFFICES ASSUME HeldInv, Quiet, signals = 0
               PROVE  refs = Cardinality({t \in Threads : file[t]})
                               + Cardinality(pinned)
    BY DEF RefsExact
  <2>1. \A t \in Threads : stack[t] = <<>>
    BY DEF Quiet
  <2>2. ~Exiting
    BY <2>1, BindingAssumption DEF Exiting
  <2>3. Held
    BY <2>2 DEF HeldInv
  <2>4. FileRefs = {t \in Threads : file[t]} /\ PinRefs = pinned
    BY <2>1, <2>3 DEF FileRefs, PinRefs, FileRef, PinRef, Doing, Held
  <2> QED
    BY <2>3, <2>4 DEF Held, RefsCounted
<1> QED
  BY <1>1, HeldAlways, PTL

\* I/O of a thread on its own buffers is made on an open driver that has the
\* buffer registered, until a signal comes: no other thread's close,
\* deregister_buffer or failed call takes the driver away under it.
THEOREM IoIsOnDriver ==
  ASSUME IsFiniteSet(Threads), ~SharedBuffers
  PROVE  Spec => []IoHasDriver
<1>1. FramesInv /\ HeldInv => IoHasDriver
  <2> SUFFICES ASSUME FramesInv, HeldInv, signals = 0, NEW t \in Threads,
                      At(t, "io")
               PROVE  cOpen /\ Top(t).p \in cBufs
    BY DEF IoHasDriver
  <2>1. Good /\ stack[t] # <<>> /\ Top(t).pc = "io"
    BY DEF FramesInv, Calm, At
  <2>2. Top(t) = stack[t][1] /\ Top(t).op = "io" /\ Len(stack[t]) = 1
    BY <2>1, TopKnows DEF Knows, StepOf, InCleanup
  <2>3. ~Exiting
    <3>1. stack[t] \in Seq(Frames)
      BY <2>1 DEF Good, Typed
    <3>2. CASE t = Main
      BY <2>2, <3>1, <3>2 DEF Exiting
    <3>3. CASE t # Main
      BY <2>1, <3>3 DEF HeldInv, Joined
    <3> QED
      BY <3>2, <3>3
  <2>4. Working /\ Held
    BY <2>1, <2>3 DEF HeldInv, Working
  <2>5. refs > 0
    BY <2>1, <2>4, UserIsCounted
  <2>6. cOpen
    BY <2>4, <2>5, CountedIsOpen
  <2>7. Top(t).p = t /\ t \in regs /\ regs \subseteq cBufs
    BY <2>1, <2>4 DEF Held, CallTied, CallRegistered
  <2> QED
    BY <2>6, <2>7
<1> QED
  BY <1>1, FramesAlways, HeldAlways, PTL
=============================================================================
