--------------------------- MODULE DataPathProofs ---------------------------
(***************************************************************************)
(* What the reads and writes of DataPath do to the file and to the         *)
(* caller's buffer, for every block size, file, and set of requests.       *)
(***************************************************************************)
EXTENDS DataPath, FiniteSetTheorems, WellFoundedInduction, TLAPS

WritePcs == {"idle", "plain", "alloc", "stat", "head", "tail", "copy",
             "write", "trunc", "out", "ret"}

\* Past Stat, if there is one, and not yet returned.
Planned == {"head", "tail", "copy", "write", "trunc"}

Request(q) == /\ q \in [off : Nat, n : Nat]
              /\ q.off + q.n <= NBlocks * Align

\* The whole blocks a write reads and writes; those of its bytes that are not
\* the caller's.
Blocked(q) == Start(q) .. Start(q) + Span(q) - 1
Edges(q)   == Blocked(q) \ Covers(q)

\* The blocks of two writes lie apart.
Asunder(q, r) == \/ Start(q) + Span(q) <= Start(r)
                 \/ Start(r) + Span(r) <= Start(q)

Mine(o, p) == <<o, p - wq[o].off>>

FileTyped ==
  /\ size \in Nat /\ wantSize \in Nat /\ failed \in BOOLEAN
  /\ wpc \in [Writes -> WritePcs]
  /\ DOMAIN wq = Writes /\ \A o \in Writes : Request(wq[o])
  /\ DOMAIN bounce = Writes /\ done \in [Writes -> Nat]
  /\ trunc \in [Writes -> Int] /\ wret \in [Writes -> Int]

\* Writes in progress at the same time do not meet and do not make the file
\* longer.
ApartInv ==
  \A o, u \in Writes : o # u /\ InFlight(o) /\ InFlight(u) =>
    /\ wq[o].off + wq[o].n <= wantSize
    /\ wq[o].n > 0 /\ wq[u].n > 0 => Asunder(wq[o], wq[u])

\* What the places in opends_direct_pwrite imply.
PlaceInv(o) ==
  /\ wpc[o] \in Planned \cup {"stat"} => wq[o].n > 0
  /\ wpc[o] = "stat" => TailBytes(wq[o]) > 0
  /\ wpc[o] = "head" => HeadBytes(wq[o]) > 0
  /\ wpc[o] = "tail" => NeedsTail(wq[o])
  /\ wpc[o] \in {"idle", "alloc", "stat"} => trunc[o] = -1
  /\ wpc[o] \in {"idle", "alloc", "stat", "head", "tail", "copy"} =>
       done[o] = 0
  /\ wpc[o] = "write" => done[o] < Span(wq[o])
  /\ wpc[o] = "trunc" => trunc[o] >= 0
  /\ wpc[o] = "out" => wret[o] <= wq[o].n

\* Byte p of the bounce buffer is the one the file should keep.
Keeps(o, p) == p \in spoiled \/ bounce[o][p - Start(wq[o])] = want[p]

\* The bounce buffer: the edges are read before they are written back.
BounceInv(o) ==
  /\ wpc[o] = "tail" /\ HeadBytes(wq[o]) > 0 =>
       \A p \in Edges(wq[o]) : p < Start(wq[o]) + Align => Keeps(o, p)
  /\ wpc[o] \in {"copy", "write"} => \A p \in Edges(wq[o]) : Keeps(o, p)
  /\ wpc[o] = "write" =>
       \A p \in Covers(wq[o]) : bounce[o][p - Start(wq[o])] = Mine(o, p)

\* The bytes of write o that are in the file by now.
Written(o) ==
  CASE wpc[o] = "write" -> {p \in Covers(wq[o]) : p < Start(wq[o]) + done[o]}
    [] wpc[o] = "trunc" -> Covers(wq[o])
    [] wpc[o] = "out"   -> wq[o].off .. wq[o].off + wret[o] - 1
    [] OTHER            -> {}

PutInv(o) == \A p \in Written(o) : data[p] = Mine(o, p)

\* The end the file is cut to, and the end of what was written.
EndInv(o) ==
  /\ wpc[o] \in Planned /\ trunc[o] >= 0 =>
       trunc[o] >= wantSize /\ trunc[o] >= wq[o].off + wq[o].n
  /\ wpc[o] = "out" /\ wret[o] > 0 => wq[o].off + wret[o] <= size

WriteInv(o) == PlaceInv(o) /\ BounceInv(o) /\ PutInv(o) /\ EndInv(o)

\* Where write o may have changed the file and the application does not know.
Touched(o) ==
  CASE wpc[o] \in {"write", "trunc"}      -> Covers(wq[o])
    [] wpc[o] = "out" /\ wret[o] < 0  -> Covers(wq[o])
    [] wpc[o] = "out" /\ wret[o] >= 0 -> wq[o].off .. wq[o].off + wret[o] - 1
    [] OTHER                          -> {}

\* The file, past its end too.
ExactInv ==
  /\ wantSize <= size
  /\ \A p \in Positions : p >= wantSize => want[p] = Zero
  /\ \A p \in Positions : \/ p \in spoiled
                          \/ \E o \in Writes : p \in Touched(o)
                          \/ data[p] = want[p]

NoneFailed == ~failed /\ \A o \in Writes : wpc[o] = "out" => wret[o] >= 0

\* TruncTo, had the size been that of the successful writes.
Cut(q) == LET end == IF wantSize < q.off + q.n THEN q.off + q.n ELSE wantSize
          IN  IF Start(q) + Span(q) > end THEN end ELSE -1

\* The file is longer than it should be on account of write o.
Stretches(o) ==
  \/ wpc[o] \in {"write", "trunc"} /\ size <= Start(wq[o]) + Span(wq[o])
  \/ wpc[o] = "out" /\ wret[o] > 0 /\ size = wq[o].off + wret[o]

LengthInv ==
  NoneFailed => /\ \A o \in Writes : wpc[o] \in Planned => trunc[o] = Cut(wq[o])
                /\ size <= wantSize \/ \E o \in Writes : Stretches(o)

FileInv == /\ FileTyped /\ ApartInv /\ (\A o \in Writes : WriteInv(o))
           /\ ExactInv /\ LengthInv
-----------------------------------------------------------------------------
(***************************************************************************)
(* Blocks.  Multiples of the block size are what the arithmetic is about.  *)
(***************************************************************************)

\* Quotient and remainder by the block size.
LEMMA DivMod ==
  ASSUME NEW a \in Nat, NEW b \in Nat \ {0}
  PROVE  /\ a \div b \in Nat /\ a % b \in 0 .. b - 1
         /\ a = (a \div b) * b + (a % b)
  OBVIOUS

\* A multiple below another is at least one block below it.
LEMMA NextMultiple ==
  ASSUME NEW i \in Int, NEW j \in Int, NEW b \in Nat \ {0}, i * b < j * b
  PROVE  i < j /\ i * b + b <= j * b
<1>1. i < j
  <2>1. SUFFICES ASSUME j <= i PROVE FALSE
    OBVIOUS
  <2>2. PICK k \in Nat : i = j + k
    BY <2>1
  <2>3. i * b = j * b + k * b /\ k * b >= 0
    BY <2>2
  <2> QED
    BY <2>3
<1>2. PICK k \in Nat : j = i + 1 + k
  BY <1>1
<1>3. j * b = i * b + b + k * b /\ k * b >= 0
  BY <1>2
<1> QED
  BY <1>1, <1>3

\* Start and Span are multiples of the block size.
LEMMA Multiples ==
  ASSUME NEW q, Request(q)
  PROVE  \E i, j \in Nat : Start(q) = i * Align /\ Span(q) = j * Align
<1> DEFINE a == q.off \div Align
           h == q.off % Align
           m == h + q.n + Align - 1
           c == m \div Align
<1>0. q.off \in Nat /\ q.n \in Nat /\ Align \in Nat \ {0}
  BY StoreAssumption DEF Request
<1>1. a \in Nat /\ h \in 0 .. Align - 1 /\ q.off = a * Align + h
  BY <1>0, DivMod
<1>2. m \in Nat
  BY <1>0, <1>1
<1>3. c \in Nat
  BY <1>0, <1>2, DivMod
<1>4. Start(q) = a * Align
  <2>1. a * Align \in Nat
    BY <1>0, <1>1
  <2> QED
    BY <1>0, <1>1, <2>1 DEF Start, HeadBytes
<1>5. Span(q) = c * Align
  BY DEF Span, HeadBytes
<1> QED
  BY <1>1, <1>3, <1>4, <1>5

\* The aligned range around a request: it holds the request, with less than a
\* block before and less than a block after it, and lies in the file's blocks.
LEMMA Geometry ==
  ASSUME NEW q, Request(q)
  PROVE  /\ q.off \in Nat /\ q.n \in Nat
         /\ Start(q) \in Nat /\ Span(q) \in Nat
         /\ HeadBytes(q) = q.off - Start(q) /\ HeadBytes(q) \in 0 .. Align - 1
         /\ q.off + q.n <= Start(q) + Span(q)
         /\ Start(q) + Span(q) < q.off + q.n + Align
         /\ Start(q) + Span(q) <= NBlocks * Align
         /\ TailBytes(q) = Start(q) + Span(q) - (q.off + q.n)
         /\ q.n > 0 => Span(q) >= Align
         /\ LastBlock(q) = Span(q) - Align
         /\ LastBlock(q) > 0 => LastBlock(q) >= Align
<1> DEFINE h == q.off % Align
           m == h + q.n + Align - 1
           c == m \div Align
<1>0. /\ q.off \in Nat /\ q.n \in Nat /\ Align \in Nat \ {0} /\ NBlocks \in Nat
      /\ q.off + q.n <= NBlocks * Align
  BY StoreAssumption DEF Request
<1>1. q.off \div Align \in Nat /\ h \in 0 .. Align - 1
      /\ q.off = (q.off \div Align) * Align + h
  BY <1>0, DivMod
<1>2. m \in Nat
  BY <1>0, <1>1
<1>3. c \in Nat /\ m = c * Align + (m % Align) /\ m % Align \in 0 .. Align - 1
  BY <1>0, <1>2, DivMod
<1>4. PICK i \in Nat, j \in Nat : Start(q) = i * Align /\ Span(q) = j * Align
  BY Multiples
<1>5. i * Align \in Nat /\ j * Align \in Nat
  BY <1>0
<1>6. Span(q) = c * Align /\ HeadBytes(q) = h /\ Start(q) = q.off - h
  BY DEF Span, HeadBytes, Start
<1>m. m = h + q.n + Align - 1
  OBVIOUS
<1> HIDE DEF h, m, c
<1>7. c * Align \in Nat /\ (i + j) * Align = i * Align + j * Align
  BY <1>0, <1>3
<1>8. Span(q) <= h + q.n + Align - 1 /\ Span(q) > h + q.n - 1
  BY <1>0, <1>1, <1>3, <1>6, <1>7, <1>m
<1>9. q.off + q.n <= Start(q) + Span(q) /\ Start(q) + Span(q) < q.off + q.n + Align
  BY <1>0, <1>1, <1>4, <1>5, <1>6, <1>8
<1>10. Start(q) + Span(q) <= NBlocks * Align
  <2>0. NBlocks * Align \in Nat /\ (NBlocks + 1) * Align = NBlocks * Align + Align
    BY <1>0
  <2>1. (i + j) * Align < (NBlocks + 1) * Align
    BY <1>0, <1>4, <1>5, <1>7, <1>9, <2>0
  <2>2. (i + j) * Align + Align <= (NBlocks + 1) * Align
    BY <1>0, <2>1, NextMultiple, i + j \in Int, NBlocks + 1 \in Int
  <2> QED
    BY <1>0, <1>4, <1>5, <1>7, <2>0, <2>2
<1>11. q.n > 0 => Span(q) >= Align
  <2>1. SUFFICES ASSUME q.n > 0 PROVE Span(q) >= Align
    OBVIOUS
  <2>2. 0 * Align = 0
    BY <1>0
  <2>3. 0 * Align < j * Align
    BY <1>0, <1>1, <1>4, <1>5, <1>8, <2>1, <2>2
  <2>4. 0 * Align + Align <= j * Align
    BY <1>0, <2>3, NextMultiple
  <2> QED
    BY <1>0, <1>4, <1>5, <2>2, <2>4
<1>12. LastBlock(q) = Span(q) - Align
  BY DEF LastBlock
<1>13. LastBlock(q) > 0 => LastBlock(q) >= Align
  <2>1. SUFFICES ASSUME LastBlock(q) > 0 PROVE LastBlock(q) >= Align
    OBVIOUS
  <2>2. 1 * Align = Align
    BY <1>0
  <2>3. 1 * Align < j * Align
    BY <1>0, <1>4, <1>5, <1>12, <2>1, <2>2
  <2>4. 1 * Align + Align <= j * Align
    BY <1>0, <2>3, NextMultiple
  <2> QED
    BY <1>0, <1>4, <1>5, <1>12, <2>2, <2>4
<1>14. TailBytes(q) = Start(q) + Span(q) - (q.off + q.n)
  BY <1>0, <1>1, <1>4, <1>5, <1>6 DEF TailBytes
<1>15. Start(q) \in Nat /\ Span(q) \in Nat
  BY <1>4, <1>5
<1>16. HeadBytes(q) = q.off - Start(q) /\ HeadBytes(q) \in 0 .. Align - 1
  BY <1>0, <1>1, <1>6
<1> QED
  BY <1>0, <1>9, <1>10, <1>11, <1>12, <1>13, <1>14, <1>15, <1>16

\* Requests that share no block have aligned ranges that do not meet.
LEMMA BlocksApart ==
  ASSUME NEW q, Request(q), NEW r, Request(r), q.n > 0, r.n > 0,
         BlocksOf(q.off, q.off + q.n) \cap BlocksOf(r.off, r.off + r.n) = {}
  PROVE  Asunder(q, r)
<1>0. Align \in Nat \ {0} /\ NBlocks \in Nat
  BY StoreAssumption
<1>1. ASSUME NEW s, Request(s), s.n > 0, NEW t, Request(t), t.n > 0,
             Start(s) <= Start(t), Start(t) < Start(s) + Span(s)
      PROVE  BlocksOf(s.off, s.off + s.n) \cap BlocksOf(t.off, t.off + t.n) # {}
  <2>1. PICK i \in Nat, j \in Nat : Start(s) = i * Align /\ Span(s) = j * Align
    BY <1>1, Multiples
  <2>2. PICK b \in Nat, k \in Nat : Start(t) = b * Align /\ Span(t) = k * Align
    BY <1>1, Multiples
  <2>3. /\ s.off \in Nat /\ s.n \in Nat /\ Start(s) \in Nat /\ Span(s) \in Nat
        /\ s.off < Start(s) + Align /\ Start(s) + Span(s) < s.off + s.n + Align
    BY <1>0, <1>1, Geometry
  <2>4. /\ t.off \in Nat /\ t.n \in Nat /\ Start(t) \in Nat /\ Start(t) <= t.off
        /\ t.off < Start(t) + Align /\ t.off + t.n <= NBlocks * Align
    BY <1>0, <1>1, Geometry DEF Request
  <2>5. (b + 1) * Align = b * Align + Align /\ NBlocks * Align \in Nat
        /\ b * Align \in Nat
    BY <1>0, <2>2
  <2>6. (i + j) * Align = Start(s) + Span(s)
    BY <1>0, <2>1
  <2>7. b * Align + Align <= (i + j) * Align
    BY <1>0, <1>1, <2>2, <2>6, NextMultiple, i + j \in Int
  <2>8. b < NBlocks
    <3>1. b * Align < NBlocks * Align
      BY <1>1, <2>2, <2>4, <2>5
    <3> QED
      BY <1>0, <3>1, NextMultiple
  <2>9. b \in Blocks
    BY <1>0, <2>8 DEF Blocks
  <2>10. b * Align < t.off + t.n /\ t.off < (b + 1) * Align
    BY <1>0, <1>1, <2>2, <2>4, <2>5
  <2>11. b * Align < s.off + s.n /\ s.off < (b + 1) * Align
    BY <1>0, <1>1, <2>2, <2>3, <2>5, <2>6, <2>7
  <2> QED
    BY <2>9, <2>10, <2>11 DEF BlocksOf
<1>2. /\ Start(q) \in Nat /\ Span(q) \in Nat /\ Start(r) \in Nat
      /\ Span(r) \in Nat
  BY Geometry
<1>3. SUFFICES ASSUME ~Asunder(q, r) PROVE FALSE
  OBVIOUS
<1>4. CASE Start(q) <= Start(r)
  BY <1>1, <1>2, <1>3, <1>4 DEF Asunder
<1>5. CASE Start(r) <= Start(q)
  BY <1>1, <1>2, <1>3, <1>5 DEF Asunder
<1> QED
  BY <1>2, <1>4, <1>5
-----------------------------------------------------------------------------
(***************************************************************************)
(* What a step of one write leaves to the others.                          *)
(***************************************************************************)
Same(u) == /\ wpc'[u] = wpc[u] /\ wq'[u] = wq[u] /\ bounce'[u] = bounce[u]
           /\ done'[u] = done[u] /\ trunc'[u] = trunc[u] /\ wret'[u] = wret[u]

\* What write u has planned and what it has put into the file are not
\* disturbed.
Spared(u) ==
  /\ wantSize' = wantSize
  /\ \A p \in Covers(wq[u]) : data'[p] = data[p]
  /\ \A p \in Blocked(wq[u]) : /\ want'[p] = want[p]
                               /\ p \in spoiled' <=> p \in spoiled
  /\ wpc[u] = "out" /\ wret[u] > 0 => wq[u].off + wret[u] <= size'

\* A write whose own variables, blocks and bytes are left alone keeps its
\* invariant; only a write in progress that has bytes has any.
LEMMA OtherKept ==
  ASSUME FileTyped, NEW u \in Writes, WriteInv(u), Same(u),
         InFlight(u) /\ wq[u].n > 0 => Spared(u)
  PROVE  WriteInv(u)'
<1> DEFINE q == wq[u]
<1>q. /\ Request(q) /\ q.off \in Nat /\ q.n \in Nat
      /\ wret[u] \in Int /\ wpc[u] \in WritePcs
  BY DEF FileTyped, Request
<1>1. PlaceInv(u)'
  BY DEF WriteInv, PlaceInv, Same
<1>2. CASE ~(InFlight(u) /\ q.n > 0)
  <2>1. wpc[u] \notin Planned
    BY <1>q, <1>2 DEF InFlight, WriteInv, PlaceInv, Planned
  <2>2. wpc[u] # "out" \/ wret[u] <= 0
    BY <1>q, <1>2 DEF InFlight, WriteInv, PlaceInv
  <2>3. BounceInv(u)'
    BY <2>1 DEF BounceInv, Same, Planned
  <2>4. PutInv(u)'
    <3>1. (Written(u))' = {}
      BY <1>q, <2>1, <2>2 DEF Written, Same, Planned
    <3> QED
      BY <3>1 DEF PutInv
  <2>5. EndInv(u)'
    BY <1>q, <2>1, <2>2 DEF EndInv, Same
  <2> QED
    BY <1>1, <2>3, <2>4, <2>5 DEF WriteInv
<1>3. CASE InFlight(u) /\ q.n > 0
  <2>0. Spared(u)
    BY <1>3
  <2>1. BounceInv(u)'
    <3>1. \A p \in Edges(q) : Keeps(u, p) => Keeps(u, p)'
      BY <2>0 DEF Keeps, Spared, Same, Edges
    <3> QED
      BY <2>0, <3>1 DEF BounceInv, WriteInv, Same, Mine
  <2>2. PutInv(u)'
    <3>1. (Written(u))' = Written(u)
      BY DEF Written, Same
    <3>2. Written(u) \subseteq Covers(q)
      BY <1>q DEF Written, Covers, WriteInv, PlaceInv
    <3> QED
      BY <2>0, <3>1, <3>2 DEF PutInv, WriteInv, Spared, Same, Mine
  <2>3. EndInv(u)'
    BY <2>0 DEF EndInv, WriteInv, Spared, Same
  <2> QED
    BY <1>1, <2>1, <2>2, <2>3 DEF WriteInv
<1> QED
  BY <1>2, <1>3

\* No step but a submission brings writes together.
LEMMA StayApart ==
  ASSUME FileTyped, ApartInv, wq' = wq, wantSize' \in Nat, wantSize <= wantSize',
         \A u \in Writes : InFlight(u)' => InFlight(u)
  PROVE  ApartInv'
<1>1. \A u \in Writes : wq[u].off \in Nat /\ wq[u].n \in Nat
  BY DEF FileTyped, Request
<1>2. ASSUME NEW o \in Writes, NEW u \in Writes, o # u, InFlight(o)', InFlight(u)'
      PROVE  /\ wq[o].off + wq[o].n <= wantSize'
             /\ wq[o].n > 0 /\ wq[u].n > 0 => Asunder(wq[o], wq[u])
  <2>1. wq[o].off + wq[o].n <= wantSize
    BY <1>2 DEF ApartInv
  <2>2. wq[o].n > 0 /\ wq[u].n > 0 => Asunder(wq[o], wq[u])
    BY <1>2 DEF ApartInv
  <2> QED
    BY <1>1, <2>1, <2>2 DEF FileTyped
<1> QED
  BY <1>2 DEF ApartInv, Asunder, Start, Span, HeadBytes

\* A step of write o that leaves the file and the history alone.
LEMMA QuietStep ==
  ASSUME FileInv, NEW o \in Writes, InFlight(o), wq' = wq,
         UNCHANGED <<data, size, want, wantSize, spoiled, failed>>,
         FileTyped', WriteInv(o)', Touched(o) \subseteq (Touched(o))',
         \A u \in Writes \ {o} : Same(u),
         NoneFailed' => /\ NoneFailed
                        /\ wpc'[o] \in Planned => trunc'[o] = Cut(wq[o])
                        /\ Stretches(o) => Stretches(o)'
  PROVE  FileInv'
<1>1. ApartInv'
  <2>1. \A u \in Writes : InFlight(u)' => InFlight(u)
    BY DEF InFlight, Same
  <2> QED
    BY <2>1, StayApart DEF FileInv, FileTyped
<1>2. \A u \in Writes : WriteInv(u)'
  <2>1. ASSUME NEW u \in Writes, u # o PROVE WriteInv(u)'
    <3>1. Same(u)
      BY <2>1
    <3>2. InFlight(u) /\ wq[u].n > 0 => Spared(u)
      BY DEF Spared, FileInv, WriteInv, EndInv
    <3> QED
      BY <3>1, <3>2, OtherKept DEF FileInv
  <2> QED
    BY <2>1
<1>3. ExactInv'
  <2>1. ASSUME NEW u \in Writes, u # o PROVE (Touched(u))' = Touched(u)
    BY <2>1 DEF Touched, Same
  <2>2. \A p : (\E u \in Writes : p \in Touched(u)) =>
                 (\E u \in Writes : p \in (Touched(u))')
    BY <2>1
  <2> QED
    BY <2>2 DEF ExactInv, FileInv
<1>4. LengthInv'
  <2>1. SUFFICES ASSUME NoneFailed'
                 PROVE  /\ \A u \in Writes : wpc'[u] \in Planned => trunc'[u] = Cut(wq[u])'
                        /\ size <= wantSize \/ \E u \in Writes : Stretches(u)'
    BY DEF LengthInv
  <2>2. \A u \in Writes : Cut(wq[u])' = Cut(wq[u])
    BY DEF Cut, Start, Span, HeadBytes
  <2>3. ASSUME NEW u \in Writes, wpc'[u] \in Planned
        PROVE  trunc'[u] = Cut(wq[u])'
    BY <2>1, <2>2, <2>3 DEF Same, LengthInv, FileInv
  <2>4. ASSUME NEW u \in Writes, Stretches(u) PROVE Stretches(u)'
    BY <2>1, <2>4 DEF Same, Stretches, Start, Span, HeadBytes
  <2> QED
    BY <2>1, <2>3, <2>4 DEF LengthInv, FileInv
<1> QED
  BY <1>1, <1>2, <1>3, <1>4 DEF FileInv

\* What the invariant says of one request.
LEMMA RequestFacts ==
  ASSUME FileTyped, NEW o \in Writes
  PROVE  /\ Request(wq[o]) /\ Align \in Nat \ {0} /\ NBlocks * Align \in Nat
         /\ wq[o].off \in Nat /\ wq[o].n \in Nat
         /\ Start(wq[o]) \in Nat /\ Span(wq[o]) \in Nat
         /\ HeadBytes(wq[o]) = wq[o].off - Start(wq[o])
         /\ HeadBytes(wq[o]) \in 0 .. Align - 1
         /\ wq[o].off + wq[o].n <= Start(wq[o]) + Span(wq[o])
         /\ Start(wq[o]) + Span(wq[o]) < wq[o].off + wq[o].n + Align
         /\ Start(wq[o]) + Span(wq[o]) <= NBlocks * Align
         /\ TailBytes(wq[o]) = Start(wq[o]) + Span(wq[o]) - (wq[o].off + wq[o].n)
         /\ wq[o].n > 0 => Span(wq[o]) >= Align
         /\ LastBlock(wq[o]) = Span(wq[o]) - Align
         /\ LastBlock(wq[o]) > 0 => LastBlock(wq[o]) >= Align
         /\ done[o] \in Nat /\ trunc[o] \in Int /\ wret[o] \in Int
         /\ wpc[o] \in WritePcs /\ size \in Nat /\ wantSize \in Nat
<1>1. Request(wq[o])
  BY DEF FileTyped
<1>2. Align \in Nat \ {0} /\ NBlocks * Align \in Nat
  BY StoreAssumption
<1>3. /\ done[o] \in Nat /\ trunc[o] \in Int /\ wret[o] \in Int
      /\ wpc[o] \in WritePcs /\ size \in Nat /\ wantSize \in Nat
  BY DEF FileTyped
<1> QED
  BY <1>1, <1>2, <1>3, Geometry

\* While another write makes the file longer than it should be, this one's
\* blocks lie before that write's last block.
LEMMA BeforeTheEnd ==
  ASSUME FileInv, NEW o \in Writes, InFlight(o), wq[o].n > 0,
         NEW u \in Writes, u # o, Stretches(u), size > wantSize
  PROVE  Start(wq[o]) + Span(wq[o]) <= wantSize
<1>1. FileTyped /\ ApartInv /\ WriteInv(u)
  BY DEF FileInv
<1>2. InFlight(u) /\ wq[u].n > 0
  <2>1. InFlight(u)
    BY DEF Stretches, InFlight
  <2> QED
    BY <1>1, <2>1, RequestFacts DEF Stretches, WriteInv, PlaceInv, Planned
<1>3. /\ wq[u].off + wq[u].n <= wantSize /\ wq[o].off + wq[o].n <= wantSize
      /\ Asunder(wq[o], wq[u])
  BY <1>1, <1>2 DEF ApartInv
<1>4. size <= Start(wq[u]) + Span(wq[u])
  BY <1>1, <1>3, RequestFacts DEF Stretches, WriteInv, PlaceInv
<1> HIDE DEF FileInv
<1>5. /\ Start(wq[o]) \in Nat /\ Span(wq[o]) \in Nat /\ wq[o].off \in Nat
      /\ wq[o].n \in Nat /\ Start(wq[o]) <= wq[o].off
  BY <1>1, RequestFacts
<1>6. /\ Start(wq[u]) \in Nat /\ Span(wq[u]) \in Nat /\ wq[u].off \in Nat
      /\ wq[u].n \in Nat /\ Start(wq[u]) <= wq[u].off
      /\ size \in Nat /\ wantSize \in Nat
  BY <1>1, RequestFacts
<1> QED
  BY <1>2, <1>3, <1>4, <1>5, <1>6 DEF Asunder
-----------------------------------------------------------------------------
(***************************************************************************)
(* The steps of opends_direct_pwrite that leave the file alone.            *)
(***************************************************************************)
LEMMA AllocKeeps ==
  ASSUME FileInv, NEW o \in Writes, AllocBounce(o), UNCHANGED fileVars,
         UNCHANGED histVars
  PROVE  FileInv'
<1> DEFINE q == wq[o]
<1>1. /\ FileTyped /\ WriteInv(o) /\ wpc[o] = "alloc"
      /\ UNCHANGED <<data, size, want, wantSize, spoiled, failed>> /\ wq' = wq
  BY DEF FileInv, AllocBounce, fileVars, histVars
<1>2. \A u \in Writes \ {o} : Same(u)
  BY <1>1 DEF AllocBounce, Returns, Forget, Goto, Same, FileTyped
<1>3. FileTyped'
  BY <1>1 DEF AllocBounce, Returns, Forget, Goto, FileTyped, WritePcs
<1>4. Touched(o) \subseteq (Touched(o))'
  BY <1>1 DEF Touched
<1>5. CASE q.n = 0
  <2>1. wpc'[o] = "out" /\ wret'[o] = 0
    BY <1>1, <1>5 DEF AllocBounce, Returns, Forget, Goto, FileTyped
  <2>2. WriteInv(o)'
    <3>1. (Written(o))' = {}
      BY <1>1, <2>1, RequestFacts DEF Written
    <3> QED
      BY <1>1, <1>5, <2>1, <3>1
         DEF WriteInv, PlaceInv, BounceInv, PutInv, EndInv, Planned
  <2>3. NoneFailed' => /\ NoneFailed
                       /\ wpc'[o] \in Planned => trunc'[o] = Cut(wq[o])
                       /\ Stretches(o) => Stretches(o)'
    BY <1>1, <1>2, <2>1 DEF NoneFailed, Same, Planned, Stretches
  <2> QED
    BY <1>1, <1>2, <1>3, <1>4, <2>2, <2>3, QuietStep DEF InFlight
<1>6. CASE q.n # 0
  <2>1. /\ q.n > 0 /\ UNCHANGED <<bounce, done, trunc, wret>>
        /\ wpc'[o] = IF TailBytes(q) > 0 THEN "stat"
                     ELSE IF HeadBytes(q) > 0 THEN "head" ELSE "copy"
    BY <1>1, <1>6, RequestFacts DEF AllocBounce, Goto, FileTyped
  <2>2. trunc[o] = -1 /\ done[o] = 0
    BY <1>1 DEF WriteInv, PlaceInv
  <2>3. wpc'[o] = "copy" => Edges(q) = {}
    BY <1>1, <2>1, RequestFacts DEF Edges, Blocked, Covers
  <2>4. WriteInv(o)'
    <3>1. (Written(o))' = {}
      BY <2>1 DEF Written
    <3>2. (Edges(wq[o]))' = Edges(q)
      BY <1>1 DEF Edges, Blocked, Covers, Start, Span, HeadBytes
    <3>3. PlaceInv(o)'
      BY <1>1, <2>1, <2>2 DEF PlaceInv, Planned, TailBytes, HeadBytes, Span
    <3>4. BounceInv(o)'
      BY <2>1, <2>3, <3>2 DEF BounceInv
    <3>5. EndInv(o)'
      BY <2>1, <2>2 DEF EndInv, Planned
    <3> QED
      BY <3>1, <3>3, <3>4, <3>5 DEF WriteInv, PutInv
  <2>5. wpc'[o] \in Planned => trunc'[o] = Cut(wq[o])
    BY <1>1, <2>1, <2>2, RequestFacts DEF Cut, Planned
  <2>6. NoneFailed' => /\ NoneFailed
                       /\ wpc'[o] \in Planned => trunc'[o] = Cut(wq[o])
                       /\ Stretches(o) => Stretches(o)'
    BY <1>1, <1>2, <2>1, <2>5 DEF NoneFailed, Same, Stretches
  <2> QED
    BY <1>1, <1>2, <1>3, <1>4, <2>4, <2>6, QuietStep DEF InFlight
<1> QED
  BY <1>5, <1>6

\* Stat, which plans the cut.
LEMMA StatKeeps ==
  ASSUME FileInv, NEW o \in Writes, Stat(o), UNCHANGED fileVars,
         UNCHANGED histVars
  PROVE  FileInv'
<1> DEFINE q == wq[o]
<1>1. /\ FileTyped /\ WriteInv(o) /\ wpc[o] = "stat" /\ wantSize <= size
      /\ UNCHANGED <<data, size, want, wantSize, spoiled, failed>> /\ wq' = wq
      /\ UNCHANGED <<bounce, done, wret>>
  BY DEF FileInv, Stat, fileVars, histVars, ExactInv
<1>2. \A u \in Writes \ {o} : Same(u)
  BY <1>1 DEF Stat, Goto, Same, FileTyped
<1>3. /\ wpc'[o] = IF HeadBytes(q) > 0 THEN "head" ELSE "tail"
      /\ trunc'[o] = TruncTo(q)
  BY <1>1 DEF Stat, Goto, FileTyped
<1>4. q.n > 0 /\ TailBytes(q) > 0 /\ done[o] = 0
  BY <1>1 DEF WriteInv, PlaceInv
<1>5. TruncTo(q) \in Int /\ (TruncTo(q) >= 0 =>
        TruncTo(q) >= wantSize /\ TruncTo(q) >= q.off + q.n)
  BY <1>1, RequestFacts DEF TruncTo
<1>6. FileTyped'
  BY <1>1, <1>5 DEF Stat, Goto, FileTyped, WritePcs
<1>7. Touched(o) \subseteq (Touched(o))'
  BY <1>1 DEF Touched
<1>8. WriteInv(o)'
  <2>1. (Written(o))' = {}
    BY <1>3 DEF Written
  <2>2. PlaceInv(o)'
    <3>1. HeadBytes(q) > 0 \/ NeedsTail(q)
      BY <1>1, <1>4, RequestFacts DEF NeedsTail
    <3> QED
      BY <1>1, <1>3, <1>4, <3>1 DEF PlaceInv, NeedsTail, TailBytes, LastBlock,
                                    HeadBytes, Span
  <2>3. BounceInv(o)'
    BY <1>1, <1>3 DEF BounceInv, HeadBytes
  <2>4. EndInv(o)'
    BY <1>1, <1>3, <1>5 DEF EndInv
  <2> QED
    BY <2>1, <2>2, <2>3, <2>4 DEF WriteInv, PutInv
<1>9. ASSUME NoneFailed' PROVE NoneFailed /\ TruncTo(q) = Cut(q)
  <2>1. NoneFailed
    BY <1>1, <1>2, <1>9 DEF NoneFailed, Same
  <2>2. CASE size <= wantSize
    BY <1>1, <2>1, <2>2, RequestFacts DEF TruncTo, Cut
  <2>3. CASE size > wantSize
    <3>1. PICK u \in Writes : Stretches(u)
      BY <1>1, <2>1, <2>3, RequestFacts DEF FileInv, LengthInv
    <3>2. u # o
      BY <1>1, <3>1 DEF Stretches
    <3>3. Start(q) + Span(q) <= wantSize
      BY <1>1, <1>4, <2>3, <3>1, <3>2, BeforeTheEnd DEF InFlight
    <3> QED
      BY <1>1, <2>1, <2>3, <3>3, RequestFacts DEF TruncTo, Cut
  <2> QED
    BY <1>1, <2>1, <2>2, <2>3, RequestFacts
<1>10. NoneFailed' => /\ NoneFailed
                      /\ wpc'[o] \in Planned => trunc'[o] = Cut(wq[o])
                      /\ Stretches(o) => Stretches(o)'
  BY <1>1, <1>3, <1>9 DEF Stretches
<1> QED
  BY <1>1, <1>2, <1>6, <1>7, <1>8, <1>10, QuietStep DEF InFlight

\* Reading a block of the file into the bounce buffer: what is read of the
\* write's edges is what the file should keep, because nobody else is there.
LEMMA BlockRead ==
  ASSUME FileInv, NEW o \in Writes, wq[o].n > 0, InFlight(o), Touched(o) = {},
         NEW k \in Nat, k + Align <= Span(wq[o]),
         ReadBlock(o, k), wq' = wq, UNCHANGED <<want, spoiled>>
  PROVE  \A p \in Edges(wq[o]) :
           \/ p \in Start(wq[o]) + k .. Start(wq[o]) + k + Align - 1
           \/ Keeps(o, p)
           => Keeps(o, p)'
<1> DEFINE q == wq[o]
<1>1. FileTyped /\ ApartInv /\ ExactInv
  BY DEF FileInv
<1>2. /\ Start(q) \in Nat /\ Span(q) \in Nat /\ Align \in Nat \ {0}
      /\ Start(q) + Span(q) <= NBlocks * Align /\ NBlocks * Align \in Nat
  BY <1>1, RequestFacts
<1>3. SUFFICES ASSUME NEW p \in Edges(q),
                      \/ p \in Start(q) + k .. Start(q) + k + Align - 1
                      \/ Keeps(o, p)
               PROVE  Keeps(o, p)'
  OBVIOUS
<1>4. /\ p \in Int /\ Start(q) <= p /\ p < Start(q) + Span(q) /\ p \notin Covers(q)
  BY <1>2 DEF Edges, Blocked
<1>5. p \in Positions /\ p - Start(q) \in Positions
      /\ Start(q) + (p - Start(q)) = p
  BY <1>2, <1>4 DEF Positions
<1>6. bounce'[o][p - Start(q)] =
        IF p - Start(q) \in k .. k + Align - 1 THEN data[p]
                                               ELSE bounce[o][p - Start(q)]
  BY <1>1, <1>5 DEF ReadBlock, FileTyped
<1>7. CASE p - Start(q) \in k .. k + Align - 1
  <2>1. \A u \in Writes : p \notin Touched(u)
    <3>1. SUFFICES ASSUME NEW u \in Writes, u # o, p \in Touched(u) PROVE FALSE
      OBVIOUS
    <3>2. /\ wq[u].off \in Nat /\ wq[u].n \in Nat /\ Start(wq[u]) \in Nat
          /\ Span(wq[u]) \in Nat /\ Start(wq[u]) <= wq[u].off
          /\ wq[u].off + wq[u].n <= Start(wq[u]) + Span(wq[u])
          /\ wret[u] \in Int
      BY <1>1, RequestFacts
    <3>3. wpc[u] = "out" => wret[u] <= wq[u].n
      BY DEF FileInv, WriteInv, PlaceInv
    <3>4. p \in Covers(wq[u]) /\ InFlight(u)
      BY <3>1, <3>2, <3>3 DEF Touched, Covers, InFlight
    <3>5. wq[u].n > 0
      BY <3>2, <3>4 DEF Covers
    <3>6. Asunder(q, wq[u])
      BY <1>1, <3>1, <3>4, <3>5 DEF ApartInv
    <3> QED
      BY <1>2, <1>4, <3>2, <3>4, <3>6 DEF Asunder, Covers
  <2>2. p \in spoiled \/ data[p] = want[p]
    BY <1>1, <1>5, <2>1 DEF ExactInv
  <2> QED
    BY <1>6, <1>7, <2>2 DEF Keeps, Start, HeadBytes
<1>8. CASE p - Start(q) \notin k .. k + Align - 1
  <2>1. Keeps(o, p)
    BY <1>2, <1>3, <1>4, <1>8
  <2> QED
    BY <1>6, <1>8, <2>1 DEF Keeps, Start, HeadBytes
<1> QED
  BY <1>7, <1>8

\* FillHead reads the first block before it is written.
LEMMA HeadKeeps ==
  ASSUME FileInv, NEW o \in Writes, FillHead(o), UNCHANGED fileVars,
         UNCHANGED histVars
  PROVE  FileInv'
<1> DEFINE q == wq[o]
<1>1. /\ FileTyped /\ WriteInv(o) /\ wpc[o] = "head" /\ ReadBlock(o, 0)
      /\ UNCHANGED <<data, size, want, wantSize, spoiled, failed>> /\ wq' = wq
      /\ UNCHANGED <<done, trunc, wret>>
      /\ wpc' = [wpc EXCEPT ![o] = IF NeedsTail(q) THEN "tail" ELSE "copy"]
  BY DEF FileInv, FillHead, fileVars, histVars, Goto
<1>2. \A u \in Writes \ {o} : Same(u)
  BY <1>1 DEF ReadBlock, Same, FileTyped
<1>3. wpc'[o] = IF NeedsTail(q) THEN "tail" ELSE "copy"
  BY <1>1 DEF FileTyped
<1>4. q.n > 0 /\ HeadBytes(q) > 0 /\ done[o] = 0 /\ Touched(o) = {} /\ InFlight(o)
  BY <1>1 DEF WriteInv, PlaceInv, Planned, Touched, InFlight
<1>5. FileTyped'
  BY <1>1 DEF ReadBlock, FileTyped, WritePcs
<1>6. \A p \in Edges(q) : p < Start(q) + Align => Keeps(o, p)'
  <2>1. 0 + Align <= Span(q)
    BY <1>1, <1>4, RequestFacts
  <2>2. \A p \in Edges(q) :
           \/ p \in Start(q) + 0 .. Start(q) + 0 + Align - 1
           \/ Keeps(o, p)
           => Keeps(o, p)'
    BY <1>1, <1>4, <2>1, BlockRead
  <2> QED
    BY <1>1, <2>2, RequestFacts DEF Edges, Blocked
<1>7. (Edges(wq[o]))' = Edges(q)
  BY <1>1 DEF Edges, Blocked, Covers, Start, Span, HeadBytes
<1>8. WriteInv(o)'
  <2>1. (Written(o))' = {}
    BY <1>3 DEF Written
  <2>2. PlaceInv(o)'
    BY <1>1, <1>3, <1>4 DEF PlaceInv, NeedsTail, TailBytes, LastBlock, HeadBytes,
                            Span
  <2>3. BounceInv(o)'
    <3>1. CASE wpc'[o] = "tail"
      BY <1>1, <1>6, <1>7, <3>1 DEF BounceInv, Start, HeadBytes
    <3>2. CASE wpc'[o] = "copy"
      <4>1. TailBytes(q) <= 0 \/ LastBlock(q) <= 0
        BY <1>1, <1>3, <3>2, RequestFacts DEF NeedsTail
      <4>2. \A p \in Edges(q) : p < Start(q) + Align
        BY <1>1, <4>1, RequestFacts DEF Edges, Blocked, Covers
      <4> QED
        BY <1>6, <1>7, <3>2, <4>2 DEF BounceInv
    <3> QED
      BY <1>3, <3>1, <3>2
  <2>4. EndInv(o)'
    BY <1>1, <1>3 DEF EndInv, WriteInv, Planned
  <2> QED
    BY <2>1, <2>2, <2>3, <2>4 DEF WriteInv, PutInv
<1>9. NoneFailed' => /\ NoneFailed
                     /\ wpc'[o] \in Planned => trunc'[o] = Cut(wq[o])
                     /\ Stretches(o) => Stretches(o)'
  <2>1. NoneFailed' => NoneFailed
    BY <1>1, <1>2 DEF NoneFailed, Same
  <2>2. NoneFailed => trunc'[o] = Cut(wq[o])
    BY <1>1 DEF FileInv, LengthInv, Planned
  <2> QED
    BY <1>1, <2>1, <2>2 DEF Stretches
<1> QED
  BY <1>1, <1>2, <1>4, <1>5, <1>8, <1>9, QuietStep

\* FillTail reads the last one.
LEMMA TailKeeps ==
  ASSUME FileInv, NEW o \in Writes, FillTail(o), UNCHANGED fileVars,
         UNCHANGED histVars
  PROVE  FileInv'
<1> DEFINE q == wq[o]
<1>1. /\ FileTyped /\ WriteInv(o) /\ wpc[o] = "tail"
      /\ ReadBlock(o, LastBlock(q))
      /\ UNCHANGED <<data, size, want, wantSize, spoiled, failed>> /\ wq' = wq
      /\ UNCHANGED <<done, trunc, wret>>
      /\ wpc' = [wpc EXCEPT ![o] = "copy"]
  BY DEF FileInv, FillTail, fileVars, histVars, Goto
<1>2. \A u \in Writes \ {o} : Same(u)
  BY <1>1 DEF ReadBlock, Same, FileTyped
<1>3. wpc'[o] = "copy"
  BY <1>1 DEF FileTyped
<1>4. q.n > 0 /\ NeedsTail(q) /\ done[o] = 0 /\ Touched(o) = {} /\ InFlight(o)
  BY <1>1 DEF WriteInv, PlaceInv, Planned, Touched, InFlight
<1>5. FileTyped'
  BY <1>1 DEF ReadBlock, FileTyped, WritePcs
<1>6. \A p \in Edges(q) : Keeps(o, p)'
  <2>1. LastBlock(q) \in Nat /\ LastBlock(q) + Align <= Span(q)
    BY <1>1, <1>4, RequestFacts
  <2>2. \A p \in Edges(q) :
           \/ p \in Start(q) + LastBlock(q) .. Start(q) + LastBlock(q) + Align - 1
           \/ Keeps(o, p)
           => Keeps(o, p)'
    BY <1>1, <1>4, <2>1, BlockRead
  <2>3. ASSUME NEW p \in Edges(q), p < Start(q) + LastBlock(q)
        PROVE  Keeps(o, p)
    <3>1. p \in Int /\ Start(q) <= p /\ p < q.off
      BY <1>1, <2>3, RequestFacts DEF Edges, Blocked, Covers
    <3>2. HeadBytes(q) > 0 /\ p < Start(q) + Align
      BY <1>1, <3>1, RequestFacts
    <3> QED
      BY <1>1, <2>3, <3>2 DEF WriteInv, BounceInv
  <2>4. \A p \in Edges(q) :
           \/ p \in Start(q) + LastBlock(q) .. Start(q) + LastBlock(q) + Align - 1
           \/ p < Start(q) + LastBlock(q)
    BY <1>1, <2>1, RequestFacts DEF Edges, Blocked
  <2> QED
    BY <2>2, <2>3, <2>4
<1>7. (Edges(wq[o]))' = Edges(q)
  BY <1>1 DEF Edges, Blocked, Covers, Start, Span, HeadBytes
<1>8. WriteInv(o)'
  <2>1. (Written(o))' = {}
    BY <1>3 DEF Written
  <2>2. PlaceInv(o)'
    BY <1>1, <1>3, <1>4 DEF PlaceInv
  <2>3. BounceInv(o)'
    BY <1>3, <1>6, <1>7 DEF BounceInv
  <2>4. EndInv(o)'
    BY <1>1, <1>3 DEF EndInv, WriteInv, Planned
  <2> QED
    BY <2>1, <2>2, <2>3, <2>4 DEF WriteInv, PutInv
<1>9. NoneFailed' => /\ NoneFailed
                     /\ wpc'[o] \in Planned => trunc'[o] = Cut(wq[o])
                     /\ Stretches(o) => Stretches(o)'
  <2>1. NoneFailed' => NoneFailed
    BY <1>1, <1>2 DEF NoneFailed, Same
  <2>2. NoneFailed => trunc'[o] = Cut(wq[o])
    BY <1>1 DEF FileInv, LengthInv, Planned
  <2> QED
    BY <1>1, <2>1, <2>2 DEF Stretches
<1> QED
  BY <1>1, <1>2, <1>4, <1>5, <1>8, <1>9, QuietStep

\* The caller's bytes go over the middle of the bounce buffer.
LEMMA CopyKeeps ==
  ASSUME FileInv, NEW o \in Writes, Copy(o), UNCHANGED fileVars,
         UNCHANGED histVars
  PROVE  FileInv'
<1> DEFINE q == wq[o]
<1>1. /\ FileTyped /\ WriteInv(o) /\ wpc[o] = "copy"
      /\ bounce' = [bounce EXCEPT ![o] = Copied(o)]
      /\ UNCHANGED <<data, size, want, wantSize, spoiled, failed>> /\ wq' = wq
      /\ UNCHANGED <<done, trunc, wret>>
      /\ wpc' = [wpc EXCEPT ![o] = "write"]
  BY DEF FileInv, Copy, fileVars, histVars, Goto
<1>2. \A u \in Writes \ {o} : Same(u)
  BY <1>1 DEF Same, FileTyped
<1>3. wpc'[o] = "write"
  BY <1>1 DEF FileTyped
<1>4. q.n > 0 /\ done[o] = 0 /\ Touched(o) = {} /\ InFlight(o)
  BY <1>1 DEF WriteInv, PlaceInv, Planned, Touched, InFlight
<1>5. FileTyped'
  BY <1>1 DEF FileTyped, WritePcs
<1>6. ASSUME NEW p \in Blocked(q)
      PROVE  bounce'[o][p - Start(q)] = IF p \in Covers(q) THEN Mine(o, p)
                                        ELSE bounce[o][p - Start(q)]
  <2>1. /\ p - Start(q) \in Positions /\ p \in Int
        /\ p - Start(q) - HeadBytes(q) = p - q.off
        /\ p - Start(q) \in HeadBytes(q) .. HeadBytes(q) + q.n - 1
             <=> p \in Covers(q)
    BY <1>1, RequestFacts DEF Blocked, Positions, Covers
  <2>2. bounce'[o] = Copied(o)
    BY <1>1 DEF FileTyped
  <2> QED
    BY <2>1, <2>2 DEF Copied, Mine
<1>7. /\ (Edges(wq[o]))' = Edges(q) /\ (Covers(wq[o]))' = Covers(q)
      /\ (Start(wq[o]))' = Start(q) /\ Covers(q) \subseteq Blocked(q)
      /\ Edges(q) \subseteq Blocked(q) /\ Edges(q) \cap Covers(q) = {}
  BY <1>1, RequestFacts DEF Edges, Blocked, Covers, Start, Span, HeadBytes
<1>8. WriteInv(o)'
  <2>1. (Written(o))' = {}
    <3>1. \A p \in Covers(q) : ~(p < Start(q) + done[o])
      BY <1>1, <1>4, RequestFacts DEF Covers
    <3> QED
      BY <1>1, <1>3, <1>7, <3>1 DEF Written
  <2>2. PlaceInv(o)'
    BY <1>1, <1>3, <1>4, RequestFacts DEF PlaceInv, Span, HeadBytes
  <2>3. BounceInv(o)'
    <3>1. \A p \in Edges(q) : Keeps(o, p)
      BY <1>1 DEF WriteInv, BounceInv
    <3>2. \A p \in Edges(q) : Keeps(o, p)'
      BY <1>1, <1>6, <1>7, <3>1 DEF Keeps
    <3>3. \A p \in Covers(q) : bounce'[o][p - Start(q)] = Mine(o, p)'
      BY <1>1, <1>6, <1>7 DEF Mine
    <3> QED
      BY <1>3, <1>7, <3>2, <3>3 DEF BounceInv
  <2>4. EndInv(o)'
    BY <1>1, <1>3 DEF EndInv, WriteInv, Planned
  <2> QED
    BY <2>1, <2>2, <2>3, <2>4 DEF WriteInv, PutInv
<1>9. NoneFailed' => /\ NoneFailed
                     /\ wpc'[o] \in Planned => trunc'[o] = Cut(wq[o])
                     /\ Stretches(o) => Stretches(o)'
  <2>1. NoneFailed' => NoneFailed
    BY <1>1, <1>2 DEF NoneFailed, Same
  <2>2. NoneFailed => trunc'[o] = Cut(wq[o])
    BY <1>1 DEF FileInv, LengthInv, Planned
  <2> QED
    BY <1>1, <2>1, <2>2 DEF Stretches
<1> QED
  BY <1>1, <1>2, <1>4, <1>5, <1>8, <1>9, QuietStep

\* A failed write: what it has written is its own affair from now on.
LEMMA FailureKeeps ==
  ASSUME FileInv, NEW o \in Writes, PwriteFails(o) \/ PlainFails(o),
         UNCHANGED fileVars, UNCHANGED histVars
  PROVE  FileInv'
<1> DEFINE q == wq[o]
<1>1. /\ FileTyped /\ Returns(o, -1) /\ wpc[o] \notin {"idle", "out", "ret"}
      /\ UNCHANGED <<data, size, want, wantSize, spoiled, failed>> /\ wq' = wq
  BY DEF FileInv, PwriteFails, PlainFails, fileVars, histVars
<1>2. \A u \in Writes \ {o} : Same(u)
  BY <1>1 DEF Returns, Forget, Goto, Same, FileTyped
<1>3. wpc'[o] = "out" /\ wret'[o] = -1
  BY <1>1 DEF Returns, Goto, FileTyped
<1>4. FileTyped'
  BY <1>1 DEF Returns, Forget, Goto, FileTyped, WritePcs
<1>5. Touched(o) \subseteq (Touched(o))'
  BY <1>1, <1>3 DEF Touched, Covers
<1>6. WriteInv(o)'
  <2>1. (Written(o))' = {}
    BY <1>1, <1>3, RequestFacts DEF Written
  <2>2. PlaceInv(o)'
    BY <1>1, <1>3, RequestFacts DEF PlaceInv, Planned
  <2> QED
    BY <1>3, <2>1, <2>2 DEF WriteInv, BounceInv, PutInv, EndInv, Planned
<1>7. ~NoneFailed'
  BY <1>3 DEF NoneFailed
<1>8. InFlight(o)
  BY <1>1 DEF InFlight
<1> QED
  BY <1>1, <1>2, <1>4, <1>5, <1>6, <1>7, <1>8, QuietStep
-----------------------------------------------------------------------------
(***************************************************************************)
(* The steps that change the file.                                         *)
(***************************************************************************)

\* A step of write o that changes only bytes of its own blocks, and bytes past
\* the end, and leaves nothing wrong outside the write's range.
LEMMA FileStep ==
  ASSUME FileInv, NEW o \in Writes, InFlight(o), wq' = wq,
         UNCHANGED <<want, wantSize, spoiled, failed>>,
         FileTyped', WriteInv(o)', Touched(o) \subseteq (Touched(o))',
         \A u \in Writes \ {o} : Same(u),
         wantSize <= size',
         \A p \in Positions : \/ data'[p] = data[p]
                              \/ wq[o].n > 0 /\ p \in Blocked(wq[o])
                              \/ p >= wantSize,
         \A p \in Positions : \/ data'[p] = data[p] \/ data'[p] = want[p]
                              \/ p \in spoiled \/ p \in (Touched(o))',
         NoneFailed' =>
           /\ NoneFailed
           /\ wpc'[o] \in Planned => trunc'[o] = Cut(wq[o])
           /\ \/ size' <= wantSize \/ Stretches(o)'
              \/ size' = size /\ \E u \in Writes \ {o} : Stretches(u)
  PROVE  FileInv'
<1> DEFINE q == wq[o]
<1>0. FileTyped /\ ApartInv /\ (\A u \in Writes : WriteInv(u)) /\ ExactInv
  BY DEF FileInv
<1>1. ApartInv'
  <2>1. \A u \in Writes : InFlight(u)' => InFlight(u)
    BY DEF InFlight, Same
  <2> QED
    BY <1>0, <2>1, StayApart DEF FileTyped
<1>2. \A u \in Writes : WriteInv(u)'
  <2>1. ASSUME NEW u \in Writes, u # o PROVE WriteInv(u)'
    <3>1. Same(u)
      BY <2>1
    <3>2. ASSUME InFlight(u), wq[u].n > 0 PROVE Spared(u)
      <4>1. /\ wq[u].off + wq[u].n <= wantSize
            /\ q.n > 0 => Asunder(q, wq[u])
        BY <1>0, <2>1, <3>2 DEF ApartInv
      <4>2. /\ wq[u].off \in Nat /\ wq[u].n \in Nat /\ Start(wq[u]) \in Nat
            /\ Span(wq[u]) \in Nat /\ Start(wq[u]) <= wq[u].off
            /\ wq[u].off + wq[u].n <= Start(wq[u]) + Span(wq[u])
            /\ Start(wq[u]) + Span(wq[u]) <= NBlocks * Align
            /\ NBlocks * Align \in Nat /\ wret[u] \in Int /\ wantSize \in Nat
        BY <1>0, RequestFacts
      <4>3. /\ Start(q) \in Nat /\ Span(q) \in Nat /\ q.n \in Nat
        BY <1>0, RequestFacts
      <4>4. ASSUME NEW p \in Covers(wq[u]) PROVE data'[p] = data[p]
        <5>1. p \in Positions /\ p < wantSize /\ Start(wq[u]) <= p
              /\ p < Start(wq[u]) + Span(wq[u])
          BY <4>1, <4>2 DEF Covers, Positions
        <5>2. ~(q.n > 0 /\ p \in Blocked(q))
          BY <4>1, <4>2, <4>3, <5>1 DEF Asunder, Blocked
        <5> QED
          BY <4>2, <5>1, <5>2 DEF Positions
      <4>5. wpc[u] = "out" => wret[u] <= wq[u].n
        BY <1>0 DEF WriteInv, PlaceInv
      <4>6. wpc[u] = "out" => wq[u].off + wret[u] <= size'
        BY <4>1, <4>2, <4>5 DEF FileTyped
      <4> QED
        BY <4>4, <4>6 DEF Spared
    <3> QED
      BY <1>0, <3>1, <3>2, OtherKept
  <2> QED
    BY <2>1
<1>3. ExactInv'
  <2>1. ASSUME NEW u \in Writes, u # o PROVE (Touched(u))' = Touched(u)
    BY <2>1 DEF Touched, Same
  <2>2. \A p : (\E u \in Writes : p \in Touched(u)) =>
                 (\E u \in Writes : p \in (Touched(u))')
    BY <2>1
  <2>3. ASSUME NEW p \in Positions
        PROVE  \/ p \in spoiled \/ data'[p] = want[p]
               \/ \E u \in Writes : p \in (Touched(u))'
    <3>1. CASE data'[p] = data[p]
      BY <1>0, <2>2, <3>1 DEF ExactInv
    <3>2. CASE data'[p] # data[p]
      BY <3>2
    <3> QED
      BY <3>1, <3>2
  <2> QED
    BY <1>0, <2>3 DEF ExactInv
<1>4. LengthInv'
  <2>1. SUFFICES ASSUME NoneFailed'
                 PROVE  /\ \A u \in Writes : wpc'[u] \in Planned => trunc'[u] = Cut(wq[u])'
                        /\ size' <= wantSize \/ \E u \in Writes : Stretches(u)'
    BY DEF LengthInv
  <2>2. \A u \in Writes : Cut(wq[u])' = Cut(wq[u])
    BY DEF Cut, Start, Span, HeadBytes
  <2>3. ASSUME NEW u \in Writes, wpc'[u] \in Planned
        PROVE  trunc'[u] = Cut(wq[u])'
    BY <2>1, <2>2, <2>3 DEF Same, LengthInv, FileInv
  <2>4. ASSUME NEW u \in Writes, u # o, Stretches(u), size' = size
        PROVE  Stretches(u)'
    BY <2>4 DEF Same, Stretches, Start, Span, HeadBytes
  <2> QED
    BY <2>1, <2>3, <2>4
<1> QED
  BY <1>1, <1>2, <1>3, <1>4 DEF FileInv

\* When the file is longer than it should be on another write's account, what
\* this write asks for ends before that; when on its own, in its last block.
LEMMA Lengths ==
  ASSUME FileInv, NEW o \in Writes, InFlight(o), wq[o].n > 0, NoneFailed,
         wpc[o] # "out"
  PROVE  \/ size <= wantSize
         \/ /\ size <= Start(wq[o]) + Span(wq[o])
            /\ wpc[o] \in {"write", "trunc"}
         \/ /\ Start(wq[o]) + Span(wq[o]) <= wantSize /\ wantSize < size
            /\ \E u \in Writes \ {o} : Stretches(u)
<1>1. SUFFICES ASSUME ~(size <= wantSize)
               PROVE  \/ /\ size <= Start(wq[o]) + Span(wq[o])
                         /\ wpc[o] \in {"write", "trunc"}
                      \/ /\ Start(wq[o]) + Span(wq[o]) <= wantSize
                         /\ wantSize < size
                         /\ \E u \in Writes \ {o} : Stretches(u)
  OBVIOUS
<1>2. wantSize < size
  BY <1>1 DEF FileInv, FileTyped
<1>3. PICK u \in Writes : Stretches(u)
  BY <1>1 DEF FileInv, LengthInv
<1>4. CASE u = o
  BY <1>3, <1>4 DEF Stretches
<1>5. CASE u # o
  BY <1>2, <1>3, <1>5, BeforeTheEnd
<1> QED
  BY <1>4, <1>5

\* A pwrite of some of the blocks, the last one too.
LEMMA WriteSomeKeeps ==
  ASSUME FileInv, NEW o \in Writes, WriteSome(o), UNCHANGED histVars
  PROVE  FileInv'
<1> DEFINE q == wq[o]
           at == Start(q) + done[o]
<1>1. /\ FileTyped /\ WriteInv(o) /\ wpc[o] = "write" /\ ExactInv
      /\ UNCHANGED <<want, wantSize, spoiled, failed>> /\ wq' = wq
  BY DEF FileInv, WriteSome, histVars
<1>2. PICK w \in {k \in 1 .. Span(q) - done[o] : k % Align = 0} :
        /\ Pwrite(at, w, bounce[o], Start(q))
        /\ IF done[o] + w = Span(q) /\ trunc[o] < 0
             THEN Returns(o, q.n)
             ELSE /\ done' = [done EXCEPT ![o] = @ + w]
                  /\ Goto(o, IF done[o] + w < Span(q) THEN "write" ELSE "trunc")
                  /\ UNCHANGED <<bounce, trunc, wret>>
  BY DEF WriteSome
<1>3. /\ q.n > 0 /\ InFlight(o) /\ Touched(o) = Covers(q)
      /\ done[o] < Span(q)
  BY <1>1 DEF WriteInv, PlaceInv, Planned, InFlight, Touched
<1>4. /\ Align \in Nat \ {0} /\ NBlocks * Align \in Nat
      /\ q.off \in Nat /\ q.n \in Nat /\ Start(q) \in Nat /\ Span(q) \in Nat
      /\ Start(q) <= q.off /\ q.off + q.n <= Start(q) + Span(q)
      /\ Start(q) + Span(q) <= NBlocks * Align
      /\ done[o] \in Nat /\ trunc[o] \in Int /\ wret[o] \in Int
      /\ size \in Nat /\ wantSize \in Nat /\ wantSize <= size
  BY <1>1, RequestFacts DEF ExactInv
<1>5. /\ w \in Nat /\ w > 0 /\ done[o] + w <= Span(q) /\ done[o] + w \in Nat
      /\ at \in Nat
  BY <1>2, <1>4
<1>6. /\ size' = IF at + w > size THEN at + w ELSE size
      /\ \A p \in Positions :
           data'[p] = IF p \in at .. at + w - 1 THEN bounce[o][p - Start(q)]
                                                ELSE data[p]
  BY <1>2, <1>5 DEF Pwrite
<1>7. size' \in Nat /\ wantSize <= size' /\ size <= size' /\ at + w <= size'
  BY <1>4, <1>5, <1>6
<1>8. \A u \in Writes \ {o} : Same(u)
  BY <1>1, <1>2 DEF Same, FileTyped, Returns, Forget, Goto
<1>9. FileTyped'
  <2>1. CASE done[o] + w = Span(q) /\ trunc[o] < 0
    <3>1. Returns(o, q.n)
      BY <1>2, <2>1
    <3> QED
      BY <1>1, <1>4, <1>7, <3>1 DEF FileTyped, Returns, Forget, Goto, WritePcs
  <2>2. CASE ~(done[o] + w = Span(q) /\ trunc[o] < 0)
    <3>1. /\ done' = [done EXCEPT ![o] = @ + w]
          /\ wpc' = [wpc EXCEPT ![o] = IF done[o] + w < Span(q) THEN "write"
                                                               ELSE "trunc"]
          /\ UNCHANGED <<bounce, trunc, wret>>
      BY <1>2, <2>2 DEF Goto
    <3> QED
      BY <1>1, <1>5, <1>7, <3>1 DEF FileTyped, WritePcs
  <2> QED
    BY <2>1, <2>2
<1>10. \A p \in Positions : data'[p] = data[p] \/ p \in Blocked(q)
  BY <1>4, <1>5, <1>6 DEF Blocked
<1>11. \A p \in Positions : \/ data'[p] = data[p] \/ data'[p] = want[p]
                            \/ p \in spoiled \/ p \in Covers(q)
  <2>1. SUFFICES ASSUME NEW p \in Positions, p \in at .. at + w - 1,
                        p \notin Covers(q)
                 PROVE  data'[p] = want[p] \/ p \in spoiled
    BY <1>6
  <2>2. p \in Edges(q)
    BY <1>4, <1>5, <2>1 DEF Edges, Blocked
  <2>3. Keeps(o, p)
    BY <1>1, <2>2 DEF WriteInv, BounceInv
  <2> QED
    BY <1>6, <2>1, <2>3 DEF Keeps
<1>12. \A p \in Covers(q) : p < at + w => data'[p] = Mine(o, p)
  <2>1. SUFFICES ASSUME NEW p \in Covers(q), p < at + w
                 PROVE  data'[p] = Mine(o, p)
    OBVIOUS
  <2>2. p \in Positions
    BY <1>4 DEF Covers, Positions
  <2>3. CASE p < at
    <3>1. p \in Written(o)
      BY <1>1, <2>3 DEF Written
    <3> QED
      BY <1>1, <1>4, <1>5, <1>6, <2>2, <2>3, <3>1 DEF WriteInv, PutInv
  <2>4. CASE p >= at
    BY <1>1, <1>4, <1>5, <1>6, <2>1, <2>2, <2>4 DEF WriteInv, BounceInv, Covers
  <2> QED
    BY <1>4, <1>5, <2>2, <2>3, <2>4 DEF Positions
<1>13. /\ (Covers(wq[o]))' = Covers(q) /\ (Edges(wq[o]))' = Edges(q)
       /\ (Start(wq[o]))' = Start(q) /\ (Span(wq[o]))' = Span(q)
       /\ \A p : Mine(o, p)' = Mine(o, p)
  BY <1>1 DEF Edges, Blocked, Covers, Start, Span, HeadBytes, Mine
<1>14. NoneFailed' => NoneFailed
  BY <1>1, <1>8 DEF NoneFailed, Same
<1>15. NoneFailed => trunc[o] = Cut(q)
  BY <1>1 DEF FileInv, LengthInv, Planned
<1>16. NoneFailed => \/ size <= wantSize
                     \/ size <= Start(q) + Span(q)
                     \/ /\ Start(q) + Span(q) <= wantSize /\ wantSize < size
                        /\ \E u \in Writes \ {o} : Stretches(u)
  BY <1>1, <1>3, Lengths
<1>17. CASE done[o] + w = Span(q) /\ trunc[o] < 0
  <2>1. /\ wpc'[o] = "out" /\ wret'[o] = q.n
    BY <1>1, <1>2, <1>17 DEF Returns, Goto, FileTyped
  <2>2. at + w = Start(q) + Span(q)
    BY <1>4, <1>5, <1>17
  <2>3. (Touched(o))' = Covers(q) /\ (Written(o))' = Covers(q)
    BY <1>1, <1>4, <2>1 DEF Touched, Written, Covers
  <2>4. \A p \in Covers(q) : data'[p] = Mine(o, p)
    BY <1>4, <1>12, <2>2 DEF Covers
  <2>5. WriteInv(o)'
    <3>1. PlaceInv(o)'
      BY <1>1, <1>4, <2>1 DEF PlaceInv, Planned
    <3>2. PutInv(o)'
      BY <1>13, <2>3, <2>4 DEF PutInv
    <3>3. EndInv(o)'
      BY <1>1, <1>4, <1>7, <2>1, <2>2 DEF EndInv, Planned
    <3> QED
      BY <2>1, <3>1, <3>2, <3>3 DEF WriteInv, BounceInv
  <2>6. ASSUME NoneFailed
        PROVE  \/ size' <= wantSize \/ Stretches(o)'
               \/ size' = size /\ \E u \in Writes \ {o} : Stretches(u)
    <3>1. Start(q) + Span(q) <= wantSize \/ Start(q) + Span(q) = q.off + q.n
      BY <1>4, <1>15, <1>17, <2>6 DEF Cut
    <3>2. \/ size' = size /\ Start(q) + Span(q) <= size
          \/ size' = Start(q) + Span(q) /\ size < Start(q) + Span(q)
      BY <1>4, <1>5, <1>6, <2>2
    <3>3. CASE Start(q) + Span(q) <= wantSize
      BY <1>4, <1>16, <2>6, <3>2, <3>3
    <3>4. CASE Start(q) + Span(q) = q.off + q.n /\ wantSize < Start(q) + Span(q)
      <4>1. size' = q.off + q.n
        BY <1>4, <1>16, <2>6, <3>2, <3>4
      <4> QED
        BY <1>1, <1>3, <2>1, <4>1 DEF Stretches
    <3> QED
      BY <1>4, <3>1, <3>3, <3>4
  <2>7. NoneFailed' => /\ NoneFailed
                       /\ wpc'[o] \in Planned => trunc'[o] = Cut(wq[o])
                       /\ \/ size' <= wantSize \/ Stretches(o)'
                          \/ size' = size /\ \E u \in Writes \ {o} : Stretches(u)
    BY <1>14, <2>1, <2>6 DEF Planned
  <2> QED
    BY <1>1, <1>3, <1>7, <1>8, <1>9, <1>10, <1>11, <2>3, <2>5, <2>7, FileStep
<1>18. CASE ~(done[o] + w = Span(q) /\ trunc[o] < 0)
  <2>1. /\ wpc'[o] = IF done[o] + w < Span(q) THEN "write" ELSE "trunc"
        /\ done'[o] = done[o] + w /\ UNCHANGED <<bounce, trunc, wret>>
    BY <1>1, <1>2, <1>18 DEF Goto, FileTyped
  <2>2. (Touched(o))' = Covers(q)
    BY <1>1, <2>1 DEF Touched, Covers
  <2>3. \A p \in (Written(o))' : p \in Covers(q) /\ p < at + w
    <3>1. ~(done[o] + w < Span(q)) => at + w = Start(q) + Span(q)
      BY <1>4, <1>5
    <3>2. (Start(wq[o]) + done[o])' = at + w
      BY <1>4, <1>5, <1>13, <2>1
    <3>3. (Written(o))' = IF done[o] + w < Span(q)
                            THEN {p \in Covers(q) : p < at + w} ELSE Covers(q)
      BY <1>13, <2>1, <3>2 DEF Written
    <3>4. \A p \in Covers(q) : p < Start(q) + Span(q)
      BY <1>4 DEF Covers
    <3> QED
      BY <3>1, <3>3, <3>4
  <2>4. WriteInv(o)'
    <3>1. PlaceInv(o)'
      BY <1>1, <1>3, <1>4, <1>5, <1>13, <1>18, <2>1 DEF PlaceInv, Planned
    <3>2. PutInv(o)'
      BY <1>12, <1>13, <2>3 DEF PutInv
    <3>3. EndInv(o)'
      BY <1>1, <2>1 DEF EndInv, Planned, WriteInv
    <3>4. BounceInv(o)'
      <4>1. \A p : Keeps(o, p)' <=> Keeps(o, p)
        BY <1>1, <1>13, <2>1 DEF Keeps
      <4> QED
        BY <1>1, <1>13, <2>1, <4>1 DEF BounceInv, WriteInv
    <3> QED
      BY <3>1, <3>2, <3>3, <3>4 DEF WriteInv
  <2>5. ASSUME NoneFailed
        PROVE  \/ size' <= wantSize \/ Stretches(o)'
               \/ size' = size /\ \E u \in Writes \ {o} : Stretches(u)
    <3>1. at + w <= Start(q) + Span(q)
      BY <1>4, <1>5
    <3>2. \/ size' = size /\ at + w <= size
          \/ size' = at + w /\ size < at + w
      BY <1>4, <1>5, <1>6
    <3>3. CASE size' <= Start(q) + Span(q)
      BY <1>13, <2>1, <3>3 DEF Stretches
    <3>4. CASE ~(size' <= Start(q) + Span(q))
      BY <1>4, <1>16, <2>5, <3>1, <3>2, <3>4
    <3> QED
      BY <3>3, <3>4
  <2>6. NoneFailed' => /\ NoneFailed
                       /\ wpc'[o] \in Planned => trunc'[o] = Cut(wq[o])
                       /\ \/ size' <= wantSize \/ Stretches(o)'
                          \/ size' = size /\ \E u \in Writes \ {o} : Stretches(u)
    BY <1>14, <1>15, <2>1, <2>5 DEF Planned
  <2> QED
    BY <1>1, <1>3, <1>7, <1>8, <1>9, <1>10, <1>11, <2>2, <2>4, <2>6, FileStep
<1> QED
  BY <1>17, <1>18

\* The padding is cut off.
LEMMA TruncateKeeps ==
  ASSUME FileInv, NEW o \in Writes, Truncate(o), UNCHANGED histVars
  PROVE  FileInv'
<1> DEFINE q == wq[o]
<1>1. /\ FileTyped /\ WriteInv(o) /\ wpc[o] = "trunc" /\ ExactInv
      /\ UNCHANGED <<want, wantSize, spoiled, failed>> /\ wq' = wq
      /\ Ftruncate(trunc[o]) /\ Returns(o, q.n)
  BY DEF FileInv, Truncate, histVars
<1>2. /\ q.n > 0 /\ InFlight(o) /\ Touched(o) = Covers(q)
      /\ Written(o) = Covers(q) /\ trunc[o] >= 0
      /\ trunc[o] >= wantSize /\ trunc[o] >= q.off + q.n
  BY <1>1 DEF WriteInv, PlaceInv, EndInv, Planned, InFlight, Touched, Written
<1>3. /\ q.off \in Nat /\ q.n \in Nat /\ Start(q) \in Nat /\ Span(q) \in Nat
      /\ trunc[o] \in Int /\ wret[o] \in Int
      /\ NBlocks * Align \in Nat /\ q.off + q.n <= NBlocks * Align
      /\ size \in Nat /\ wantSize \in Nat /\ wantSize <= size
  BY <1>1, RequestFacts DEF ExactInv, Request
<1>4. /\ size' = trunc[o]
      /\ \A p \in Positions :
           data'[p] = IF p < trunc[o] THEN data[p] ELSE Zero
  BY <1>1 DEF Ftruncate
<1>5. \A u \in Writes \ {o} : Same(u)
  BY <1>1 DEF Same, FileTyped, Returns, Forget, Goto
<1>6. FileTyped'
  BY <1>1, <1>2, <1>3, <1>4 DEF FileTyped, Returns, Forget, Goto, WritePcs
<1>7. wpc'[o] = "out" /\ wret'[o] = q.n
  BY <1>1 DEF Returns, Goto, FileTyped
<1>8. (Touched(o))' = Covers(q) /\ (Written(o))' = Covers(q)
  BY <1>1, <1>3, <1>7 DEF Touched, Written, Covers
<1>9. \A p \in Positions : \/ data'[p] = data[p]
                           \/ p >= wantSize /\ data'[p] = Zero
  BY <1>2, <1>3, <1>4 DEF Positions
<1>10. \A p \in Positions : data'[p] = data[p] \/ data'[p] = want[p]
  BY <1>1, <1>9 DEF ExactInv
<1>11. WriteInv(o)'
  <2>1. PlaceInv(o)'
    BY <1>1, <1>3, <1>7 DEF PlaceInv, Planned
  <2>2. PutInv(o)'
    <3>1. \A p \in Covers(q) : p \in Positions /\ p < trunc[o]
      <4>1. \A p \in Covers(q) : p \in Positions
        BY <1>3 DEF Covers, Positions
      <4>2. \A p \in Covers(q) : p < trunc[o]
        BY <1>2, <1>3 DEF Covers
      <4> QED
        BY <4>1, <4>2
    <3>2. \A p : Mine(o, p)' = Mine(o, p)
      BY <1>1 DEF Mine
    <3>3. \A p \in Covers(q) : data[p] = Mine(o, p)
      BY <1>1, <1>2 DEF WriteInv, PutInv
    <3> QED
      BY <1>4, <1>8, <3>1, <3>2, <3>3 DEF PutInv
  <2>3. EndInv(o)'
    BY <1>1, <1>2, <1>3, <1>4, <1>7 DEF EndInv, Planned
  <2> QED
    BY <1>7, <2>1, <2>2, <2>3 DEF WriteInv, BounceInv
<1>12. ASSUME NoneFailed' PROVE NoneFailed /\ (size' <= wantSize \/ Stretches(o)')
  <2>1. NoneFailed
    BY <1>1, <1>5, <1>12 DEF NoneFailed, Same
  <2>2. trunc[o] = Cut(q)
    BY <1>1, <2>1 DEF FileInv, LengthInv, Planned
  <2>3. trunc[o] <= wantSize \/ trunc[o] = q.off + q.n
    BY <1>2, <1>3, <2>2 DEF Cut
  <2> QED
    BY <1>1, <1>2, <1>4, <1>7, <2>1, <2>3 DEF Stretches
<1>13. NoneFailed' => /\ NoneFailed
                      /\ wpc'[o] \in Planned => trunc'[o] = Cut(wq[o])
                      /\ \/ size' <= wantSize \/ Stretches(o)'
                         \/ size' = size /\ \E u \in Writes \ {o} : Stretches(u)
  BY <1>7, <1>12 DEF Planned
<1>14. wantSize <= size'
  BY <1>2, <1>3, <1>4
<1> QED
  BY <1>1, <1>2, <1>5, <1>6, <1>8, <1>9, <1>10, <1>11, <1>13, <1>14, FileStep

\* ref_async_submit's pwrite, which may be short: the bytes it did not write
\* are as they were.
LEMMA PlainKeeps ==
  ASSUME FileInv, NEW o \in Writes, PlainWrite(o)
  PROVE  FileInv'
<1> DEFINE q == wq[o]
<1>1. /\ FileTyped /\ WriteInv(o) /\ wpc[o] = "plain" /\ ExactInv
      /\ UNCHANGED <<want, wantSize, spoiled, failed>> /\ wq' = wq
  BY DEF FileInv, PlainWrite, histVars
<1>2. PICK w \in {k \in 0 .. q.n : k % Align = 0} :
        /\ Pwrite(q.off, w, [k \in Positions |-> <<o, k>>], q.off)
        /\ Returns(o, w)
  BY DEF PlainWrite
<1>3. /\ InFlight(o) /\ Touched(o) = {}
  BY <1>1 DEF InFlight, Touched
<1>4. /\ NBlocks * Align \in Nat
      /\ q.off \in Nat /\ q.n \in Nat /\ Start(q) \in Nat /\ Span(q) \in Nat
      /\ Start(q) <= q.off /\ q.off + q.n <= Start(q) + Span(q)
      /\ q.off + q.n <= NBlocks * Align
      /\ size \in Nat /\ wantSize \in Nat /\ wantSize <= size
  BY <1>1, RequestFacts DEF ExactInv, Request
<1>5. w \in Nat /\ w <= q.n
  BY <1>2, <1>4
<1>6. \A p \in q.off .. q.off + w - 1 :
        p \in Covers(q) /\ p \in Positions /\ p - q.off \in Positions
  BY <1>4, <1>5 DEF Covers, Positions
<1>7. /\ size' = IF w > 0 /\ q.off + w > size THEN q.off + w ELSE size
      /\ \A p \in Positions :
           data'[p] = IF p \in q.off .. q.off + w - 1 THEN Mine(o, p) ELSE data[p]
  BY <1>2, <1>6 DEF Pwrite, Mine
<1>8. size' \in Nat /\ wantSize <= size' /\ (w > 0 => q.off + w <= size')
  BY <1>4, <1>5, <1>7
<1>9. \A u \in Writes \ {o} : Same(u)
  BY <1>1, <1>2 DEF Same, FileTyped, Returns, Forget, Goto
<1>10. FileTyped'
  BY <1>1, <1>2, <1>5, <1>8 DEF FileTyped, Returns, Forget, Goto, WritePcs
<1>11. wpc'[o] = "out" /\ wret'[o] = w
  BY <1>1, <1>2 DEF Returns, Goto, FileTyped
<1>12. /\ (Touched(o))' = q.off .. q.off + w - 1
       /\ (Written(o))' = q.off .. q.off + w - 1
  BY <1>1, <1>5, <1>11 DEF Touched, Written
<1>13. WriteInv(o)'
  <2>1. PlaceInv(o)'
    BY <1>1, <1>4, <1>5, <1>11 DEF PlaceInv, Planned
  <2>2. PutInv(o)'
    <3>1. \A p : Mine(o, p)' = Mine(o, p)
      BY <1>1 DEF Mine
    <3> QED
      BY <1>6, <1>7, <1>12, <3>1 DEF PutInv
  <2>3. EndInv(o)'
    BY <1>1, <1>8, <1>11 DEF EndInv, Planned
  <2> QED
    BY <1>11, <2>1, <2>2, <2>3 DEF WriteInv, BounceInv
<1>14. \A p \in Positions : \/ data'[p] = data[p]
                            \/ /\ p \in (Touched(o))' /\ q.n > 0
                               /\ p \in Blocked(q)
  <2>1. \A p \in q.off .. q.off + w - 1 : q.n > 0 /\ p \in Blocked(q)
    BY <1>4, <1>5 DEF Blocked
  <2> QED
    BY <1>7, <1>12, <2>1
<1>15. ASSUME NoneFailed'
       PROVE  /\ NoneFailed
              /\ \/ size' <= wantSize \/ Stretches(o)'
                 \/ size' = size /\ \E u \in Writes \ {o} : Stretches(u)
  <2>1. NoneFailed
    BY <1>1, <1>9, <1>15 DEF NoneFailed, Same
  <2>2. CASE w = 0
    <3>1. size' = size
      BY <1>7, <2>2
    <3>2. size <= wantSize \/ \E u \in Writes : Stretches(u)
      BY <2>1 DEF FileInv, LengthInv
    <3> QED
      BY <1>1, <2>1, <3>1, <3>2 DEF Stretches
  <2>3. CASE w # 0
    <3>1. w > 0 /\ q.n > 0
      BY <1>4, <1>5, <2>3
    <3>2. \/ size <= wantSize
          \/ /\ Start(q) + Span(q) <= wantSize /\ wantSize < size
             /\ \E u \in Writes \ {o} : Stretches(u)
      BY <1>1, <1>3, <2>1, <3>1, Lengths
    <3>3. CASE q.off + w > size
      <4>1. Stretches(o)'
        BY <1>1, <1>7, <1>11, <3>1, <3>3 DEF Stretches
      <4> QED
        BY <2>1, <4>1
    <3>4. CASE ~(q.off + w > size)
      BY <1>7, <2>1, <3>2, <3>4
    <3> QED
      BY <3>3, <3>4
  <2> QED
    BY <2>2, <2>3
<1>16. NoneFailed' => /\ NoneFailed
                      /\ wpc'[o] \in Planned => trunc'[o] = Cut(wq[o])
                      /\ \/ size' <= wantSize \/ Stretches(o)'
                         \/ size' = size /\ \E u \in Writes \ {o} : Stretches(u)
  BY <1>11, <1>15 DEF Planned
<1> QED
  BY <1>1, <1>3, <1>8, <1>9, <1>10, <1>13, <1>14, <1>16, FileStep
-----------------------------------------------------------------------------
(***************************************************************************)
(* A write is asked for, and returns.                                      *)
(***************************************************************************)
LEMMA SubmitKeeps ==
  ASSUME Overlap = "apart", FileInv, NEW o \in Writes, NEW r \in WriteReqs,
         NEW a \in BOOLEAN, SubmitWrite(o, r, a)
  PROVE  FileInv'
<1>1. /\ FileTyped /\ ApartInv /\ WriteInv(o) /\ wpc[o] = "idle"
      /\ UNCHANGED <<data, size, want, wantSize, spoiled, failed>>
      /\ UNCHANGED <<bounce, done, trunc, wret>>
      /\ wq' = [wq EXCEPT ![o] = r]
  BY DEF FileInv, SubmitWrite, storeVars, fileVars, histVars
<1>2. Request(r) /\ r.off \in Nat /\ r.n \in Nat
  BY RequestAssumption DEF Request
<1>3. /\ wpc'[o] \in {"plain", "alloc"} /\ wq'[o] = r
      /\ \A u \in Writes \ {o} : Same(u)
  BY <1>1 DEF SubmitWrite, Goto, Same, FileTyped
<1>4. FileTyped'
  BY <1>1, <1>2, <1>3 DEF SubmitWrite, Goto, FileTyped, WritePcs, Request
<1>5. \A u \in Writes \ {o} : InFlight(u) => MayOverlap(r, wq[u])
  BY DEF SubmitWrite
<1>6. ASSUME NEW u \in Writes, u # o, InFlight(u)
      PROVE  /\ r.off + r.n <= wantSize /\ wq[u].off + wq[u].n <= wantSize
             /\ r.n > 0 /\ wq[u].n > 0 => Asunder(r, wq[u]) /\ Asunder(wq[u], r)
  <2>1. /\ BlocksOf(r.off, r.off + r.n)
             \cap BlocksOf(wq[u].off, wq[u].off + wq[u].n) = {}
        /\ r.off + r.n <= wantSize /\ wq[u].off + wq[u].n <= wantSize
    BY <1>5, <1>6 DEF MayOverlap
  <2>2. Request(wq[u])
    BY <1>1 DEF FileTyped
  <2>3. r.n > 0 /\ wq[u].n > 0 => Asunder(r, wq[u])
    BY <1>2, <2>1, <2>2, BlocksApart
  <2> QED
    BY <2>1, <2>3 DEF Asunder
<1>7. ApartInv'
  <2>1. ASSUME NEW v \in Writes, NEW u \in Writes, v # u, InFlight(v)', InFlight(u)'
        PROVE  /\ wq'[v].off + wq'[v].n <= wantSize
               /\ wq'[v].n > 0 /\ wq'[u].n > 0 => Asunder(wq'[v], wq'[u])
    <3>1. CASE v = o
      <4>1. u # o /\ InFlight(u) /\ wq'[u] = wq[u]
        BY <1>3, <2>1, <3>1 DEF InFlight, Same
      <4> QED
        BY <1>3, <1>6, <3>1, <4>1
    <3>2. CASE u = o
      <4>1. v # o /\ InFlight(v) /\ wq'[v] = wq[v]
        BY <1>3, <2>1, <3>2 DEF InFlight, Same
      <4> QED
        BY <1>3, <1>6, <3>2, <4>1
    <3>3. CASE u # o /\ v # o
      <4>1. InFlight(v) /\ InFlight(u) /\ wq'[v] = wq[v] /\ wq'[u] = wq[u]
        BY <1>3, <2>1, <3>3 DEF InFlight, Same
      <4> QED
        BY <1>1, <2>1, <4>1 DEF ApartInv
    <3> QED
      BY <3>1, <3>2, <3>3
  <2>2. \A v, u \in Writes : Asunder(wq'[v], wq'[u]) => Asunder(wq[v], wq[u])'
    BY DEF Asunder, Start, Span, HeadBytes
  <2> QED
    BY <1>1, <2>1, <2>2 DEF ApartInv
<1>8. \A u \in Writes : WriteInv(u)'
  <2>1. ASSUME NEW u \in Writes, u # o PROVE WriteInv(u)'
    <3>1. Same(u)
      BY <1>3, <2>1
    <3>2. InFlight(u) /\ wq[u].n > 0 => Spared(u)
      BY <1>1 DEF Spared, FileInv, WriteInv, EndInv
    <3> QED
      BY <3>1, <3>2, OtherKept DEF FileInv
  <2>2. WriteInv(o)'
    <3>1. trunc[o] = -1 /\ done[o] = 0
      BY <1>1 DEF WriteInv, PlaceInv
    <3>2. (Written(o))' = {}
      BY <1>3 DEF Written
    <3>3. PlaceInv(o)'
      BY <1>1, <1>3, <3>1 DEF PlaceInv, Planned
    <3> QED
      BY <1>3, <3>2, <3>3 DEF WriteInv, BounceInv, PutInv, EndInv, Planned
  <2> QED
    BY <2>1, <2>2
<1>9. ExactInv'
  <2>1. Touched(o) = {}
    BY <1>1 DEF Touched
  <2>2. ASSUME NEW u \in Writes, u # o PROVE (Touched(u))' = Touched(u)
    BY <1>3, <2>2 DEF Touched, Same
  <2>3. \A p : (\E u \in Writes : p \in Touched(u)) =>
                 (\E u \in Writes : p \in (Touched(u))')
    BY <2>1, <2>2
  <2> QED
    BY <1>1, <2>3 DEF ExactInv, FileInv
<1>10. LengthInv'
  <2>1. SUFFICES ASSUME NoneFailed'
                 PROVE  /\ \A u \in Writes : wpc'[u] \in Planned => trunc'[u] = Cut(wq[u])'
                        /\ size <= wantSize \/ \E u \in Writes : Stretches(u)'
    BY <1>1 DEF LengthInv
  <2>2. NoneFailed
    BY <1>1, <1>3, <2>1 DEF NoneFailed, Same
  <2>3. ASSUME NEW u \in Writes, wpc'[u] \in Planned
        PROVE  trunc'[u] = Cut(wq[u])'
    <3>1. u # o
      BY <1>3, <2>3 DEF Planned
    <3>2. trunc'[u] = Cut(wq[u]) /\ wq'[u] = wq[u]
      BY <1>3, <2>2, <2>3, <3>1 DEF Same, LengthInv, FileInv
    <3>3. Cut(wq[u])' = Cut(wq[u])
      BY <1>1, <3>2 DEF Cut, Start, Span, HeadBytes
    <3> QED
      BY <3>2, <3>3
  <2>4. ASSUME NEW u \in Writes, Stretches(u) PROVE Stretches(u)'
    <3>1. u # o
      BY <1>1, <2>4 DEF Stretches
    <3>2. Same(u)
      BY <1>3, <3>1
    <3> QED
      BY <1>1, <2>4, <3>2 DEF Same, Stretches, Start, Span, HeadBytes
  <2> QED
    BY <2>2, <2>3, <2>4 DEF LengthInv, FileInv
<1> QED
  BY <1>4, <1>7, <1>8, <1>9, <1>10 DEF FileInv

\* The application learns what the write has done.
LEMMA SettleKeeps ==
  ASSUME FileInv, NEW o \in Writes, wpc[o] = "out", Goto(o, "ret"),
         UNCHANGED <<data, size>>, wq' = wq,
         UNCHANGED <<bounce, done, trunc>>,
         \/ wret' = wret \/ wret' = [wret EXCEPT ![o] = -1],
         NEW ok \in BOOLEAN, ok => wret[o] >= 0, Settle(o, ok)
  PROVE  FileInv'
<1> DEFINE q == wq[o]
           n == IF ok THEN wret[o] ELSE 0
<1>1. /\ FileTyped /\ ApartInv /\ WriteInv(o) /\ ExactInv
      /\ (\A u \in Writes : WriteInv(u)) /\ LengthInv
  BY DEF FileInv
<1>2. /\ q.off \in Nat /\ q.n \in Nat /\ wret[o] \in Int
      /\ Start(q) \in Nat /\ Span(q) \in Nat /\ Start(q) <= q.off
      /\ q.off + q.n <= Start(q) + Span(q)
      /\ size \in Nat /\ wantSize \in Nat /\ wantSize <= size
  BY <1>1, RequestFacts DEF ExactInv
<1>3. /\ n \in Int /\ n >= 0 /\ wret[o] <= q.n /\ n <= q.n
      /\ n > 0 => q.off + n <= size
  BY <1>1, <1>2 DEF WriteInv, PlaceInv, EndInv
<1>4. /\ wantSize' = IF n > 0 THEN GreaterOf(wantSize, q.off + n) ELSE wantSize
      /\ spoiled' = IF ok THEN spoiled \ (q.off .. q.off + n - 1)
                          ELSE spoiled \cup Covers(q)
      /\ failed' = (failed \/ ~ok)
      /\ \A p \in Positions : want'[p] = IF p \in q.off .. q.off + n - 1
                                           THEN Mine(o, p) ELSE want[p]
  BY DEF Settle, Mine
<1> HIDE DEF n
<1>5. /\ wantSize' \in Nat /\ wantSize <= wantSize' /\ wantSize' <= size
      /\ n > 0 => q.off + n <= wantSize'
      /\ wantSize' = wantSize \/ (n > 0 /\ wantSize' = q.off + n
                                  /\ wantSize < q.off + n)
  BY <1>2, <1>3, <1>4 DEF GreaterOf
<1>6. /\ wpc'[o] = "ret" /\ \A u \in Writes \ {o} : Same(u)
  BY <1>1 DEF Goto, Same, FileTyped
<1>7. FileTyped'
  BY <1>1, <1>4, <1>5 DEF Goto, FileTyped, WritePcs
<1>8. ApartInv'
  <2>1. \A u \in Writes : InFlight(u)' => InFlight(u)
    BY <1>6 DEF InFlight, Same
  <2> QED
    BY <1>1, <1>5, <2>1, StayApart
<1>9. ASSUME NEW u \in Writes, u # o, InFlight(u) PROVE wantSize' = wantSize
  <2>1. q.off + q.n <= wantSize
    BY <1>1, <1>9 DEF ApartInv, InFlight
  <2> QED
    BY <1>2, <1>3, <1>5, <2>1
<1>10. \A u \in Writes : WriteInv(u)'
  <2>1. ASSUME NEW u \in Writes, u # o PROVE WriteInv(u)'
    <3>1. ASSUME InFlight(u), wq[u].n > 0 PROVE Spared(u)
      <4>1. wantSize' = wantSize
        BY <1>9, <2>1, <3>1
      <4>2. q.n > 0 => Asunder(q, wq[u])
        BY <1>1, <2>1, <3>1 DEF ApartInv, InFlight
      <4>3. /\ Start(wq[u]) \in Nat /\ Span(wq[u]) \in Nat
            /\ Start(wq[u]) + Span(wq[u]) <= NBlocks * Align
            /\ NBlocks * Align \in Nat
        BY <1>1, RequestFacts
      <4>4. ASSUME NEW p \in Blocked(wq[u])
            PROVE  p \in Positions /\ p \notin q.off .. q.off + q.n - 1
        <5>1. p \in Positions
          BY <4>3 DEF Blocked, Positions
        <5>2. p \notin q.off .. q.off + q.n - 1
          BY <1>2, <4>2, <4>3 DEF Asunder, Blocked
        <5> QED
          BY <5>1, <5>2
      <4>5. ASSUME NEW p \in Blocked(wq[u])
            PROVE  want'[p] = want[p] /\ (p \in spoiled' <=> p \in spoiled)
        <5>1. p \in Positions /\ p \notin q.off .. q.off + q.n - 1
          BY <4>4
        <5>2. p \notin q.off .. q.off + n - 1
          BY <1>2, <1>3, <5>1
        <5> QED
          BY <1>4, <5>1, <5>2 DEF Covers
      <4> QED
        BY <1>1, <4>1, <4>5 DEF Spared, WriteInv, EndInv
    <3>2. Same(u)
      BY <1>6, <2>1
    <3> QED
      BY <1>1, <3>1, <3>2, OtherKept
  <2>2. WriteInv(o)'
    <3>1. (Written(o))' = {}
      BY <1>6 DEF Written
    <3> QED
      BY <1>6, <3>1 DEF WriteInv, PlaceInv, BounceInv, PutInv, EndInv, Planned
  <2> QED
    BY <2>1, <2>2
<1>11. ExactInv'
  <2>1. \A p \in Positions : p >= wantSize' => want'[p] = Zero
    <3>1. SUFFICES ASSUME NEW p \in Positions, p >= wantSize'
                   PROVE  want'[p] = Zero
      OBVIOUS
    <3>2. p \in Int
      BY StoreAssumption DEF Positions
    <3>3. p >= wantSize /\ p \notin q.off .. q.off + n - 1
      BY <1>2, <1>3, <1>5, <3>1, <3>2
    <3> QED
      BY <1>1, <1>4, <3>3 DEF ExactInv
  <2>2. ASSUME NEW p \in Positions
        PROVE  \/ p \in spoiled' \/ data[p] = want'[p]
               \/ \E u \in Writes : p \in (Touched(u))'
    <3>1. CASE p \in q.off .. q.off + n - 1
      <4>1. n > 0 /\ n = wret[o]
        BY <1>2, <1>3, <3>1 DEF n
      <4>2. p \in Written(o)
        BY <3>1, <4>1 DEF Written
      <4> QED
        BY <1>1, <1>4, <3>1, <4>2 DEF WriteInv, PutInv
    <3>2. CASE p \notin q.off .. q.off + n - 1
      <4>1. want'[p] = want[p]
        BY <1>4, <3>2
      <4>2. p \in spoiled => p \in spoiled'
        BY <1>4, <3>2
      <4>3. p \in Touched(o) => p \in spoiled'
        <5>1. CASE ok
          BY <3>2, <5>1 DEF Touched, n
        <5>2. CASE ~ok
          <6>1. Touched(o) \subseteq Covers(q)
            BY <1>2, <1>3 DEF Touched, Covers
          <6> QED
            BY <1>4, <5>2, <6>1
        <5> QED
          BY <5>1, <5>2
      <4>4. \A u \in Writes \ {o} : p \in Touched(u) => p \in (Touched(u))'
        BY <1>6 DEF Touched, Same
      <4> QED
        BY <1>1, <4>1, <4>2, <4>3, <4>4 DEF ExactInv
    <3> QED
      BY <3>1, <3>2
  <2> QED
    BY <1>5, <2>1, <2>2 DEF ExactInv
<1>12. LengthInv'
  <2>1. SUFFICES ASSUME NoneFailed'
                 PROVE  /\ \A u \in Writes : wpc'[u] \in Planned => trunc'[u] = Cut(wq[u])'
                        /\ size <= wantSize' \/ \E u \in Writes : Stretches(u)'
    BY DEF LengthInv
  <2>2. ok /\ ~failed
    BY <1>4, <2>1 DEF NoneFailed
  <2>3. NoneFailed
    BY <1>6, <2>1, <2>2 DEF NoneFailed, Same
  <2>4. ASSUME NEW u \in Writes, wpc'[u] \in Planned
        PROVE  trunc'[u] = Cut(wq[u])'
    <3>1. u # o
      BY <1>6, <2>4 DEF Planned
    <3>2. trunc'[u] = Cut(wq[u]) /\ InFlight(u)
      BY <1>1, <1>6, <2>3, <2>4, <3>1 DEF Same, LengthInv, InFlight, Planned
    <3>3. wantSize' = wantSize
      BY <1>9, <3>1, <3>2
    <3> QED
      BY <3>2, <3>3 DEF Cut, Start, Span, HeadBytes
  <2>5. CASE size <= wantSize
    BY <1>2, <1>5, <2>4, <2>5
  <2>6. CASE ~(size <= wantSize)
    <3>1. PICK u \in Writes : Stretches(u)
      BY <1>1, <2>3, <2>6 DEF LengthInv
    <3>2. CASE u = o
      <4>1. n = wret[o] /\ n > 0 /\ size = q.off + n
        BY <2>2, <3>1, <3>2 DEF Stretches, n
      <4> QED
        BY <1>2, <1>5, <2>4, <4>1
    <3>3. CASE u # o
      <4>1. Same(u)
        BY <1>6, <3>3
      <4>2. Stretches(u)'
        BY <3>1, <4>1 DEF Same, Stretches, Start, Span, HeadBytes
      <4> QED
        BY <2>4, <4>2
    <3> QED
      BY <3>2, <3>3
  <2> QED
    BY <2>5, <2>6
<1> QED
  BY <1>7, <1>8, <1>10, <1>11, <1>12 DEF FileInv

\* The write returns, and the device is marked or not.
LEMMA FinishKeeps ==
  ASSUME FileInv, NEW o \in Writes, FinishWrite(o) \/ MarkFails(o)
  PROVE  FileInv'
<1>1. wret[o] \in Int
  BY DEF FileInv, FileTyped
<1>2. CASE FinishWrite(o)
  <2>1. PICK ok \in BOOLEAN : ok <=> wret[o] >= 0
    OBVIOUS
  <2>2. Settle(o, ok)
    BY <1>2, <2>1 DEF FinishWrite, Settle
  <2> QED
    BY <1>2, <2>1, <2>2, SettleKeeps DEF FinishWrite, fileVars
<1>3. CASE MarkFails(o)
  BY <1>1, <1>3, SettleKeeps DEF MarkFails, storeVars, fileVars
<1> QED
  BY <1>2, <1>3
-----------------------------------------------------------------------------
(***************************************************************************)
(* The file is what the successful writes make it.                         *)
(***************************************************************************)

\* The file as it was made.
LEMMA FileStarts ==
  ASSUME Init
  PROVE  FileInv
<1>1. /\ Align \in Nat \ {0} /\ NBlocks * Align \in Nat
      /\ Sizes \subseteq 0 .. NBlocks * Align
  BY StoreAssumption
<1>2. size \in 0 .. NBlocks * Align
  BY <1>1 DEF Init, StoreInit
<1>3. /\ \A o \in Writes : wpc[o] = "idle" /\ trunc[o] = -1 /\ done[o] = 0
      /\ wq = [o \in Writes |-> [off |-> 0, n |-> 0]]
      /\ wpc = [o \in Writes |-> "idle"]
      /\ bounce = [o \in Writes |-> Fresh]
      /\ done = [o \in Writes |-> 0] /\ trunc = [o \in Writes |-> -1]
      /\ wret = [o \in Writes |-> 0]
      /\ want = data /\ wantSize = size /\ spoiled = {} /\ failed = FALSE
      /\ data = [p \in Positions |-> IF p < size THEN <<0, p + 1>> ELSE Zero]
  BY DEF Init, StoreInit, DirectInit
<1>4. FileTyped
  <2>1. Request([off |-> 0, n |-> 0])
    BY <1>1 DEF Request
  <2>2. size \in Nat /\ wantSize \in Nat /\ failed \in BOOLEAN
    <3>1. wantSize = size /\ failed = FALSE
      BY <1>3
    <3>2. size \in Nat
      BY <1>1, <1>2
    <3>3. failed \in BOOLEAN
      BY <3>1
    <3> QED
      BY <3>1, <3>2, <3>3
  <2>3. /\ wpc \in [Writes -> WritePcs] /\ done \in [Writes -> Nat]
        /\ trunc \in [Writes -> Int] /\ wret \in [Writes -> Int]
    <3>1. wpc = [o \in Writes |-> "idle"] /\ trunc = [o \in Writes |-> -1]
      BY <1>3
    <3>2. done = [o \in Writes |-> 0] /\ wret = [o \in Writes |-> 0]
      BY <1>3
    <3>3. wpc \in [Writes -> WritePcs]
      BY <3>1 DEF WritePcs
    <3>4. done \in [Writes -> Nat] /\ wret \in [Writes -> Int]
      BY <3>2
    <3>5. trunc \in [Writes -> Int]
      BY <3>1
    <3> QED
      BY <3>3, <3>4, <3>5
  <2>4. /\ DOMAIN wq = Writes /\ \A o \in Writes : Request(wq[o])
        /\ DOMAIN bounce = Writes
    BY <1>3, <2>1
  <2> QED
    BY <2>2, <2>3, <2>4 DEF FileTyped
<1>5. ApartInv
  BY <1>3 DEF ApartInv, InFlight
<1>6. \A o \in Writes : WriteInv(o)
  BY <1>3 DEF WriteInv, PlaceInv, BounceInv, PutInv, Written, EndInv, Planned
<1>7. ExactInv
  <2>1. \A p \in Positions : p >= size => data[p] = Zero
    BY <1>1, <1>2, <1>3 DEF Positions
  <2> QED
    BY <1>2, <1>3, <2>1 DEF ExactInv
<1>8. LengthInv
  BY <1>2, <1>3 DEF LengthInv, Planned
<1> QED
  BY <1>4, <1>5, <1>6, <1>7, <1>8 DEF FileInv

\* What of the state the invariant speaks of.
aboutFile == <<data, size, wpc, wq, bounce, done, trunc, wret, histVars>>

\* Steps of a read change nothing of the file.
LEMMA FileUnchanged ==
  ASSUME FileInv, UNCHANGED aboutFile
  PROVE  FileInv'
<1>1. /\ UNCHANGED <<data, size, wpc, wq, bounce, done, trunc, wret>>
      /\ UNCHANGED <<want, wantSize, spoiled, failed>>
  BY DEF aboutFile, histVars
<1>2. FileTyped' /\ ApartInv'
  BY <1>1 DEF FileInv, FileTyped, ApartInv, InFlight, Request, Asunder, Start,
              Span, HeadBytes
<1>3. \A o \in Writes : WriteInv(o)'
  <2>1. ASSUME NEW o \in Writes PROVE WriteInv(o)'
    <3>1. Same(o)
      BY <1>1 DEF Same
    <3>2. InFlight(o) /\ wq[o].n > 0 => Spared(o)
      BY <1>1 DEF Spared, FileInv, WriteInv, EndInv
    <3> QED
      BY <3>1, <3>2, OtherKept DEF FileInv
  <2> QED
    BY <2>1
<1>4. ExactInv'
  BY <1>1 DEF FileInv, ExactInv, Touched, Covers
<1>5. LengthInv'
  <2>1. \A o \in Writes : (Cut(wq[o]))' = Cut(wq[o]) /\ Stretches(o)' = Stretches(o)
    BY <1>1 DEF Cut, Start, Span, HeadBytes, Stretches
  <2>2. NoneFailed' <=> NoneFailed
    BY <1>1 DEF NoneFailed
  <2> QED
    BY <1>1, <2>1, <2>2 DEF FileInv, LengthInv
<1> QED
  BY <1>2, <1>3, <1>4, <1>5 DEF FileInv

\* Every step keeps FileInv.
LEMMA FileNext ==
  ASSUME Overlap = "apart", FileInv, [Next]_vars
  PROVE  FileInv'
<1>1. CASE UNCHANGED vars
  BY <1>1, FileUnchanged DEF vars, storeVars, fileVars, writeVars, aboutFile
<1>2. ASSUME NEW o \in Writes, NEW q \in WriteReqs, NEW a \in BOOLEAN,
             SubmitWrite(o, q, a)
      PROVE  FileInv'
  BY <1>2, SubmitKeeps
<1>3. ASSUME NEW o \in Writes, WriteGoes(o) PROVE FileInv'
  <2>1. CASE DirectGoes(o) /\ UNCHANGED <<planVars, backend, histVars>>
    <3>1. UNCHANGED histVars
      BY <2>1
    <3>2. CASE AllocBounce(o) /\ UNCHANGED fileVars
      BY <3>1, <3>2, AllocKeeps
    <3>3. CASE Stat(o) /\ UNCHANGED fileVars
      BY <3>1, <3>3, StatKeeps
    <3>4. CASE FillHead(o) /\ UNCHANGED fileVars
      BY <3>1, <3>4, HeadKeeps
    <3>5. CASE FillTail(o) /\ UNCHANGED fileVars
      BY <3>1, <3>5, TailKeeps
    <3>6. CASE Copy(o) /\ UNCHANGED fileVars
      BY <3>1, <3>6, CopyKeeps
    <3>7. CASE WriteSome(o)
      BY <3>1, <3>7, WriteSomeKeeps
    <3>8. CASE Truncate(o)
      BY <3>1, <3>8, TruncateKeeps
    <3> QED
      BY <2>1, <3>2, <3>3, <3>4, <3>5, <3>6, <3>7, <3>8 DEF DirectGoes
  <2>2. CASE PlainWrite(o)
    BY <2>2, PlainKeeps
  <2>3. CASE FinishWrite(o)
    BY <2>3, FinishKeeps
  <2> QED
    BY <1>3, <2>1, <2>2, <2>3 DEF WriteGoes
<1>4. ASSUME NEW o \in Writes, WriteFaults(o) PROVE FileInv'
  <2>1. CASE DirectFails(o) /\ UNCHANGED <<planVars, backend, histVars>>
    BY <2>1, FailureKeeps DEF DirectFails, storeVars
  <2>2. CASE PlainFails(o)
    BY <2>2, FailureKeeps DEF PlainFails, storeVars
  <2>3. CASE MarkFails(o)
    BY <2>3, FinishKeeps
  <2> QED
    BY <1>4, <2>1, <2>2, <2>3 DEF WriteFaults
<1>5. ASSUME NEW q \in ReadReqs, SubmitRead(q) PROVE FileInv'
  BY <1>5, FileUnchanged DEF SubmitRead, storeVars, fileVars, writeVars, aboutFile
<1>6. ASSUME NEW q \in ReadReqs, NEW a \in BOOLEAN, SubmitRefRead(q, a)
      PROVE  FileInv'
  BY <1>6, FileUnchanged
     DEF SubmitRefRead, storeVars, fileVars, writeVars, aboutFile
<1>7. ASSUME ReadGoes PROVE FileInv'
  <2>1. UNCHANGED <<fileVars, writeVars, histVars>>
    BY <1>7 DEF ReadGoes, PlanGoes, PreadGoes, PlainRead, storeVars
  <2> QED
    BY <2>1, FileUnchanged DEF fileVars, writeVars, aboutFile
<1>8. ASSUME ReadFaults PROVE FileInv'
  <2>1. UNCHANGED <<fileVars, writeVars, histVars>>
    BY <1>8 DEF ReadFaults, PlanFaults, PreadFault, PlainReadFails, storeVars
  <2> QED
    BY <2>1, FileUnchanged DEF fileVars, writeVars, aboutFile
<1>9. CASE HomiStep
  BY <1>9, FileUnchanged DEF HomiStep, Refresh, fileVars, writeVars, aboutFile
<1> QED
  BY <1>1, <1>2, <1>3, <1>4, <1>5, <1>6, <1>7, <1>8, <1>9 DEF Next

\* So it always holds.
LEMMA FileAlways ==
  ASSUME Overlap = "apart"
  PROVE  Spec => []FileInv
<1>1. Init => FileInv
  BY FileStarts
<1>2. FileInv /\ [Next]_vars => FileInv'
  BY FileNext
<1> QED
  BY <1>1, <1>2, PTL DEF Spec

\* opends_direct_pwrite and pwrite in ref_async_submit: as long as writes that
\* run at the same time share no block and do not make the file longer, every
\* byte outside the ranges of writes in progress or failed is what the
\* successful writes made it, and the file has the right size when nothing is
\* in progress, whatever the block size, the file, and the requests.
THEOREM FileIsExact ==
  ASSUME Overlap = "apart"
  PROVE  Spec => []FileExact
<1>1. ASSUME FileInv PROVE FileExact
  <2>1. FileTyped /\ ExactInv /\ LengthInv /\ \A o \in Writes : WriteInv(o)
    BY <1>1 DEF FileInv
  <2>2. ASSUME NEW p \in Positions
        PROVE  \/ p >= wantSize \/ p \in spoiled
               \/ \E o \in Writes : InFlight(o) /\ p \in Covers(wq[o])
               \/ p < size /\ data[p] = want[p]
    <3>1. p \in Int
      BY StoreAssumption DEF Positions
    <3>2. p >= wantSize \/ p < size
      BY <2>1, <3>1 DEF ExactInv, FileTyped
    <3>3. ASSUME NEW o \in Writes, p \in Touched(o)
          PROVE  InFlight(o) /\ p \in Covers(wq[o])
      <4>1. /\ wq[o].off \in Nat /\ wq[o].n \in Nat /\ wret[o] \in Int
            /\ wpc[o] = "out" => wret[o] <= wq[o].n
        BY <2>1, RequestFacts DEF WriteInv, PlaceInv
      <4> QED
        BY <3>3, <4>1 DEF Touched, InFlight, Covers
    <3> QED
      BY <2>1, <3>2, <3>3 DEF ExactInv
  <2>3. ASSUME ~failed, \A o \in Writes : ~InFlight(o) PROVE size = wantSize
    <3>1. NoneFailed /\ \A o \in Writes : ~Stretches(o)
      BY <2>3 DEF NoneFailed, Stretches, InFlight
    <3> QED
      BY <2>1, <3>1 DEF LengthInv, ExactInv, FileTyped
  <2> QED
    BY <2>2, <2>3 DEF FileExact
<1> QED
  BY <1>1, FileAlways, PTL
-----------------------------------------------------------------------------
(***************************************************************************)
(* The extents HOMI answers with.                                          *)
(***************************************************************************)

\* A non-empty set of numbers has a least one.
LEMMA Least ==
  ASSUME NEW S \in SUBSET Nat, S # {}
  PROVE  \E m \in S : \A x \in S : m <= x
<1>1. IsWellFoundedOn(OpToRel(<, Nat), Nat)
  BY NatLessThanWellFounded
<1>2. PICK m \in S : \A y \in S : ~ (<<y, m>> \in OpToRel(<, Nat))
  BY <1>1, WFMin
<1>3. \A y \in S : ~(y < m)
  BY <1>2 DEF OpToRel
<1> QED
  BY <1>3

\* An ascending sequence of a set's elements, as long as the set, has them all.
LEMMA AscendingOnto ==
  ASSUME NEW S \in SUBSET Nat, IsFiniteSet(S),
         NEW s \in [1 .. Cardinality(S) -> S],
         \A i, j \in 1 .. Cardinality(S) : i < j => s[i] < s[j]
  PROVE  \A x \in S : \E i \in 1 .. Cardinality(S) : s[i] = x
<1> DEFINE n == Cardinality(S)
<1>1. n \in Nat
  BY FS_CardinalityType
<1>2. \A i, j \in 1 .. n : s[i] = s[j] => i = j
  <2>1. SUFFICES ASSUME NEW i \in 1 .. n, NEW j \in 1 .. n, s[i] = s[j], i # j
                 PROVE  FALSE
    OBVIOUS
  <2>2. s[i] \in Nat
    OBVIOUS
  <2>3. i < j \/ j < i
    BY <1>1, <2>1
  <2> QED
    BY <2>1, <2>2, <2>3
<1>3. s \in Injection(1 .. n, S)
  BY <1>2 DEF Injection, IsInjective
<1>4. Cardinality(1 .. n) = n
  BY <1>1, FS_Interval
<1>5. s \in Surjection(1 .. n, S)
  BY <1>3, <1>4, FS_Injection
<1> QED
  BY <1>5 DEF Surjection

\* A finite set of numbers can be put in order.
LEMMA OrderExists ==
  ASSUME NEW S \in SUBSET Nat, IsFiniteSet(S)
  PROVE  \E s \in [1 .. Cardinality(S) -> S] :
           \A i, j \in 1 .. Cardinality(S) : i < j => s[i] < s[j]
<1> DEFINE n == Cardinality(S)
           Below(x) == {y \in S : y < x}
           r == [x \in S |-> Cardinality(Below(x)) + 1]
<1>1. n \in Nat
  BY FS_CardinalityType
<1>2. ASSUME NEW x \in S
      PROVE  /\ IsFiniteSet(Below(x)) /\ Cardinality(Below(x)) \in Nat
             /\ Cardinality(Below(x)) < n
  <2>1. Below(x) \in SUBSET S /\ x \notin Below(x)
    OBVIOUS
  <2>2. /\ IsFiniteSet(Below(x)) /\ Cardinality(Below(x)) <= n
        /\ Cardinality(S) = Cardinality(Below(x)) => S = Below(x)
    BY <2>1, FS_Subset
  <2>3. Cardinality(Below(x)) \in Nat
    BY <2>2, FS_CardinalityType
  <2> QED
    BY <1>1, <2>1, <2>2, <2>3
<1>3. ASSUME NEW x \in S, NEW z \in S, x < z PROVE r[x] < r[z]
  <2>1. Below(x) \in SUBSET Below(z) /\ x \in Below(z) /\ x \notin Below(x)
    <3>1. x \in Nat /\ z \in Nat
      OBVIOUS
    <3>2. ASSUME NEW y \in S, y < x PROVE y < z
      <4>1. y \in Nat
        OBVIOUS
      <4> QED
        BY <1>3, <3>1, <3>2, <4>1
    <3>3. ~(x < x)
      BY <3>1
    <3> QED
      BY <1>3, <3>2, <3>3
  <2>2. /\ Cardinality(Below(x)) <= Cardinality(Below(z))
        /\ Cardinality(Below(z)) = Cardinality(Below(x)) => Below(z) = Below(x)
    BY <1>2, <2>1, FS_Subset
  <2>3. Cardinality(Below(x)) < Cardinality(Below(z))
    BY <1>2, <2>1, <2>2
  <2> QED
    BY <1>2, <2>3
<1>4. r \in [S -> 1 .. n]
  BY <1>1, <1>2
<1> HIDE DEF r, n
<1>5. ASSUME NEW x \in S, NEW z \in S, r[x] = r[z] PROVE x = z
  <2>1. x \in Nat /\ z \in Nat /\ r[x] \in Int /\ r[z] \in Int
    BY <1>1, <1>4
  <2> QED
    BY <1>3, <1>5, <2>1
<1>6. r \in Injection(S, 1 .. n)
  BY <1>4, <1>5 DEF Injection, IsInjective
<1>7. IsFiniteSet(1 .. n) /\ Cardinality(1 .. n) = n
  BY <1>1, FS_Interval
<1>8. r \in Surjection(S, 1 .. n)
  BY <1>6, <1>7, FS_Injection DEF n
<1>9. \A i \in 1 .. n : \E x \in S : r[x] = i
  BY <1>8 DEF Surjection
<1> DEFINE s == [i \in 1 .. n |-> CHOOSE x \in S : r[x] = i]
<1>10. \A i \in 1 .. n : s[i] \in S /\ r[s[i]] = i
  BY <1>9
<1>11. s \in [1 .. n -> S]
  BY <1>10
<1> HIDE DEF s
<1>12. ASSUME NEW i \in 1 .. n, NEW j \in 1 .. n, i < j PROVE s[i] < s[j]
  <2>0. /\ s[i] \in S /\ r[s[i]] = i /\ s[j] \in S /\ r[s[j]] = j
        /\ i \in Int /\ j \in Int
    BY <1>1, <1>10
  <2>1. s[i] \in Nat /\ s[j] \in Nat /\ s[i] # s[j]
    <3>1. i # j
      BY <1>12, <2>0
    <3>2. s[i] # s[j]
      BY <2>0, <3>1
    <3>3. s[i] \in Nat /\ s[j] \in Nat
      BY <2>0
    <3> QED
      BY <3>2, <3>3
  <2>2. ~(s[j] < s[i])
    <3>1. s[j] < s[i] => r[s[j]] < r[s[i]]
      BY <1>3, <2>0
    <3>2. ~(j < i)
      BY <1>12, <2>0
    <3> QED
      BY <2>0, <3>1, <3>2
  <2> QED
    BY <2>1, <2>2
<1> QED
  BY <1>11, <1>12 DEF n

\* InOrder puts a finite set of numbers in order, all of it.
LEMMA InOrderIs ==
  ASSUME NEW S \in SUBSET Nat, IsFiniteSet(S)
  PROVE  /\ InOrder(S) \in [1 .. Cardinality(S) -> S]
         /\ \A i, j \in 1 .. Cardinality(S) : i < j => InOrder(S)[i] < InOrder(S)[j]
         /\ \A x \in S : \E i \in 1 .. Cardinality(S) : InOrder(S)[i] = x
<1>1. /\ InOrder(S) \in [1 .. Cardinality(S) -> S]
      /\ \A i, j \in 1 .. Cardinality(S) : i < j => InOrder(S)[i] < InOrder(S)[j]
  BY OrderExists DEF InOrder
<1> QED
  BY <1>1, AscendingOnto

\* The distance of two multiples.
LEMMA Distance ==
  ASSUME NEW i \in Int, NEW j \in Int, NEW b \in Nat, i <= j
  PROVE  /\ i * b \in Int /\ j * b \in Int /\ i * b <= j * b
         /\ (j - i) * b = j * b - i * b
<1> DEFINE k == j - i
<1>1. k \in Nat /\ j = i + k
  OBVIOUS
<1> HIDE DEF k
<1>2. j * b = i * b + k * b /\ k * b \in Nat /\ i * b \in Int
  BY <1>1
<1>3. j - i = k
  BY <1>1
<1> QED
  BY <1>2, <1>3

\* A run of blocks ends after its start, and each block in it follows.
LEMMA RunEndIs ==
  ASSUME cache \in SUBSET Blocks, NEW b \in cache
  PROVE  /\ RunEnd(b) \in b + 1 .. NBlocks
         /\ \A c \in b + 1 .. RunEnd(b) - 1 : c \in cache /\ Follows(c)
         /\ RunEnd(b) \notin cache \/ ~Follows(RunEnd(b))
<1>0. NBlocks \in Nat /\ b \in Nat /\ b < NBlocks /\ NBlocks \notin cache
      /\ \A c \in cache : c \in Nat /\ c < NBlocks
  BY StoreAssumption DEF Blocks
<1> DEFINE T == {e \in b + 1 .. NBlocks : e \notin cache \/ ~Follows(e)}
<1>1. T \in SUBSET Nat /\ NBlocks \in T
  BY <1>0
<1>2. PICK e \in T : \A x \in T : e <= x
  <2>1. T # {}
    BY <1>1
  <2> HIDE DEF T
  <2> QED
    BY <1>1, <2>1, Least
<1>3. e \in b + 1 .. NBlocks /\ (e \notin cache \/ ~Follows(e))
  OBVIOUS
<1>4. ASSUME NEW c \in b + 1 .. e - 1 PROVE c \in cache /\ Follows(c)
  <2>1. c \in b + 1 .. NBlocks /\ ~(e <= c)
    BY <1>0, <1>3
  <2> QED
    BY <1>2, <2>1
<1>5. \E d \in b + 1 .. NBlocks :
        /\ \A c \in b + 1 .. d - 1 : c \in cache /\ Follows(c)
        /\ d \notin cache \/ ~Follows(d)
  BY <1>3, <1>4
<1> QED
  BY <1>5 DEF RunEnd

\* Where an extent is, and whether position p of the file is in it.
Holds(e, p) == e.fo <= p /\ p < e.fo + e.len

\* The extents of a file: in order, apart, none empty, within its blocks.
Tidy(E) ==
  /\ Len(E) \in Nat /\ DOMAIN E = 1 .. Len(E)
  /\ \A i \in 1 .. Len(E) : /\ E[i].fo \in Nat /\ E[i].len \in Nat
                            /\ E[i].slba \in Nat /\ E[i].len > 0
                            /\ E[i].fo + E[i].len <= NBlocks * Align
  /\ \A i, j \in 1 .. Len(E) : i < j => E[i].fo + E[i].len <= E[j].fo

\* They hold the file's blocks and say where on the device each is.
Locates(E, bs) ==
  /\ \A p \in Positions :
       p \div Align \in bs <=> \E i \in 1 .. Len(E) : Holds(E[i], p)
  /\ \A i \in 1 .. Len(E), p \in Positions : Holds(E[i], p) =>
       /\ E[i].slba + (p - E[i].fo) \div Lba
            = Place[p \div Align] + (p % Align) \div Lba
       /\ (p - E[i].fo) % Lba = p % Lba

\* Where the extents begin.
Starts == {b \in cache : ~Follows(b)}

\* What Extents is made of.
LEMMA ExtentsAre ==
  ASSUME cache \in SUBSET Blocks
  PROVE  /\ Starts \in SUBSET Nat /\ IsFiniteSet(Starts)
         /\ Cardinality(Starts) \in Nat
         /\ Len(Extents) = Cardinality(Starts)
         /\ DOMAIN Extents = 1 .. Cardinality(Starts)
         /\ \A k \in 1 .. Cardinality(Starts) :
              /\ InOrder(Starts)[k] \in Starts
              /\ Extents[k] =
                   [fo |-> InOrder(Starts)[k] * Align,
                    slba |-> Place[InOrder(Starts)[k]],
                    len |-> (RunEnd(InOrder(Starts)[k]) - InOrder(Starts)[k])
                              * Align]
         /\ \A j, k \in 1 .. Cardinality(Starts) :
              j < k => InOrder(Starts)[j] < InOrder(Starts)[k]
         /\ \A b \in Starts :
              \E k \in 1 .. Cardinality(Starts) : InOrder(Starts)[k] = b
<1>0. NBlocks \in Nat
  BY StoreAssumption
<1>1. Starts \in SUBSET Nat /\ Starts \in SUBSET (0 .. NBlocks - 1)
  <2>1. Starts \in SUBSET (0 .. NBlocks - 1)
    BY DEF Starts, Blocks
  <2>2. \A b \in 0 .. NBlocks - 1 : b \in Nat
    BY <1>0
  <2> QED
    BY <2>1, <2>2
<1>2. IsFiniteSet(0 .. NBlocks - 1)
  BY <1>0, FS_Interval
<1>3. IsFiniteSet(Starts)
  BY <1>1, <1>2, FS_Subset
<1> DEFINE n == Cardinality(Starts)
           s == InOrder(Starts)
<1>4. n \in Nat
  BY <1>3, FS_CardinalityType
<1>5. /\ s \in [1 .. n -> Starts]
      /\ \A i, j \in 1 .. n : i < j => s[i] < s[j]
      /\ \A x \in Starts : \E i \in 1 .. n : s[i] = x
  BY <1>1, <1>3, InOrderIs
<1>6. s \in Seq(Starts) /\ Len(s) = n
  BY <1>4, <1>5
<1>7. Extents = [k \in 1 .. n |->
                   [fo |-> s[k] * Align, slba |-> Place[s[k]],
                    len |-> (RunEnd(s[k]) - s[k]) * Align]]
  BY <1>6 DEF Extents, Starts
<1>8. Len(Extents) = n
  BY <1>4, <1>7
<1> QED
  BY <1>1, <1>3, <1>4, <1>5, <1>7, <1>8

\* homic_get_extents as the model has it: extents in order, apart.
LEMMA ExtentsTidy ==
  ASSUME cache \in SUBSET Blocks
  PROVE  Tidy(Extents)
<1> DEFINE n == Cardinality(Starts)
           s == InOrder(Starts)
           E == Extents
<1>0. /\ Align \in Nat \ {0} /\ NBlocks \in Nat /\ Place \in [Blocks -> Nat]
  BY StoreAssumption
<1>1. /\ n \in Nat /\ Len(E) = n /\ DOMAIN E = 1 .. n
      /\ \A k \in 1 .. n :
           /\ s[k] \in Starts
           /\ E[k] = [fo |-> s[k] * Align, slba |-> Place[s[k]],
                      len |-> (RunEnd(s[k]) - s[k]) * Align]
      /\ \A j, k \in 1 .. n : j < k => s[j] < s[k]
  BY ExtentsAre
<1> HIDE DEF n, s, E
<1>2. ASSUME NEW k \in 1 .. n
      PROVE  /\ s[k] \in cache /\ s[k] \in Nat /\ ~Follows(s[k])
             /\ RunEnd(s[k]) \in Nat /\ s[k] < RunEnd(s[k])
             /\ RunEnd(s[k]) <= NBlocks /\ Place[s[k]] \in Nat
             /\ \A c \in s[k] + 1 .. RunEnd(s[k]) - 1 : Follows(c)
  <2>1. s[k] \in Starts
    BY <1>1
  <2>2. s[k] \in cache /\ ~Follows(s[k]) /\ s[k] \in Blocks
    BY <2>1 DEF Starts
  <2>3. s[k] \in Nat /\ Place[s[k]] \in Nat
    BY <1>0, <2>2 DEF Blocks
  <2>4. /\ RunEnd(s[k]) \in s[k] + 1 .. NBlocks
        /\ \A c \in s[k] + 1 .. RunEnd(s[k]) - 1 : Follows(c)
    BY <2>2, RunEndIs
  <2> QED
    BY <1>0, <2>2, <2>3, <2>4
<1>3. ASSUME NEW k \in 1 .. n
      PROVE  /\ E[k].fo \in Nat /\ E[k].len \in Nat
             /\ E[k].slba \in Nat /\ E[k].len > 0
             /\ E[k].fo + E[k].len = RunEnd(s[k]) * Align
             /\ RunEnd(s[k]) * Align <= NBlocks * Align
  <2>1. /\ E[k].fo = s[k] * Align /\ E[k].slba = Place[s[k]]
        /\ E[k].len = (RunEnd(s[k]) - s[k]) * Align
    BY <1>1
  <2>2. /\ s[k] \in Int /\ RunEnd(s[k]) \in Int /\ Align \in Nat /\ NBlocks \in Int
        /\ s[k] <= RunEnd(s[k]) /\ RunEnd(s[k]) <= NBlocks
    BY <1>0, <1>2
  <2>3. /\ s[k] * Align \in Int /\ RunEnd(s[k]) * Align \in Int
        /\ (RunEnd(s[k]) - s[k]) * Align = RunEnd(s[k]) * Align - s[k] * Align
    BY <2>2, Distance
  <2>4. RunEnd(s[k]) * Align <= NBlocks * Align
    BY <2>2, Distance
  <2>5. s[k] * Align \in Nat
    BY <1>0, <1>2
  <2>6. s[k] * Align + Align <= RunEnd(s[k]) * Align
    <3>1. s[k] * Align + Align = (s[k] + 1) * Align
      BY <1>0, <1>2
    <3>2. s[k] + 1 <= RunEnd(s[k]) /\ s[k] + 1 \in Int
      BY <1>2
    <3>3. (s[k] + 1) * Align <= RunEnd(s[k]) * Align
      BY <2>2, <3>2, Distance
    <3> QED
      BY <3>1, <3>3
  <2>7. Align \in Int /\ Align > 0 /\ Place[s[k]] \in Nat
    BY <1>0, <1>2
  <2> QED
    BY <2>1, <2>3, <2>4, <2>5, <2>6, <2>7
<1>4. ASSUME NEW i \in 1 .. n, NEW j \in 1 .. n, i < j
      PROVE  E[i].fo + E[i].len <= E[j].fo
  <2>1. s[i] < s[j] /\ s[i] \in Nat /\ s[j] \in Nat /\ ~Follows(s[j])
    BY <1>1, <1>2, <1>4
  <2>2. RunEnd(s[i]) <= s[j]
    <3>1. ~(s[j] \in s[i] + 1 .. RunEnd(s[i]) - 1)
      BY <1>2, <2>1
    <3> QED
      BY <1>2, <2>1, <3>1
  <2>3. s[j] \in Int /\ RunEnd(s[i]) \in Int /\ Align \in Nat
    BY <1>0, <1>2
  <2>4. RunEnd(s[i]) * Align <= s[j] * Align
    BY <2>2, <2>3, Distance
  <2>5. E[j].fo = s[j] * Align
    BY <1>1
  <2> QED
    BY <1>3, <2>4, <2>5
<1> QED
  BY <1>0, <1>1, <1>3, <1>4 DEF Tidy, E
-----------------------------------------------------------------------------
(***************************************************************************)
(* The planning of a read.                                                 *)
(***************************************************************************)

\* The part of the current extent that is still to be read.
Rest == IF rpc \in {"head", "middle"} THEN dst .. dst + left - 1 ELSE {}

\* The bytes of the request in the extents looked at so far; those of them
\* for which a command or a copy has been issued.
Seen   == {k \in Asked : \E i \in 1 .. xi - 1 : Holds(ext[i], rq.off + k)}
Issued == Seen \ Rest

StoreTyped == blocks \in SUBSET Blocks /\ cache \in SUBSET Blocks

\* A bounce slot, whatever the bytes in it.
Slot(s) == /\ DOMAIN s = {"dst", "from", "n", "lba"}
           /\ s.dst \in Nat /\ s.from \in Nat /\ s.n \in Nat

PlanTyped ==
  /\ rq.off \in Nat /\ rq.n \in Nat /\ rq.n <= (NBlocks + 2) * Align
  /\ Tidy(ext) /\ xi \in 1 .. Len(ext) + 1
  /\ slots \in Seq({slots[i] : i \in 1 .. Len(slots)})
  /\ \A i \in 1 .. Len(slots) : Slot(slots[i])

\* Nothing is issued before the extents are known.
BeforeInv == rpc \in {"idle", "resolve"} => xi = 1 /\ cmds = {} /\ slots = <<>>

\* The cursor: it stays in the request and in the current extent.
CursorInv ==
  rpc \in {"head", "middle"} =>
    /\ xi > 1 /\ dst \in Nat /\ left \in Nat /\ skip \in Nat
    /\ dst + left <= rq.n
    /\ ext[xi - 1].fo <= rq.off + dst
    /\ rq.off + dst + left <= ext[xi - 1].fo + ext[xi - 1].len
    /\ rpc = "head" => left > 0 /\ skip < Lba

\* The sets of Ts are apart, within I.
Scattered(Ts, I) == /\ \A T \in Ts : T # {} /\ T \subseteq I
                    /\ \A T, U \in Ts : T = U \/ T \cap U = {}

\* What is issued lies apart, among the bytes issued so far.
IssueInv == /\ Scattered(Targets, Issued)
            /\ \A i \in 1 .. Len(slots) : slots[i].from + slots[i].n <= Lba

PlanInv == PlanTyped /\ BeforeInv /\ CursorInv /\ IssueInv

\* Sets apart stay so when one more is put outside all of them.
LEMMA OneMore ==
  ASSUME NEW Ts, NEW I, NEW J, NEW T, Scattered(Ts, I), T # {},
         T \cap I = {}, I \subseteq J, T \subseteq J
  PROVE  Scattered(Ts \cup {T}, J)
<1>1. ASSUME NEW U \in Ts PROVE U # {} /\ U \subseteq J /\ U \cap T = {}
  BY DEF Scattered
<1>2. \A U, V \in Ts : U = V \/ U \cap V = {}
  BY DEF Scattered
<1> QED
  BY <1>1, <1>2 DEF Scattered

\* What is still to be read lies in the request and in no earlier extent.
LEMMA RestSeen ==
  ASSUME PlanTyped, CursorInv, rpc \in {"head", "middle"}
  PROVE  /\ Rest = dst .. dst + left - 1 /\ Rest \subseteq Seen
         /\ Seen \subseteq Asked
<1>1. Rest = dst .. dst + left - 1
  BY DEF Rest
<1>2. ASSUME NEW k \in Rest PROVE k \in Seen
  <2>1. /\ rq.off \in Nat /\ rq.n \in Nat /\ xi \in Nat /\ xi > 1
        /\ dst \in Nat /\ left \in Nat /\ dst + left <= rq.n
        /\ ext[xi - 1].fo <= rq.off + dst
        /\ rq.off + dst + left <= ext[xi - 1].fo + ext[xi - 1].len
    BY DEF PlanTyped, CursorInv, Tidy
  <2>2. ext[xi - 1].fo \in Nat /\ ext[xi - 1].len \in Nat
    <3>1. xi - 1 \in 1 .. Len(ext)
      BY <2>1 DEF PlanTyped, Tidy
    <3> QED
      BY <3>1 DEF PlanTyped, Tidy
  <2>3. k \in Nat /\ dst <= k /\ k < dst + left
    BY <1>1, <2>1
  <2>4. k \in Asked /\ Holds(ext[xi - 1], rq.off + k)
    BY <2>1, <2>2, <2>3 DEF Asked, Holds
  <2>5. xi - 1 \in 1 .. xi - 1
    BY <2>1
  <2> QED
    BY <2>4, <2>5 DEF Seen
<1> QED
  BY <1>1, <1>2 DEF Seen

\* A sequence is one of its own elements.
LEMMA OwnElements ==
  ASSUME NEW S, NEW s \in Seq(S)
  PROVE  s \in Seq({s[i] : i \in 1 .. Len(s)})
<1>1. Len(s) \in Nat /\ DOMAIN s = 1 .. Len(s)
  OBVIOUS
<1>2. s = [i \in 1 .. Len(s) |-> s[i]]
  OBVIOUS
<1>3. s \in [1 .. Len(s) -> {s[i] : i \in 1 .. Len(s)}]
  BY <1>2
<1> QED
  BY <1>1, <1>3

\* A step that issues nothing: commands may complete, the bytes of a slot may
\* come, and the plan may end.
LEMMA NoneIssued ==
  ASSUME PlanInv, UNCHANGED <<rq, ext, cursor>>,
         \/ rpc' = rpc
         \/ rpc' \notin {"idle", "resolve", "head", "middle"},
         cmds' \subseteq cmds,
         \/ slots' = slots
         \/ \E i \in 1 .. Len(slots) : \E b : slots' = [slots EXCEPT ![i].lba = b]
  PROVE  PlanInv'
<1>1. /\ Len(slots') = Len(slots) /\ PlanTyped'
      /\ \A i \in 1 .. Len(slots) : /\ slots'[i].dst = slots[i].dst
                                    /\ slots'[i].from = slots[i].from
                                    /\ slots'[i].n = slots[i].n
  <2>1. CASE slots' = slots
    BY <2>1 DEF PlanInv, PlanTyped, Tidy, cursor
  <2>2. ASSUME NEW i \in 1 .. Len(slots), NEW b,
               slots' = [slots EXCEPT ![i].lba = b]
        PROVE  /\ Len(slots') = Len(slots) /\ PlanTyped'
               /\ \A j \in 1 .. Len(slots) : /\ slots'[j].dst = slots[j].dst
                                             /\ slots'[j].from = slots[j].from
                                             /\ slots'[j].n = slots[j].n
    <3> DEFINE S == {slots[j] : j \in 1 .. Len(slots)}
               e == [slots[i] EXCEPT !.lba = b]
    <3>1. slots \in Seq(S) /\ \A j \in 1 .. Len(slots) : Slot(slots[j])
      BY DEF PlanInv, PlanTyped
    <3>2. Slot(e) /\ e.dst = slots[i].dst /\ e.from = slots[i].from
            /\ e.n = slots[i].n
      BY <3>1 DEF Slot
    <3>3. slots' = [slots EXCEPT ![i] = e]
      BY <2>2
    <3> HIDE DEF e
    <3>4. slots' \in Seq(S \cup {e}) /\ Len(slots') = Len(slots)
      BY <3>1, <3>3
    <3>5. slots' \in Seq({slots'[j] : j \in 1 .. Len(slots')})
      <4> HIDE DEF S
      <4> QED
        BY <3>4, OwnElements
    <3>6. \A j \in 1 .. Len(slots) : slots'[j] = IF j = i THEN e ELSE slots[j]
      BY <3>1, <3>3
    <3>7. \A j \in 1 .. Len(slots') : Slot(slots'[j])
      BY <3>1, <3>2, <3>4, <3>6
    <3>8. PlanTyped'
      BY <3>5, <3>7 DEF PlanInv, PlanTyped, Tidy, cursor
    <3> QED
      BY <3>2, <3>4, <3>6, <3>8
  <2> QED
    BY <2>1, <2>2
<1>2. BeforeInv'
  <2>1. slots = <<>> => slots' = <<>>
    BY <1>1 DEF PlanInv, PlanTyped
  <2> QED
    BY <2>1 DEF PlanInv, BeforeInv, cursor
<1>3. CursorInv'
  BY DEF PlanInv, CursorInv, cursor
<1>4. Issued \subseteq Issued'
  BY DEF Issued, Seen, Rest, Asked, Holds, cursor
<1>5. Targets' \subseteq Targets
  BY <1>1 DEF Targets
<1>6. Scattered(Targets', Issued')
  BY <1>4, <1>5 DEF PlanInv, IssueInv, Scattered
<1>7. IssueInv'
  BY <1>1, <1>6 DEF PlanInv, IssueInv
<1> QED
  BY <1>1, <1>2, <1>3, <1>7 DEF PlanInv

\* The next n bytes of the current extent are issued.
LEMMA IssueKeeps ==
  ASSUME PlanInv, rpc \in {"head", "middle"}, NEW n \in Nat, 0 < n, n <= left,
         UNCHANGED <<rq, ext, xi, skip>>,
         \/ rpc' = "middle" /\ dst' = dst + n /\ left' = left - n
         \/ rpc' = "extent" /\ n = left,
         Targets' = Targets \cup {dst .. dst + n - 1}
  PROVE  BeforeInv' /\ CursorInv' /\ Scattered(Targets', Issued')
<1> DEFINE T == dst .. dst + n - 1
<1>1. /\ dst \in Nat /\ left \in Nat /\ skip \in Nat /\ xi \in Nat
      /\ CursorInv /\ PlanTyped /\ Scattered(Targets, Issued)
      /\ Rest = dst .. dst + left - 1 /\ Rest \subseteq Seen
  BY RestSeen DEF PlanInv, PlanTyped, CursorInv, IssueInv, Tidy
<1>2. BeforeInv'
  BY DEF BeforeInv
<1>3. CursorInv'
  <2>1. CASE rpc' = "extent"
    BY <2>1 DEF CursorInv
  <2>2. CASE rpc' = "middle" /\ dst' = dst + n /\ left' = left - n
    <3>1. /\ rq.off \in Nat /\ rq.n \in Nat /\ xi > 1 /\ dst + left <= rq.n
          /\ ext[xi - 1].fo <= rq.off + dst
          /\ rq.off + dst + left <= ext[xi - 1].fo + ext[xi - 1].len
      BY <1>1 DEF CursorInv, PlanTyped
    <3>2. ext[xi - 1].fo \in Nat /\ ext[xi - 1].len \in Nat
      <4>1. xi - 1 \in 1 .. Len(ext)
        BY <1>1, <3>1 DEF PlanTyped, Tidy
      <4> QED
        BY <1>1, <4>1 DEF PlanTyped, Tidy
    <3>3. dst' \in Nat /\ left' \in Nat /\ dst' + left' = dst + left
      BY <1>1, <2>2
    <3>4. ext[xi - 1].fo <= rq.off + dst' /\ rq.off + dst' + left' <= ext[xi - 1].fo + ext[xi - 1].len
      BY <1>1, <2>2, <3>1, <3>2
    <3> QED
      BY <1>1, <2>2, <3>1, <3>3, <3>4 DEF CursorInv
  <2> QED
    BY <2>1, <2>2
<1>4. Seen' = Seen
  BY DEF Seen, Asked, Holds
<1>5. T # {} /\ T \subseteq Rest
  <2>1. dst \in T
    BY <1>1
  <2>2. \A k \in T : k \in dst .. dst + left - 1
    BY <1>1
  <2> QED
    BY <1>1, <2>1, <2>2
<1>6. T \cap Issued = {}
  BY <1>5 DEF Issued
<1>7. Issued' = Seen \ Rest'
  BY <1>4 DEF Issued
<1>8. Rest' \cap T = {} /\ Rest' \subseteq Rest
  <2>1. CASE rpc' = "middle" /\ dst' = dst + n /\ left' = left - n
    <3>1. Rest' = dst + n .. dst + n + (left - n) - 1
      BY <2>1 DEF Rest
    <3> QED
      BY <1>1, <3>1
  <2>2. CASE rpc' = "extent"
    BY <2>2 DEF Rest
  <2> QED
    BY <2>1, <2>2
<1>9. Issued \subseteq Issued' /\ T \subseteq Issued'
  BY <1>1, <1>5, <1>7, <1>8 DEF Issued
<1> HIDE DEF T
<1>10. Scattered(Targets \cup {T}, Issued')
  BY <1>1, <1>5, <1>6, <1>9, OneMore
<1> QED
  BY <1>2, <1>3, <1>10 DEF T

\* A slot more.
LEMMA BounceKeeps ==
  ASSUME PlanInv, rpc \in {"head", "middle"}, NEW from \in Nat, NEW n \in Nat,
         0 < n, n <= left, from + n <= Lba, Bounce(from, n),
         UNCHANGED <<rq, ext, xi, skip>>,
         \/ rpc' = "middle" /\ dst' = dst + n /\ left' = left - n
         \/ rpc' = "extent" /\ n = left
  PROVE  PlanInv'
<1> DEFINE S == {slots[j] : j \in 1 .. Len(slots)}
           e == [dst |-> dst, from |-> from, n |-> n,
                 lba |-> [k \in 0 .. Lba - 1 |-> Junk]]
<1>1. slots \in Seq(S) /\ \A j \in 1 .. Len(slots) : Slot(slots[j])
  BY DEF PlanInv, PlanTyped
<1>2. dst \in Nat
  BY DEF PlanInv, CursorInv
<1>3. Slot(e) /\ e.dst = dst /\ e.from = from /\ e.n = n
  BY <1>2 DEF Slot
<1>4. slots' = Append(slots, e)
  BY DEF Bounce
<1> HIDE DEF e
<1>5. slots' \in Seq(S \cup {e}) /\ Len(slots') = Len(slots) + 1
  BY <1>1, <1>4
<1>6. slots' \in Seq({slots'[j] : j \in 1 .. Len(slots')})
  <2> HIDE DEF S
  <2> QED
    BY <1>5, OwnElements
<1>7. \A j \in 1 .. Len(slots') :
        slots'[j] = IF j = Len(slots) + 1 THEN e ELSE slots[j]
  BY <1>1, <1>4
<1>8. Len(slots) \in Nat
  BY <1>1
<1>9. PlanTyped'
  <2>1. ASSUME NEW j \in 1 .. Len(slots') PROVE Slot(slots'[j])
    <3>1. CASE j = Len(slots) + 1
      BY <1>3, <1>7, <3>1
    <3>2. CASE j # Len(slots) + 1
      <4>1. j \in 1 .. Len(slots) /\ slots'[j] = slots[j]
        BY <1>5, <1>7, <1>8, <3>2
      <4> QED
        BY <1>1, <4>1
    <3> QED
      BY <3>1, <3>2
  <2> QED
    BY <1>6, <2>1 DEF PlanInv, PlanTyped
<1>10. Targets' = Targets \cup {dst .. dst + n - 1}
  <2>1. {c \in cmds' : c.slot = 0} = {c \in cmds : c.slot = 0}
    BY <1>8 DEF Bounce
  <2>2. {slots'[i].dst .. slots'[i].dst + slots'[i].n - 1 :
           i \in 1 .. Len(slots')}
        = {slots[i].dst .. slots[i].dst + slots[i].n - 1 :
             i \in 1 .. Len(slots)} \cup {dst .. dst + n - 1}
    BY <1>3, <1>5, <1>7, <1>8
  <2>3. Targets' = {c.dst .. c.dst + (c.nlb + 1) * Lba - 1 :
                      c \in {d \in cmds' : d.slot = 0}}
          \cup {slots'[i].dst .. slots'[i].dst + slots'[i].n - 1 :
                  i \in 1 .. Len(slots')}
    BY DEF Targets
  <2> QED
    BY <2>1, <2>2, <2>3 DEF Targets
<1>11. BeforeInv' /\ CursorInv' /\ Scattered(Targets', Issued')
  BY <1>10, IssueKeeps
<1>12. \A i \in 1 .. Len(slots') : slots'[i].from + slots'[i].n <= Lba
  BY <1>3, <1>5, <1>7, <1>8 DEF PlanInv, IssueInv
<1> QED
  BY <1>9, <1>11, <1>12 DEF PlanInv, IssueInv

\* The head of the current extent.
LEMMA IssueHeadKeeps ==
  ASSUME PlanInv, IssueHead
  PROVE  PlanInv'
<1> DEFINE n == HeadLen
<1>1. /\ rpc = "head" /\ ~Refused(skip, n) /\ Bounce(skip, n)
      /\ dst' = dst + n /\ left' = left - n /\ rpc' = "middle"
      /\ UNCHANGED <<rq, ext, xi, skip>>
  BY DEF IssueHead
<1>2. left \in Nat /\ left > 0 /\ skip \in Nat /\ skip < Lba /\ Lba \in Nat
  BY <1>1, StoreAssumption DEF PlanInv, CursorInv
<1>3. n \in Nat /\ 0 < n /\ n <= left /\ skip + n <= Lba
  BY <1>2 DEF HeadLen, LesserOf
<1> HIDE DEF n
<1> QED
  BY <1>1, <1>2, <1>3, BounceKeeps

\* Its tail.
LEMMA IssueTailKeeps ==
  ASSUME PlanInv, IssueTail
  PROVE  PlanInv'
<1>1. left \in Nat /\ Lba \in Nat /\ 0 < left /\ left < Lba
  BY StoreAssumption DEF IssueTail, PlanInv, CursorInv
<1> QED
  BY <1>1, BounceKeeps DEF IssueTail, cursor

\* What one command of the middle reads.
LEMMA ChunkIs ==
  ASSUME left \in Nat, left >= Lba
  PROVE  /\ ChunkLbas \in Nat /\ ChunkLbas * Lba \in Nat
         /\ 0 < ChunkLbas /\ ChunkLbas * Lba <= left
         /\ Lba <= ChunkLbas * Lba
         /\ ((ChunkLbas - 1) % MaxNlb) + 1 = ChunkLbas
<1>1. Lba \in Nat \ {0} /\ MdtsLbas \in Nat \ {0} /\ MaxNlb \in Nat \ {0}
  BY StoreAssumption, PlanAssumption
<1> DEFINE d == left \div Lba
<1>2. d \in Nat /\ left = d * Lba + (left % Lba) /\ left % Lba \in Nat
      /\ left % Lba < Lba
  BY <1>1, DivMod
<1>3. d * Lba \in Nat /\ d * Lba <= left
  BY <1>1, <1>2
<1>4. d > 0
  <2>1. SUFFICES ASSUME d = 0 PROVE FALSE
    BY <1>2
  <2> QED
    BY <1>1, <1>2, <2>1
<1>5. /\ ChunkLbas \in Nat /\ 0 < ChunkLbas /\ ChunkLbas <= d
      /\ ChunkLbas <= MaxNlb
  <2> HIDE DEF d
  <2>1. ChunkLbas = LesserOf(LesserOf(d, MdtsLbas), MaxNlb)
    BY DEF ChunkLbas, d
  <2> QED
    BY <1>1, <1>2, <1>4, <2>1 DEF LesserOf
<1> HIDE DEF d
<1>6. /\ ChunkLbas * Lba \in Nat /\ ChunkLbas * Lba <= d * Lba
      /\ Lba <= ChunkLbas * Lba
  <2>1. /\ ChunkLbas \in Int /\ d \in Int /\ 1 \in Int /\ Lba \in Nat
        /\ ChunkLbas <= d /\ 1 <= ChunkLbas
    BY <1>1, <1>2, <1>5
  <2>2. ChunkLbas * Lba <= d * Lba
    BY <2>1, Distance
  <2>3. 1 * Lba <= ChunkLbas * Lba
    BY <2>1, Distance
  <2> QED
    BY <1>1, <1>5, <2>2, <2>3
<1>7. (ChunkLbas - 1) % MaxNlb = ChunkLbas - 1
  BY <1>1, <1>5
<1> QED
  BY <1>3, <1>5, <1>6, <1>7

\* A command of the middle.
LEMMA IssueChunkKeeps ==
  ASSUME PlanInv, IssueChunk
  PROVE  PlanInv'
<1> DEFINE n == ChunkLbas * Lba
           c == [slot |-> 0, slba |-> slba, nlb |-> (ChunkLbas - 1) % MaxNlb,
                 dst |-> dst]
<1>1. /\ rpc = "middle" /\ left >= Lba /\ cmds' = cmds \cup {c}
      /\ dst' = dst + n /\ left' = left - n
      /\ UNCHANGED <<rpc, rq, ext, xi, skip, slots>>
  BY DEF IssueChunk
<1>2. left \in Nat /\ Lba \in Nat \ {0}
  BY <1>1, StoreAssumption DEF PlanInv, CursorInv
<1>3. n \in Nat /\ 0 < n /\ n <= left /\ (c.nlb + 1) * Lba = n
  <2>1. /\ ChunkLbas * Lba \in Nat /\ ChunkLbas * Lba <= left
        /\ Lba <= ChunkLbas * Lba
        /\ ((ChunkLbas - 1) % MaxNlb) + 1 = ChunkLbas
    BY <1>1, <1>2, ChunkIs
  <2>2. c.nlb + 1 = ChunkLbas
    BY <2>1
  <2> QED
    BY <1>2, <2>1, <2>2
<1>4. c.slot = 0 /\ c.dst = dst
  OBVIOUS
<1> HIDE DEF n, c
<1>5. {d \in cmds' : d.slot = 0} = {d \in cmds : d.slot = 0} \cup {c}
  BY <1>1, <1>4
<1>6. Targets' = Targets \cup {dst .. dst + n - 1}
  <2>1. Targets' = {d.dst .. d.dst + (d.nlb + 1) * Lba - 1 :
                      d \in {x \in cmds' : x.slot = 0}}
          \cup {slots[i].dst .. slots[i].dst + slots[i].n - 1 :
                  i \in 1 .. Len(slots)}
    BY <1>1 DEF Targets
  <2> QED
    BY <1>3, <1>4, <1>5, <2>1 DEF Targets
<1>7. rpc' = "middle"
  BY <1>1
<1>8. BeforeInv' /\ CursorInv' /\ Scattered(Targets', Issued')
  BY <1>1, <1>3, <1>6, <1>7, IssueKeeps
<1>9. PlanTyped'
  BY <1>1 DEF PlanInv, PlanTyped, Tidy
<1> QED
  BY <1>1, <1>8, <1>9 DEF PlanInv, IssueInv

\* The next extent, if it meets the request.
LEMMA NextExtentKeeps ==
  ASSUME PlanInv, NextExtent
  PROVE  PlanInv' /\ Issued \subseteq Issued'
<1>1. /\ rpc = "extent"
      /\ UNCHANGED <<rq, ext, cmds, slots>>
      /\ PlanTyped /\ Tidy(ext) /\ rq.off \in Nat /\ rq.n \in Nat
      /\ Len(ext) \in Nat /\ xi \in Nat /\ xi >= 1
  BY DEF NextExtent, PlanInv, PlanTyped, Tidy, issued
<1>2. CASE NoneLeft
  <2>1. rpc' = "wait" /\ UNCHANGED cursor
    BY <1>2 DEF NextExtent
  <2>2. Issued \subseteq Issued'
    BY <1>1, <2>1 DEF Issued, Seen, Rest, Asked, Holds, cursor
  <2> QED
    BY <1>1, <2>1, <2>2, NoneIssued
<1>3. CASE ~NoneLeft
  <2> DEFINE e == ext[xi]
             from == SpanStart(e)
             to == SpanEnd(e)
  <2>1. xi <= Len(ext) /\ xi \in 1 .. Len(ext)
    BY <1>1, <1>3 DEF NoneLeft
  <2>2. /\ xi' = xi + 1
        /\ IF from >= to
             THEN UNCHANGED <<rpc, slba, dst, left, skip>>
             ELSE /\ dst' = from - rq.off /\ left' = to - from
                  /\ skip' = (from - e.fo) % Lba
                  /\ rpc' = IF (from - e.fo) % Lba # 0 THEN "head"
                                                       ELSE "middle"
    BY <1>3 DEF NextExtent
  <2>3. e.fo \in Nat /\ e.len \in Nat /\ Lba \in Nat \ {0}
    BY <1>1, <2>1, StoreAssumption DEF Tidy
  <2> HIDE DEF e
  <2>4. /\ from \in Nat /\ to \in Nat /\ from >= rq.off /\ from >= e.fo
        /\ to <= rq.off + rq.n /\ to <= e.fo + e.len
    BY <1>1, <2>3 DEF SpanStart, SpanEnd, GreaterOf, LesserOf, ReqEnd
  <2>5. (from - e.fo) % Lba \in 0 .. Lba - 1
    <3>1. from - e.fo \in Nat
      BY <2>3, <2>4
    <3> HIDE DEF from
    <3> QED
      BY <2>3, <3>1, DivMod
  <2> HIDE DEF from, to
  <2>6. PlanTyped'
    <3>1. xi' \in 1 .. Len(ext') + 1
      BY <1>1, <2>1, <2>2
    <3> QED
      BY <1>1, <3>1 DEF PlanTyped
  <2>7. Seen \subseteq Seen' /\ Issued = Seen
    <3>1. \A i \in 1 .. xi - 1 : i \in 1 .. xi' - 1
      BY <1>1, <2>2
    <3> QED
      BY <1>1, <3>1 DEF Seen, Issued, Rest, Asked, Holds
  <2>8. Targets' = Targets
    BY <1>1 DEF Targets
  <2>9. CASE from >= to
    <3>1. rpc' = "extent"
      BY <1>1, <2>2, <2>9
    <3>2. Issued \subseteq Issued'
      BY <2>7, <3>1 DEF Issued, Rest
    <3>3. BeforeInv' /\ CursorInv'
      BY <3>1 DEF BeforeInv, CursorInv
    <3>4. IssueInv'
      BY <1>1, <2>8, <3>2 DEF PlanInv, IssueInv, Scattered
    <3> QED
      BY <2>6, <3>2, <3>3, <3>4 DEF PlanInv
  <2>10. CASE ~(from >= to)
    <3>1. /\ rpc' \in {"head", "middle"} /\ dst' = from - rq.off
          /\ left' = to - from /\ skip' = (from - e.fo) % Lba
      BY <2>2, <2>10
    <3>2. BeforeInv'
      BY <3>1 DEF BeforeInv
    <3>3. ext'[xi' - 1] = e
      <4>1. xi' - 1 = xi
        BY <1>1, <2>2
      <4> QED
        BY <1>1, <4>1 DEF e
    <3>4. CursorInv'
      <4> DEFINE a == rq.off
                 b == rq.n
                 c == e.fo
                 d == e.len
      <4>0. /\ a \in Nat /\ b \in Nat /\ c \in Nat /\ d \in Nat
            /\ from \in Nat /\ to \in Nat /\ from >= a /\ from >= c
            /\ to <= a + b /\ to <= c + d /\ from < to
            /\ dst' = from - a /\ left' = to - from
        BY <1>1, <2>3, <2>4, <2>10, <3>1
      <4> HIDE DEF a, b, c, d
      <4>1. dst' \in Nat /\ left' \in Nat /\ left' > 0
        BY <4>0
      <4>5. skip' \in Nat /\ skip' < Lba
        BY <2>3, <2>5, <3>1
      <4>2. /\ dst' + left' <= b /\ c <= a + dst'
            /\ a + dst' + left' <= c + d
        BY <4>0
      <4>3. xi' > 1
        BY <1>1, <2>2
      <4> QED
        BY <1>1, <3>3, <4>1, <4>2, <4>3, <4>5 DEF CursorInv, a, b, c, d
    <3>8. \A k \in Seen : k \in Nat
      BY <1>1 DEF Seen, Asked
    <3>5. ASSUME NEW k \in Nat, k \in Seen PROVE k \notin Rest'
      <4>1. PICK i \in 1 .. xi - 1 : Holds(ext[i], rq.off + k)
        BY <3>5 DEF Seen
      <4>2. i \in 1 .. Len(ext) /\ i < xi
        BY <1>1, <2>1, <4>1
      <4>3. ext[i].fo + ext[i].len <= e.fo /\ ext[i].fo \in Nat
              /\ ext[i].len \in Nat
        BY <1>1, <2>1, <4>2 DEF Tidy, e
      <4>4. k \in Nat /\ rq.off + k < from
        <5>1. k \in Nat
          OBVIOUS
        <5> DEFINE a == rq.off
                   c == e.fo
                   d == ext[i].fo + ext[i].len
        <5>2. a \in Nat /\ c \in Nat /\ d \in Nat /\ from \in Nat
          <6>1. a \in Nat
            BY <1>1
          <6>2. c \in Nat
            BY <2>3
          <6>3. d \in Nat
            BY <4>3
          <6>4. from \in Nat
            BY <2>4
          <6> QED
            BY <6>1, <6>2, <6>3, <6>4
        <5>4. a + k < d
          BY <4>1 DEF Holds
        <5>5. d <= c
          BY <4>3
        <5>6. c <= from
          BY <2>3, <2>4
        <5> HIDE DEF a, c, d
        <5>3. a + k < from
          BY <5>1, <5>2, <5>4, <5>5, <5>6
        <5> QED
          BY <5>1, <5>3 DEF a
      <4>7. rq.off \in Nat /\ from \in Nat /\ to \in Nat
              /\ dst' = from - rq.off /\ left' = to - from
        BY <1>1, <2>4, <3>1
      <4>5. k < dst'
        BY <4>4, <4>7
      <4>6. Rest' = dst' .. dst' + left' - 1 /\ dst' \in Int /\ left' \in Int
        BY <3>1, <4>7 DEF Rest
      <4>8. k \notin dst' .. dst' + left' - 1
        <5>1. k \in Int /\ dst' \in Int /\ dst' + left' - 1 \in Int
          BY <4>4, <4>6
        <5>2. \A x, y, z \in Int : x < y => x \notin y .. z
          OBVIOUS
        <5> QED
          BY <4>5, <5>1, <5>2
      <4>9. Rest' = dst' .. dst' + left' - 1
        BY <4>6
      <4> QED
        BY <4>8, <4>9
    <3>6. Issued \subseteq Issued'
      BY <2>7, <3>5, <3>8 DEF Issued
    <3>7. IssueInv'
      BY <1>1, <2>8, <3>6 DEF PlanInv, IssueInv, Scattered
    <3> QED
      BY <2>6, <3>2, <3>4, <3>6, <3>7 DEF PlanInv
  <2> QED
    BY <2>9, <2>10
<1> QED
  BY <1>2, <1>3

\* Before anything is issued.
Unplanned == /\ cmds = {} /\ slots = <<>> /\ xi = 1 /\ Tidy(ext)
             /\ rpc \notin {"head", "middle"}
             /\ rq.off \in Nat /\ rq.n \in Nat
             /\ rq.n <= (NBlocks + 2) * Align

\* The plan's invariant holds then.
LEMMA NothingIssued == Unplanned => PlanInv
<1> SUFFICES ASSUME Unplanned PROVE PlanInv
  OBVIOUS
<1> USE DEF Unplanned
<1>1. Len(slots) = 0 /\ slots \in Seq({slots[i] : i \in 1 .. Len(slots)})
  OBVIOUS
<1>2. PlanTyped
  <2>1. xi \in 1 .. Len(ext) + 1
    BY DEF Tidy
  <2> QED
    BY <1>1, <2>1 DEF PlanTyped
<1>3. Targets = {}
  BY <1>1 DEF Targets
<1> QED
  BY <1>1, <1>2, <1>3 DEF PlanInv, BeforeInv, CursorInv, IssueInv, Scattered

\* HOMI answers, or has to be asked again.
LEMMA ResolveKeeps ==
  ASSUME StoreTyped, PlanInv, Resolve
  PROVE  PlanInv'
<1>1. CASE dirty
  BY <1>1, NoneIssued DEF Resolve
<1>2. CASE ~dirty
  <2>1. /\ ext' = Extents /\ rpc' = "extent" /\ rpc = "resolve"
        /\ UNCHANGED <<rq, cursor, cmds, slots>>
    BY <1>2 DEF Resolve
  <2>2. Tidy(Extents)
    BY ExtentsTidy DEF StoreTyped
  <2>3. Unplanned'
    <3>1. /\ cmds' = {} /\ slots' = <<>> /\ xi' = 1
          /\ rq'.off \in Nat /\ rq'.n \in Nat
          /\ rq'.n <= (NBlocks + 2) * Align
      BY <2>1 DEF PlanInv, BeforeInv, PlanTyped, cursor
    <3> QED
      BY <2>1, <2>2, <3>1 DEF Unplanned
  <2> QED
    BY <2>3, NothingIssued, PTL
<1> QED
  BY <1>1, <1>2

\* The blocks of the file, and those HOMI knows of, are blocks.
LEMMA StoreNext ==
  ASSUME StoreTyped, [Next]_vars
  PROVE  StoreTyped'
<1> USE DEF StoreTyped
<1>1. \A from, to : BlocksOf(from, to) \subseteq Blocks
  BY DEF BlocksOf
<1>2. ASSUME UNCHANGED storeVars PROVE StoreTyped'
  BY <1>2 DEF storeVars, fileVars, homiVars
<1>3. ASSUME NEW o \in Writes, WriteGoes(o) \/ WriteFaults(o)
      PROVE  StoreTyped'
  <2>1. CASE DirectGoes(o)
    <3>1. ASSUME UNCHANGED fileVars, UNCHANGED homiVars PROVE StoreTyped'
      BY <3>1 DEF fileVars, homiVars
    <3>2. CASE WriteSome(o)
      BY <1>1, <2>1, <3>2 DEF WriteSome, Pwrite, DirectGoes, homiVars
    <3>3. CASE Truncate(o)
      BY <1>1, <2>1, <3>3 DEF Truncate, Ftruncate, DirectGoes, homiVars
    <3> QED
      BY <2>1, <3>1, <3>2, <3>3 DEF DirectGoes
  <2>2. CASE PlainWrite(o)
    BY <1>1, <2>2 DEF PlainWrite, Pwrite, homiVars
  <2>3. CASE FinishWrite(o)
    BY <2>3 DEF FinishWrite, MarkDirty, fileVars, homiVars
  <2>4. CASE WriteFaults(o)
    BY <1>2, <2>4 DEF WriteFaults, DirectFails, PlainFails, MarkFails
  <2> QED
    BY <1>3, <2>1, <2>2, <2>3, <2>4 DEF WriteGoes
<1>4. CASE HomiStep
  BY <1>4 DEF HomiStep, Refresh, fileVars
<1>5. CASE ReadGoes \/ ReadFaults
  <2>1. UNCHANGED storeVars
    BY <1>5 DEF ReadGoes, ReadFaults, PlanGoes, PreadGoes, PlainRead,
                PlanFaults, PreadFault, PlainReadFails
  <2> QED
    BY <1>2, <2>1
<1>6. CASE \E o \in Writes, q \in WriteReqs, a \in BOOLEAN :
             SubmitWrite(o, q, a)
  BY <1>2, <1>6 DEF SubmitWrite
<1>7. CASE \/ \E q \in ReadReqs : SubmitRead(q)
           \/ \E q \in ReadReqs, a \in BOOLEAN : SubmitRefRead(q, a)
  BY <1>2, <1>7 DEF SubmitRead, SubmitRefRead
<1>8. CASE UNCHANGED vars
  BY <1>2, <1>8 DEF vars
<1> QED
  BY <1>3, <1>4, <1>5, <1>6, <1>7, <1>8 DEF Next

\* A step of a read that the plan has.
LEMMA PlanStep ==
  ASSUME StoreTyped, PlanInv, PlanGoes \/ PlanFaults
  PROVE  PlanInv'
<1>1. CASE Resolve
  BY <1>1, ResolveKeeps
<1>2. CASE NextExtent
  BY <1>2, NextExtentKeeps
<1>3. CASE IssueHead
  BY <1>3, IssueHeadKeeps
<1>4. CASE IssueChunk
  BY <1>4, IssueChunkKeeps
<1>5. CASE IssueTail
  BY <1>5, IssueTailKeeps
<1>6. CASE NoTail
  <2>1. UNCHANGED <<rq, ext, cursor, cmds, slots>> /\ rpc' = "extent"
    BY <1>6 DEF NoTail, issued
  <2> QED
    BY <2>1, NoneIssued
<1>7. CASE PlanRefuses \/ SubmitFails \/ ResolveFails
  <2>1. UNCHANGED <<rq, ext, cursor, cmds, slots>> /\ rpc' = "wait"
    BY <1>7 DEF PlanRefuses, SubmitFails, ResolveFails, GiveUp
  <2> QED
    BY <2>1, NoneIssued
<1>8. CASE CompleteRead \/ CopyBackFails
  <2>1. UNCHANGED <<rq, ext, cursor, cmds, slots>> /\ rpc' = "ret"
    BY <1>8 DEF CompleteRead, CopyBackFails, planVars, issued
  <2> QED
    BY <2>1, NoneIssued
<1>9. ASSUME NEW c \in cmds, Complete(c) PROVE PlanInv'
  <2>1. UNCHANGED <<rq, ext, cursor>> /\ rpc' = rpc /\ cmds' \subseteq cmds
    BY <1>9 DEF Complete
  <2>2. \/ slots' = slots
        \/ slots' = [slots EXCEPT ![c.slot].lba =
                       [k \in 0 .. Lba - 1 |-> OnDevice(c.slba, k)]]
    BY <1>9 DEF Complete
  <2>3. CASE slots' = slots
    BY <2>1, <2>3, NoneIssued
  <2>4. CASE c.slot \in 1 .. Len(slots) /\ slots' # slots
    <3> DEFINE b == [k \in 0 .. Lba - 1 |-> OnDevice(c.slba, k)]
    <3>1. slots' = [slots EXCEPT ![c.slot].lba = b]
      BY <2>2, <2>4
    <3> HIDE DEF b
    <3>2. \E i \in 1 .. Len(slots) : \E x :
            slots' = [slots EXCEPT ![i].lba = x]
      BY <2>4, <3>1
    <3> QED
      BY <2>1, <3>2, NoneIssued
  <2>5. CASE c.slot \notin 1 .. Len(slots)
    <3> DEFINE S == {slots[i] : i \in 1 .. Len(slots)}
               x == [slots[c.slot] EXCEPT !.lba =
                       [k \in 0 .. Lba - 1 |-> OnDevice(c.slba, k)]]
    <3>1. slots \in Seq(S)
      BY DEF PlanInv, PlanTyped
    <3>3. slots' = slots \/ slots' = [slots EXCEPT ![c.slot] = x]
      BY <2>2
    <3> HIDE DEF S, x
    <3>4. slots = [i \in 1 .. Len(slots) |-> slots[i]]
      BY <3>1
    <3>5. [slots EXCEPT ![c.slot] = x] = [i \in 1 .. Len(slots) |-> slots[i]]
      BY <2>5, <3>1
    <3>2. slots' = slots
      BY <3>3, <3>4, <3>5
    <3> QED
      BY <2>3, <3>2
  <2> QED
    BY <2>3, <2>4, <2>5
<1>10. ASSUME NEW c \in cmds, CompleteFails(c) PROVE PlanInv'
  <2>1. /\ UNCHANGED <<rq, ext, cursor, slots>> /\ rpc' = rpc
        /\ cmds' \subseteq cmds
    BY <1>10 DEF CompleteFails
  <2> QED
    BY <2>1, NoneIssued
<1> QED
  BY <1>1, <1>2, <1>3, <1>4, <1>5, <1>6, <1>7, <1>8, <1>9, <1>10
     DEF PlanGoes, PlanFaults

\* A read begins.
LEMMA PlanBegins ==
  ASSUME PlanInv, NEW q \in ReadReqs, NEW a \in BOOLEAN,
         SubmitRead(q) \/ SubmitRefRead(q, a)
  PROVE  PlanInv'
<1>1. /\ q.off \in Nat /\ q.n \in Nat /\ q.n <= (NBlocks + 2) * Align
  BY RequestAssumption
<1>2. Tidy(ext) /\ ext' = ext
  BY DEF PlanInv, PlanTyped, SubmitRead, SubmitRefRead, BeginPlan, planVars
<1>3. rpc = "idle" /\ rq' = q /\ rpc' \notin {"head", "middle"}
  BY DEF SubmitRead, SubmitRefRead, BeginPlan, ReadReturns
<1>4. cmds' = {} /\ slots' = <<>> /\ xi' = 1
  BY <1>3 DEF PlanInv, BeforeInv, SubmitRead, SubmitRefRead, BeginPlan,
              planVars, cursor, issued
<1>5. Unplanned'
  BY <1>1, <1>2, <1>3, <1>4 DEF Unplanned
<1> QED
  BY <1>5, NothingIssued, PTL

\* Every step keeps the plan's invariant.
LEMMA PlanNext ==
  ASSUME StoreTyped, PlanInv, [Next]_vars
  PROVE  PlanInv'
<1>1. ASSUME UNCHANGED <<rq, planVars>>,
             \/ rpc' = rpc
             \/ rpc' \notin {"idle", "resolve", "head", "middle"}
      PROVE  PlanInv'
  BY <1>1, NoneIssued DEF planVars, issued
<1>2. CASE PlanGoes \/ PlanFaults
  BY <1>2, PlanStep
<1>3. CASE PlainRead \/ PlainReadFails
  <2>1. UNCHANGED <<rq, planVars>> /\ rpc' = "ret"
    BY <1>3 DEF PlainRead, PlainReadFails, ReadReturns
  <2> QED
    BY <1>1, <2>1
<1>4. CASE (PreadGoes \/ PreadFault) /\ UNCHANGED planVars
  <2>1. UNCHANGED rq /\ rpc' \in {"ret", "pread", "copyout"}
    BY <1>4 DEF PreadGoes, PreadFault, PreadSome, CopyOut, PreadFails,
                ReadReturns
  <2> QED
    BY <1>1, <1>4, <2>1
<1>5. ASSUME NEW q \in ReadReqs, SubmitRead(q) PROVE PlanInv'
  BY <1>5, PlanBegins
<1>6. ASSUME NEW q \in ReadReqs, NEW a \in BOOLEAN, SubmitRefRead(q, a)
      PROVE  PlanInv'
  BY <1>6, PlanBegins
<1>7. CASE \/ \E o \in Writes, q \in WriteReqs, a \in BOOLEAN :
                SubmitWrite(o, q, a)
           \/ \E o \in Writes : WriteGoes(o) \/ WriteFaults(o)
           \/ HomiStep \/ UNCHANGED vars
  <2>1. UNCHANGED <<readVars, planVars>>
    BY <1>7 DEF SubmitWrite, WriteGoes, WriteFaults, DirectGoes, PlainWrite,
                FinishWrite, DirectFails, PlainFails, MarkFails, HomiStep, vars
  <2> QED
    BY <1>1, <2>1 DEF readVars
<1> QED
  BY <1>2, <1>3, <1>4, <1>5, <1>6, <1>7 DEF Next, ReadGoes, ReadFaults

\* What a read issues: always, whatever writes and failures there are.
LEMMA PlanAlways == Spec => [](StoreTyped /\ PlanInv)
<1>1. Init => StoreTyped /\ PlanInv
  <2> SUFFICES ASSUME Init PROVE StoreTyped /\ Unplanned
    BY NothingIssued
  <2>1. StoreTyped
    BY DEF Init, StoreInit, StoreTyped, BlocksOf
  <2>2. /\ rq = [mode |-> "async", off |-> 0, n |-> 0] /\ rpc = "idle"
        /\ ext = <<>> /\ xi = 1 /\ cmds = {} /\ slots = <<>>
    BY DEF Init, StoreInit, PlanInit
  <2>3. Tidy(ext)
    BY <2>2 DEF Tidy
  <2>4. rq.n <= (NBlocks + 2) * Align
    <3>1. NBlocks + 2 \in Nat /\ Align \in Nat
      BY StoreAssumption
    <3> QED
      BY <2>2, <3>1
  <2>5. rq.off \in Nat /\ rq.n \in Nat
    BY <2>2
  <2>6. Unplanned
    BY <2>2, <2>3, <2>4, <2>5 DEF Unplanned
  <2> QED
    BY <2>1, <2>6
<1>2. StoreTyped /\ PlanInv /\ [Next]_vars => (StoreTyped /\ PlanInv)'
  BY StoreNext, PlanNext
<1> QED
  BY <1>1, <1>2, PTL DEF Spec

\* Whatever a read of the aisio backend has asked the device and the copies for
\* lies within the caller's buffer, byte by byte apart, and every copy stays in
\* its slot: for all requests, extents and limits on a command, and whatever
\* fails (start_read_op, submit_read_middle, submit_partial).
THEOREM ReadsInBuffer == Spec => []InBuffer
<1>1. StoreTyped /\ PlanInv => InBuffer
  BY DEF PlanInv, IssueInv, Scattered, Issued, Seen, InBuffer
<1> QED
  BY <1>1, PlanAlways, PTL
-----------------------------------------------------------------------------
(***************************************************************************)
(* Where the extents say the file's bytes are.                             *)
(***************************************************************************)

\* Quotient and remainder are the only ones.
LEMMA DivModIs ==
  ASSUME NEW q \in Nat, NEW b \in Nat \ {0}, NEW r \in 0 .. b - 1
  PROVE  (q * b + r) \div b = q /\ (q * b + r) % b = r
<1> DEFINE a == q * b + r
           d == a \div b
           m == a % b
<1>1. q * b \in Nat /\ a \in Nat
  OBVIOUS
<1> HIDE DEF a
<1>2. d \in Nat /\ m \in 0 .. b - 1 /\ a = d * b + m
  BY <1>1, DivMod
<1>3. a = q * b + r
  BY DEF a
<1> HIDE DEF d, m
<1>4. d * b \in Nat
  BY <1>2
<1>5. ~(d < q)
  <2>1. SUFFICES ASSUME d < q PROVE FALSE
    OBVIOUS
  <2>2. (d + 1) * b = d * b + b /\ d + 1 \in Int /\ d + 1 <= q /\ q \in Int
    BY <1>2, <2>1
  <2>3. (d + 1) * b <= q * b
    BY <2>2, Distance
  <2> QED
    BY <1>1, <1>2, <1>3, <1>4, <2>2, <2>3
<1>6. ~(q < d)
  <2>1. SUFFICES ASSUME q < d PROVE FALSE
    OBVIOUS
  <2>2. (q + 1) * b = q * b + b /\ q + 1 \in Int /\ q + 1 <= d /\ d \in Int
    BY <1>2, <2>1
  <2>3. (q + 1) * b <= d * b
    BY <2>2, Distance
  <2> QED
    BY <1>1, <1>2, <1>3, <1>4, <2>2, <2>3
<1>7. d = q
  BY <1>2, <1>5, <1>6
<1>8. m = r
  BY <1>1, <1>2, <1>3, <1>7
<1> QED
  BY <1>7, <1>8 DEF a, d, m

\* Whole units before y shift its quotient and leave its remainder.
LEMMA Shift ==
  ASSUME NEW x \in Nat, NEW y \in Nat, NEW b \in Nat \ {0}
  PROVE  /\ (x * b + y) \div b = x + (y \div b)
         /\ (x * b + y) % b = y % b
<1> DEFINE d == y \div b
           m == y % b
<1>1. d \in Nat /\ m \in 0 .. b - 1 /\ y = d * b + m
  BY DivMod
<1> HIDE DEF d, m
<1>2. x * b + y = (x + d) * b + m /\ x + d \in Nat
  BY <1>1
<1>3. ((x + d) * b + m) \div b = x + d /\ ((x + d) * b + m) % b = m
  BY <1>1, <1>2, DivModIs
<1> QED
  BY <1>2, <1>3 DEF d, m

\* LBAs of a block.
PerBlock == Align \div Lba

\* The file's unit and the device's.
LEMMA Units ==
  /\ Align \in Nat \ {0} /\ Lba \in Nat \ {0} /\ NBlocks \in Nat
  /\ PerBlock \in Nat \ {0} /\ Align = PerBlock * Lba
  /\ Place \in [Blocks -> Nat]
<1>1. /\ Align \in Nat \ {0} /\ Lba \in Nat \ {0} /\ Align % Lba = 0
      /\ NBlocks \in Nat /\ Place \in [Blocks -> Nat]
  BY StoreAssumption
<1>2. PerBlock \in Nat /\ Align = PerBlock * Lba + (Align % Lba)
  BY <1>1, DivMod DEF PerBlock
<1>3. Align = PerBlock * Lba
  <2>1. PerBlock * Lba \in Nat
    BY <1>1, <1>2
  <2> QED
    BY <1>1, <1>2, <2>1
<1>4. PerBlock # 0
  <2>1. SUFFICES ASSUME PerBlock = 0 PROVE FALSE
    OBVIOUS
  <2>2. 0 * Lba = 0
    BY <1>1
  <2> QED
    BY <1>1, <1>3, <2>1, <2>2
<1> QED
  BY <1>1, <1>2, <1>3, <1>4

\* A position: its block, its LBA in the block, its byte in the LBA.
LEMMA PositionIs ==
  ASSUME NEW p \in Positions
  PROVE  /\ p \in Nat /\ p \div Align \in Blocks /\ p % Align \in 0 .. Align - 1
         /\ p = (p \div Align) * Align + (p % Align)
         /\ (p % Align) \div Lba \in 0 .. PerBlock - 1
         /\ p % Lba \in 0 .. Lba - 1
         /\ p % Align = ((p % Align) \div Lba) * Lba + (p % Lba)
<1> DEFINE b == p \div Align
           r == p % Align
           l == r \div Lba
<1>0. /\ Align \in Nat \ {0} /\ Lba \in Nat \ {0} /\ NBlocks \in Nat
      /\ PerBlock \in Nat \ {0} /\ Align = PerBlock * Lba
  BY Units
<1>1. p \in Nat /\ p < NBlocks * Align
  <2>1. NBlocks * Align \in Nat
    BY <1>0
  <2> QED
    BY <2>1 DEF Positions
<1>2. b \in Nat /\ r \in 0 .. Align - 1 /\ p = b * Align + r
  BY <1>0, <1>1, DivMod
<1>3. b < NBlocks
  <2>1. b * Align < NBlocks * Align
    <3>1. b * Align \in Nat /\ NBlocks * Align \in Nat
      BY <1>0, <1>2
    <3> HIDE DEF b, r
    <3> QED
      BY <1>0, <1>1, <1>2, <3>1
  <2> HIDE DEF b
  <2> QED
    BY <1>0, <1>2, <2>1, NextMultiple
<1>4. r \in Nat
  BY <1>0, <1>2
<1> HIDE DEF b, r
<1>5. l \in Nat /\ r % Lba \in 0 .. Lba - 1 /\ r = l * Lba + (r % Lba)
  BY <1>0, <1>4, DivMod
<1>6. l < PerBlock
  <2> HIDE DEF l
  <2>1. l * Lba < PerBlock * Lba
    <3>1. l * Lba \in Nat
      BY <1>0, <1>5
    <3> QED
      BY <1>0, <1>2, <1>4, <1>5, <3>1
  <2> QED
    BY <1>0, <1>5, <2>1, NextMultiple
<1>7. p % Lba = r % Lba
  <2>1. p = (b * PerBlock) * Lba + r /\ b * PerBlock \in Nat
    <3>1. b * (PerBlock * Lba) = (b * PerBlock) * Lba
      BY <1>0, <1>2
    <3>2. b * PerBlock \in Nat
      BY <1>0, <1>2
    <3> QED
      BY <1>0, <1>2, <3>1, <3>2
  <2> QED
    BY <1>0, <1>4, <2>1, Shift
<1>8. b \in Blocks
  BY <1>0, <1>2, <1>3 DEF Blocks
<1>9. l \in 0 .. PerBlock - 1
  <2> HIDE DEF l
  <2> QED
    BY <1>0, <1>5, <1>6
<1> QED
  BY <1>1, <1>2, <1>5, <1>7, <1>8, <1>9 DEF b, r, l

\* The blocks of a run lie one after the other on the device.
LEMMA RunPlace ==
  ASSUME cache \in SUBSET Blocks, NEW s \in cache,
         NEW c \in s .. RunEnd(s) - 1
  PROVE  c \in cache /\ Place[c] = Place[s] + (c - s) * PerBlock
<1>0. /\ PerBlock \in Nat \ {0} /\ Place \in [Blocks -> Nat] /\ NBlocks \in Nat
      /\ s \in Nat
  BY Units DEF Blocks
<1>1. /\ RunEnd(s) \in s + 1 .. NBlocks
      /\ \A d \in s + 1 .. RunEnd(s) - 1 : d \in cache /\ Follows(d)
  BY RunEndIs
<1> DEFINE Bad == {d \in s .. RunEnd(s) - 1 :
                     Place[d] # Place[s] + (d - s) * PerBlock}
<1>2. \A d \in s .. RunEnd(s) - 1 : d \in Nat /\ d \in cache
  BY <1>0, <1>1
<1>3. Bad = {}
  <2>1. SUFFICES ASSUME Bad # {} PROVE FALSE
    OBVIOUS
  <2>2. Bad \in SUBSET Nat
    BY <1>2
  <2>3. PICK d \in Bad : \A x \in Bad : d <= x
    <3> HIDE DEF Bad
    <3> QED
      BY <2>1, <2>2, Least
  <2>4. d \in s .. RunEnd(s) - 1 /\ d \in Nat
          /\ Place[d] # Place[s] + (d - s) * PerBlock
    BY <1>2
  <2>5. d # s
    <3>1. SUFFICES ASSUME d = s PROVE FALSE
      OBVIOUS
    <3>2. (d - s) * PerBlock = 0 /\ Place[s] \in Nat
      BY <1>0, <3>1
    <3> QED
      BY <2>4, <3>1, <3>2
  <2>6. d \in s + 1 .. RunEnd(s) - 1 /\ d - 1 \in s .. RunEnd(s) - 1
    BY <1>0, <1>1, <2>4, <2>5
  <2>7. Place[d] = Place[d - 1] + PerBlock
    BY <1>1, <2>6 DEF Follows, PerBlock
  <2>8. d - 1 \notin Bad
    <3> HIDE DEF Bad
    <3> QED
      BY <2>3, <2>4
  <2>9. Place[d - 1] = Place[s] + (d - 1 - s) * PerBlock
    BY <2>6, <2>8
  <2>10. (d - s) * PerBlock = (d - 1 - s) * PerBlock + PerBlock
    BY <1>0, <2>4
  <2>11. Place[s] \in Nat /\ (d - 1 - s) * PerBlock \in Int
    BY <1>0, <2>4
  <2> QED
    BY <1>0, <2>4, <2>7, <2>9, <2>10, <2>11
<1> QED
  BY <1>2, <1>3

\* Blocks are numbers.
LEMMA BlockNat == \A b \in Blocks : b \in Nat /\ b < NBlocks
BY StoreAssumption DEF Blocks

\* Every block HOMI knows of is in the run of some start.
LEMMA StartBelow ==
  ASSUME cache \in SUBSET Blocks, NEW b \in cache
  PROVE  \E m \in Starts : m <= b /\ b < RunEnd(m)
<1>0. /\ b \in Nat /\ b < NBlocks /\ NBlocks \in Nat
      /\ \A c \in cache : c \in Nat /\ c < NBlocks
  BY StoreAssumption DEF Blocks
<1> DEFINE T == {m \in 0 .. b : \A c \in m + 1 .. b : c \in cache /\ Follows(c)}
<1>1. T \in SUBSET Nat /\ b \in T
  BY <1>0
<1>2. PICK m \in T : \A x \in T : m <= x
  <2>1. T # {}
    BY <1>1
  <2> HIDE DEF T
  <2> QED
    BY <1>1, <2>1, Least
<1>3. m \in Nat /\ m <= b /\ \A c \in m + 1 .. b : c \in cache /\ Follows(c)
  BY <1>0
<1>4. m \in cache
  <2>1. CASE m = b
    BY <2>1
  <2>2. CASE m # b
    <3>1. m + 1 \in m + 1 .. b
      BY <1>0, <1>3, <2>2
    <3>2. (m + 1) - 1 \in cache
      BY <1>3, <3>1 DEF Follows
    <3> QED
      BY <1>3, <3>2
  <2> QED
    BY <2>1, <2>2
<1>5. ~Follows(m)
  <2>1. SUFFICES ASSUME Follows(m) PROVE FALSE
    OBVIOUS
  <2>2. m - 1 \in cache /\ m - 1 \in Nat
    BY <1>0, <2>1 DEF Follows
  <2>3. \A c \in m - 1 + 1 .. b : c \in cache /\ Follows(c)
    <3>1. \A c \in m - 1 + 1 .. b : c = m \/ c \in m + 1 .. b
      BY <1>0, <1>3
    <3> QED
      BY <1>3, <1>4, <2>1, <3>1
  <2>4. m - 1 \in T
    BY <1>0, <1>3, <2>2, <2>3
  <2> HIDE DEF T
  <2> QED
    BY <1>2, <1>3, <2>4
<1>6. b < RunEnd(m)
  <2>1. /\ RunEnd(m) \in m + 1 .. NBlocks
        /\ RunEnd(m) \notin cache \/ ~Follows(RunEnd(m))
    BY <1>4, RunEndIs
  <2> QED
    BY <1>0, <1>3, <2>1
<1> QED
  BY <1>3, <1>4, <1>5, <1>6 DEF Starts

\* A position in the run of a start, and where the extent says it is.
LEMMA RunHolds ==
  ASSUME cache \in SUBSET Blocks, NEW s \in cache, NEW p \in Positions
  PROVE  /\ (s * Align <= p /\ p < RunEnd(s) * Align)
              <=> p \div Align \in s .. RunEnd(s) - 1
         /\ p \div Align \in s .. RunEnd(s) - 1 =>
              /\ p \div Align \in cache
              /\ Place[s] + ((p - s * Align) \div Lba)
                   = Place[p \div Align] + ((p % Align) \div Lba)
              /\ (p - s * Align) % Lba = p % Lba
<1> DEFINE b == p \div Align
           r == p % Align
           e == RunEnd(s)
<1>0. /\ Align \in Nat \ {0} /\ Lba \in Nat \ {0} /\ NBlocks \in Nat
      /\ PerBlock \in Nat \ {0} /\ Align = PerBlock * Lba
      /\ Place \in [Blocks -> Nat] /\ s \in Nat /\ s \in Blocks
  BY Units DEF Blocks
<1>1. /\ p \in Nat /\ b \in Nat /\ b \in Blocks /\ r \in 0 .. Align - 1
      /\ r \in Nat /\ p = b * Align + r
      /\ r = (r \div Lba) * Lba + (p % Lba)
      /\ r \div Lba \in Nat /\ p % Lba \in 0 .. Lba - 1
  <2>1. /\ p \in Nat /\ b \in Blocks /\ r \in 0 .. Align - 1
        /\ p = b * Align + r
        /\ r = (r \div Lba) * Lba + (p % Lba)
        /\ r \div Lba \in 0 .. PerBlock - 1 /\ p % Lba \in 0 .. Lba - 1
    BY PositionIs
  <2>2. b \in Nat /\ r \in Nat /\ r \div Lba \in Nat
    BY <1>0, <2>1 DEF Blocks
  <2> QED
    BY <2>1, <2>2
<1>2. e \in s + 1 .. NBlocks /\ e \in Int
  <2>1. e \in s + 1 .. NBlocks
    BY RunEndIs
  <2> QED
    BY <1>0, <2>1
<1> HIDE DEF b, r, e
<1>3. s * Align \in Nat /\ b * Align \in Nat /\ e * Align \in Int
  BY <1>0, <1>1, <1>2
<1>4. ASSUME s * Align <= p, p < e * Align PROVE b \in s .. e - 1
  <2>1. s <= b
    <3>1. (b + 1) * Align = b * Align + Align
      BY <1>0, <1>1
    <3>2. s * Align < (b + 1) * Align
      BY <1>0, <1>1, <1>3, <1>4, <3>1
    <3>3. s < b + 1
      BY <1>0, <1>1, <3>2, NextMultiple, b + 1 \in Int
    <3> QED
      BY <1>0, <1>1, <3>3
  <2>2. b < e
    <3>1. b * Align < e * Align
      BY <1>0, <1>1, <1>3, <1>4
    <3> QED
      BY <1>0, <1>1, <1>2, <3>1, NextMultiple
  <2> QED
    BY <1>0, <1>1, <1>2, <2>1, <2>2
<1>5. ASSUME b \in s .. e - 1
      PROVE  /\ s * Align <= p /\ p < e * Align
             /\ b \in cache
             /\ Place[s] + ((p - s * Align) \div Lba)
                  = Place[b] + (r \div Lba)
             /\ (p - s * Align) % Lba = p % Lba
  <2>0. s <= b /\ b + 1 <= e /\ b - s \in Nat
    BY <1>0, <1>1, <1>2, <1>5
  <2>1. s * Align <= b * Align /\ (b - s) * Align = b * Align - s * Align
    BY <1>0, <1>1, <2>0, Distance
  <2>2. b * Align + Align <= e * Align
    <3>1. (b + 1) * Align = b * Align + Align
      BY <1>0, <1>1
    <3>2. (b + 1) * Align <= e * Align
      BY <1>0, <1>1, <1>2, <2>0, Distance, b + 1 \in Int
    <3> QED
      BY <3>1, <3>2
  <2>3. s * Align <= p /\ p < e * Align
    BY <1>0, <1>1, <1>3, <2>1, <2>2
  <2>4. b \in cache /\ Place[b] = Place[s] + (b - s) * PerBlock
    BY <1>5, RunPlace DEF e
  <2>5. (b - s) * PerBlock \in Nat
    BY <1>0, <2>0
  <2>6. p - s * Align = ((b - s) * PerBlock) * Lba + r
    <3>1. (b - s) * (PerBlock * Lba) = ((b - s) * PerBlock) * Lba
      BY <1>0, <2>0
    <3>2. (b - s) * Align = ((b - s) * PerBlock) * Lba
      BY <1>0, <3>1
    <3> QED
      BY <1>0, <1>1, <1>3, <2>1, <3>2
  <2>7. /\ (p - s * Align) \div Lba = (b - s) * PerBlock + (r \div Lba)
        /\ (p - s * Align) % Lba = r % Lba
    <3> DEFINE t == (b - s) * PerBlock
               y == p - s * Align
    <3>1. t \in Nat /\ y = t * Lba + r /\ r \in Nat /\ Lba \in Nat \ {0}
      BY <1>0, <1>1, <2>5, <2>6
    <3> HIDE DEF t, y
    <3>2. (t * Lba + r) \div Lba = t + (r \div Lba) /\ (t * Lba + r) % Lba = r % Lba
      BY <3>1, Shift
    <3>3. y \div Lba = t + (r \div Lba) /\ y % Lba = r % Lba
      BY <3>1, <3>2
    <3> QED
      BY <3>3 DEF t, y
  <2>8. r % Lba = p % Lba
    <3> DEFINE l == r \div Lba
               m == p % Lba
    <3>1. l \in Nat /\ r = l * Lba + m /\ m \in 0 .. Lba - 1
          /\ Lba \in Nat \ {0}
      BY <1>0, <1>1
    <3> HIDE DEF l, m
    <3>2. (l * Lba + m) % Lba = m
      BY <3>1, DivModIs
    <3>3. r % Lba = m
      BY <3>1, <3>2
    <3> QED
      BY <3>3 DEF m
  <2>9. Place[s] + ((b - s) * PerBlock + (r \div Lba)) = Place[b] + (r \div Lba)
    <3>1. Place[s] \in Nat /\ r \div Lba \in Nat
      BY <1>0, <1>1
    <3> QED
      BY <2>4, <2>5, <3>1
  <2> QED
    BY <2>3, <2>4, <2>7, <2>8, <2>9
<1> QED
  BY <1>4, <1>5 DEF b, r, e

\* The extents hold the blocks HOMI knows of, where they are.
LEMMA ExtentsLocate ==
  ASSUME cache \in SUBSET Blocks
  PROVE  Locates(Extents, cache)
<1> DEFINE n == Cardinality(Starts)
           s == InOrder(Starts)
           E == Extents
<1>1. /\ n \in Nat /\ Len(E) = n
      /\ \A k \in 1 .. n :
           /\ s[k] \in Starts
           /\ E[k] = [fo |-> s[k] * Align, slba |-> Place[s[k]],
                      len |-> (RunEnd(s[k]) - s[k]) * Align]
      /\ \A b \in Starts : \E k \in 1 .. n : s[k] = b
  BY ExtentsAre
<1> HIDE DEF n, s, E
<1>2. ASSUME NEW k \in 1 .. n
      PROVE  /\ s[k] \in cache /\ E[k].fo = s[k] * Align
             /\ E[k].slba = Place[s[k]]
             /\ E[k].fo + E[k].len = RunEnd(s[k]) * Align
  <2>1. s[k] \in cache /\ s[k] \in Nat
    BY <1>1, BlockNat DEF Starts
  <2>2. RunEnd(s[k]) \in s[k] + 1 .. NBlocks
    BY <2>1, RunEndIs
  <2>3. s[k] \in Int /\ RunEnd(s[k]) \in Int /\ s[k] <= RunEnd(s[k])
        /\ Align \in Nat
    BY <2>1, <2>2, StoreAssumption
  <2>4. /\ s[k] * Align \in Int /\ RunEnd(s[k]) * Align \in Int
        /\ (RunEnd(s[k]) - s[k]) * Align = RunEnd(s[k]) * Align - s[k] * Align
    BY <2>3, Distance
  <2>5. /\ E[k].fo = s[k] * Align /\ E[k].slba = Place[s[k]]
        /\ E[k].len = (RunEnd(s[k]) - s[k]) * Align
    BY <1>1
  <2> QED
    BY <2>1, <2>4, <2>5
<1>3. ASSUME NEW k \in 1 .. n, NEW p \in Positions
      PROVE  /\ Holds(E[k], p) <=> p \div Align \in s[k] .. RunEnd(s[k]) - 1
             /\ Holds(E[k], p) =>
                  /\ p \div Align \in cache
                  /\ E[k].slba + ((p - E[k].fo) \div Lba)
                       = Place[p \div Align] + ((p % Align) \div Lba)
                  /\ (p - E[k].fo) % Lba = p % Lba
  BY <1>2, RunHolds DEF Holds
<1>4. ASSUME NEW p \in Positions, p \div Align \in cache
      PROVE  \E k \in 1 .. n : Holds(E[k], p)
  <2>1. PICK m \in Starts : m <= p \div Align /\ p \div Align < RunEnd(m)
    BY <1>4, StartBelow
  <2>2. PICK k \in 1 .. n : s[k] = m
    BY <1>1
  <2>3. m \in Int /\ RunEnd(m) \in Int /\ p \div Align \in Int
    <3>1. m \in cache /\ m \in Nat /\ p \div Align \in Nat
      BY <1>4, BlockNat DEF Starts
    <3>2. RunEnd(m) \in m + 1 .. NBlocks
      BY <3>1, RunEndIs
    <3> QED
      BY <3>1, <3>2, StoreAssumption
  <2>4. p \div Align \in s[k] .. RunEnd(s[k]) - 1
    BY <2>1, <2>2, <2>3
  <2> QED
    BY <1>3, <2>4
<1>5. Locates(E, cache)
  BY <1>1, <1>3, <1>4 DEF Locates
<1> QED
  BY <1>5 DEF E

\* A read of the LBA and byte where position p is gets the file's byte: no
\* other byte of the file is there.
LEMMA DeviceHas ==
  ASSUME NEW p \in Positions, p \div Align \in blocks
  PROVE  OnDevice(Place[p \div Align] + ((p % Align) \div Lba), p % Lba)
           = data[p]
<1> DEFINE lba == Place[p \div Align] + ((p % Align) \div Lba)
           at == {x \in Positions : /\ x \div Align \in blocks
                                    /\ Place[x \div Align] + ((x % Align) \div Lba) = lba
                                    /\ x % Lba = p % Lba}
<1>0. /\ PerBlock \in Nat \ {0} /\ Place \in [Blocks -> Nat]
      /\ \A b, c \in Blocks : \/ b = c \/ Place[b] + PerBlock <= Place[c]
                              \/ Place[c] + PerBlock <= Place[b]
  BY Units, StoreAssumption DEF PerBlock
<1>1. p \in at
  OBVIOUS
<1>2. ASSUME NEW x \in at PROVE x = p
  <2> DEFINE b == x \div Align
             c == p \div Align
             i == (x % Align) \div Lba
             j == (p % Align) \div Lba
  <2>1. /\ b \in Blocks /\ i \in 0 .. PerBlock - 1
        /\ x = b * Align + (x % Align)
        /\ x % Align = i * Lba + (x % Lba)
    BY PositionIs
  <2>2. /\ c \in Blocks /\ j \in 0 .. PerBlock - 1
        /\ p = c * Align + (p % Align)
        /\ p % Align = j * Lba + (p % Lba)
    BY PositionIs
  <2>3. Place[b] + i = Place[c] + j /\ x % Lba = p % Lba
    OBVIOUS
  <2> HIDE DEF b, c, i, j, at, lba
  <2>4. Place[b] \in Nat /\ Place[c] \in Nat /\ i \in Int /\ j \in Int
        /\ 0 <= i /\ i < PerBlock /\ 0 <= j /\ j < PerBlock
    BY <1>0, <2>1, <2>2
  <2>5. b = c
    <3>1. ~(Place[b] + PerBlock <= Place[c])
      BY <1>0, <2>3, <2>4
    <3>2. ~(Place[c] + PerBlock <= Place[b])
      BY <1>0, <2>3, <2>4
    <3> QED
      BY <1>0, <2>1, <2>2, <3>1, <3>2
  <2>6. i = j
    BY <2>3, <2>4, <2>5
  <2> QED
    BY <2>1, <2>2, <2>3, <2>5, <2>6
<1>3. at = {p}
  <2> HIDE DEF at
  <2> QED
    BY <1>1, <1>2
<1>4. OnDevice(lba, p % Lba) = IF at = {} THEN Zero
                               ELSE data[CHOOSE x \in at : TRUE]
  BY DEF OnDevice
<1> HIDE DEF at, lba
<1>5. OnDevice(lba, p % Lba) = data[CHOOSE x \in {p} : TRUE]
  BY <1>3, <1>4
<1> QED
  BY <1>5 DEF lba
-----------------------------------------------------------------------------
(***************************************************************************)
(* What a read can rely on.                                                *)
(***************************************************************************)

\* The file stays within its blocks.
RoomInv == /\ size <= NBlocks * Align
           /\ \A o \in Writes : trunc[o] <= NBlocks * Align

\* No write is in progress once the application has asked to read.
QuietInv == rpc # "idle" => \A o \in Writes : ~InFlight(o)

CleanInv == ~failed => spoiled = {}

\* Each backend has its own code.
AisioRead == {"idle", "resolve", "extent", "head", "middle", "wait", "ret"}
RefRead   == {"idle", "plain", "pread", "copyout", "ret"}

SideInv ==
  /\ backend \in {"aisio", "ref"}
  /\ backend = "aisio" => rpc \in AisioRead /\ \A o \in Writes : wpc[o] # "plain"
  /\ backend = "ref" => rpc \in RefRead

\* Write o has changed the file and has not marked the device yet.
Unmarked(o) == wpc[o] \in {"write", "trunc"} \/ (wpc[o] = "out" /\ wret[o] > 0)

\* HOMI knows the file's blocks, or that it does not, or is about to be told.
CacheInv ==
  backend = "aisio" /\ NoneFailed =>
    dirty \/ cache = blocks \/ \E o \in Writes : Unmarked(o)

SteadyInv == RoomInv /\ QuietInv /\ CleanInv /\ SideInv /\ CacheInv

\* A step of write o that leaves the file alone.
LEMMA SteadyStep ==
  ASSUME FileTyped, SteadyInv, NEW o \in Writes, InFlight(o),
         UNCHANGED <<fileVars, homiVars, readVars, backend, histVars>>,
         wpc'[o] # "plain",
         \A u \in Writes \ {o} : wpc'[u] = wpc[u] /\ wret'[u] = wret[u],
         \A u \in Writes : trunc'[u] = trunc[u] \/ trunc'[u] <= NBlocks * Align,
         ~Unmarked(o) \/ Unmarked(o)' \/ (wpc'[o] = "out" /\ wret'[o] = -1),
         wpc[o] = "out" => wpc'[o] = "out" /\ wret'[o] = wret[o]
  PROVE  SteadyInv'
<1> USE DEF SteadyInv
<1>1. RoomInv' /\ QuietInv' /\ CleanInv'
  BY DEF RoomInv, QuietInv, CleanInv, fileVars, readVars, histVars
<1>2. SideInv'
  BY DEF SideInv, readVars
<1>3. CacheInv'
  <2>1. SUFFICES ASSUME backend = "aisio", NoneFailed', ~dirty, cache # blocks
                 PROVE  \E u \in Writes : Unmarked(u)'
    BY DEF CacheInv, fileVars, homiVars
  <2>2. NoneFailed
    BY <2>1 DEF NoneFailed, histVars
  <2>3. PICK u \in Writes : Unmarked(u)
    BY <2>1, <2>2 DEF CacheInv
  <2>4. CASE u = o
    BY <2>1, <2>3, <2>4 DEF NoneFailed
  <2>5. CASE u # o
    <3>1. Unmarked(u)'
      BY <2>3, <2>5 DEF Unmarked
    <3> QED
      BY <3>1
  <2> QED
    BY <2>4, <2>5
<1> QED
  BY <1>1, <1>2, <1>3

\* The places of opends_direct_pwrite that change nothing but their own.
LEMMA SteadyWrite ==
  ASSUME FileInv, SteadyInv, NEW o \in Writes, UNCHANGED <<fileVars, readVars>>,
         UNCHANGED <<homiVars, backend, histVars>>,
         AllocBounce(o) \/ Stat(o) \/ FillHead(o) \/ FillTail(o) \/ Copy(o)
           \/ PwriteFails(o) \/ PlainFails(o)
  PROVE  SteadyInv'
<1>1. FileTyped /\ InFlight(o)
  BY DEF FileInv, AllocBounce, Stat, FillHead, FillTail, Copy, PwriteFails,
         PlainFails, InFlight
<1>2. wpc[o] # "out" /\ ~(PlainFails(o) /\ wpc[o] # "plain")
  BY DEF AllocBounce, Stat, FillHead, FillTail, Copy, PwriteFails, PlainFails
<1>3. DOMAIN wpc = Writes /\ DOMAIN wret = Writes /\ DOMAIN trunc = Writes
  BY <1>1 DEF FileTyped
<1>4. \A u \in Writes \ {o} : wpc'[u] = wpc[u] /\ wret'[u] = wret[u]
  BY <1>3 DEF AllocBounce, Stat, FillHead, FillTail, Copy, PwriteFails,
              PlainFails, Returns, Goto
<1>5. wpc'[o] # "plain"
  BY <1>3 DEF AllocBounce, Stat, FillHead, FillTail, Copy, PwriteFails,
              PlainFails, Returns, Goto
<1>6. ~Unmarked(o) \/ Unmarked(o)' \/ (wpc'[o] = "out" /\ wret'[o] = -1)
  BY <1>2, <1>3 DEF AllocBounce, Stat, FillHead, FillTail, Copy, PwriteFails,
                    PlainFails, Returns, Goto, Unmarked
<1>7. \A u \in Writes : trunc'[u] = trunc[u] \/ trunc'[u] <= NBlocks * Align
  <2>1. -1 <= NBlocks * Align
    <3>1. NBlocks * Align \in Nat
      BY StoreAssumption
    <3> QED
      BY <3>1
  <2>2. CASE Stat(o)
    <3>1. TruncTo(wq[o]) <= NBlocks * Align
      <4>1. /\ size \in Nat /\ size <= NBlocks * Align
            /\ wq[o].off \in Nat /\ wq[o].n \in Nat
            /\ wq[o].off + wq[o].n <= NBlocks * Align
        BY <1>1, RequestFacts DEF FileTyped, Request, SteadyInv, RoomInv
      <4> DEFINE end == IF size < wq[o].off + wq[o].n THEN wq[o].off + wq[o].n
                                                      ELSE size
      <4>2. end <= NBlocks * Align
        BY <4>1
      <4>3. TruncTo(wq[o]) = end \/ TruncTo(wq[o]) = -1
        BY DEF TruncTo
      <4> HIDE DEF end
      <4> QED
        BY <2>1, <4>2, <4>3
    <3> QED
      BY <1>3, <2>2, <3>1 DEF Stat
  <2>3. CASE AllocBounce(o) \/ PwriteFails(o) \/ PlainFails(o)
    <3>1. Forget(o) \/ trunc' = trunc
      BY <2>3 DEF AllocBounce, PwriteFails, PlainFails, Returns
    <3>2. CASE Forget(o)
      BY <1>3, <2>1, <3>2 DEF Forget
    <3> QED
      BY <3>1, <3>2
  <2>4. CASE FillHead(o) \/ FillTail(o) \/ Copy(o)
    BY <2>4 DEF FillHead, FillTail, Copy
  <2> QED
    BY <2>2, <2>3, <2>4
<1> QED
  BY <1>1, <1>2, <1>4, <1>5, <1>6, <1>7, SteadyStep

\* A step of write o that changes the file.
LEMMA SteadyChange ==
  ASSUME FileInv, SteadyInv, NEW o \in Writes, InFlight(o),
         UNCHANGED <<readVars, backend, histVars>>,
         size' <= NBlocks * Align,
         \A u \in Writes : trunc'[u] = trunc[u] \/ trunc'[u] <= NBlocks * Align,
         \A u \in Writes \ {o} : wpc'[u] = wpc[u],
         wpc'[o] # "plain",
         backend = "aisio" => Unmarked(o)'
  PROVE  SteadyInv'
<1> USE DEF SteadyInv
<1>1. RoomInv' /\ CleanInv'
  BY DEF RoomInv, CleanInv, histVars
<1>2. rpc = "idle"
  BY DEF QuietInv
<1>3. QuietInv'
  BY <1>2 DEF QuietInv, readVars
<1>4. SideInv'
  BY DEF SideInv, readVars
<1>5. CacheInv'
  BY DEF CacheInv
<1> QED
  BY <1>1, <1>3, <1>4, <1>5

\* The writes of opends_direct_pwrite, and the cut.
LEMMA SteadyPut ==
  ASSUME FileInv, SteadyInv, NEW o \in Writes,
         UNCHANGED <<readVars, backend, histVars>>,
         WriteSome(o) \/ Truncate(o) \/ PlainWrite(o)
  PROVE  SteadyInv'
<1>1. FileTyped /\ InFlight(o) /\ PlaceInv(o)
  BY DEF FileInv, WriteInv, WriteSome, Truncate, PlainWrite, InFlight
<1>2. DOMAIN wpc = Writes /\ DOMAIN wret = Writes /\ DOMAIN trunc = Writes
  BY <1>1 DEF FileTyped
<1>3. \A u \in Writes \ {o} : wpc'[u] = wpc[u]
  BY <1>2 DEF WriteSome, Truncate, PlainWrite, Returns, Goto
<1>4. wpc'[o] # "plain"
  BY <1>2 DEF WriteSome, Truncate, PlainWrite, Returns, Goto
<1>5. -1 <= NBlocks * Align /\ NBlocks * Align \in Nat
  <2>1. NBlocks * Align \in Nat
    BY StoreAssumption
  <2> QED
    BY <2>1
<1>6. \A u \in Writes : trunc'[u] = trunc[u] \/ trunc'[u] <= NBlocks * Align
  <2>1. Forget(o) \/ trunc' = trunc
    BY DEF WriteSome, Truncate, PlainWrite, Returns
  <2>2. CASE Forget(o)
    BY <1>2, <1>5, <2>2 DEF Forget
  <2> QED
    BY <2>1, <2>2
<1>7. size \in Nat /\ size <= NBlocks * Align /\ trunc[o] <= NBlocks * Align
  BY <1>1, RequestFacts DEF SteadyInv, RoomInv
<1>8. CASE WriteSome(o)
  <2>1. PICK w \in {k \in 1 .. Span(wq[o]) - done[o] : k % Align = 0} :
          /\ Pwrite(Start(wq[o]) + done[o], w, bounce[o], Start(wq[o]))
          /\ IF done[o] + w = Span(wq[o]) /\ trunc[o] < 0
               THEN Returns(o, wq[o].n)
               ELSE Goto(o, IF done[o] + w < Span(wq[o]) THEN "write"
                                                        ELSE "trunc")
    BY <1>8 DEF WriteSome
  <2>2. /\ Start(wq[o]) \in Nat /\ Span(wq[o]) \in Nat /\ done[o] \in Nat
        /\ Start(wq[o]) + Span(wq[o]) <= NBlocks * Align
        /\ wq[o].n \in Nat
    BY <1>1, RequestFacts
  <2>3. w \in Nat /\ w <= Span(wq[o]) - done[o]
    BY <2>2
  <2>4. size' <= NBlocks * Align
    <3>1. size' = size \/ size' = Start(wq[o]) + done[o] + w
      BY <2>1 DEF Pwrite
    <3>2. Start(wq[o]) + done[o] + w <= NBlocks * Align
      BY <1>5, <2>2, <2>3
    <3> QED
      BY <1>7, <3>1, <3>2
  <2>5. wq[o].n > 0
    BY <1>1, <1>8 DEF PlaceInv, Planned, WriteSome
  <2>6. Unmarked(o)'
    BY <1>2, <2>1, <2>5 DEF Unmarked, Returns, Goto
  <2> QED
    BY <1>1, <1>3, <1>4, <1>6, <2>4, <2>6, SteadyChange
<1>9. CASE Truncate(o)
  <2>1. size' <= NBlocks * Align
    BY <1>7, <1>9 DEF Truncate, Ftruncate
  <2>2. wq[o].n > 0
    BY <1>1, <1>9 DEF PlaceInv, Planned, Truncate
  <2>3. Unmarked(o)'
    BY <1>2, <1>9, <2>2 DEF Unmarked, Truncate, Returns, Goto
  <2> QED
    BY <1>1, <1>3, <1>4, <1>6, <2>1, <2>3, SteadyChange
<1>10. CASE PlainWrite(o)
  <2>1. backend # "aisio"
    BY <1>10 DEF PlainWrite, SteadyInv, SideInv
  <2>2. PICK w \in {k \in 0 .. wq[o].n : k % Align = 0} :
          Pwrite(wq[o].off, w, [k \in Positions |-> <<o, k>>], wq[o].off)
    BY <1>10 DEF PlainWrite
  <2>3. /\ wq[o].off \in Nat /\ wq[o].n \in Nat /\ w \in Nat /\ w <= wq[o].n
        /\ wq[o].off + wq[o].n <= NBlocks * Align
    BY <1>1, RequestFacts DEF Request
  <2>4. size' <= NBlocks * Align
    <3>1. size' = size \/ size' = wq[o].off + w
      BY <2>2 DEF Pwrite
    <3>2. wq[o].off + w <= NBlocks * Align
      BY <1>5, <2>3
    <3> QED
      BY <1>7, <3>1, <3>2
  <2> QED
    BY <1>1, <1>3, <1>4, <1>6, <2>1, <2>4, SteadyChange
<1> QED
  BY <1>8, <1>9, <1>10

\* The write returns to the application.
LEMMA SteadySettle ==
  ASSUME FileInv, SteadyInv, NEW o \in Writes, FinishWrite(o) \/ MarkFails(o)
  PROVE  SteadyInv'
<1>1. /\ FileTyped /\ wpc[o] = "out" /\ InFlight(o)
      /\ DOMAIN wpc = Writes /\ DOMAIN wret = Writes
      /\ wret[o] \in Int /\ failed \in BOOLEAN
  BY DEF FileInv, FileTyped, FinishWrite, MarkFails, InFlight
<1>2. UNCHANGED <<size, trunc, blocks, backend, rpc>>
  BY DEF FinishWrite, MarkFails, readVars, storeVars, fileVars
<1>3. \A u \in Writes \ {o} : wpc'[u] = wpc[u] /\ wret'[u] = wret[u]
  BY <1>1 DEF FinishWrite, MarkFails, Goto
<1>4. wpc'[o] = "ret"
  BY <1>1 DEF FinishWrite, MarkFails, Goto
<1>5. RoomInv' /\ QuietInv' /\ SideInv'
  BY <1>1, <1>2, <1>3, <1>4
     DEF SteadyInv, RoomInv, QuietInv, SideInv
<1>6. ASSUME NEW ok \in BOOLEAN, Settle(o, ok), ok => wret[o] >= 0,
             ~ok \/ (IF Marks(o) THEN MarkDirty ELSE UNCHANGED homiVars)
      PROVE  CleanInv' /\ CacheInv'
  <2>1. failed' = (failed \/ ~ok)
    BY <1>6 DEF Settle
  <2>2. ok => \A x \in spoiled' : x \in spoiled
    BY <1>6 DEF Settle
  <2>3. CleanInv'
    BY <1>1, <1>6, <2>1, <2>2 DEF SteadyInv, CleanInv
  <2>4. ASSUME backend' = "aisio", NoneFailed', ~dirty', cache' # blocks'
        PROVE  \E u \in Writes : Unmarked(u)'
    <3>1. ok /\ ~failed
      BY <1>1, <1>6, <2>1, <2>4 DEF NoneFailed
    <3>2. ~Marks(o) /\ UNCHANGED homiVars
      BY <1>6, <2>4, <3>1 DEF MarkDirty
    <3>3. NoneFailed
      BY <1>3, <1>6, <2>4, <3>1 DEF NoneFailed
    <3>4. PICK u \in Writes : Unmarked(u)
      BY <1>2, <2>4, <3>2, <3>3 DEF SteadyInv, CacheInv, homiVars
    <3>5. ~Unmarked(o)
      BY <1>1, <1>2, <2>4, <3>2 DEF Unmarked, Marks
    <3>6. u # o
      BY <3>4, <3>5
    <3>7. Unmarked(u)'
      BY <1>3, <3>4, <3>6 DEF Unmarked
    <3> QED
      BY <3>7
  <2> QED
    BY <2>3, <2>4 DEF CacheInv
<1>7. CASE FinishWrite(o)
  <2> DEFINE ok == wret[o] >= 0
  <2>1. ok \in BOOLEAN
    BY <1>1
  <2>2. Settle(o, ok) /\ (IF Marks(o) THEN MarkDirty ELSE UNCHANGED homiVars)
    BY <1>7 DEF FinishWrite
  <2>3. ok => wret[o] >= 0
    OBVIOUS
  <2> HIDE DEF ok
  <2>4. CleanInv' /\ CacheInv'
    BY <1>6, <2>1, <2>2, <2>3
  <2> QED
    BY <1>5, <2>4 DEF SteadyInv
<1>8. CASE MarkFails(o)
  <2>1. CleanInv' /\ CacheInv'
    BY <1>6, <1>8 DEF MarkFails
  <2> QED
    BY <1>5, <2>1 DEF SteadyInv
<1> QED
  BY <1>7, <1>8

\* A write begins.
LEMMA SteadySubmit ==
  ASSUME FileInv, SteadyInv, NEW o \in Writes, NEW q \in WriteReqs,
         NEW a \in BOOLEAN, SubmitWrite(o, q, a)
  PROVE  SteadyInv'
<1>1. /\ DOMAIN wpc = Writes /\ rpc = "idle" /\ wpc[o] = "idle"
      /\ \A u \in Writes \ {o} : wpc'[u] = wpc[u]
      /\ wpc'[o] \in {"plain", "alloc"}
      /\ backend = "aisio" => wpc'[o] = "alloc"
      /\ UNCHANGED <<storeVars, readVars, trunc, wret, backend, histVars>>
  BY DEF FileInv, FileTyped, SubmitWrite, Goto
<1>2. RoomInv' /\ QuietInv' /\ CleanInv' /\ SideInv'
  BY <1>1 DEF SteadyInv, RoomInv, QuietInv, CleanInv, SideInv, storeVars,
              fileVars, readVars, histVars
<1>3. CacheInv'
  <2>1. SUFFICES ASSUME backend = "aisio", NoneFailed', ~dirty, cache # blocks
                 PROVE  \E u \in Writes : Unmarked(u)'
    BY <1>1 DEF CacheInv, storeVars, fileVars, homiVars
  <2>2. NoneFailed
    BY <1>1, <2>1 DEF NoneFailed, histVars
  <2>3. PICK u \in Writes : Unmarked(u)
    BY <2>1, <2>2 DEF SteadyInv, CacheInv
  <2>4. u # o
    BY <1>1, <2>3 DEF Unmarked
  <2>5. Unmarked(u)'
    BY <1>1, <2>3, <2>4 DEF Unmarked
  <2> QED
    BY <2>5
<1> QED
  BY <1>2, <1>3 DEF SteadyInv

\* The steps of a read, and HOMI's.
LEMMA SteadyRead ==
  ASSUME SteadyInv, UNCHANGED <<fileVars, writeVars, backend, histVars>>,
         UNCHANGED homiVars \/ (cache' = blocks /\ dirty' = FALSE),
         \/ rpc' = rpc
         \/ rpc = "idle" /\ \A o \in Writes : ~InFlight(o)
         \/ rpc # "idle",
         \/ rpc' = rpc
         \/ backend = "aisio" /\ rpc' \in AisioRead
         \/ backend = "ref" /\ rpc' \in RefRead
  PROVE  SteadyInv'
<1>1. UNCHANGED <<size, blocks, trunc, wpc, wret, failed, spoiled>>
  BY DEF fileVars, writeVars, histVars
<1>2. RoomInv' /\ QuietInv' /\ CleanInv' /\ SideInv'
  BY <1>1 DEF SteadyInv, RoomInv, QuietInv, CleanInv, SideInv, InFlight
<1>3. CacheInv'
  <2>1. NoneFailed' = NoneFailed /\ \A o \in Writes : Unmarked(o)' = Unmarked(o)
    BY <1>1 DEF NoneFailed, Unmarked
  <2>2. CASE UNCHANGED homiVars
    BY <1>1, <2>1, <2>2 DEF SteadyInv, CacheInv, homiVars
  <2>3. CASE cache' = blocks
    BY <1>1, <2>3 DEF CacheInv
  <2> QED
    BY <2>2, <2>3
<1> QED
  BY <1>2, <1>3 DEF SteadyInv

\* Where a read goes.
LEMMA ReadMoves ==
  ASSUME SideInv, ReadGoes \/ ReadFaults
  PROVE  /\ UNCHANGED <<storeVars, writeVars, backend, histVars>>
         /\ \/ rpc' = rpc
            \/ rpc # "idle" /\ backend = "aisio" /\ rpc' \in AisioRead
            \/ rpc # "idle" /\ backend = "ref" /\ rpc' \in RefRead
<1>1. UNCHANGED <<storeVars, writeVars, backend, histVars>>
  BY DEF ReadGoes, ReadFaults, PlanGoes, PreadGoes, PlainRead, PlanFaults,
         PreadFault, PlainReadFails
<1>2. CASE PlanGoes \/ PlanFaults
  <2>1. \/ rpc' = rpc
        \/ /\ rpc \in {"resolve", "extent", "head", "middle", "wait"}
           /\ rpc' \in {"extent", "head", "middle", "wait", "ret"}
    BY <1>2 DEF PlanGoes, PlanFaults, Resolve, NextExtent, IssueHead,
         IssueChunk, IssueTail, NoTail, PlanRefuses, CompleteRead, Complete,
         ResolveFails, SubmitFails, CopyBackFails, CompleteFails, GiveUp
  <2> QED
    BY <1>1, <2>1 DEF SideInv, AisioRead, RefRead
<1>3. CASE PreadGoes \/ PreadFault \/ PlainRead \/ PlainReadFails
  <2>1. /\ rpc \in {"plain", "pread", "copyout"}
        /\ rpc' \in {"pread", "copyout", "ret"}
    BY <1>3 DEF PreadGoes, PreadFault, PlainRead, PlainReadFails, PreadSome,
                CopyOut, PreadFails, ReadReturns
  <2> QED
    BY <1>1, <2>1 DEF SideInv, AisioRead, RefRead
<1> QED
  BY <1>2, <1>3 DEF ReadGoes, ReadFaults

\* Every step keeps it.
LEMMA SteadyNext ==
  ASSUME FileInv, SteadyInv, [Next]_vars
  PROVE  SteadyInv'
<1>1. CASE UNCHANGED vars
  <2>1. /\ UNCHANGED <<fileVars, writeVars, backend, histVars>>
        /\ UNCHANGED homiVars /\ rpc' = rpc
    BY <1>1 DEF vars, storeVars, readVars
  <2> QED
    BY <2>1, SteadyRead
<1>2. ASSUME NEW o \in Writes, NEW q \in WriteReqs, NEW a \in BOOLEAN,
             SubmitWrite(o, q, a)
      PROVE  SteadyInv'
  BY <1>2, SteadySubmit
<1>3. ASSUME NEW o \in Writes, WriteGoes(o) \/ WriteFaults(o)
      PROVE  SteadyInv'
  <2>1. CASE DirectGoes(o) /\ UNCHANGED <<planVars, backend, histVars>>
    <3>1. UNCHANGED <<homiVars, readVars, backend, histVars>>
      BY <2>1 DEF DirectGoes
    <3>2. CASE WriteSome(o) \/ Truncate(o)
      BY <3>1, <3>2, SteadyPut
    <3>3. CASE /\ UNCHANGED fileVars
               /\ \/ AllocBounce(o) \/ Stat(o) \/ FillHead(o)
                  \/ FillTail(o) \/ Copy(o)
      BY <3>1, <3>3, SteadyWrite
    <3> QED
      BY <2>1, <3>2, <3>3 DEF DirectGoes
  <2>2. CASE PlainWrite(o)
    BY <2>2, SteadyPut DEF PlainWrite
  <2>3. CASE FinishWrite(o) \/ MarkFails(o)
    BY <2>3, SteadySettle
  <2>4. CASE DirectFails(o) /\ UNCHANGED <<planVars, backend, histVars>>
    BY <2>4, SteadyWrite DEF DirectFails, storeVars
  <2>5. CASE PlainFails(o)
    BY <2>5, SteadyWrite DEF PlainFails, storeVars
  <2> QED
    BY <1>3, <2>1, <2>2, <2>3, <2>4, <2>5 DEF WriteGoes, WriteFaults
<1>4. ASSUME NEW q \in ReadReqs, SubmitRead(q) PROVE SteadyInv'
  <2>1. /\ UNCHANGED <<storeVars, writeVars, backend, histVars>>
        /\ rpc = "idle" /\ (\A o \in Writes : ~InFlight(o))
        /\ backend = "aisio" /\ rpc' \in AisioRead
    BY <1>4 DEF SubmitRead, BeginPlan, AisioRead
  <2> QED
    BY <2>1, SteadyRead DEF storeVars
<1>5. ASSUME NEW q \in ReadReqs, NEW a \in BOOLEAN, SubmitRefRead(q, a)
      PROVE  SteadyInv'
  <2>1. /\ UNCHANGED <<storeVars, writeVars, backend, histVars>>
        /\ rpc = "idle" /\ (\A o \in Writes : ~InFlight(o))
        /\ backend = "ref" /\ rpc' \in RefRead
    BY <1>5 DEF SubmitRefRead, ReadReturns, RefRead
  <2> QED
    BY <2>1, SteadyRead DEF storeVars
<1>6. CASE ReadGoes \/ ReadFaults
  BY <1>6, ReadMoves, SteadyRead DEF SteadyInv, storeVars
<1>7. CASE HomiStep
  BY <1>7, SteadyRead DEF HomiStep, Refresh, readVars
<1> QED
  BY <1>1, <1>2, <1>3, <1>4, <1>5, <1>6, <1>7 DEF Next

\* What it says of a read that nothing has failed for: the file is what the
\* application counts on, to its end.
LEMMA FileIsWanted ==
  ASSUME FileInv, SteadyInv, rpc # "idle", ~failed
  PROVE  /\ size = wantSize /\ size \in Nat /\ size <= NBlocks * Align
         /\ \A p \in Positions : data[p] = want[p]
         /\ backend = "aisio" => dirty \/ cache = blocks
<1>1. \A o \in Writes : wpc[o] \in {"idle", "ret"}
  BY DEF SteadyInv, QuietInv, InFlight
<1>2. NoneFailed /\ \A o \in Writes : ~Stretches(o) /\ ~Unmarked(o)
  BY <1>1 DEF NoneFailed, Stretches, Unmarked
<1>3. size <= wantSize /\ wantSize <= size /\ size \in Nat /\ wantSize \in Nat
  BY <1>2 DEF FileInv, LengthInv, ExactInv, FileTyped
<1>4. \A o \in Writes : Touched(o) = {}
  BY <1>1 DEF Touched
<1>5. spoiled = {}
  BY DEF SteadyInv, CleanInv
<1>6. \A p \in Positions : data[p] = want[p]
  BY <1>4, <1>5 DEF FileInv, ExactInv
<1>7. backend = "aisio" => dirty \/ cache = blocks
  BY <1>2 DEF SteadyInv, CacheInv
<1> QED
  BY <1>3, <1>6, <1>7 DEF SteadyInv, RoomInv

\* The reference backend: what it has read of the file so far.
RefInv ==
  backend = "ref" =>
    /\ rpc # "ret" => \A k \in Offsets : buf[k] = Junk
    /\ rpc \in {"idle", "plain"} => got = 0
    /\ rpc \in {"pread", "copyout"} =>
         /\ got \in Nat /\ got <= Span(rq)
         /\ got > 0 => Start(rq) + got <= size
         /\ \A i \in 0 .. got - 1 : stage[i] = data[Start(rq) + i]
    /\ rpc = "copyout" => Start(rq) + got >= size

\* Byte k of the request is the file's byte in lba at j.
Fetches(lba, j, k) == OnDevice(lba, j) = data[rq.off + k]

ChunkBytes(c) == c.dst .. c.dst + (c.nlb + 1) * Lba - 1
SlotBytes(s)  == s.dst .. s.dst + s.n - 1

\* The bytes commands will put where they belong; those that are to be copied.
Coming == {k \in Offsets : \E c \in cmds : c.slot = 0 /\ k \in ChunkBytes(c)}
Copies == {k \in Offsets : \E i \in 1 .. Len(slots) : k \in SlotBytes(slots[i])}

\* Every byte of the request that lies in an extent.
InExtents == {k \in Asked : \E i \in 1 .. Len(ext) : Holds(ext[i], rq.off + k)}

\* Where the cursor is on the device.
PlacedInv ==
  rpc \in {"head", "middle"} =>
    LET e == ext[xi - 1]
        at == (rq.off + dst) - e.fo
    IN  left > 0 => /\ slba = e.slba + (at \div Lba)
                    /\ at % Lba = IF rpc = "head" THEN skip ELSE 0

\* What the device will answer.
AnswerInv ==
  /\ \A c, d \in cmds : c.slot = 0 /\ d.slot = 0 =>
       c = d \/ ChunkBytes(c) \cap ChunkBytes(d) = {}
  /\ \A c \in cmds, i \in 1 .. Len(slots) :
       c.slot = 0 => ChunkBytes(c) \cap SlotBytes(slots[i]) = {}
  /\ \A c \in cmds :
       IF c.slot = 0
         THEN /\ c.dst \in Nat /\ c.nlb \in Nat
              /\ \A k \in ChunkBytes(c) :
                   Fetches(c.slba + ((k - c.dst) \div Lba), (k - c.dst) % Lba, k)
         ELSE /\ c.slot \in 1 .. Len(slots)
              /\ LET s == slots[c.slot]
                 IN  \A k \in SlotBytes(s) :
                       Fetches(c.slba, s.from + (k - s.dst), k)

\* What it has answered.
ArrivedInv ==
  /\ \A i \in 1 .. Len(slots) :
       \/ \E c \in cmds : c.slot = i
       \/ \A k \in SlotBytes(slots[i]) :
            slots[i].lba[slots[i].from + (k - slots[i].dst)] = data[rq.off + k]
  /\ \A k \in Offsets :
       buf[k] = IF k \in (Issued \ Coming) \ Copies THEN data[rq.off + k]
                                                    ELSE Junk
  /\ acc = Cardinality(Issued \ Coming)

\* The bytes of a read that is going well.
GoingInv ==
  /\ Locates(ext, blocks)
  /\ PlacedInv /\ AnswerInv /\ ArrivedInv
  /\ rpc = "wait" => Seen = InExtents

\* A read of the aisio backend: what has arrived, as long as nothing failed.
AisioInv ==
  backend = "aisio" =>
    /\ rpc \in {"idle", "resolve"} => acc = 0 /\ \A k \in Offsets : buf[k] = Junk
    /\ ~failed /\ ~err /\ rpc \in {"extent", "head", "middle", "wait"} => GoingInv

\* Nothing of a read is in the device when it has returned, nor of one the
\* reference backend serves.
DoneInv == backend = "ref" \/ rpc = "ret" => cmds = {}

-----------------------------------------------------------------------------
(***************************************************************************)
(* The reference backend's reads.                                          *)
(***************************************************************************)

\* The aligned range around a read, which may lie past the end of the file.
LEMMA AroundRead ==
  ASSUME NEW q, q.off \in Nat, q.n \in Nat
  PROVE  /\ Start(q) \in Nat /\ Span(q) \in Nat /\ HeadBytes(q) \in Nat
         /\ q.off = Start(q) + HeadBytes(q)
         /\ HeadBytes(q) + q.n <= Span(q)
<1> DEFINE h == q.off % Align
           m == h + q.n + Align - 1
           c == m \div Align
<1>0. Align \in Nat \ {0}
  BY StoreAssumption
<1>1. /\ q.off \div Align \in Nat /\ h \in 0 .. Align - 1
      /\ q.off = (q.off \div Align) * Align + h
  BY <1>0, DivMod
<1>2. m \in Nat
  BY <1>0, <1>1
<1>3. c \in Nat /\ m = c * Align + (m % Align) /\ m % Align \in 0 .. Align - 1
  BY <1>0, <1>2, DivMod
<1>4. Span(q) = c * Align /\ HeadBytes(q) = h /\ Start(q) = q.off - h
  BY DEF Span, HeadBytes, Start
<1>5. (q.off \div Align) * Align \in Nat /\ c * Align \in Nat
  BY <1>0, <1>1, <1>3
<1>m. m = h + q.n + Align - 1
  OBVIOUS
<1> HIDE DEF h, m, c
<1>6. Start(q) \in Nat /\ HeadBytes(q) \in Nat /\ q.off = Start(q) + HeadBytes(q)
  <2> DEFINE a == (q.off \div Align) * Align
  <2>1. a \in Nat /\ q.off = a + h /\ h \in Nat /\ Start(q) = q.off - h
    BY <1>0, <1>1, <1>4, <1>5
  <2> HIDE DEF a
  <2> QED
    BY <1>4, <2>1
<1>7. h + q.n <= Span(q)
  BY <1>0, <1>1, <1>3, <1>4, <1>5, <1>m
<1> QED
  BY <1>4, <1>5, <1>6, <1>7

\* The bytes of a request before some end, and how many they are.
LEMMA Counted ==
  ASSUME NEW off \in Nat, NEW n \in Nat, NEW end \in Nat, NEW m \in Nat,
         m <= n, m > 0 => off + m <= end, m < n => off + m >= end
  PROVE  /\ {k \in 0 .. n - 1 : off + k < end} = 0 .. m - 1
         /\ Cardinality({k \in 0 .. n - 1 : off + k < end}) = m
<1>1. {k \in 0 .. n - 1 : off + k < end} = 0 .. m - 1
  <2>1. ASSUME NEW k \in 0 .. n - 1, off + k < end PROVE k \in 0 .. m - 1
    BY <2>1
  <2>2. ASSUME NEW k \in 0 .. m - 1 PROVE k \in 0 .. n - 1 /\ off + k < end
    BY <2>2
  <2> QED
    BY <2>1, <2>2
<1>2. Cardinality(0 .. m - 1) = m
  BY FS_Interval
<1> QED
  BY <1>1, <1>2

\* The bytes there are, when fewer may have been delivered.
LEMMA CountedAtLeast ==
  ASSUME NEW off \in Nat, NEW n \in Nat, NEW end \in Nat, NEW m \in Nat,
         m <= n, m > 0 => off + m <= end
  PROVE  /\ m <= Cardinality({k \in 0 .. n - 1 : off + k < end})
         /\ \A k \in 0 .. m - 1 : k \in 0 .. n - 1 /\ off + k < end
<1> DEFINE T == {k \in 0 .. n - 1 : off + k < end}
<1>1. \A k \in 0 .. m - 1 : k \in 0 .. n - 1 /\ off + k < end
  OBVIOUS
<1>2. 0 .. m - 1 \in SUBSET T
  BY <1>1
<1>3. IsFiniteSet(0 .. n - 1) /\ Cardinality(0 .. m - 1) = m
  BY FS_Interval
<1>4. IsFiniteSet(T)
  BY <1>3, FS_Subset
<1>5. Cardinality(0 .. m - 1) <= Cardinality(T)
  BY <1>2, <1>4, FS_Subset
<1> QED
  BY <1>1, <1>3, <1>5

\* The first rret bytes of the range are delivered, which the file has, and no
\* fewer than there are when the request went through opends_direct_pread.
RefDone ==
  /\ backend = "ref" /\ rq.off \in Nat /\ rq.n \in Nat /\ wantSize \in Nat
  /\ rret \in Nat /\ rret <= rq.n
  /\ rret > 0 => rq.off + rret <= wantSize
  /\ got > 0 /\ rret < rq.n => rq.off + rret >= wantSize
  /\ \A k \in Offsets : buf[k] = IF k < rret THEN want[rq.off + k] ELSE Junk

\* That is what the application can count on.
LEMMA RefDelivers == RefDone => ReadExact
<1> SUFFICES ASSUME RefDone PROVE ReadExact
  OBVIOUS
<1> DEFINE T == {k \in 0 .. rq.n - 1 : rq.off + k < wantSize}
<1>0. /\ rq.off \in Nat /\ rq.n \in Nat /\ wantSize \in Nat
      /\ rret \in Nat /\ rret <= rq.n
      /\ rret > 0 => rq.off + rret <= wantSize
      /\ got > 0 /\ rret < rq.n => rq.off + rret >= wantSize
  BY DEF RefDone
<1>1. rret <= Cardinality(T)
  BY <1>0, CountedAtLeast
<1>2. got > 0 => Cardinality(T) = rret
  BY <1>0, Counted
<1>3. T = {k \in Asked : rq.off + k < wantSize}
  BY DEF Asked
<1> QED
  BY <1>1, <1>2, <1>3 DEF ReadExact, RefDone

\* What the reference backend's read relies on.
LEMMA RefFacts ==
  ASSUME FileInv, PlanInv, SteadyInv, RefInv, backend = "ref", rpc # "ret"
  PROVE  /\ rq.off \in Nat /\ rq.n \in Nat /\ Start(rq) \in Nat
         /\ Span(rq) \in Nat /\ HeadBytes(rq) \in Nat
         /\ rq.off = Start(rq) + HeadBytes(rq)
         /\ HeadBytes(rq) + rq.n <= Span(rq)
         /\ size \in Nat /\ NBlocks * Align \in Nat /\ size <= NBlocks * Align
         /\ wantSize \in Nat
         /\ \A k \in Offsets : k \in Nat /\ buf[k] = Junk
         /\ \A p \in Nat : p < size => p \in Positions
<1>1. /\ rq.off \in Nat /\ rq.n \in Nat /\ size \in Nat /\ wantSize \in Nat
      /\ size <= NBlocks * Align /\ \A k \in Offsets : buf[k] = Junk
  BY DEF PlanInv, PlanTyped, FileInv, FileTyped, SteadyInv, RoomInv, RefInv
<1>2. NBlocks * Align \in Nat /\ \A k \in Offsets : k \in Nat
  <2>1. NBlocks * Align \in Nat /\ (NBlocks + 2) * Align \in Nat
    BY StoreAssumption
  <2> QED
    BY <2>1 DEF Offsets
<1>3. \A p \in Nat : p < size => p \in Positions
  <2>1. SUFFICES ASSUME NEW p \in Nat, p < size PROVE p \in Positions
    OBVIOUS
  <2> DEFINE top == NBlocks * Align
  <2>2. top \in Nat /\ p < top
    BY <1>1, <1>2, <2>1
  <2>3. Positions = 0 .. top - 1
    BY DEF Positions
  <2> HIDE DEF top
  <2> QED
    BY <2>2, <2>3
<1> QED
  BY <1>1, <1>2, <1>3, AroundRead

\* One pread of the aligned range.
LEMMA PreadKeeps ==
  ASSUME FileInv, PlanInv, SteadyInv, RefInv, backend = "ref", PreadSome,
         UNCHANGED <<storeVars, backend>>
  PROVE  RefInv' /\ rpc' # "ret"
<1> DEFINE at == Start(rq)
<1>1. /\ rpc = "pread" /\ got \in Nat /\ got < Span(rq)
      /\ got > 0 => at + got <= size
      /\ \A i \in 0 .. got - 1 : stage[i] = data[at + i]
      /\ \A k \in Offsets : buf[k] = Junk
  BY DEF PreadSome, RefInv
<1>2. /\ at \in Nat /\ Span(rq) \in Nat /\ size \in Nat
      /\ \A p \in Nat : p < size => p \in Positions
  BY <1>1, RefFacts
<1>3. PICK r \in Readable(at + got, Span(rq) - got) :
        /\ got' = got + r
        /\ stage' = [i \in Positions |-> IF i \in got .. got + r - 1
                                           THEN data[at + i] ELSE stage[i]]
        /\ rpc' = IF r = 0 THEN "copyout" ELSE "pread"
  BY DEF PreadSome
<1>4. UNCHANGED <<rq, buf, data, size, backend>>
  BY DEF PreadSome, storeVars, fileVars
<1>5. Start(rq)' = at /\ Span(rq)' = Span(rq)
  BY <1>4 DEF Start, Span, HeadBytes
<1> HIDE DEF at
<1>6. /\ r \in Nat /\ got + r <= Span(rq)
      /\ r > 0 => at + got + r <= size
      /\ r = 0 => at + got >= size
  BY <1>1, <1>2 DEF Readable
<1>7. got' \in Nat /\ got' <= Span(rq) /\ (got' > 0 => at + got' <= size)
  BY <1>1, <1>2, <1>3, <1>6
<1>8. ASSUME NEW i \in 0 .. got' - 1 PROVE stage'[i] = data[at + i]
  <2>1. i \in Nat /\ i < got + r /\ at + i < size
    BY <1>1, <1>2, <1>3, <1>6, <1>7
  <2>2. i < size
    BY <1>2, <2>1
  <2>3. i \in Positions
    BY <1>2, <2>1, <2>2
  <2>4. i \in 0 .. got - 1 \/ i \in got .. got + r - 1
    BY <1>1, <1>6, <2>1
  <2> QED
    BY <1>1, <1>3, <2>3, <2>4
<1>9. rpc' = "copyout" => at + got' >= size
  BY <1>1, <1>2, <1>3, <1>6
<1>10. rpc' \in {"pread", "copyout"}
  BY <1>3
<1> QED
  BY <1>1, <1>4, <1>5, <1>7, <1>8, <1>9, <1>10 DEF RefInv, at

\* The copy to the caller ends the read.
LEMMA CopyOutExact ==
  ASSUME FileInv, PlanInv, SteadyInv, RefInv, backend = "ref", CopyOut,
         UNCHANGED <<storeVars, backend, histVars>>
  PROVE  ReadExact'
<1> DEFINE at == Start(rq)
           head == HeadBytes(rq)
           m == Delivered(rq)
<1>1. /\ got \in Nat /\ got <= Span(rq) /\ (got > 0 => at + got <= size)
      /\ \A i \in 0 .. got - 1 : stage[i] = data[at + i]
      /\ at + got >= size \/ got >= Span(rq)
      /\ rpc # "ret" /\ rpc # "idle"
  BY DEF CopyOut, RefInv
<1>2. /\ rq.off \in Nat /\ rq.n \in Nat /\ at \in Nat /\ head \in Nat
      /\ Span(rq) \in Nat /\ rq.off = at + head /\ head + rq.n <= Span(rq)
      /\ size \in Nat /\ wantSize \in Nat
      /\ \A k \in Offsets : k \in Nat /\ buf[k] = Junk
      /\ \A p \in Nat : p < size => p \in Positions
  BY <1>1, RefFacts
<1>3. /\ buf' = [k \in Offsets |-> IF k < m THEN stage[head + k] ELSE buf[k]]
      /\ rret' = m /\ UNCHANGED <<rq, got>>
      /\ UNCHANGED <<want, wantSize, failed, backend>>
  BY DEF CopyOut, ReadReturns, histVars
<1>4. /\ m \in Nat /\ m <= rq.n /\ (m > 0 => head + m <= got)
      /\ (m < rq.n => (m = 0 /\ got <= head) \/ m = got - head)
  BY <1>1, <1>2 DEF Delivered
<1> HIDE DEF at, head, m
<1>5. CASE failed
  BY <1>3, <1>5 DEF ReadExact
<1>6. CASE ~failed
  <2>1. size = wantSize /\ \A p \in Positions : data[p] = want[p]
    BY <1>1, <1>6, FileIsWanted
  <2>2. m > 0 => rq.off + m <= wantSize
    BY <1>1, <1>2, <1>4, <2>1
  <2>3. got > 0 /\ m < rq.n => rq.off + m >= wantSize
    <3>1. SUFFICES ASSUME got > 0, m < rq.n PROVE rq.off + m >= wantSize
      OBVIOUS
    <3>2. got < Span(rq)
      BY <1>1, <1>2, <1>4, <3>1
    <3>3. at + got >= wantSize
      BY <1>1, <1>2, <2>1, <3>2
    <3> QED
      BY <1>1, <1>2, <1>4, <2>1, <3>1, <3>3
  <2>4. ASSUME NEW k \in Offsets
        PROVE  buf'[k] = IF k < m THEN want[rq.off + k] ELSE Junk
    <3>1. CASE k < m
      <4>1. k \in Nat /\ head + k \in 0 .. got - 1 /\ at + (head + k) = rq.off + k
        BY <1>1, <1>2, <1>4, <3>1
      <4>2. rq.off + k < size /\ rq.off + k \in Nat
        BY <1>2, <1>4, <2>1, <2>2, <3>1, <4>1
      <4>3. stage[head + k] = data[rq.off + k]
        BY <1>1, <4>1
      <4>4. data[rq.off + k] = want[rq.off + k]
        BY <1>2, <2>1, <4>2
      <4> QED
        BY <1>3, <3>1, <4>3, <4>4
    <3>2. CASE ~(k < m)
      BY <1>2, <1>3, <3>2
    <3> QED
      BY <3>1, <3>2
  <2>5. RefDone'
    BY <1>2, <1>3, <1>4, <2>2, <2>3, <2>4 DEF RefDone
  <2> QED
    BY <2>5, RefDelivers, PTL
<1> QED
  BY <1>5, <1>6

\* So does one pread of an aligned request.
LEMMA PlainExact ==
  ASSUME FileInv, PlanInv, SteadyInv, RefInv, backend = "ref", PlainRead
  PROVE  ReadExact'
<1>1. PICK r \in Readable(rq.off, rq.n) \cup IF rq.n = 0 THEN {0} ELSE {} :
        /\ buf' = [k \in Offsets |-> IF k < r THEN data[rq.off + k] ELSE buf[k]]
        /\ rret' = r
  BY DEF PlainRead, ReadReturns
<1>2. /\ rq.off \in Nat /\ rq.n \in Nat /\ size \in Nat /\ wantSize \in Nat
      /\ \A k \in Offsets : k \in Nat /\ buf[k] = Junk
      /\ \A p \in Nat : p < size => p \in Positions
  BY RefFacts DEF PlainRead
<1>3. got = 0 /\ rpc # "idle" /\ UNCHANGED <<rq, got>>
      /\ UNCHANGED <<want, wantSize, failed, backend>>
  BY DEF RefInv, PlainRead, histVars, preadVars
<1>4. r \in Nat /\ r <= rq.n /\ (r > 0 => rq.off + r <= size)
  BY <1>2 DEF Readable
<1>5. CASE failed
  BY <1>3, <1>5 DEF ReadExact
<1>6. CASE ~failed
  <2>1. size = wantSize /\ \A p \in Positions : data[p] = want[p]
    BY <1>3, <1>6, FileIsWanted
  <2>2. ASSUME NEW k \in Offsets
        PROVE  buf'[k] = IF k < r THEN want[rq.off + k] ELSE Junk
    <3>1. CASE k < r
      <4>1. rq.off + k \in Nat /\ rq.off + k < size
        BY <1>2, <1>4, <3>1
      <4>2. data[rq.off + k] = want[rq.off + k]
        BY <1>2, <2>1, <4>1
      <4> QED
        BY <1>1, <3>1, <4>2
    <3>2. CASE ~(k < r)
      BY <1>1, <1>2, <3>2
    <3> QED
      BY <3>1, <3>2
  <2>3. RefDone'
    BY <1>1, <1>2, <1>3, <1>4, <2>1, <2>2 DEF RefDone
  <2> QED
    BY <2>3, RefDelivers, PTL
<1> QED
  BY <1>5, <1>6

\* While an application reads there are no writes.
LEMMA NoWrites ==
  ASSUME SteadyInv, rpc # "idle", [Next]_vars
  PROVE  ReadGoes \/ ReadFaults \/ HomiStep \/ UNCHANGED vars
<1>1. \A o \in Writes : wpc[o] \in {"idle", "ret"}
  BY DEF SteadyInv, QuietInv, InFlight
<1>2. ASSUME NEW o \in Writes PROVE ~WriteGoes(o) /\ ~WriteFaults(o)
  BY <1>1 DEF WriteGoes, WriteFaults, DirectGoes, AllocBounce, Stat, FillHead,
     FillTail, Copy, WriteSome, Truncate, PlainWrite, FinishWrite, DirectFails,
     PwriteFails, PlainFails, MarkFails
<1> QED
  BY <1>2 DEF Next, SubmitWrite, SubmitRead, SubmitRefRead

\* When it has returned, nothing it has delivered changes.
LEMMA ReturnStays ==
  ASSUME SteadyInv, DoneInv, rpc = "ret", ReadExact, [Next]_vars
  PROVE  ReadExact' /\ rpc' = "ret"
<1>1. cmds = {}
  BY DEF DoneInv
<1>2. ~ReadGoes /\ ~ReadFaults
  BY <1>1 DEF ReadGoes, ReadFaults, PlanGoes, PlanFaults, PreadGoes, PlainRead,
     PreadFault, PlainReadFails, PreadSome, CopyOut, PreadFails, Resolve,
     NextExtent, IssueHead, IssueChunk, IssueTail, NoTail, PlanRefuses,
     CompleteRead, ResolveFails, SubmitFails, CopyBackFails
<1>3. HomiStep \/ UNCHANGED vars
  BY <1>2, NoWrites
<1>4. UNCHANGED <<rpc, rq, buf, rret, failed, backend, blocks, want, wantSize>>
        /\ UNCHANGED got
  BY <1>3 DEF HomiStep, Refresh, vars, storeVars, fileVars, readVars, histVars,
              preadVars
<1> QED
  BY <1>4 DEF ReadExact, Asked, Mapped

\* What is in the device when a read returns.
LEMMA DoneNext ==
  ASSUME SteadyInv, PlanInv, DoneInv, [Next]_vars
  PROVE  DoneInv'
<1>1. backend' = backend
  BY DEF Next, SubmitWrite, WriteGoes, WriteFaults, PlainWrite, FinishWrite,
     PlainFails, MarkFails, SubmitRead, SubmitRefRead, ReadGoes, ReadFaults,
     PlainRead, PlainReadFails, HomiStep, vars
<1>2. CASE ReadGoes \/ ReadFaults
  <2>1. CASE PlanGoes \/ PlanFaults
    <3>1. \/ rpc = "resolve" \/ rpc = "extent" \/ rpc = "head"
          \/ rpc = "middle" \/ rpc = "wait"
          \/ rpc' = rpc /\ cmds' \subseteq cmds
      BY <2>1 DEF PlanGoes, PlanFaults, Resolve, NextExtent, IssueHead,
         IssueChunk, IssueTail, NoTail, PlanRefuses, CompleteRead, Complete,
         ResolveFails, SubmitFails, CopyBackFails, CompleteFails
    <3>2. CASE rpc' = rpc /\ cmds' \subseteq cmds
      BY <1>1, <3>2 DEF DoneInv
    <3>3. CASE rpc \in {"resolve", "extent", "head", "middle", "wait"}
      <4>1. backend # "ref"
        BY <3>3 DEF SteadyInv, SideInv, RefRead
      <4>2. rpc' = "ret" => cmds' = {}
        BY <2>1, <3>3 DEF PlanGoes, PlanFaults, Resolve, NextExtent, IssueHead,
           IssueChunk, IssueTail, NoTail, PlanRefuses, CompleteRead, Complete,
           ResolveFails, SubmitFails, CopyBackFails, CompleteFails, GiveUp,
           AllDone, planVars, issued
      <4> QED
        BY <1>1, <4>1, <4>2 DEF DoneInv
    <3> QED
      BY <3>1, <3>2, <3>3
  <2>2. CASE ~PlanGoes /\ ~PlanFaults
    <3>1. /\ UNCHANGED planVars
          /\ rpc \in {"plain", "pread", "copyout"}
      BY <1>2, <2>2 DEF ReadGoes, ReadFaults, PreadGoes, PreadFault, PlainRead,
         PlainReadFails, PreadSome, CopyOut, PreadFails
    <3>2. backend = "ref"
      BY <3>1 DEF SteadyInv, SideInv, AisioRead
    <3> QED
      BY <1>1, <3>1, <3>2 DEF DoneInv, planVars, issued
  <2> QED
    BY <2>1, <2>2
<1>3. CASE \/ \E q \in ReadReqs : SubmitRead(q)
           \/ \E q \in ReadReqs, a \in BOOLEAN : SubmitRefRead(q, a)
  <2>1. cmds' = {}
    BY <1>3 DEF SubmitRead, SubmitRefRead, BeginPlan, PlanInv, BeforeInv,
                planVars, issued
  <2> QED
    BY <2>1 DEF DoneInv
<1>4. CASE \/ \E o \in Writes, q \in WriteReqs, a \in BOOLEAN :
                SubmitWrite(o, q, a)
           \/ \E o \in Writes : WriteGoes(o) \/ WriteFaults(o)
           \/ HomiStep \/ UNCHANGED vars
  <2>1. UNCHANGED <<readVars, planVars>>
    BY <1>4 DEF SubmitWrite, WriteGoes, WriteFaults, DirectGoes, PlainWrite,
                FinishWrite, DirectFails, PlainFails, MarkFails, HomiStep, vars
  <2> QED
    BY <1>1, <2>1 DEF DoneInv, readVars, planVars, issued
<1> QED
  BY <1>2, <1>3, <1>4 DEF Next

\* The reference backend: every step keeps what is known of a read, and a read
\* that returns is exact.
LEMMA RefNext ==
  ASSUME FileInv, PlanInv, SteadyInv, DoneInv, RefInv, ReadExact,
         backend = "ref", [Next]_vars
  PROVE  RefInv' /\ ReadExact'
<1>1. CASE rpc = "ret"
  <2>1. ReadExact' /\ rpc' = "ret"
    BY <1>1, ReturnStays
  <2>2. RefInv'
    BY <2>1 DEF RefInv
  <2> QED
    BY <2>1, <2>2
<1>2. CASE rpc = "idle"
  <2>0. got = 0 /\ \A k \in Offsets : buf[k] = Junk
    BY <1>2 DEF RefInv
  <2>1. ASSUME UNCHANGED <<rpc, buf, got>> PROVE RefInv' /\ ReadExact'
    BY <1>2, <2>0, <2>1 DEF RefInv, ReadExact
  <2>2. CASE \/ \E o \in Writes, q \in WriteReqs, a \in BOOLEAN :
                  SubmitWrite(o, q, a)
             \/ \E o \in Writes : WriteGoes(o) \/ WriteFaults(o)
             \/ HomiStep \/ UNCHANGED vars
    <3>1. UNCHANGED <<readVars, preadVars>>
      BY <2>2 DEF SubmitWrite, WriteGoes, WriteFaults, DirectGoes, PlainWrite,
                  FinishWrite, DirectFails, PlainFails, MarkFails, HomiStep,
                  vars
    <3> QED
      BY <2>1, <3>1 DEF readVars, preadVars
  <2>3. ASSUME NEW q \in ReadReqs, NEW a \in BOOLEAN, SubmitRefRead(q, a)
        PROVE  RefInv' /\ ReadExact'
    <3>1. /\ rq' = q /\ buf' = buf /\ got' = got /\ backend' = "ref"
          /\ \/ rpc' \in {"plain", "pread"}
             \/ rpc' = "ret" /\ rret' = 0 /\ q.n = 0
          /\ UNCHANGED <<want, wantSize>>
      BY <2>3 DEF SubmitRefRead, ReadReturns, preadVars, histVars
    <3>2. q.off \in Nat /\ q.n \in Nat
      BY RequestAssumption
    <3>3. Span(q) \in Nat
      BY <3>2, AroundRead
    <3>4. Span(rq)' = Span(q)
      BY <3>1 DEF Span, HeadBytes
    <3>5. RefInv'
      BY <2>0, <3>1, <3>3, <3>4 DEF RefInv
    <3>6. CASE rpc' # "ret"
      BY <3>5, <3>6 DEF ReadExact
    <3>7. CASE rpc' = "ret"
      <4>1. wantSize \in Nat /\ \A k \in Offsets : k \in Nat
        <5>1. (NBlocks + 2) * Align \in Nat
          BY StoreAssumption
        <5> QED
          BY <5>1 DEF FileInv, FileTyped, Offsets
      <4>2. \A k \in Offsets : buf'[k] = IF k < rret' THEN want'[rq'.off + k] ELSE Junk
        BY <2>0, <3>1, <3>7, <4>1
      <4>3. RefDone'
        BY <2>0, <3>1, <3>2, <3>7, <4>1, <4>2 DEF RefDone
      <4> QED
        BY <3>5, <4>3, RefDelivers, PTL
    <3> QED
      BY <3>6, <3>7
  <2>4. ASSUME NEW q \in ReadReqs, SubmitRead(q) PROVE FALSE
    BY <2>4 DEF SubmitRead
  <2>5. ASSUME ReadGoes \/ ReadFaults PROVE FALSE
    <3>1. cmds = {}
      BY DEF DoneInv
    <3> QED
      BY <1>2, <2>5, <3>1 DEF ReadGoes, ReadFaults, PlanGoes, PlanFaults,
         PreadGoes, PlainRead, PreadFault, PlainReadFails, PreadSome, CopyOut,
         PreadFails, Resolve, NextExtent, IssueHead, IssueChunk, IssueTail,
         NoTail, PlanRefuses, CompleteRead, ResolveFails, SubmitFails,
         CopyBackFails
  <2> QED
    BY <2>2, <2>3, <2>4, <2>5 DEF Next
<1>3. CASE rpc \notin {"idle", "ret"}
  <2>1. rpc \in {"plain", "pread", "copyout"}
    BY <1>3 DEF SteadyInv, SideInv, RefRead
  <2>2. CASE HomiStep \/ UNCHANGED vars
    <3>1. UNCHANGED <<rpc, rq, buf, got, stage, data, size, backend>>
      BY <2>2 DEF HomiStep, Refresh, vars, storeVars, fileVars, readVars,
                  preadVars
    <3>2. Start(rq)' = Start(rq) /\ Span(rq)' = Span(rq)
      BY <3>1 DEF Start, Span, HeadBytes
    <3> QED
      BY <1>3, <3>1, <3>2 DEF RefInv, ReadExact
  <2>3. ASSUME PlanGoes \/ PlanFaults PROVE FALSE
    <3>1. cmds = {}
      BY DEF DoneInv
    <3> QED
      BY <2>1, <2>3, <3>1 DEF PlanGoes, PlanFaults, Resolve,
         NextExtent, IssueHead, IssueChunk, IssueTail, NoTail, PlanRefuses,
         CompleteRead, ResolveFails, SubmitFails, CopyBackFails
  <2>4. CASE PreadGoes /\ UNCHANGED <<planVars, backend, histVars>>
    <3>1. CASE PreadSome
      BY <2>4, <3>1, PreadKeeps DEF PreadGoes, ReadExact
    <3>2. CASE CopyOut
      <4>1. ReadExact'
        BY <2>4, <3>2, CopyOutExact DEF PreadGoes
      <4>2. RefInv'
        BY <3>2 DEF CopyOut, ReadReturns, RefInv
      <4> QED
        BY <4>1, <4>2
    <3> QED
      BY <2>4, <3>1, <3>2 DEF PreadGoes
  <2>5. CASE PlainRead
    <3>1. ReadExact'
      BY <2>5, PlainExact
    <3>2. RefInv'
      BY <2>5 DEF PlainRead, ReadReturns, RefInv
    <3> QED
      BY <3>1, <3>2
  <2>6. CASE PreadFault \/ PlainReadFails
    BY <2>6 DEF PreadFault, PreadFails, PlainReadFails, ReadReturns, RefInv,
                ReadExact
  <2>7. ReadGoes \/ ReadFaults \/ HomiStep \/ UNCHANGED vars
    BY <1>3, NoWrites
  <2> QED
    BY <2>2, <2>3, <2>4, <2>5, <2>6, <2>7 DEF ReadGoes, ReadFaults
<1> QED
  BY <1>1, <1>2, <1>3
-----------------------------------------------------------------------------
(***************************************************************************)
(* The bytes of the aisio backend's reads.                                 *)
(***************************************************************************)

\* The bytes of a request lie in the caller's buffer, and so many are issued.
LEMMA IssuedIn ==
  ASSUME PlanTyped
  PROVE  /\ Issued \subseteq Asked /\ Seen \subseteq Asked
         /\ IsFiniteSet(Issued) /\ Cardinality(Issued) \in Nat
         /\ \A k \in Asked : k \in Offsets /\ k \in Nat
<1>1. Issued \subseteq Asked /\ Seen \subseteq Asked
  BY DEF Issued, Seen
<1>2. IsFiniteSet(Asked)
  <2>1. 0 \in Int /\ rq.n - 1 \in Int
    BY DEF PlanTyped
  <2> QED
    BY <2>1, FS_Interval DEF Asked
<1>3. IsFiniteSet(Issued)
  BY <1>1, <1>2, FS_Subset
<1>4. \A k \in Asked : k \in Offsets /\ k \in Nat
  <2>1. (NBlocks + 2) * Align \in Nat
    BY StoreAssumption
  <2> DEFINE m == (NBlocks + 2) * Align
  <2>2. rq.n \in Nat /\ rq.n <= m /\ m \in Nat
    BY <2>1 DEF PlanTyped
  <2>3. Offsets = 0 .. m
    BY DEF Offsets
  <2> HIDE DEF m
  <2> QED
    BY <2>2, <2>3 DEF Asked
<1> QED
  BY <1>1, <1>3, <1>4, FS_CardinalityType

\* A byte of the request that lies in an extent is where the extent says.
LEMMA Fetch ==
  ASSUME PlanTyped, Locates(ext, blocks), NEW i \in 1 .. Len(ext),
         NEW k \in Nat, Holds(ext[i], rq.off + k)
  PROVE  /\ rq.off + k \in Positions
         /\ (rq.off + k) \div Align \in blocks
         /\ Fetches(ext[i].slba + (((rq.off + k) - ext[i].fo) \div Lba),
                    ((rq.off + k) - ext[i].fo) % Lba, k)
<1> DEFINE p == rq.off + k
           e == ext[i]
<1>1. /\ p \in Nat /\ e.fo \in Nat /\ e.len \in Nat
      /\ e.fo + e.len <= NBlocks * Align
  <2>1. rq.off \in Nat
    BY DEF PlanTyped
  <2>2. e.fo \in Nat /\ e.len \in Nat /\ e.fo + e.len <= NBlocks * Align
    <3>1. Tidy(ext)
      BY DEF PlanTyped
    <3> QED
      BY <3>1 DEF Tidy
  <2> QED
    BY <2>1, <2>2
<1>2. e.fo <= p /\ p < e.fo + e.len
  BY DEF Holds
<1>3. p \in Positions
  <2>1. NBlocks * Align \in Nat
    BY StoreAssumption
  <2> DEFINE m == NBlocks * Align
  <2>2. m \in Nat /\ e.fo + e.len <= m /\ Positions = 0 .. m - 1
    BY <1>1, <2>1 DEF Positions
  <2> HIDE DEF m, p, e
  <2> QED
    BY <1>1, <1>2, <2>2
<1>h. Holds(e, p)
  OBVIOUS
<1> HIDE DEF p, e
<1>4. /\ p \div Align \in blocks
      /\ e.slba + ((p - e.fo) \div Lba) = Place[p \div Align] + ((p % Align) \div Lba)
      /\ (p - e.fo) % Lba = p % Lba
  BY <1>3, <1>h DEF Locates, e
<1>5. OnDevice(Place[p \div Align] + ((p % Align) \div Lba), p % Lba) = data[p]
  BY <1>3, <1>4, DeviceHas
<1>6. OnDevice(e.slba + ((p - e.fo) \div Lba), (p - e.fo) % Lba) = data[p]
  BY <1>4, <1>5
<1>7. Fetches(e.slba + ((p - e.fo) \div Lba), (p - e.fo) % Lba, k)
  BY <1>6 DEF Fetches, p
<1>8. /\ p \in Positions /\ p \div Align \in blocks
      /\ Fetches(e.slba + ((p - e.fo) \div Lba), (p - e.fo) % Lba, k)
  BY <1>3, <1>4, <1>7
<1>9. p = rq.off + k /\ e = ext[i]
  BY DEF p, e
<1> QED
  BY <1>8, <1>9

\* The next n bytes of the current extent are no longer to be read.
LEMMA IssuedGrows ==
  ASSUME PlanInv, rpc \in {"head", "middle"}, NEW n \in Nat, 0 < n, n <= left,
         UNCHANGED <<rq, ext, xi>>,
         \/ rpc' = "middle" /\ dst' = dst + n /\ left' = left - n
         \/ rpc' = "extent" /\ n = left
  PROVE  /\ Issued' = Issued \cup (dst .. dst + n - 1)
         /\ (dst .. dst + n - 1) \cap Issued = {}
         /\ dst .. dst + n - 1 \subseteq Asked
<1> DEFINE T == dst .. dst + n - 1
<1>1. /\ dst \in Nat /\ left \in Nat /\ Rest = dst .. dst + left - 1
      /\ Rest \subseteq Seen /\ Seen \subseteq Asked
  BY RestSeen DEF PlanInv, CursorInv
<1>2. Seen' = Seen
  BY DEF Seen, Asked, Holds
<1>3. Rest = T \cup Rest' /\ T \cap Rest' = {}
  <2>1. CASE rpc' = "middle" /\ dst' = dst + n /\ left' = left - n
    <3>1. Rest' = dst + n .. dst + n + (left - n) - 1
      BY <2>1 DEF Rest
    <3> QED
      BY <1>1, <3>1
  <2>2. CASE rpc' = "extent" /\ n = left
    <3>1. Rest' = {}
      BY <2>2 DEF Rest
    <3> QED
      BY <1>1, <2>2, <3>1
  <2> QED
    BY <2>1, <2>2
<1> HIDE DEF T
<1>4. Issued' = Issued \cup T /\ T \cap Issued = {} /\ T \subseteq Asked
  BY <1>1, <1>2, <1>3 DEF Issued
<1> QED
  BY <1>4 DEF T

\* Looking at an extent issues nothing; there are none left when every byte of
\* the request in an extent has been seen.
LEMMA LookIssuesNothing ==
  ASSUME PlanInv, NextExtent
  PROVE  /\ Issued' = Issued
         /\ NoneLeft => rpc' = "wait" /\ Seen' = InExtents'
<1>1. /\ rpc = "extent" /\ UNCHANGED <<rq, ext>>
      /\ Tidy(ext) /\ rq.off \in Nat /\ rq.n \in Nat
      /\ Len(ext) \in Nat /\ xi \in 1 .. Len(ext) + 1
      /\ Issued \subseteq Issued'
  BY NextExtentKeeps DEF NextExtent, PlanInv, PlanTyped, Tidy
<1>2. CASE NoneLeft
  <2>1. rpc' = "wait" /\ UNCHANGED cursor
    BY <1>2 DEF NextExtent
  <2>2. Issued' = Issued /\ Seen' = Seen /\ InExtents' = InExtents
    BY <1>1, <2>1 DEF Issued, Seen, Rest, Asked, Holds, cursor, InExtents
  <2>3. ASSUME NEW k \in Asked, NEW i \in 1 .. Len(ext), i >= xi
        PROVE  ~Holds(ext[i], rq.off + k)
    <3>1. xi \in 1 .. Len(ext) /\ ext[xi].fo >= rq.off + rq.n
      BY <1>1, <1>2, <2>3 DEF NoneLeft, ReqEnd
    <3>2. ext[i].fo \in Nat /\ ext[xi].fo \in Nat /\ ext[xi].len \in Nat
      BY <1>1, <3>1 DEF Tidy
    <3>3. ext[xi].fo <= ext[i].fo
      <4>1. CASE i = xi
        BY <3>2, <4>1
      <4>2. CASE i # xi
        <5>1. ext[xi].fo + ext[xi].len <= ext[i].fo
          BY <1>1, <2>3, <3>1, <4>2 DEF Tidy
        <5> QED
          BY <3>2, <5>1
      <4> QED
        BY <4>1, <4>2
    <3>4. k \in Nat /\ k < rq.n
      BY <1>1 DEF Asked
    <3> DEFINE a == rq.off
               b == rq.n
               c == ext[i].fo
               d == ext[xi].fo
    <3>5. a \in Nat /\ b \in Nat /\ c \in Nat /\ d \in Nat /\ d >= a + b /\ d <= c
          /\ k \in Nat /\ k < b
      BY <1>1, <3>1, <3>2, <3>3, <3>4
    <3> HIDE DEF a, b, c, d
    <3>6. ~(c <= a + k)
      BY <3>5
    <3> QED
      BY <3>6 DEF Holds, a, c
  <2>4. InExtents = Seen
    <3>1. ASSUME NEW k \in InExtents PROVE k \in Seen
      <4>1. PICK i \in 1 .. Len(ext) : k \in Asked /\ Holds(ext[i], rq.off + k)
        BY DEF InExtents
      <4>2. i \in 1 .. xi - 1
        BY <1>1, <2>3, <4>1
      <4> QED
        BY <4>1, <4>2 DEF Seen
    <3>2. ASSUME NEW k \in Seen PROVE k \in InExtents
      <4>1. PICK i \in 1 .. xi - 1 : k \in Asked /\ Holds(ext[i], rq.off + k)
        BY DEF Seen
      <4>2. i \in 1 .. Len(ext)
        BY <1>1
      <4> QED
        BY <4>1, <4>2 DEF InExtents
    <3> QED
      BY <3>1, <3>2
  <2> QED
    BY <2>1, <2>2, <2>4
<1>3. CASE ~NoneLeft
  <2> DEFINE e == ext[xi]
  <2>1. xi <= Len(ext) /\ xi \in 1 .. Len(ext) /\ xi' = xi + 1
    BY <1>1, <1>3 DEF NoneLeft, NextExtent
  <2>2. e.fo \in Nat /\ e.len \in Nat
    BY <1>1, <2>1 DEF Tidy
  <2>3. Seen' \subseteq Seen \cup {k \in Asked : Holds(e, rq.off + k)}
    <3>1. \A i \in 1 .. xi' - 1 : i \in 1 .. xi - 1 \/ i = xi
      BY <1>1, <2>1
    <3> QED
      BY <1>1, <3>1 DEF Seen, Asked, Holds
  <2>4. Issued = Seen
    BY <1>1 DEF Issued, Rest
  <2>5. ASSUME NEW k \in Asked, Holds(e, rq.off + k) PROVE k \in Rest'
    <3> DEFINE from == SpanStart(e)
               to == SpanEnd(e)
               a == rq.off
               b == rq.n
               c == e.fo
               d == e.len
    <3>1. /\ k \in Nat /\ k < b /\ c <= a + k /\ a + k < c + d
          /\ a \in Nat /\ b \in Nat /\ c \in Nat /\ d \in Nat
      BY <1>1, <2>2, <2>5 DEF Asked, Holds
    <3>2. /\ from = (IF a > c THEN a ELSE c)
          /\ to = (IF a + b < c + d THEN a + b ELSE c + d)
      BY DEF SpanStart, SpanEnd, GreaterOf, LesserOf, ReqEnd
    <3>3. /\ from >= to => UNCHANGED <<rpc, slba, dst, left, skip>>
          /\ from < to => /\ dst' = from - a /\ left' = to - from
                          /\ rpc' \in {"head", "middle"}
      <4>1. IF from >= to
              THEN UNCHANGED <<rpc, slba, dst, left, skip>>
              ELSE /\ dst' = from - a /\ left' = to - from
                   /\ rpc' \in {"head", "middle"}
        BY <1>3 DEF NextExtent
      <4>2. from \in Nat /\ to \in Nat
        <5> HIDE DEF from, to, a, b, c, d
        <5> QED
          BY <3>1, <3>2
      <4> HIDE DEF from, to, a
      <4> QED
        BY <4>1, <4>2
    <3> HIDE DEF from, to, a, b, c, d, e
    <3>4. from \in Nat /\ to \in Nat /\ from <= a + k /\ a + k < to /\ a <= from
      BY <3>1, <3>2
    <3>5. dst' = from - a /\ left' = to - from /\ rpc' \in {"head", "middle"}
      BY <3>1, <3>3, <3>4
    <3>6. k \in dst' .. dst' + left' - 1
      BY <3>1, <3>4, <3>5
    <3> QED
      BY <3>5, <3>6 DEF Rest
  <2>6. Issued' \subseteq Issued
    BY <2>3, <2>4, <2>5 DEF Issued
  <2> QED
    BY <1>1, <1>3, <2>6
<1> QED
  BY <1>2, <1>3

\* The file and the request do not change under a read.
LEMMA FetchesSame ==
  ASSUME UNCHANGED <<data, blocks, rq>>
  PROVE  \A l, j, k : Fetches(l, j, k)' <=> Fetches(l, j, k)
<1>1. \A l, j : OnDevice(l, j)' = OnDevice(l, j)
  BY DEF OnDevice
<1> QED
  BY <1>1 DEF Fetches

\* Bytes before the cursor in its LBA.
Ahead == IF rpc = "head" THEN skip ELSE 0

\* Where the cursor is, in its extent and on the device.
LEMMA CursorAt ==
  ASSUME PlanInv, PlacedInv, rpc \in {"head", "middle"}, left > 0
  PROVE  /\ xi - 1 \in 1 .. Len(ext)
         /\ Ahead \in Nat /\ Ahead < Lba /\ dst \in Nat /\ left \in Nat
         /\ ext[xi - 1].slba \in Nat /\ ext[xi - 1].fo \in Nat
         /\ rq.off \in Nat /\ ext[xi - 1].fo <= rq.off + dst
         /\ \A k \in dst .. dst + left - 1 : k \in Nat /\ Holds(ext[xi - 1], rq.off + k)
         /\ \E q \in Nat : /\ (rq.off + dst) - ext[xi - 1].fo = q * Lba + Ahead
                           /\ slba = ext[xi - 1].slba + q
<1> DEFINE e == ext[xi - 1]
           at == (rq.off + dst) - e.fo
           q == at \div Lba
<1>1. /\ xi > 1 /\ dst \in Nat /\ left \in Nat /\ skip \in Nat
      /\ dst + left <= rq.n
      /\ e.fo <= rq.off + dst
      /\ rq.off + dst + left <= e.fo + e.len
      /\ rq.off \in Nat /\ rq.n \in Nat
      /\ rpc = "head" => skip < Lba
  BY DEF PlanInv, PlanTyped, CursorInv
<1>2. xi - 1 \in 1 .. Len(ext) /\ Lba \in Nat \ {0}
  BY <1>1, StoreAssumption DEF PlanInv, PlanTyped, Tidy
<1>3. e.fo \in Nat /\ e.len \in Nat /\ e.slba \in Nat
  <2>1. Tidy(ext)
    BY DEF PlanInv, PlanTyped
  <2> HIDE DEF e
  <2> QED
    BY <1>2, <2>1 DEF Tidy, e
<1>4. Ahead \in Nat /\ Ahead < Lba
  BY <1>1, <1>2 DEF Ahead
<1>5. slba = e.slba + q /\ at % Lba = Ahead
  BY DEF PlacedInv, Ahead
<1> HIDE DEF e
<1>6. at \in Nat
  BY <1>1, <1>3
<1> HIDE DEF at
<1>7. q \in Nat /\ at = q * Lba + Ahead
  BY <1>2, <1>5, <1>6, DivMod
<1>8. ASSUME NEW k \in dst .. dst + left - 1
      PROVE  k \in Nat /\ Holds(e, rq.off + k)
  <2> DEFINE a == rq.off
             c == e.fo
             d == e.len
  <2>1. a \in Nat /\ c \in Nat /\ d \in Nat /\ c <= a + dst
        /\ a + dst + left <= c + d /\ dst \in Nat /\ left \in Nat
    BY <1>1, <1>3
  <2> HIDE DEF a, c, d
  <2>2. k \in Nat /\ c <= a + k /\ a + k < c + d
    BY <2>1
  <2> QED
    BY <2>2 DEF Holds, a, c, d
<1> HIDE DEF q
<1> QED
  BY <1>1, <1>2, <1>3, <1>4, <1>5, <1>7, <1>8 DEF e, at

\* What the device has for the bytes still to be read of the current extent.
LEMMA FetchAhead ==
  ASSUME PlanInv, PlacedInv, Locates(ext, blocks), rpc \in {"head", "middle"},
         NEW k \in dst .. dst + left - 1
  PROVE  Fetches(slba + ((Ahead + (k - dst)) \div Lba),
                 (Ahead + (k - dst)) % Lba, k)
<1> DEFINE e == ext[xi - 1]
           j == k - dst
<1>0. left > 0 /\ Lba \in Nat \ {0} /\ PlanTyped
  BY StoreAssumption DEF PlanInv, CursorInv
<1>1. /\ xi - 1 \in 1 .. Len(ext)
      /\ Ahead \in Nat /\ dst \in Nat /\ left \in Nat
      /\ e.slba \in Nat /\ e.fo \in Nat /\ rq.off \in Nat
      /\ e.fo <= rq.off + dst
      /\ k \in Nat /\ Holds(e, rq.off + k)
  BY <1>0, CursorAt
<1>2. PICK q \in Nat : /\ (rq.off + dst) - e.fo = q * Lba + Ahead
                       /\ slba = e.slba + q
  BY <1>0, CursorAt
<1>3. Fetches(e.slba + (((rq.off + k) - e.fo) \div Lba),
              ((rq.off + k) - e.fo) % Lba, k)
  BY <1>0, <1>1, Fetch
<1>4. j \in Nat
  BY <1>1
<1>5. (rq.off + k) - e.fo = q * Lba + (Ahead + j)
  <2> DEFINE a == rq.off
             c == e.fo
             m == q * Lba
  <2>0. m \in Nat
    BY <1>0
  <2>1. a \in Nat /\ c \in Nat /\ m \in Nat /\ Ahead \in Nat /\ dst \in Nat
        /\ k \in Nat /\ (a + dst) - c = m + Ahead
    <3> HIDE DEF m
    <3>1. (a + dst) - c = m + Ahead
      BY <1>2 DEF m
    <3> QED
      BY <1>1, <2>0, <3>1
  <2> HIDE DEF a, c, m
  <2>2. (a + k) - c = m + (Ahead + j)
    BY <2>1
  <2> QED
    BY <2>2 DEF a, c, m
<1> HIDE DEF e, j
<1>6. Ahead + j \in Nat
  BY <1>1, <1>4
<1>7. /\ (q * Lba + (Ahead + j)) \div Lba = q + ((Ahead + j) \div Lba)
      /\ (q * Lba + (Ahead + j)) % Lba = (Ahead + j) % Lba
  BY <1>0, <1>6, Shift
<1>8. (Ahead + j) \div Lba \in Nat
  BY <1>0, <1>6, DivMod
<1>9. e.slba + (q + ((Ahead + j) \div Lba)) = slba + ((Ahead + j) \div Lba)
  BY <1>1, <1>2, <1>8
<1>10. Fetches(slba + ((Ahead + j) \div Lba), (Ahead + j) % Lba, k)
  BY <1>3, <1>5, <1>7, <1>9
<1> QED
  BY <1>10 DEF j

\* After whole LBAs the cursor is at an LBA's first byte.
LEMMA PlacedMoves ==
  ASSUME PlanInv, PlacedInv, rpc \in {"head", "middle"}, NEW n \in Nat,
         NEW c \in Nat, 0 < n, n <= left, rpc' = "middle",
         UNCHANGED <<rq, ext, xi>>, dst' = dst + n, left' = left - n,
         left' > 0 => Ahead + n = c * Lba /\ slba' = slba + c
  PROVE  PlacedInv'
<1> DEFINE e == ext[xi - 1]
           at == (rq.off + dst) - e.fo
<1>1. SUFFICES ASSUME left' > 0
               PROVE  /\ slba' = e.slba + (((rq.off + dst') - e.fo) \div Lba)
                      /\ ((rq.off + dst') - e.fo) % Lba = 0
  BY DEF PlacedInv
<1>0. left > 0 /\ Lba \in Nat \ {0}
  BY StoreAssumption DEF PlanInv, CursorInv
<1>2. /\ Ahead \in Nat /\ dst \in Nat /\ left \in Nat
      /\ e.slba \in Nat /\ e.fo \in Nat /\ rq.off \in Nat
  BY <1>0, CursorAt
<1>3. PICK q \in Nat : at = q * Lba + Ahead /\ slba = e.slba + q
  BY <1>0, CursorAt
<1>4. (rq.off + dst') - e.fo = (q + c) * Lba
  <2> DEFINE a == rq.off
             d == e.fo
             m == q * Lba
             l == c * Lba
  <2>1. a \in Nat /\ d \in Nat /\ m \in Nat /\ l \in Nat /\ (q + c) * Lba = m + l
    BY <1>0, <1>2, <1>3
  <2>2. (a + dst) - d = m + Ahead /\ Ahead + n = l /\ dst' = dst + n
    BY <1>1, <1>3
  <2> HIDE DEF a, d, m, l, e, at
  <2>3. (a + dst') - d = m + l
    BY <1>2, <2>1, <2>2
  <2> QED
    BY <2>1, <2>3 DEF a, d, e
<1>5. q + c \in Nat /\ 0 \in 0 .. Lba - 1
  BY <1>0, <1>3
<1>6. ((q + c) * Lba + 0) \div Lba = q + c /\ ((q + c) * Lba + 0) % Lba = 0
  BY <1>0, <1>5, DivModIs
<1>7. (q + c) * Lba + 0 = (q + c) * Lba
  BY <1>0, <1>5
<1>8. slba' = e.slba + (q + c)
  BY <1>1, <1>2, <1>3
<1> QED
  BY <1>4, <1>6, <1>7, <1>8

\* Whatever is issued is of the bytes issued.
LEMMA OfIssued ==
  ASSUME PlanInv
  PROVE  /\ \A c \in cmds : c.slot = 0 => ChunkBytes(c) \subseteq Issued
         /\ \A i \in 1 .. Len(slots) : SlotBytes(slots[i]) \subseteq Issued
         /\ Coming \subseteq Issued /\ Copies \subseteq Issued
<1>1. \A T \in Targets : T \subseteq Issued
  BY DEF PlanInv, IssueInv, Scattered
<1>2. \A c \in cmds : c.slot = 0 => ChunkBytes(c) \in Targets
  BY DEF Targets, ChunkBytes
<1>3. \A i \in 1 .. Len(slots) : SlotBytes(slots[i]) \in Targets
  BY DEF Targets, SlotBytes
<1> QED
  BY <1>1, <1>2, <1>3 DEF Coming, Copies

\* A command of the middle is issued: its bytes are to come.
LEMMA ChunkGoing ==
  ASSUME PlanInv, GoingInv, IssueChunk, UNCHANGED storeVars
  PROVE  GoingInv'
<1> DEFINE n == ChunkLbas * Lba
           T == dst .. dst + n - 1
           c == [slot |-> 0, slba |-> slba, nlb |-> (ChunkLbas - 1) % MaxNlb,
                 dst |-> dst]
<1>1. /\ rpc = "middle" /\ rpc' = "middle" /\ left >= Lba
      /\ cmds' = cmds \cup {c}
      /\ dst' = dst + n /\ left' = left - n /\ slba' = slba + ChunkLbas
      /\ UNCHANGED <<rpc, rq, buf, ext, xi, skip, slots, acc, data, blocks>>
  BY DEF IssueChunk, storeVars, fileVars
<1>2. left \in Nat /\ Lba \in Nat \ {0} /\ dst \in Nat
  BY <1>1, StoreAssumption DEF PlanInv, CursorInv
<1>3. /\ n \in Nat /\ 0 < n /\ n <= left /\ ChunkLbas \in Nat
      /\ c.nlb + 1 = ChunkLbas /\ c.nlb \in Nat
  <2>1. /\ ChunkLbas \in Nat /\ ChunkLbas * Lba \in Nat /\ 0 < ChunkLbas
        /\ ChunkLbas * Lba <= left /\ Lba <= ChunkLbas * Lba
        /\ ((ChunkLbas - 1) % MaxNlb) + 1 = ChunkLbas
    BY <1>1, <1>2, ChunkIs
  <2>2. (ChunkLbas - 1) % MaxNlb \in Nat
    BY <2>1, PlanAssumption
  <2>3. c.nlb = (ChunkLbas - 1) % MaxNlb
    OBVIOUS
  <2> HIDE DEF c
  <2> QED
    BY <1>2, <2>1, <2>2, <2>3
<1>4. c.slot = 0 /\ c.dst = dst /\ c.slba = slba
  OBVIOUS
<1>5. ChunkBytes(c) = T
  BY <1>3 DEF ChunkBytes
<1> HIDE DEF c
<1>6. Issued' = Issued \cup T /\ T \cap Issued = {} /\ T \subseteq Asked
  <2> HIDE DEF n
  <2> QED
    BY <1>1, <1>2, <1>3, IssuedGrows DEF T
<1>7. T \subseteq Offsets
  BY <1>6, IssuedIn DEF PlanInv
<1>8. \A k \in T : k \in dst .. dst + left - 1 /\ k - dst \in Nat
  <2> HIDE DEF n
  <2> QED
    BY <1>2, <1>3
<1>9. Ahead = 0
  BY <1>1 DEF Ahead
<1> HIDE DEF T
<1>10. \A k \in T :
         Fetches(slba + ((k - dst) \div Lba), (k - dst) % Lba, k)
  <2> SUFFICES ASSUME NEW k \in T
               PROVE  Fetches(slba + ((k - dst) \div Lba), (k - dst) % Lba, k)
    OBVIOUS
  <2>1. k \in dst .. dst + left - 1
    BY <1>8
  <2>2. Fetches(slba + ((Ahead + (k - dst)) \div Lba),
                (Ahead + (k - dst)) % Lba, k)
    BY <1>1, <2>1, FetchAhead DEF GoingInv
  <2>3. Ahead + (k - dst) = k - dst
    BY <1>8, <1>9
  <2> QED
    BY <2>2, <2>3
<1>11. \A l, j, k : Fetches(l, j, k)' <=> Fetches(l, j, k)
  BY <1>1, FetchesSame
<1>12. /\ \A d \in cmds : d.slot = 0 => ChunkBytes(d) \cap ChunkBytes(c) = {}
       /\ \A i \in 1 .. Len(slots) : ChunkBytes(c) \cap SlotBytes(slots[i]) = {}
  BY <1>5, <1>6, OfIssued
<1>13. AnswerInv'
  <2> DEFINE Right(d) ==
               IF d.slot = 0
                 THEN /\ d.dst \in Nat /\ d.nlb \in Nat
                      /\ \A k \in ChunkBytes(d) :
                           Fetches(d.slba + ((k - d.dst) \div Lba),
                                   (k - d.dst) % Lba, k)
                 ELSE /\ d.slot \in 1 .. Len(slots)
                      /\ \A k \in SlotBytes(slots[d.slot]) :
                           Fetches(d.slba, slots[d.slot].from + (k - slots[d.slot].dst), k)
  <2>1. \A d \in cmds : Right(d)
    BY DEF GoingInv, AnswerInv
  <2>2. Right(c)
    BY <1>2, <1>3, <1>4, <1>5, <1>10
  <2>3. \A d \in cmds' : Right(d)
    BY <1>1, <2>1, <2>2
  <2>4. \A d, f \in cmds' : d.slot = 0 /\ f.slot = 0 =>
          d = f \/ ChunkBytes(d) \cap ChunkBytes(f) = {}
    BY <1>1, <1>12 DEF GoingInv, AnswerInv
  <2>5. \A d \in cmds', i \in 1 .. Len(slots) :
          d.slot = 0 => ChunkBytes(d) \cap SlotBytes(slots[i]) = {}
    BY <1>1, <1>12 DEF GoingInv, AnswerInv
  <2>6. \A d : ChunkBytes(d)' = ChunkBytes(d) /\ SlotBytes(d)' = SlotBytes(d)
    BY DEF ChunkBytes, SlotBytes
  <2> QED
    BY <1>1, <1>11, <2>3, <2>4, <2>5 DEF AnswerInv, ChunkBytes, SlotBytes
<1>14. Coming' = Coming \cup T /\ Copies' = Copies
  BY <1>1, <1>4, <1>5, <1>7 DEF Coming, Copies, ChunkBytes, SlotBytes
<1>15. Issued' \ Coming' = Issued \ Coming
  BY <1>6, <1>14
<1>16. ArrivedInv'
  <2>1. \A i \in 1 .. Len(slots) :
          \/ \E d \in cmds' : d.slot = i
          \/ \A k \in SlotBytes(slots[i]) :
               slots[i].lba[slots[i].from + (k - slots[i].dst)] = data[rq.off + k]
    BY <1>1 DEF GoingInv, ArrivedInv
  <2>2. \A k \in Offsets :
          buf[k] = IF k \in (Issued' \ Coming') \ Copies' THEN data[rq.off + k]
                                                          ELSE Junk
    BY <1>14, <1>15 DEF GoingInv, ArrivedInv
  <2>3. acc = Cardinality(Issued' \ Coming')
    BY <1>15 DEF GoingInv, ArrivedInv
  <2> QED
    BY <1>1, <2>1, <2>2, <2>3 DEF ArrivedInv, SlotBytes
<1>17. PlacedInv'
  <2> HIDE DEF n
  <2>1. Ahead + n = ChunkLbas * Lba
    BY <1>3, <1>9 DEF n
  <2> QED
    BY <1>1, <1>2, <1>3, <2>1, PlacedMoves DEF GoingInv
<1> QED
  BY <1>1, <1>13, <1>16, <1>17 DEF GoingInv, Locates, Holds

\* A bounce read is issued: its bytes are to be copied, and counted at once.
LEMMA BounceGoing ==
  ASSUME PlanInv, GoingInv, rpc \in {"head", "middle"}, NEW n \in Nat,
         0 < n, n <= left, Ahead + n <= Lba, Bounce(Ahead, n),
         UNCHANGED <<rq, buf, ext, xi, storeVars>>,
         \/ rpc' = "middle" /\ dst' = dst + n /\ left' = left - n
         \/ rpc' = "extent" /\ n = left
  PROVE  AnswerInv' /\ ArrivedInv'
<1> DEFINE T == dst .. dst + n - 1
           S == {slots[j] : j \in 1 .. Len(slots)}
           m == Len(slots) + 1
           c == [slot |-> m, slba |-> slba, nlb |-> 0, dst |-> 0]
           e == [dst |-> dst, from |-> Ahead, n |-> n,
                 lba |-> [k \in 0 .. Lba - 1 |-> Junk]]
<1>1. /\ cmds' = cmds \cup {c} /\ slots' = Append(slots, e) /\ acc' = acc + n
      /\ UNCHANGED <<data, blocks>>
  BY DEF Bounce, storeVars, fileVars
<1>2. left \in Nat /\ Lba \in Nat \ {0} /\ dst \in Nat /\ left > 0
  BY StoreAssumption DEF PlanInv, CursorInv
<1>3. /\ slots \in Seq(S) /\ Len(slots) \in Nat
  <2>1. slots \in Seq(S)
    BY DEF PlanInv, PlanTyped
  <2> QED
    BY <2>1
<1>4. c.slot = m /\ c.slba = slba /\ m \in Nat /\ m # 0
  BY <1>3
<1>5. e.dst = dst /\ e.from = Ahead /\ e.n = n
  OBVIOUS
<1> HIDE DEF c, e
<1>6. /\ slots' \in Seq(S \cup {e}) /\ Len(slots') = m
      /\ \A i \in 1 .. m : slots'[i] = IF i = m THEN e ELSE slots[i]
  BY <1>1, <1>3
<1>7. SlotBytes(e) = T
  BY <1>5 DEF SlotBytes
<1>8. Issued' = Issued \cup T /\ T \cap Issued = {} /\ T \subseteq Asked
  BY IssuedGrows DEF T
<1>9. T \subseteq Offsets
  BY <1>8, IssuedIn DEF PlanInv
<1>10. Ahead \in Nat
  BY <1>2, CursorAt DEF GoingInv
<1>11. \A k \in T : /\ k \in dst .. dst + left - 1 /\ k - dst \in Nat
                    /\ k - dst < n
  BY <1>2
<1>12. Cardinality(T) = n /\ IsFiniteSet(T)
  <2>1. dst \in Int /\ dst + n - 1 \in Int /\ ~(dst > dst + n - 1)
        /\ dst + n - 1 - dst + 1 = n
    BY <1>2
  <2> QED
    BY <2>1, FS_Interval
<1> HIDE DEF T
<1>13. \A k \in T : Fetches(slba, Ahead + (k - dst), k)
  <2> SUFFICES ASSUME NEW k \in T
               PROVE  Fetches(slba, Ahead + (k - dst), k)
    OBVIOUS
  <2>1. k \in dst .. dst + left - 1
    BY <1>11
  <2>2. Fetches(slba + ((Ahead + (k - dst)) \div Lba),
                (Ahead + (k - dst)) % Lba, k)
    BY <2>1, FetchAhead DEF GoingInv
  <2> DEFINE j == Ahead + (k - dst)
  <2>3. j \in 0 .. Lba - 1
    BY <1>2, <1>10, <1>11
  <2> HIDE DEF j
  <2>4. (0 * Lba + j) \div Lba = 0 /\ (0 * Lba + j) % Lba = j /\ 0 * Lba + j = j
    BY <1>2, <2>3, DivModIs
  <2>5. slba \in Nat
    <3>1. PICK q \in Nat : slba = ext[xi - 1].slba + q
      BY <1>2, CursorAt DEF GoingInv
    <3>2. ext[xi - 1].slba \in Nat
      BY <1>2, CursorAt DEF GoingInv
    <3> QED
      BY <3>1, <3>2
  <2>6. slba + (j \div Lba) = slba /\ j % Lba = j
    BY <2>4, <2>5
  <2>7. Fetches(slba + (j \div Lba), j % Lba, k)
    BY <2>2 DEF j
  <2>8. Fetches(slba, j, k)
    BY <2>6, <2>7
  <2> QED
    BY <2>8 DEF j
<1>14. \A l, j, k : Fetches(l, j, k)' <=> Fetches(l, j, k)
  BY <1>1, FetchesSame
<1>15. \A i \in 1 .. Len(slots) : i \in 1 .. m /\ i # m /\ slots'[i] = slots[i]
  BY <1>3, <1>6
<1>16. m \in 1 .. m /\ slots'[m] = e
         /\ \A i \in 1 .. m : i = m \/ i \in 1 .. Len(slots)
  BY <1>3, <1>6
<1> HIDE DEF m, S
<1>17. AnswerInv'
  <2>1. \A d \in cmds' : d.slot = 0 => d \in cmds
    BY <1>1, <1>4
  <2>2. \A d, f \in cmds' : d.slot = 0 /\ f.slot = 0 =>
          d = f \/ ChunkBytes(d) \cap ChunkBytes(f) = {}
    BY <2>1 DEF GoingInv, AnswerInv
  <2>3. ASSUME NEW d \in cmds', NEW i \in 1 .. m, d.slot = 0
        PROVE  ChunkBytes(d) \cap SlotBytes(slots'[i]) = {}
    <3>1. d \in cmds
      BY <2>1, <2>3
    <3>2. CASE i \in 1 .. Len(slots)
      BY <1>15, <2>3, <3>1, <3>2 DEF GoingInv, AnswerInv
    <3>3. CASE i = m
      <4>1. ChunkBytes(d) \subseteq Issued
        BY <2>3, <3>1, OfIssued
      <4> QED
        BY <1>7, <1>8, <1>16, <3>3, <4>1
    <3> QED
      BY <1>16, <3>2, <3>3
  <2>4. ASSUME NEW d \in cmds', d.slot = 0
        PROVE  /\ d.dst \in Nat /\ d.nlb \in Nat
               /\ \A k \in ChunkBytes(d) :
                    Fetches(d.slba + ((k - d.dst) \div Lba), (k - d.dst) % Lba, k)
    BY <2>1, <2>4 DEF GoingInv, AnswerInv
  <2>5. ASSUME NEW d \in cmds', d.slot # 0
        PROVE  /\ d.slot \in 1 .. m
               /\ \A k \in SlotBytes(slots'[d.slot]) :
                    Fetches(d.slba, slots'[d.slot].from + (k - slots'[d.slot].dst), k)
    <3>1. CASE d = c
      <4>1. SlotBytes(slots'[m]) = T
        BY <1>7, <1>16
      <4> QED
        BY <1>4, <1>5, <1>13, <1>16, <3>1, <4>1
    <3>2. CASE d \in cmds
      <4>1. d.slot \in 1 .. Len(slots)
            /\ \A k \in SlotBytes(slots[d.slot]) :
                 Fetches(d.slba, slots[d.slot].from + (k - slots[d.slot].dst), k)
        BY <2>5, <3>2 DEF GoingInv, AnswerInv
      <4> QED
        BY <1>15, <4>1
    <3> QED
      BY <1>1, <3>1, <3>2
  <2> QED
    BY <1>6, <1>14, <2>2, <2>3, <2>4, <2>5 DEF AnswerInv, ChunkBytes, SlotBytes
<1>18. Coming' = Coming
  BY <1>1, <1>4 DEF Coming, ChunkBytes
<1>19. Copies' = Copies \cup T
  <2>1. Copies' = {k \in Offsets : \E i \in 1 .. m : k \in SlotBytes(slots'[i])}
    BY <1>6 DEF Copies, SlotBytes
  <2>2. \A k \in Offsets : (\E i \in 1 .. m : k \in SlotBytes(slots'[i])) <=>
          k \in T \/ \E i \in 1 .. Len(slots) : k \in SlotBytes(slots[i])
    BY <1>7, <1>15, <1>16
  <2> QED
    BY <1>9, <2>1, <2>2 DEF Copies
<1>20. Coming \subseteq Issued /\ IsFiniteSet(Issued)
  BY OfIssued, IssuedIn DEF PlanInv
<1>21. Issued' \ Coming' = (Issued \ Coming) \cup T /\ (Issued \ Coming) \cap T = {}
  BY <1>8, <1>18, <1>20
<1>22. (Issued' \ Coming') \ Copies' = (Issued \ Coming) \ Copies
  BY <1>19, <1>21
<1>23. Cardinality(Issued' \ Coming') = Cardinality(Issued \ Coming) + n
  <2> DEFINE U == Issued \ Coming
  <2>1. IsFiniteSet(U)
    BY <1>20, FS_Subset
  <2> HIDE DEF U
  <2>2. Cardinality(U \cup T) = Cardinality(U) + Cardinality(T) - Cardinality(U \cap T)
    BY <1>12, <2>1, FS_Union
  <2>3. Cardinality({}) = 0
    BY FS_EmptySet
  <2>4. Cardinality(U) \in Nat
    BY <2>1, FS_CardinalityType
  <2>5. U \cap T = {} /\ Issued' \ Coming' = U \cup T
    BY <1>21 DEF U
  <2>6. Cardinality(U \cap T) = 0
    BY <2>3, <2>5
  <2>7. Cardinality(U \cup T) = Cardinality(U) + n
    BY <1>12, <2>2, <2>4, <2>6
  <2> QED
    BY <2>5, <2>7 DEF U
<1>24. ArrivedInv'
  <2>1. ASSUME NEW i \in 1 .. m
        PROVE  \/ \E d \in cmds' : d.slot = i
               \/ \A k \in SlotBytes(slots'[i]) :
                    slots'[i].lba[slots'[i].from + (k - slots'[i].dst)] = data[rq.off + k]
    <3>1. CASE i = m
      BY <1>1, <1>4, <3>1
    <3>2. CASE i \in 1 .. Len(slots)
      BY <1>1, <1>15, <3>2 DEF GoingInv, ArrivedInv
    <3> QED
      BY <1>16, <3>1, <3>2
  <2>2. \A k \in Offsets :
          buf[k] = IF k \in (Issued' \ Coming') \ Copies' THEN data[rq.off + k]
                                                          ELSE Junk
    BY <1>22 DEF GoingInv, ArrivedInv
  <2>3. acc' = Cardinality(Issued' \ Coming')
    BY <1>1, <1>23 DEF GoingInv, ArrivedInv
  <2> QED
    BY <1>1, <1>6, <2>1, <2>2, <2>3 DEF ArrivedInv, SlotBytes
<1> QED
  BY <1>17, <1>24

\* The head of an extent.
LEMMA HeadGoing ==
  ASSUME PlanInv, GoingInv, IssueHead, UNCHANGED storeVars
  PROVE  GoingInv'
<1> DEFINE n == HeadLen
<1>1. /\ rpc = "head" /\ ~Refused(skip, n) /\ Bounce(skip, n)
      /\ dst' = dst + n /\ left' = left - n /\ rpc' = "middle"
      /\ slba' = slba + 1
      /\ UNCHANGED <<rq, buf, ext, xi, skip>>
  BY DEF IssueHead
<1>2. left \in Nat /\ left > 0 /\ skip \in Nat /\ skip < Lba /\ Lba \in Nat \ {0}
  BY <1>1, StoreAssumption DEF PlanInv, CursorInv
<1>3. /\ n \in Nat /\ 0 < n /\ n <= left /\ skip + n <= Lba
      /\ left - n > 0 => skip + n = Lba
  BY <1>2 DEF HeadLen, LesserOf
<1>4. Ahead = skip
  BY <1>1 DEF Ahead
<1> HIDE DEF n
<1>5. AnswerInv' /\ ArrivedInv'
  BY <1>1, <1>2, <1>3, <1>4, BounceGoing
<1>6. left' > 0 => Ahead + n = 1 * Lba /\ slba' = slba + 1
  BY <1>1, <1>2, <1>3, <1>4
<1>7. PlacedInv'
  BY <1>1, <1>2, <1>3, <1>6, PlacedMoves DEF GoingInv
<1>8. UNCHANGED blocks
  BY DEF storeVars, fileVars
<1> QED
  BY <1>1, <1>5, <1>7, <1>8 DEF GoingInv, Locates, Holds

\* The tail of an extent.
LEMMA TailGoing ==
  ASSUME PlanInv, GoingInv, IssueTail, UNCHANGED storeVars
  PROVE  GoingInv'
<1>1. /\ rpc = "middle" /\ Bounce(0, left) /\ rpc' = "extent"
      /\ 0 < left /\ left < Lba /\ left \in Nat /\ Lba \in Nat
      /\ UNCHANGED <<rq, buf, ext, xi>>
  BY StoreAssumption DEF IssueTail, PlanInv, CursorInv, cursor
<1>2. Ahead = 0 /\ Ahead + left <= Lba
  BY <1>1 DEF Ahead
<1>3. AnswerInv' /\ ArrivedInv'
  BY <1>1, <1>2, BounceGoing
<1>4. PlacedInv'
  BY <1>1 DEF PlacedInv
<1>5. UNCHANGED blocks
  BY DEF storeVars, fileVars
<1> QED
  BY <1>1, <1>3, <1>4, <1>5 DEF GoingInv, Locates, Holds

\* A step that issues nothing and to which the device answers nothing.
LEMMA NothingComes ==
  ASSUME GoingInv, UNCHANGED <<rq, buf, ext, cmds, slots, acc, data, blocks>>,
         Issued' = Issued
  PROVE  AnswerInv' /\ ArrivedInv' /\ Locates(ext, blocks)'
<1>1. \A l, j, k : Fetches(l, j, k)' <=> Fetches(l, j, k)
  BY FetchesSame
<1>2. AnswerInv'
  BY <1>1 DEF GoingInv, AnswerInv, ChunkBytes, SlotBytes
<1>3. Coming' = Coming /\ Copies' = Copies
  BY DEF Coming, Copies, ChunkBytes, SlotBytes
<1>4. ArrivedInv'
  BY <1>3 DEF GoingInv, ArrivedInv, SlotBytes
<1>5. Locates(ext, blocks)'
  BY DEF GoingInv, Locates, Holds
<1> QED
  BY <1>2, <1>4, <1>5

\* The next extent.
LEMMA NextGoing ==
  ASSUME PlanInv, GoingInv, NextExtent, UNCHANGED storeVars
  PROVE  GoingInv'
<1>1. /\ rpc = "extent" /\ UNCHANGED <<rq, buf, ext, cmds, slots, acc>>
      /\ UNCHANGED <<data, blocks>>
  BY DEF NextExtent, issued, storeVars, fileVars
<1>2. Issued' = Issued /\ (NoneLeft => rpc' = "wait" /\ Seen' = InExtents')
  BY LookIssuesNothing
<1>3. AnswerInv' /\ ArrivedInv' /\ Locates(ext, blocks)'
  BY <1>1, <1>2, NothingComes
<1>4. CASE NoneLeft
  <2>1. PlacedInv'
    BY <1>2, <1>4 DEF PlacedInv
  <2> QED
    BY <1>2, <1>3, <1>4, <2>1 DEF GoingInv
<1>5. CASE ~NoneLeft
  <2> DEFINE e == ext[xi]
             from == SpanStart(e)
             off == from - e.fo
  <2>1. /\ xi' = xi + 1
        /\ IF from >= SpanEnd(e)
             THEN UNCHANGED <<rpc, slba, dst, left, skip>>
             ELSE /\ slba' = e.slba + (off \div Lba)
                  /\ dst' = from - rq.off
                  /\ skip' = off % Lba
                  /\ rpc' = IF off % Lba # 0 THEN "head" ELSE "middle"
    BY <1>5 DEF NextExtent
  <2>2. xi \in Nat /\ xi' - 1 = xi /\ xi \in 1 .. Len(ext) + 1 /\ Len(ext) \in Nat
    <3>1. xi \in 1 .. Len(ext) + 1 /\ Len(ext) \in Nat
      BY DEF PlanInv, PlanTyped, Tidy
    <3>2. xi' = xi + 1
      BY <2>1
    <3> QED
      BY <3>1, <3>2
  <2>3. ext'[xi' - 1] = e
    BY <1>1, <2>2
  <2>4. rq.off \in Nat /\ e.fo \in Nat
    <3>1. xi \in 1 .. Len(ext)
      BY <1>5, <2>2 DEF NoneLeft, PlanInv, PlanTyped, Tidy
    <3> QED
      BY <3>1 DEF PlanInv, PlanTyped, Tidy
  <2>5. from \in Nat
    BY <2>4 DEF SpanStart, GreaterOf
  <2> HIDE DEF e, from
  <2>6. CASE from >= SpanEnd(e)
    BY <1>1, <1>3, <2>1, <2>6 DEF GoingInv, PlacedInv
  <2>7. CASE ~(from >= SpanEnd(e))
    <3>1. (rq.off + dst') - e.fo = off
      BY <2>1, <2>4, <2>5, <2>7
    <3> HIDE DEF off
    <3>2. /\ slba' = e.slba + (off \div Lba) /\ skip' = off % Lba
          /\ rpc' = IF off % Lba # 0 THEN "head" ELSE "middle"
      BY <2>1, <2>7
    <3>3. /\ slba' = e.slba + (((rq.off + dst') - e.fo) \div Lba)
          /\ ((rq.off + dst') - e.fo) % Lba = IF rpc' = "head" THEN skip' ELSE 0
      BY <3>1, <3>2
    <3>4. PlacedInv'
      BY <1>1, <2>3, <3>3 DEF PlacedInv
    <3>5. rpc' # "wait"
      BY <3>2
    <3> QED
      BY <1>3, <3>4, <3>5 DEF GoingInv
  <2> QED
    BY <2>6, <2>7
<1> QED
  BY <1>4, <1>5

\* An extent that ends at an LBA's end.
LEMMA NoTailGoing ==
  ASSUME PlanInv, GoingInv, NoTail, UNCHANGED storeVars
  PROVE  GoingInv'
<1>1. /\ rpc = "middle" /\ left = 0 /\ rpc' = "extent"
      /\ UNCHANGED <<rq, buf, ext, xi, cmds, slots, acc, data, blocks>>
  BY DEF NoTail, cursor, issued, storeVars, fileVars
<1>2. Issued' = Issued
  <2>1. Rest = dst .. dst + left - 1 /\ dst \in Nat
    BY <1>1 DEF Rest, PlanInv, CursorInv
  <2>2. Rest = {} /\ Rest' = {}
    BY <1>1, <2>1 DEF Rest
  <2> QED
    BY <1>1, <2>2 DEF Issued, Seen, Asked, Holds
<1>3. AnswerInv' /\ ArrivedInv' /\ Locates(ext, blocks)'
  BY <1>1, <1>2, NothingComes
<1> QED
  BY <1>1, <1>3 DEF GoingInv, PlacedInv

\* The extents are those of the file as it is.
LEMMA ResolveGoing ==
  ASSUME StoreTyped, PlanInv, Resolve, ~dirty, cache = blocks, acc = 0,
         \A k \in Offsets : buf[k] = Junk, UNCHANGED storeVars
  PROVE  GoingInv'
<1>1. /\ ext' = Extents /\ rpc' = "extent" /\ rpc = "resolve"
      /\ UNCHANGED <<rq, buf, acc, xi, cmds, slots, data, blocks>>
  BY DEF Resolve, cursor, storeVars, fileVars
<1>2. xi = 1 /\ cmds = {} /\ slots = <<>>
  BY <1>1 DEF PlanInv, BeforeInv
<1>3. Locates(Extents, blocks)
  BY ExtentsLocate DEF StoreTyped
<1>4. Locates(ext, blocks)'
  BY <1>1, <1>3 DEF Locates, Holds
<1>5. PlacedInv' /\ AnswerInv'
  BY <1>1, <1>2 DEF PlacedInv, AnswerInv
<1>6. Issued' = {} /\ Len(slots') = 0
  BY <1>1, <1>2 DEF Issued, Seen
<1>7. ArrivedInv'
  <2>1. Cardinality({}) = 0
    BY FS_EmptySet
  <2>2. Issued' \ Coming' = {}
    BY <1>6
  <2> QED
    BY <1>1, <1>6, <2>1, <2>2 DEF ArrivedInv
<1> QED
  BY <1>1, <1>4, <1>5, <1>7 DEF GoingInv

\* The device completes a command of the middle: its bytes have come.
LEMMA ChunkComes ==
  ASSUME PlanInv, GoingInv, NEW c \in cmds, c.slot = 0, Complete(c),
         UNCHANGED storeVars
  PROVE  GoingInv'
<1> DEFINE T == ChunkBytes(c)
           n == (c.nlb + 1) * Lba
<1>1. /\ UNCHANGED <<rpc, rq, ext, cursor, slots, data, blocks>>
      /\ cmds' = cmds \ {c} /\ acc' = acc + n
      /\ buf' = [k \in Offsets |->
                   IF k \in T THEN OnDevice(c.slba + ((k - c.dst) \div Lba),
                                            (k - c.dst) % Lba)
                              ELSE buf[k]]
  BY DEF Complete, ChunkBytes, storeVars, fileVars
<1>2. \A k \in T : OnDevice(c.slba + ((k - c.dst) \div Lba), (k - c.dst) % Lba)
                     = data[rq.off + k]
  BY DEF GoingInv, AnswerInv, Fetches
<1>3. c.dst \in Nat /\ n \in Nat /\ T = c.dst .. c.dst + n - 1 /\ n > 0
  <2>1. c.dst \in Nat /\ c.nlb \in Nat /\ Lba \in Nat \ {0}
    BY StoreAssumption DEF GoingInv, AnswerInv
  <2>2. c.nlb + 1 \in Nat \ {0}
    BY <2>1
  <2>3. \A x, y \in Nat \ {0} : x * y \in Nat /\ x * y > 0
    OBVIOUS
  <2>4. n \in Nat /\ n > 0
    BY <2>1, <2>2, <2>3
  <2> QED
    BY <2>1, <2>4 DEF ChunkBytes
<1>4. Cardinality(T) = n /\ IsFiniteSet(T)
  <2> HIDE DEF n, T
  <2> DEFINE lo == c.dst
             hi == c.dst + n - 1
  <2>1. lo \in Int /\ hi \in Int /\ ~(lo > hi) /\ hi - lo + 1 = n
    BY <1>3
  <2>2. T = lo .. hi
    BY <1>3
  <2> HIDE DEF lo, hi
  <2> QED
    BY <2>1, <2>2, FS_Interval
<1>5. /\ T \subseteq Issued /\ Coming \subseteq Issued /\ IsFiniteSet(Issued)
      /\ T \subseteq Offsets
  BY OfIssued, IssuedIn DEF PlanInv
<1>6. T \cap Copies = {}
  BY DEF GoingInv, AnswerInv, Copies
<1>7. T \subseteq Coming
  BY <1>5 DEF Coming
<1> HIDE DEF n, T
<1>8. Coming' = Coming \ T
  <2>1. \A d \in cmds : d.slot = 0 => d = c \/ ChunkBytes(d) \cap T = {}
    BY DEF GoingInv, AnswerInv, T
  <2>2. Coming' = {k \in Offsets : \E d \in cmds \ {c} : d.slot = 0 /\ k \in ChunkBytes(d)}
    BY <1>1 DEF Coming, ChunkBytes
  <2>3. \A k \in Offsets :
          (\E d \in cmds \ {c} : d.slot = 0 /\ k \in ChunkBytes(d))
            <=> k \in Coming /\ k \notin T
    BY <2>1 DEF Coming, T
  <2> QED
    BY <2>2, <2>3 DEF Coming
<1>9. Issued' = Issued /\ Copies' = Copies
  BY <1>1 DEF Issued, Seen, Rest, Asked, Holds, cursor, Copies, SlotBytes
<1>10. Issued' \ Coming' = (Issued \ Coming) \cup T /\ (Issued \ Coming) \cap T = {}
  BY <1>5, <1>7, <1>8, <1>9
<1>11. (Issued' \ Coming') \ Copies' = ((Issued \ Coming) \ Copies) \cup T
  BY <1>6, <1>9, <1>10
<1>12. Cardinality(Issued' \ Coming') = Cardinality(Issued \ Coming) + n
  <2> DEFINE U == Issued \ Coming
  <2>1. IsFiniteSet(U)
    BY <1>5, FS_Subset
  <2> HIDE DEF U
  <2>2. Cardinality(U \cup T) = Cardinality(U) + Cardinality(T) - Cardinality(U \cap T)
    BY <1>4, <2>1, FS_Union
  <2>3. Cardinality({}) = 0
    BY FS_EmptySet
  <2>4. Cardinality(U) \in Nat
    BY <2>1, FS_CardinalityType
  <2>5. U \cap T = {} /\ Issued' \ Coming' = U \cup T
    BY <1>10 DEF U
  <2>6. Cardinality(U \cap T) = 0
    BY <2>3, <2>5
  <2>7. Cardinality(U \cup T) = Cardinality(U) + n
    BY <1>3, <1>4, <2>2, <2>4, <2>6
  <2> QED
    BY <2>5, <2>7 DEF U
<1>13. AnswerInv'
  <2>1. \A l, j, k : Fetches(l, j, k)' <=> Fetches(l, j, k)
    BY <1>1, FetchesSame
  <2> QED
    BY <1>1, <2>1 DEF GoingInv, AnswerInv, ChunkBytes, SlotBytes
<1>14. ArrivedInv'
  <2>1. ASSUME NEW i \in 1 .. Len(slots)
        PROVE  \/ \E d \in cmds' : d.slot = i
               \/ \A k \in SlotBytes(slots[i]) :
                    slots[i].lba[slots[i].from + (k - slots[i].dst)] = data[rq.off + k]
    <3>1. c.slot # i
      OBVIOUS
    <3> QED
      BY <1>1, <3>1 DEF GoingInv, ArrivedInv
  <2>2. \A k \in Offsets :
          buf'[k] = IF k \in (Issued' \ Coming') \ Copies' THEN data[rq.off + k]
                                                           ELSE Junk
    BY <1>1, <1>2, <1>11 DEF GoingInv, ArrivedInv, T
  <2>3. acc' = Cardinality(Issued' \ Coming')
    BY <1>1, <1>12 DEF GoingInv, ArrivedInv
  <2> QED
    BY <1>1, <2>1, <2>2, <2>3 DEF ArrivedInv, SlotBytes
<1>15. Locates(ext, blocks)' /\ PlacedInv'
  BY <1>1 DEF GoingInv, Locates, Holds, PlacedInv, cursor
<1>16. rpc' = "wait" => Seen' = InExtents'
  BY <1>1 DEF GoingInv, Seen, InExtents, Asked, Holds, cursor
<1> QED
  BY <1>13, <1>14, <1>15, <1>16 DEF GoingInv

\* The device completes a bounce read: the slot has the LBA.
LEMMA SlotComes ==
  ASSUME PlanInv, GoingInv, NEW c \in cmds, c.slot # 0, Complete(c),
         UNCHANGED storeVars
  PROVE  GoingInv'
<1> DEFINE S == {slots[j] : j \in 1 .. Len(slots)}
           b == [k \in 0 .. Lba - 1 |-> OnDevice(c.slba, k)]
           e == [slots[c.slot] EXCEPT !.lba = b]
<1>1. /\ UNCHANGED <<rpc, rq, ext, cursor, buf, acc, data, blocks>>
      /\ cmds' = cmds \ {c}
      /\ slots' = [slots EXCEPT ![c.slot] = e]
  BY DEF Complete, storeVars, fileVars
<1>2. /\ c.slot \in 1 .. Len(slots)
      /\ \A k \in SlotBytes(slots[c.slot]) :
           Fetches(c.slba, slots[c.slot].from + (k - slots[c.slot].dst), k)
  BY DEF GoingInv, AnswerInv
<1>3. /\ slots \in Seq(S) /\ Slot(slots[c.slot])
      /\ slots[c.slot].from + slots[c.slot].n <= Lba
  BY <1>2 DEF PlanInv, PlanTyped, IssueInv
<1>4. /\ e.dst = slots[c.slot].dst /\ e.from = slots[c.slot].from
      /\ e.n = slots[c.slot].n /\ e.lba = b
  BY <1>3 DEF Slot
<1> HIDE DEF e
<1>5. Len(slots') = Len(slots)
      /\ \A i \in 1 .. Len(slots) : slots'[i] = IF i = c.slot THEN e ELSE slots[i]
  BY <1>1, <1>3
<1> HIDE DEF S
<1>6. \A i \in 1 .. Len(slots) :
        /\ slots'[i].dst = slots[i].dst /\ slots'[i].from = slots[i].from
        /\ slots'[i].n = slots[i].n /\ SlotBytes(slots'[i]) = SlotBytes(slots[i])
  BY <1>4, <1>5 DEF SlotBytes
<1>7. \A k \in SlotBytes(slots[c.slot]) :
        e.lba[e.from + (k - e.dst)] = data[rq.off + k]
  <2> SUFFICES ASSUME NEW k \in SlotBytes(slots[c.slot])
               PROVE  e.lba[e.from + (k - e.dst)] = data[rq.off + k]
    OBVIOUS
  <2> DEFINE from == slots[c.slot].from
             to == slots[c.slot].dst
             n == slots[c.slot].n
             j == from + (k - to)
  <2>1. from \in Nat /\ to \in Nat /\ n \in Nat /\ from + n <= Lba
        /\ k \in to .. to + n - 1 /\ Lba \in Nat
    BY <1>3, StoreAssumption DEF Slot, SlotBytes
  <2>2. OnDevice(c.slba, j) = data[rq.off + k]
    BY <1>2 DEF Fetches
  <2>3. e.lba = b /\ e.from + (k - e.dst) = j
    BY <1>4
  <2> HIDE DEF from, to, n
  <2>4. j \in 0 .. Lba - 1
    BY <2>1
  <2> HIDE DEF j
  <2>5. b[j] = OnDevice(c.slba, j)
    BY <2>4
  <2> QED
    BY <2>2, <2>3, <2>5
<1> HIDE DEF b
<1>8. AnswerInv'
  <2>1. \A l, j, k : Fetches(l, j, k)' <=> Fetches(l, j, k)
    BY <1>1, FetchesSame
  <2>2. ASSUME NEW d \in cmds', d.slot # 0
        PROVE  /\ d.slot \in 1 .. Len(slots)
               /\ \A k \in SlotBytes(slots'[d.slot]) :
                    Fetches(d.slba, slots'[d.slot].from + (k - slots'[d.slot].dst), k)
    <3>1. d.slot \in 1 .. Len(slots)
            /\ \A k \in SlotBytes(slots[d.slot]) :
                 Fetches(d.slba, slots[d.slot].from + (k - slots[d.slot].dst), k)
      BY <1>1, <2>2 DEF GoingInv, AnswerInv
    <3> QED
      BY <1>6, <3>1
  <2>3. ASSUME NEW d \in cmds', d.slot = 0
        PROVE  /\ d.dst \in Nat /\ d.nlb \in Nat
               /\ \A k \in ChunkBytes(d) :
                    Fetches(d.slba + ((k - d.dst) \div Lba), (k - d.dst) % Lba, k)
               /\ \A i \in 1 .. Len(slots) :
                    ChunkBytes(d) \cap SlotBytes(slots'[i]) = {}
    BY <1>1, <1>6, <2>3 DEF GoingInv, AnswerInv
  <2>4. \A d, f \in cmds' : d.slot = 0 /\ f.slot = 0 =>
          d = f \/ ChunkBytes(d) \cap ChunkBytes(f) = {}
    BY <1>1 DEF GoingInv, AnswerInv
  <2> QED
    BY <1>5, <2>1, <2>2, <2>3, <2>4 DEF AnswerInv, ChunkBytes, SlotBytes
<1>9. Coming' = Coming /\ Copies' = Copies /\ Issued' = Issued
  <2>1. Coming' = Coming
    BY <1>1 DEF Coming, ChunkBytes
  <2>2. Copies' = Copies
    BY <1>5, <1>6 DEF Copies, SlotBytes
  <2>3. Issued' = Issued
    BY <1>1 DEF Issued, Seen, Rest, Asked, Holds, cursor
  <2> QED
    BY <2>1, <2>2, <2>3
<1>10. ArrivedInv'
  <2>1. ASSUME NEW i \in 1 .. Len(slots)
        PROVE  \/ \E d \in cmds' : d.slot = i
               \/ \A k \in SlotBytes(slots'[i]) :
                    slots'[i].lba[slots'[i].from + (k - slots'[i].dst)] = data[rq.off + k]
    <3>1. CASE i = c.slot
      <4>1. slots'[i] = e
        BY <1>5, <3>1
      <4>2. SlotBytes(slots'[i]) = SlotBytes(slots[c.slot])
        BY <1>6, <3>1
      <4> QED
        BY <1>7, <4>1, <4>2
    <3>2. CASE i # c.slot
      <4>1. slots'[i] = slots[i]
        BY <1>5, <3>2
      <4>2. \/ \E d \in cmds : d.slot = i
            \/ \A k \in SlotBytes(slots[i]) :
                 slots[i].lba[slots[i].from + (k - slots[i].dst)] = data[rq.off + k]
        BY DEF GoingInv, ArrivedInv
      <4> QED
        BY <1>1, <3>2, <4>1, <4>2
    <3> QED
      BY <3>1, <3>2
  <2>2. \A k \in Offsets :
          buf[k] = IF k \in (Issued' \ Coming') \ Copies' THEN data[rq.off + k]
                                                          ELSE Junk
    BY <1>9 DEF GoingInv, ArrivedInv
  <2>3. acc = Cardinality(Issued' \ Coming')
    BY <1>9 DEF GoingInv, ArrivedInv
  <2> QED
    BY <1>1, <1>5, <2>1, <2>2, <2>3 DEF ArrivedInv, SlotBytes
<1>11. Locates(ext, blocks)' /\ PlacedInv'
  BY <1>1 DEF GoingInv, Locates, Holds, PlacedInv, cursor
<1>12. rpc' = "wait" => Seen' = InExtents'
  BY <1>1 DEF GoingInv, Seen, InExtents, Asked, Holds, cursor
<1> QED
  BY <1>8, <1>10, <1>11, <1>12 DEF GoingInv

\* Byte k of the caller's buffer after the copies.
LEMMA CopiesLand ==
  ASSUME PlanInv, GoingInv, cmds = {}, NEW k \in Offsets
  PROVE  Bounced(k) = IF k \in Issued THEN data[rq.off + k] ELSE Junk
<1> DEFINE own == {i \in 1 .. Len(slots) :
                     k \in slots[i].dst .. slots[i].dst + slots[i].n - 1}
<1>1. Coming = {} /\ Copies \subseteq Issued
  BY OfIssued DEF Coming
<1>2. own = {i \in 1 .. Len(slots) : k \in SlotBytes(slots[i])}
  BY DEF SlotBytes
<1>3. CASE own = {}
  <2>1. k \notin Copies
    BY <1>2, <1>3 DEF Copies
  <2>2. Bounced(k) = buf[k]
    BY <1>3 DEF Bounced
  <2> QED
    BY <1>1, <2>1, <2>2 DEF GoingInv, ArrivedInv
<1>4. CASE own # {}
  <2> DEFINE i == CHOOSE j \in own : TRUE
  <2>1. i \in own
    BY <1>4
  <2>2. Bounced(k) = slots[i].lba[slots[i].from + k - slots[i].dst]
    BY <1>4 DEF Bounced
  <2> HIDE DEF i
  <2>3. i \in 1 .. Len(slots) /\ k \in SlotBytes(slots[i])
    BY <1>2, <2>1
  <2>4. slots[i].lba[slots[i].from + (k - slots[i].dst)] = data[rq.off + k]
    BY <2>3 DEF GoingInv, ArrivedInv
  <2>5. k \in Issued
    BY <1>1, <2>3 DEF Copies
  <2> HIDE DEF own
  <2> QED
    BY <2>2, <2>4, <2>5
<1> QED
  BY <1>3, <1>4

\* What the extents hold of a request is what the file has of it.
LEMMA InExtentsMapped ==
  ASSUME PlanTyped, Locates(ext, blocks)
  PROVE  InExtents = {k \in Asked : Mapped(rq.off + k)}
<1>1. \A k \in Asked : k \in Nat
  BY IssuedIn
<1>2. ASSUME NEW k \in InExtents PROVE k \in Asked /\ Mapped(rq.off + k)
  <2>1. PICK i \in 1 .. Len(ext) : k \in Asked /\ Holds(ext[i], rq.off + k)
    BY DEF InExtents
  <2> QED
    BY <1>1, <2>1, Fetch DEF Mapped
<1>3. ASSUME NEW k \in Asked, Mapped(rq.off + k) PROVE k \in InExtents
  <2> DEFINE p == rq.off + k
  <2>1. p \in Positions /\ p \div Align \in blocks
    BY <1>3 DEF Mapped
  <2> HIDE DEF p
  <2>2. \E i \in 1 .. Len(ext) : Holds(ext[i], p)
    BY <2>1 DEF Locates
  <2> QED
    BY <2>2 DEF InExtents, p
<1> QED
  BY <1>2, <1>3 DEF InExtents

\* The read completes: the application has the file's bytes.
LEMMA CompleteExact ==
  ASSUME FileInv, PlanInv, SteadyInv, backend = "aisio", ~failed,
         ~err => GoingInv, CompleteRead,
         UNCHANGED <<storeVars, backend, histVars>>
  PROVE  ReadExact'
<1>1. /\ rpc = "wait" /\ cmds = {} /\ rpc' = "ret"
      /\ UNCHANGED <<rq, blocks, want, backend>>
      /\ IF err THEN rret' = -1
                ELSE rret' = acc /\ buf' = [k \in Offsets |-> Bounced(k)]
  BY DEF CompleteRead, AllDone, storeVars, fileVars, histVars
<1>2. CASE err
  BY <1>1, <1>2 DEF ReadExact
<1>3. CASE ~err
  <2> DEFINE there == {k \in Asked : Mapped(rq.off + k)}
  <2>1. GoingInv /\ PlanTyped
    BY <1>3 DEF PlanInv
  <2>2. Issued = there
    <3>1. Issued = Seen
      BY <1>1 DEF Issued, Rest
    <3>2. Seen = InExtents
      BY <1>1, <2>1 DEF GoingInv
    <3>3. InExtents = there
      BY <2>1, InExtentsMapped DEF GoingInv
    <3> QED
      BY <3>1, <3>2, <3>3
  <2>3. acc = Cardinality(there)
    <3>1. Coming = {}
      BY <1>1 DEF Coming
    <3> QED
      BY <2>1, <2>2, <3>1 DEF GoingInv, ArrivedInv
  <2>4. \A k \in there : data[rq.off + k] = want[rq.off + k]
    <3>1. \A p \in Positions : data[p] = want[p]
      BY <1>1, FileIsWanted
    <3> QED
      BY <3>1 DEF Mapped
  <2>5. \A k \in Offsets : buf'[k] = IF k \in there THEN want[rq.off + k] ELSE Junk
    BY <1>1, <1>3, <2>1, <2>2, <2>4, CopiesLand
  <2>6. there' = there
    BY <1>1 DEF Asked, Mapped
  <2> HIDE DEF there
  <2>7. there' = {k \in Asked' : Mapped(rq.off + k)'}
    BY DEF there
  <2> QED
    BY <1>1, <1>3, <2>3, <2>5, <2>6, <2>7 DEF ReadExact
<1> QED
  BY <1>2, <1>3

\* The aisio backend: every step keeps what is known of a read, and a read that
\* returns is exact.
LEMMA AisioNext ==
  ASSUME FileInv, StoreTyped, PlanInv, SteadyInv, DoneInv, AisioInv, ReadExact,
         backend = "aisio", [Next]_vars
  PROVE  AisioInv' /\ ReadExact'
<1>1. CASE rpc = "ret"
  <2>1. ReadExact' /\ rpc' = "ret"
    BY <1>1, ReturnStays
  <2> QED
    BY <2>1 DEF AisioInv
<1>2. CASE rpc = "idle"
  <2>1. cmds = {} /\ acc = 0 /\ \A k \in Offsets : buf[k] = Junk
    BY <1>2 DEF PlanInv, BeforeInv, AisioInv
  <2>2. CASE \/ \E o \in Writes, q \in WriteReqs, a \in BOOLEAN :
                  SubmitWrite(o, q, a)
             \/ \E o \in Writes : WriteGoes(o) \/ WriteFaults(o)
             \/ HomiStep \/ UNCHANGED vars
    <3>1. UNCHANGED <<readVars, planVars>>
      BY <2>2 DEF SubmitWrite, WriteGoes, WriteFaults, DirectGoes, PlainWrite,
                  FinishWrite, DirectFails, PlainFails, MarkFails, HomiStep,
                  vars
    <3>2. rpc' = "idle" /\ acc' = 0 /\ \A k \in Offsets : buf'[k] = Junk
      BY <1>2, <2>1, <3>1 DEF readVars, planVars, issued
    <3> QED
      BY <3>2 DEF AisioInv, ReadExact
  <2>3. ASSUME NEW q \in ReadReqs, SubmitRead(q) PROVE AisioInv' /\ ReadExact'
    <3>1. /\ rpc' = "resolve" \/ (rpc' = "wait" /\ err')
          /\ acc' = 0 /\ buf' = buf
      BY <2>3 DEF SubmitRead, BeginPlan
    <3> QED
      BY <2>1, <3>1 DEF AisioInv, ReadExact
  <2>4. ASSUME NEW q \in ReadReqs, NEW a \in BOOLEAN, SubmitRefRead(q, a)
        PROVE  FALSE
    BY <2>4 DEF SubmitRefRead
  <2>5. ASSUME ReadGoes \/ ReadFaults PROVE FALSE
    BY <1>2, <2>1, <2>5 DEF ReadGoes, ReadFaults, PlanGoes, PlanFaults,
       PreadGoes, PlainRead, PreadFault, PlainReadFails, PreadSome, CopyOut,
       PreadFails, Resolve, NextExtent, IssueHead, IssueChunk, IssueTail,
       NoTail, PlanRefuses, CompleteRead, ResolveFails, SubmitFails,
       CopyBackFails
  <2> QED
    BY <2>2, <2>3, <2>4, <2>5 DEF Next
<1>3. CASE rpc \notin {"idle", "ret"}
  <2>0. rpc \in {"resolve", "extent", "head", "middle", "wait"}
    BY <1>3 DEF SteadyInv, SideInv, AisioRead
  <2>1. ReadGoes \/ ReadFaults \/ HomiStep \/ UNCHANGED vars
    BY <1>3, NoWrites
  <2>2. rpc # "resolve" /\ ~failed /\ ~err => GoingInv
    BY <2>0 DEF AisioInv
  <2>3. CASE HomiStep \/ UNCHANGED vars
    <3>1. UNCHANGED <<rpc, rq, buf, ext, cursor, issued, data, blocks, failed,
                      backend>>
      BY <2>3 DEF HomiStep, Refresh, vars, storeVars, fileVars, readVars,
                  planVars, histVars
    <3>2. Issued' = Issued /\ Seen' = Seen /\ InExtents' = InExtents
      BY <3>1 DEF Issued, Seen, Rest, Asked, Holds, InExtents, cursor
    <3>3. PlacedInv => PlacedInv'
      BY <3>1 DEF PlacedInv, cursor
    <3>4. GoingInv => GoingInv'
      BY <3>1, <3>2, <3>3, NothingComes DEF GoingInv, issued
    <3> QED
      BY <1>3, <3>1, <3>4 DEF AisioInv, ReadExact, issued
  <2>4. ASSUME PlanGoes \/ PlanFaults, UNCHANGED <<backend, histVars>>
        PROVE  AisioInv' /\ ReadExact'
    <3>0. UNCHANGED storeVars /\ UNCHANGED <<failed, backend>>
      BY <2>4 DEF PlanGoes, PlanFaults, histVars
    <3>1. ASSUME rpc' = "wait" \/ rpc' = rpc, err',
                 rpc' = "resolve" => acc' = acc /\ buf' = buf
          PROVE  AisioInv' /\ ReadExact'
      BY <1>3, <3>1, <3>0 DEF AisioInv, ReadExact
    <3>2. ASSUME GoingInv => GoingInv',
                 rpc # "resolve", rpc' \notin {"idle", "resolve", "ret"},
                 err' = err
          PROVE  AisioInv' /\ ReadExact'
      BY <2>2, <3>0, <3>2 DEF AisioInv, ReadExact
    <3>3. CASE Resolve
      <4>1. CASE dirty
        <5>1. CASE err'
          BY <3>1, <3>3, <4>1, <5>1 DEF Resolve
        <5>2. CASE ~err'
          <6>1. UNCHANGED <<rpc, acc, buf>> /\ rpc = "resolve"
            BY <3>3, <4>1, <5>2 DEF Resolve
          <6> QED
            BY <3>0, <6>1 DEF AisioInv, ReadExact
        <5> QED
          BY <5>1, <5>2
      <4>2. CASE ~dirty
        <5>1. rpc = "resolve" /\ rpc' = "extent"
          BY <3>3, <4>2 DEF Resolve
        <5>2. ~failed => GoingInv'
          <6> SUFFICES ASSUME ~failed PROVE GoingInv'
            OBVIOUS
          <6>1. cache = blocks
            BY <4>2, <5>1, FileIsWanted
          <6>2. acc = 0 /\ \A k \in Offsets : buf[k] = Junk
            BY <5>1 DEF AisioInv
          <6> QED
            BY <3>0, <3>3, <4>2, <6>1, <6>2, ResolveGoing
        <5> QED
          BY <3>0, <5>1, <5>2 DEF AisioInv, ReadExact
      <4> QED
        BY <4>1, <4>2
    <3>4. CASE ResolveFails
      BY <3>1, <3>4 DEF ResolveFails
    <3>5. CASE NextExtent
      <4>1. /\ rpc # "resolve" /\ err' = err
            /\ rpc' \notin {"idle", "resolve", "ret"}
        BY <3>5 DEF NextExtent, issued
      <4>2. GoingInv => GoingInv'
        BY <3>0, <3>5, NextGoing
      <4> QED
        BY <3>2, <4>1, <4>2
    <3>6. CASE IssueHead
      <4>1. /\ rpc # "resolve" /\ err' = err
            /\ rpc' \notin {"idle", "resolve", "ret"}
        BY <3>6 DEF IssueHead, Bounce
      <4>2. GoingInv => GoingInv'
        BY <3>0, <3>6, HeadGoing
      <4> QED
        BY <3>2, <4>1, <4>2
    <3>7. CASE IssueChunk
      <4>1. /\ rpc # "resolve" /\ err' = err
            /\ rpc' \notin {"idle", "resolve", "ret"}
        BY <3>7 DEF IssueChunk
      <4>2. GoingInv => GoingInv'
        BY <3>0, <3>7, ChunkGoing
      <4> QED
        BY <3>2, <4>1, <4>2
    <3>8. CASE IssueTail
      <4>1. /\ rpc # "resolve" /\ err' = err
            /\ rpc' \notin {"idle", "resolve", "ret"}
        BY <3>8 DEF IssueTail, Bounce
      <4>2. GoingInv => GoingInv'
        BY <3>0, <3>8, TailGoing
      <4> QED
        BY <3>2, <4>1, <4>2
    <3>9. CASE NoTail
      <4>1. /\ rpc # "resolve" /\ err' = err
            /\ rpc' \notin {"idle", "resolve", "ret"}
        BY <3>9 DEF NoTail, issued
      <4>2. GoingInv => GoingInv'
        BY <3>0, <3>9, NoTailGoing
      <4> QED
        BY <3>2, <4>1, <4>2
    <3>10. CASE PlanRefuses \/ SubmitFails
      BY <3>1, <3>10 DEF PlanRefuses, SubmitFails, GiveUp
    <3>11. CASE CompleteRead
      <4>1. rpc = "wait" /\ rpc' = "ret"
        BY <3>11 DEF CompleteRead
      <4>2. AisioInv'
        BY <4>1 DEF AisioInv
      <4>3. CASE failed
        BY <3>0, <4>2, <4>3 DEF ReadExact
      <4>4. CASE ~failed
        BY <2>2, <2>4, <3>0, <3>11, <4>1, <4>2, <4>4, CompleteExact
      <4> QED
        BY <4>3, <4>4
    <3>12. CASE CopyBackFails
      BY <3>12 DEF CopyBackFails, AisioInv, ReadExact
    <3>13. ASSUME NEW c \in cmds, Complete(c) PROVE AisioInv' /\ ReadExact'
      <4>1. /\ rpc # "resolve" /\ err' = err
            /\ rpc' \notin {"idle", "resolve", "ret"}
        BY <1>3, <3>13 DEF Complete, PlanInv, BeforeInv
      <4>2. GoingInv => GoingInv'
        BY <3>0, <3>13, ChunkComes, SlotComes
      <4> QED
        BY <3>2, <4>1, <4>2
    <3>14. ASSUME NEW c \in cmds, CompleteFails(c) PROVE AisioInv' /\ ReadExact'
      BY <3>1, <3>14 DEF CompleteFails
    <3> QED
      BY <2>4, <3>3, <3>4, <3>5, <3>6, <3>7, <3>8, <3>9, <3>10, <3>11, <3>12,
         <3>13, <3>14 DEF PlanGoes, PlanFaults
  <2>5. ASSUME PreadGoes \/ PreadFault \/ PlainRead \/ PlainReadFails
        PROVE  FALSE
    BY <2>0, <2>5 DEF PreadGoes, PlainRead, PreadFault, PlainReadFails,
       PreadSome, CopyOut, PreadFails
  <2> QED
    BY <2>1, <2>3, <2>4, <2>5 DEF ReadGoes, ReadFaults
<1> QED
  BY <1>1, <1>2, <1>3

\* Whatever a read delivers when nothing has failed is what the writes made:
\* for all requests, block maps and limits on a command.  aisio: every byte of
\* the request that lies in an allocated block, no other, and their number
\* (start_read_op, chunk_cb, run_bounce_copies, complete_read_op).  Reference
\* backend: the bytes it reports (ref_async_submit, opends_direct_pread).
THEOREM ReadsAreExact ==
  ASSUME Overlap = "apart"
  PROVE  Spec => []ReadExact
<1>1. Init => SteadyInv /\ DoneInv /\ RefInv /\ AisioInv /\ ReadExact
  <2> SUFFICES ASSUME Init
               PROVE  SteadyInv /\ DoneInv /\ RefInv /\ AisioInv /\ ReadExact
    OBVIOUS
  <2>1. /\ rpc = "idle" /\ cmds = {} /\ acc = 0 /\ got = 0 /\ cache = blocks
        /\ buf = [k \in Offsets |-> Junk] /\ backend \in {"aisio", "ref"}
        /\ size \in Sizes /\ spoiled = {}
        /\ \A o \in Writes : trunc[o] = -1 /\ wpc[o] = "idle"
    BY DEF Init, StoreInit, DirectInit, PlanInit
  <2>2. RoomInv
    <3>1. NBlocks * Align \in Nat /\ Sizes \subseteq 0 .. NBlocks * Align
      BY StoreAssumption
    <3> DEFINE m == NBlocks * Align
    <3>2. m \in Nat /\ size \in 0 .. m
      BY <2>1, <3>1
    <3> HIDE DEF m
    <3>3. size <= m /\ \A o \in Writes : trunc[o] <= m
      BY <2>1, <3>2
    <3> QED
      BY <3>3 DEF RoomInv, m
  <2>3. SteadyInv
    BY <2>1, <2>2 DEF SteadyInv, QuietInv, CleanInv, SideInv, CacheInv,
                      AisioRead, RefRead
  <2>4. DoneInv /\ RefInv /\ AisioInv /\ ReadExact
    BY <2>1 DEF DoneInv, RefInv, AisioInv, ReadExact
  <2> QED
    BY <2>3, <2>4
<1>2. FileInv /\ StoreTyped /\ PlanInv /\ SteadyInv /\ DoneInv /\ RefInv
        /\ AisioInv /\ ReadExact /\ [Next]_vars
        => (SteadyInv /\ DoneInv /\ RefInv /\ AisioInv /\ ReadExact)'
  <2> SUFFICES ASSUME FileInv, StoreTyped, PlanInv, SteadyInv, DoneInv, RefInv,
                      AisioInv, ReadExact, [Next]_vars
               PROVE  /\ SteadyInv' /\ DoneInv' /\ RefInv' /\ AisioInv'
                      /\ ReadExact'
    OBVIOUS
  <2>1. SteadyInv' /\ DoneInv'
    BY SteadyNext, DoneNext
  <2>2. backend' = backend
    BY DEF Next, SubmitWrite, WriteGoes, WriteFaults, PlainWrite, FinishWrite,
       PlainFails, MarkFails, SubmitRead, SubmitRefRead, ReadGoes, ReadFaults,
       PlainRead, PlainReadFails, HomiStep, vars
  <2>3. CASE backend = "ref"
    <3>1. AisioInv'
      BY <2>2, <2>3 DEF AisioInv
    <3> QED
      BY <2>1, <2>3, <3>1, RefNext
  <2>4. CASE backend = "aisio"
    <3>1. RefInv'
      BY <2>2, <2>4 DEF RefInv
    <3> QED
      BY <2>1, <2>4, <3>1, AisioNext
  <2>5. backend \in {"aisio", "ref"}
    BY DEF SteadyInv, SideInv
  <2> QED
    BY <2>3, <2>4, <2>5
<1>3. Spec => [](FileInv /\ StoreTyped /\ PlanInv)
  BY FileAlways, PlanAlways, PTL
<1>4. Spec => []ReadExact
  BY <1>1, <1>2, <1>3, PTL DEF Spec
<1> QED
  BY <1>4
=============================================================================
