------------------------------- MODULE Word32 -------------------------------
(***************************************************************************)
(* The uint32_t arithmetic of the I/O engine: ring counters and gate words *)
(* are free-running counters modulo 2^32 that the code compares with       *)
(* serial ("cyclic") arithmetic.  Half is 2^31 in the build; a small value *)
(* makes the counters wrap within a short run.                             *)
(***************************************************************************)
EXTENDS Integers

CONSTANT Half

ASSUME HalfAssumption == Half \in Nat \ 0 .. 2

Modulus == 2 * Half

Word == 0 .. Modulus - 1

\* a + b, a - b and 2 * a, truncated to the word.
WAdd(a, b) == IF a + b >= Modulus THEN a + b - Modulus ELSE a + b
WSub(a, b) == IF a >= b THEN a - b ELSE a - b + Modulus
WDouble(a) == WAdd(a, a)

\* (int32_t)(a - b) < 0
CyclicLess(a, b) == WSub(a, b) >= Half

\* The two values the gate word takes for sequence number q: the stream has
\* arrived at operation q, and operation q is done.
Arrived(q)  == WDouble(q)
Released(q) == WAdd(WDouble(q), 1)
=============================================================================
