-------------------------- MODULE MCStreamRegistry --------------------------
(* Three streams over a table of four cells; the hashes collide and their    *)
(* walks cross the end of the table.                                        *)
EXTENDS StreamRegistry, TLC

CONSTANTS t1, t2, k1, k2, k3

Colliding == (k1 :> 3) @@ (k2 :> 3) @@ (k3 :> 0)
=============================================================================
