--------------------------- MODULE MCSessionStore ---------------------------
(* Small instances of SessionStore for TLC: turns of one session in one     *)
(* process, or in the two of a deployment.                                  *)
EXTENDS SessionStore, TLC

CONSTANTS t1, t2, t3, p1, p2

\* Turns and processes are interchangeable: no property names one.
StoreSymmetry == Permutations(Turn) \cup Permutations(Process)

=============================================================================
