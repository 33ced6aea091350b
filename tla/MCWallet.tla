------------------------------ MODULE MCWallet ------------------------------
(* Small instances of Wallet for TLC: one or two users, racing requests.     *)
EXTENDS Wallet, TLC

CONSTANTS u1, u2, c1, r1, r2, r3

MCTopup == [c \in Checkout |-> [user |-> u1, tokens |-> 2]]

\* Requests are interchangeable: no property names one.
RequestSymmetry == Permutations(Request)

=============================================================================
