----------------------------- MODULE MCAccounts -----------------------------
(* A small instance of AccountEvents for TLC: one invited person who signs   *)
(* up, with Clerk's webhook and the first sign-in served by two workers.     *)
EXTENDS AccountEvents

CONSTANTS person, checkout, w1, w2

MCBuyer == [c \in Checkout |-> person]
MCQuantity == [c \in Checkout |-> 2]

=============================================================================
