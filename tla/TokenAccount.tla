---------------------------- MODULE TokenAccount ----------------------------
(***************************************************************************)
(* What the wallet promises, with no requests, locks, indexes or flags: an *)
(* account moves by whole entries, and the three self-service credits are  *)
(* exactly-once.                                                           *)
(***************************************************************************)
EXTENDS Integers

CONSTANTS User, Checkout, Topup, Unlimited, Gifts,
          SignupTokens, RefillTokens, MaxRefills, MaxBurn

VARIABLES
    balance,   \* tokens of each user
    signup,    \* users who had the signup grant
    topups,    \* checkouts that were credited
    refills    \* refills each user claimed

account == <<balance, signup, topups, refills>>

Init ==
    /\ balance = [u \in User |-> 0]
    /\ signup = {}
    /\ topups = {}
    /\ refills = [u \in User |-> 0]

Move(u, amount) == balance' = [balance EXCEPT ![u] = @ + amount]

Signup(u) ==
    /\ u \notin signup
    /\ signup' = signup \cup {u}
    /\ Move(u, SignupTokens)
    /\ UNCHANGED <<topups, refills>>

BuyTopup(c) ==
    /\ c \notin topups
    /\ topups' = topups \cup {c}
    /\ Move(Topup[c].user, Topup[c].tokens)
    /\ UNCHANGED <<signup, refills>>

Refill(u) ==
    /\ refills[u] < MaxRefills /\ u \notin Unlimited
    /\ refills' = [refills EXCEPT ![u] = @ + 1]
    /\ Move(u, RefillTokens)
    /\ UNCHANGED <<signup, topups>>

Gift(u, amount) == Move(u, amount) /\ UNCHANGED <<signup, topups, refills>>

Burn(u, spent) ==
    /\ u \notin Unlimited
    /\ Move(u, -spent)
    /\ UNCHANGED <<signup, topups, refills>>

Next ==
    \/ \E u \in User :
        \/ Signup(u) \/ Refill(u)
        \/ \E amount \in Gifts : Gift(u, amount)
        \/ \E spent \in 1..MaxBurn : Burn(u, spent)
    \/ \E c \in Checkout : BuyTopup(c)

Spec == Init /\ [][Next]_account

=============================================================================
