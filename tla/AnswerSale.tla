------------------------------ MODULE AnswerSale ------------------------------
(***************************************************************************)
(* What buying an answer promises, with no rows, handlers, jobs or rescues:*)
(* a purchase is reserved once, from a card hold or a free credit, and is  *)
(* settled once, either delivered for exactly what was reserved or         *)
(* released with all of it given back.                                     *)
(***************************************************************************)
EXTENDS Integers

CONSTANTS
    Purchase,
    Card,      \* the purchases reserved with a card; the others take a credit
    Grant      \* the free credits granted

VARIABLES
    state,     \* open, reserved, delivered or released
    funds,     \* the card hold of each purchase
    credits    \* free credits left

sale == <<state, funds, credits>>

Init ==
    /\ state = [p \in Purchase |-> "open"]
    /\ funds = [p \in Purchase |-> "none"]
    /\ credits = Grant

Becomes(p, from, to) == state[p] = from /\ state' = [state EXCEPT ![p] = to]

Moves(p, from, to) == funds[p] = from /\ funds' = [funds EXCEPT ![p] = to]

Authorize(p) ==
    /\ p \in Card /\ state[p] = "open"
    /\ Moves(p, "none", "held")
    /\ UNCHANGED <<state, credits>>

Reserve(p) ==
    /\ Becomes(p, "open", "reserved")
    /\ \/ p \in Card /\ funds[p] = "held" /\ UNCHANGED credits
       \/ p \notin Card /\ credits > 0 /\ credits' = credits - 1
    /\ UNCHANGED funds

\* The answer is paid for, or the hold is given up, before the sale says so.
Clear(p) ==
    /\ p \in Card /\ state[p] = "reserved"
    /\ Moves(p, "held", "captured") \/ Moves(p, "held", "released")
    /\ UNCHANGED <<state, credits>>

Deliver(p) ==
    /\ Becomes(p, "reserved", "delivered")
    /\ p \in Card => funds[p] = "captured"
    /\ UNCHANGED <<funds, credits>>

Release(p) ==
    /\ Becomes(p, "reserved", "released")
    /\ \/ p \in Card /\ funds[p] = "released" /\ UNCHANGED credits
       \/ p \notin Card /\ credits' = credits + 1
    /\ UNCHANGED funds

Next ==
    \E p \in Purchase :
        Authorize(p) \/ Reserve(p) \/ Clear(p) \/ Deliver(p) \/ Release(p)

Spec == Init /\ [][Next]_sale

=============================================================================
