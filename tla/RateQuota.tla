----------------------------- MODULE RateQuota ------------------------------
(***************************************************************************)
(* The per-minute request cap of one user (advisor/api/quota.py and the    *)
(* pre-flight of post_chat in advisor/api/app.py).                         *)
(*                                                                         *)
(* There is no counter: a request counts the usage rows of the last minute *)
(* and, if let through, adds its own at the end of its transaction.  The   *)
(* pre-flight does not await, so the requests of one process follow one    *)
(* another, but every process runs its own.                                *)
(***************************************************************************)
EXTENDS Integers, FiniteSets

CONSTANTS
    Server,
    Limit,      \* requests_per_minute_limit
    MaxRefused  \* bound on the refusals in a minute

ASSUME QuotaAssumption ==
    /\ IsFiniteSet(Server) /\ Server # {}
    /\ Limit \in Nat /\ MaxRefused \in Nat

VARIABLES
    calls,    \* llm_call rows created in the last minute and committed
    refused,  \* rate_limit_exceeded rows likewise
    admitted  \* processes whose request has passed the cap, uncommitted

quotaVars == <<calls, refused, admitted>>

QuotaInit == calls = 0 /\ refused = 0 /\ admitted = {}

\* A mutation of UnderLimit: off by one.
AtLimit == calls + refused <= Limit

UnderLimit == calls + refused < Limit

\* enforce_request_rate lets the request through.
Admit(p) ==
    /\ p \notin admitted
    /\ UnderLimit
    /\ admitted' = admitted \cup {p}
    /\ UNCHANGED <<calls, refused>>

\* enforce_request_rate answers 429, and commits a row that counts too.
Refuse(p) ==
    /\ p \notin admitted
    /\ ~UnderLimit /\ refused < MaxRefused
    /\ refused' = refused + 1
    /\ UNCHANGED <<calls, admitted>>

\* record_llm_call, committed at the end of the pre-flight.
RecordCall(p) ==
    /\ p \in admitted
    /\ admitted' = admitted \ {p}
    /\ calls' = calls + 1
    /\ UNCHANGED refused

\* The terms, the balance or the case refuse the turn, or the process stops:
\* nothing is recorded.
TurnedAway(p) ==
    /\ p \in admitted
    /\ admitted' = admitted \ {p}
    /\ UNCHANGED <<calls, refused>>

\* Rows leave the window as it slides.
MinutePasses ==
    /\ calls' \in 0 .. calls /\ refused' \in 0 .. refused
    /\ UNCHANGED admitted

QuotaNext ==
    \/ \E p \in Server : Admit(p) \/ Refuse(p) \/ RecordCall(p) \/ TurnedAway(p)
    \/ MinutePasses

QuotaSpec == QuotaInit /\ [][QuotaNext]_quotaVars

-----------------------------------------------------------------------------
QuotaTypeOK ==
    /\ calls \in Nat /\ refused \in 0 .. MaxRefused
    /\ admitted \subseteq Server

\* The count and the row it leads to are apart, so that processes can all pass
\* at a count of Limit - 1.  In no minute are more than Limit calls started,
\* and one more for every process but one, and none when the limit is 0.
RateBounded ==
    /\ calls + Cardinality(admitted) <= Limit + Cardinality(Server) - 1
    /\ Limit = 0 => calls = 0

=============================================================================
