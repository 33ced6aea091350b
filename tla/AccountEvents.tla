--------------------------- MODULE AccountEvents ----------------------------
(***************************************************************************)
(* What Clerk and Stripe report and what it does to accounts: user rows    *)
(* created by the user.created webhook or by the first sign-in and erased  *)
(* by user.deleted, and case-credit packs issued on                        *)
(* checkout.session.completed (advisor/auth/webhooks.py, auth/router.py,   *)
(* api/auth.py, billing/webhooks.py, billing/router.py, db/cases.py).      *)
(*                                                                         *)
(* The providers deliver an event until it is answered with 200, and then  *)
(* possibly again, in any order and to several workers at once.  A request *)
(* is one transaction: it looks at the event markers, does its writes,     *)
(* which wait at a unique index for other transactions, and commits.       *)
(***************************************************************************)
EXTENDS Integers, FiniteSets

CONSTANTS
    Identity,     \* Clerk user ids
    Invited,      \* those with an approved invite that grants credits
    Checkout,     \* Stripe checkout sessions that buy a pack
    Buyer,        \* Buyer[c]: who pays checkout c
    Quantity,     \* Quantity[c]: credits in the pack of c
    Delivery,     \* Stripe can emit several events for one checkout
    Worker,
    Window,       \* the dedupe looks at this many markers (50 in the code)
    MaxRows,      \* bound on the rows created for one Clerk id
    MaxFailures,  \* bound on the requests that fail
    NoEvent

Paid == [kind : {"paid"}, of : Checkout, n : Delivery]
Clerk == [kind : {"created", "deleted"}, of : Identity, n : {0}]
Event == Paid \cup Clerk

\* A request of a signed-in client, which no provider sends.
SignIn == [kind : {"signin"}, of : Identity, n : {0}]

ASSUME AccountAssumption ==
    /\ Invited \subseteq Identity
    /\ Buyer \in [Checkout -> Identity]
    /\ Quantity \in [Checkout -> Nat \ {0}]
    /\ Window \in Nat /\ MaxRows \in Nat /\ MaxFailures \in Nat
    /\ NoEvent \notin Event \cup SignIn

VARIABLES
    row,        \* row[i]: the user row of Clerk id i, 0 if it has none
    rows,       \* history: rows ever created for i; the last one's number
    flagged,    \* ids whose row has token_grant_issued
    granted,    \* history: signup token grants i ever had
    redeemed,   \* history: invite redemptions of i
    erased,     \* history: rows of i deleted
    entered,    \* history: Clerk ids whose sign-in was answered
    paid,       \* the row number in the metadata of a checkout, 0 if unpaid
    pack,       \* the row the purchase of a checkout belongs to, 0 if none
    credits,    \* case credits issued for a checkout
    marker,     \* the row a processed event is recorded under, 0 if none
    unanswered, \* events still to be answered with 200
    swallowed,  \* history: checkouts whose handler raised, answered with 200
    job,        \* the request each worker handles
    failures    \* bound only

accountVars == <<row, rows, flagged, granted, redeemed, erased, entered, paid,
                 pack, credits, marker, unanswered, swallowed, job, failures>>

profiles == <<row, rows, flagged, granted, redeemed, erased, entered>>
purchases == <<pack, credits>>

-----------------------------------------------------------------------------
\* "handle": past the dedupe.  "staged": the writes are flushed and the commit
\* is due.  user: the row the handler found, 0 if none.
Job == [phase : {"idle", "handle", "staged"},
        event : Event \cup SignIn \cup {NoEvent}, user : Nat]

NoJob == [phase |-> "idle", event |-> NoEvent, user |-> 0]

Subject(e) == IF e.kind = "paid" THEN Buyer[e.of] ELSE e.of

Staged(kinds) == {w \in Worker : /\ job[w].phase = "staged"
                                 /\ job[w].event.kind \in kinds}

\* Transactions that hold the row of i: one that inserts or deletes it, and
\* one whose purchase refers to it.
Holders(i) == {w \in Staged({"created", "deleted", "signin", "paid"}) :
                 Subject(job[w].event) = i}

AccountInit ==
    /\ row = [i \in Identity |-> 0] /\ rows = [i \in Identity |-> 0]
    /\ granted = [i \in Identity |-> 0] /\ redeemed = [i \in Identity |-> 0]
    /\ erased = [i \in Identity |-> 0] /\ entered = {} /\ flagged = {}
    /\ paid = [c \in Checkout |-> 0] /\ pack = [c \in Checkout |-> 0]
    /\ credits = [c \in Checkout |-> 0]
    /\ marker = [e \in Event |-> 0]
    /\ unanswered = {} /\ swallowed = {}
    /\ job = [w \in Worker |-> NoJob]
    /\ failures = 0

-----------------------------------------------------------------------------
(* The providers and the clients.                                          *)

\* Events already answered can be sent again, and user.created can arrive
\* after user.deleted.
ClerkSends(e) ==
    /\ e \in Clerk
    /\ unanswered' = unanswered \cup {e}
    /\ UNCHANGED <<profiles, purchases, paid, marker, swallowed, job, failures>>

\* A user with a row pays; the checkout carries the row's id.
Pay(c) ==
    /\ paid[c] = 0 /\ row[Buyer[c]] # 0
    /\ paid' = [paid EXCEPT ![c] = row[Buyer[c]]]
    /\ unanswered' = unanswered \cup {e \in Paid : e.of = c}
    /\ UNCHANGED <<profiles, purchases, marker, swallowed, job, failures>>

StripeResends(e) ==
    /\ e \in Paid /\ paid[e.of] # 0
    /\ unanswered' = unanswered \cup {e}
    /\ UNCHANGED <<profiles, purchases, paid, marker, swallowed, job, failures>>

-----------------------------------------------------------------------------
(* The requests.                                                           *)

\* _is_duplicate_event reads 50 markers of its provider in no order: past
\* that it may miss the one it looks for.
Markers(e) == {f \in Event : marker[f] # 0 /\ (f \in Paid <=> e \in Paid)}

SeenBefore(e) == e \in Event /\ marker[e] # 0
MayMiss(e) == e \in Event => Cardinality(Markers(e)) > Window \/ marker[e] = 0

Receive(w, e) ==
    /\ job[w] = NoJob
    /\ e \in unanswered \cup SignIn
    /\ MayMiss(e)
    /\ job' = [job EXCEPT ![w] = [phase |-> "handle", event |-> e,
                                  user |-> 0]]
    /\ UNCHANGED <<profiles, purchases, paid, marker, unanswered, swallowed,
                   failures>>

Duplicate(w, e) ==
    /\ job[w] = NoJob
    /\ e \in unanswered /\ SeenBefore(e)
    /\ unanswered' = unanswered \ {e}
    /\ UNCHANGED <<profiles, purchases, paid, marker, swallowed, job, failures>>

\* The request ends with the answer 200 and nothing written.
Answered(w) ==
    /\ job' = [job EXCEPT ![w] = NoJob]
    /\ unanswered' = unanswered \ {job[w].event}
    /\ UNCHANGED <<profiles, purchases, paid, marker>>

\* Mutant of Fails: a commit that fails is answered with 200 too.
FailsQuietly(w) ==
    /\ job[w].phase # "idle" /\ failures < MaxFailures
    /\ job' = [job EXCEPT ![w] = NoJob]
    /\ failures' = failures + 1
    /\ unanswered' = unanswered \ {job[w].event}
    /\ UNCHANGED <<profiles, purchases, paid, marker, swallowed>>

\* The request ends with a 500, or its connection or its process is lost:
\* nothing is written and the event comes again.
Fails(w) ==
    /\ job[w].phase # "idle" /\ failures < MaxFailures
    /\ job' = [job EXCEPT ![w] = NoJob]
    /\ failures' = failures + 1
    /\ UNCHANGED <<profiles, purchases, paid, marker, unanswered, swallowed>>

\* The writes are flushed, the row locks held.
Stages(w, user) ==
    /\ job' = [job EXCEPT ![w] = [phase |-> "staged", event |-> job[w].event,
                                  user |-> user]]
    /\ UNCHANGED <<profiles, purchases, paid, marker, unanswered, swallowed,
                   failures>>

\* The UNIQUE constraint on stripe_checkout_session_id: an insert waits for a
\* staged one of the same checkout and then fails.
PackExists(c) == pack[c] # 0

\* Mutant of PackStaged: the constraint is missing.
PackUnguarded(c) == FALSE

PackStaged(c) == \E v \in Staged({"paid"}) : job[v].event.of = c

\* _handle_checkout_completed.
HandlePaid(w) ==
    LET e == job[w].event
        c == e.of
    IN /\ job[w].phase = "handle" /\ e.kind = "paid"
       /\ \/ /\ row[Buyer[c]] # paid[c]     \* user_missing
             /\ Answered(w) /\ UNCHANGED <<swallowed, failures>>
          \/ /\ row[Buyer[c]] = paid[c] /\ PackExists(c)  \* duplicate_purchase
             /\ Answered(w) /\ UNCHANGED <<swallowed, failures>>
          \/ /\ row[Buyer[c]] = paid[c] /\ ~PackExists(c) /\ ~PackStaged(c)
             /\ \A v \in Holders(Buyer[c]) : job[v].event.kind = "paid"
             /\ Stages(w, paid[c])
          \/ /\ failures < MaxFailures      \* another exception: swallowed
             /\ failures' = failures + 1
             /\ swallowed' = swallowed \cup {c}
             /\ Answered(w)

\* Mutant of RowFree: the index is missing.
RowUnguarded(i) == TRUE

\* Writing the row of i waits for the transactions that hold it, at its lock
\* or at the UNIQUE index on clerk_user_id.
RowFree(i) == Holders(i) = {}

\* _handle_user_created, _handle_user_deleted and resolve_or_create_user.  An
\* insert that finds the row there after its wait fails and is tried again,
\* which comes to the same as finding it.  Without an email (no address at
\* Clerk, Backend API down) no row is created.
HandleProfile(w) ==
    LET e == job[w].event
        i == e.of
    IN /\ job[w].phase = "handle" /\ e \in Clerk \cup SignIn
       /\ \/ /\ e.kind # "deleted" /\ row[i] = 0 /\ rows[i] < MaxRows
             /\ RowFree(i) /\ Stages(w, 0)
          \/ /\ row[i] # 0
             /\ RowFree(i) /\ Stages(w, row[i])
          \/ /\ row[i] = 0
             /\ Answered(w) /\ UNCHANGED <<swallowed, failures>>
          \/ /\ e \in Clerk /\ failures < MaxFailures   \* an exception of the
             /\ failures' = failures + 1                \* handler: swallowed
             /\ Answered(w) /\ UNCHANGED swallowed

-----------------------------------------------------------------------------
(* The commits.  The answer can be lost after one: the event comes again.  *)

Acknowledges(w) ==
    /\ unanswered' \in {unanswered, unanswered \ {job[w].event}}
    /\ job' = [job EXCEPT ![w] = NoJob]
    /\ UNCHANGED <<paid, swallowed, failures>>

CommitPaid(w) ==
    LET e == job[w].event
        c == e.of
    IN /\ job[w].phase = "staged" /\ e.kind = "paid"
       /\ pack' = [pack EXCEPT ![c] = job[w].user]
       /\ credits' = [credits EXCEPT ![c] = @ + Quantity[c]]
       /\ marker' = [marker EXCEPT ![e] = job[w].user]
       /\ Acknowledges(w) /\ UNCHANGED profiles

\* The webhook gives the row its free questions; the invite and the tokens
\* are the sign-in's, the invite only when it creates the row.
CommitProfile(w) ==
    LET e == job[w].event
        i == e.of
        new == job[w].user = 0
    IN /\ job[w].phase = "staged" /\ e.kind \in {"created", "signin"}
       /\ row' = [row EXCEPT ![i] = IF new THEN rows[i] + 1 ELSE @]
       /\ rows' = [rows EXCEPT ![i] = IF new THEN @ + 1 ELSE @]
       /\ IF e.kind = "signin"
          THEN /\ granted' = [granted EXCEPT ![i] =
                               IF i \in flagged THEN @ ELSE @ + 1]
               /\ flagged' = flagged \cup {i}
               /\ redeemed' = [redeemed EXCEPT ![i] =
                               IF new /\ i \in Invited THEN @ + 1 ELSE @]
               /\ entered' = entered \cup {i}
               /\ UNCHANGED marker
          ELSE /\ marker' = [marker EXCEPT ![e] = row'[i]]
               /\ UNCHANGED <<granted, flagged, redeemed, entered>>
       /\ Acknowledges(w) /\ UNCHANGED <<erased, purchases>>

\* The row goes, and by ON DELETE CASCADE its purchases, credits and markers.
\* No marker is recorded for the event itself.
CommitErasure(w) ==
    LET e == job[w].event
        i == e.of
    IN /\ job[w].phase = "staged" /\ e.kind = "deleted"
       /\ row' = [row EXCEPT ![i] = 0]
       /\ erased' = [erased EXCEPT ![i] = @ + 1]
       /\ flagged' = flagged \ {i}
       /\ pack' = [c \in Checkout |-> IF Buyer[c] = i THEN 0 ELSE pack[c]]
       /\ credits' = [c \in Checkout |-> IF Buyer[c] = i THEN 0 ELSE credits[c]]
       /\ marker' = [f \in Event |-> IF Subject(f) = i THEN 0 ELSE marker[f]]
       /\ Acknowledges(w)
       /\ UNCHANGED <<rows, granted, redeemed, entered>>

Handle(w) == \/ HandlePaid(w) \/ HandleProfile(w)
             \/ CommitPaid(w) \/ CommitProfile(w) \/ CommitErasure(w)

Delivered(e) == \E w \in Worker : Receive(w, e) \/ Duplicate(w, e)

AccountNext ==
    \/ \E e \in Event : ClerkSends(e) \/ StripeResends(e)
    \/ \E c \in Checkout : Pay(c)
    \/ \E e \in Event \cup SignIn : Delivered(e)
    \/ \E w \in Worker : Handle(w) \/ Fails(w)

\* Stripe repeats an event until it is answered with 200, and the server does
\* not refuse one for ever.
AccountFairness ==
    /\ \A w \in Worker : WF_accountVars(Handle(w))
    /\ \A e \in Paid : SF_accountVars(Delivered(e))

AccountSpec == AccountInit /\ [][AccountNext]_accountVars

-----------------------------------------------------------------------------
AccountTypeOK ==
    /\ row \in [Identity -> Nat] /\ rows \in [Identity -> 0..MaxRows]
    /\ flagged \subseteq Identity /\ entered \subseteq Identity
    /\ granted \in [Identity -> Nat] /\ redeemed \in [Identity -> Nat]
    /\ erased \in [Identity -> Nat]
    /\ paid \in [Checkout -> Nat] /\ pack \in [Checkout -> Nat]
    /\ credits \in [Checkout -> Nat]
    /\ marker \in [Event -> Nat]
    /\ unanswered \subseteq Event /\ swallowed \subseteq Checkout
    /\ job \in [Worker -> Job] /\ failures \in 0..MaxFailures

\* However often, in whatever order and to however many workers the events of
\* a checkout come, past the reach of the dedupe too, it has one purchase with
\* exactly its credits or none, of the row that paid, and that row exists.
PackIssuedOnce ==
    \A c \in Checkout :
        IF pack[c] = 0 THEN credits[c] = 0
        ELSE /\ credits[c] = Quantity[c]
             /\ pack[c] = paid[c] /\ pack[c] = row[Buyer[c]]

\* The webhook and the sign-in can both create a row, and a late user.created
\* or a session token that outlives the account creates it again after an
\* erasure.  A Clerk id has one row more than were erased at most, and each row
\* brought one signup grant and one invite redemption at most.
GrantsBoundedByErasures ==
    \A i \in Identity :
        /\ rows[i] = erased[i] + (IF row[i] = 0 THEN 0 ELSE 1)
        /\ row[i] \in {0, rows[i]}
        /\ granted[i] <= rows[i] /\ redeemed[i] <= rows[i]

\* A paid checkout is credited in the end, unless the row that paid is erased
\* or its handler raised an exception, which is answered with 200.
PaidSettles ==
    \A c \in Checkout :
        paid[c] # 0 ~> \/ credits[c] = Quantity[c]
                       \/ row[Buyer[c]] # paid[c]
                       \/ c \in swallowed

\* An invited user who has signed in has the credits of the invite.
InviteHonoured ==
    \A i \in Invited \cap entered : redeemed[i] > 0

=============================================================================
