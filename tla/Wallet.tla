------------------------------- MODULE Wallet -------------------------------
(***************************************************************************)
(* The prepaid token wallet: the advisor_user row, the append-only token   *)
(* ledger, and the requests that race on them (advisor/db/wallet.py and    *)
(* the callers in api/auth.py, api/app.py, billing/webhooks.py,            *)
(* billing/router.py, auth/webhooks.py).                                   *)
(*                                                                         *)
(* A request is one SQLAlchemy session.  It first loads the user row into  *)
(* its identity map, then takes the row lock (SELECT ... FOR UPDATE, or    *)
(* the UPDATE a flush sends), writes, and commits or rolls back.  Under    *)
(* READ COMMITTED nothing it wrote is visible to others before the commit, *)
(* so the writes stay in the request until then.                           *)
(***************************************************************************)
EXTENDS Integers, Sequences, FiniteSets

CONSTANTS
    User, Request, Checkout,   \* accounts, concurrent requests, paid checkouts
    NoUser, NoCheckout,
    Topup,          \* Topup[c]: whose checkout c is and the tokens it bought
    Unlimited,      \* users with unlimited_credits
    SignupTokens,   \* ADVISOR_SIGNUP_TOKEN_GRANT
    RefillTokens, MaxRefills, Cooldown,   \* ADVISOR_BETA_REFILL_*
    Gifts,          \* amounts an operator grants by hand
    Floor,          \* ADVISOR_CHAT_MIN_BALANCE_TOKENS
    MaxBurn,        \* most tokens one turn is measured at
    MaxEntries,     \* bound on the ledger of a user
    MaxTime         \* bound on the clock

ASSUME WalletAssumption ==
    /\ NoUser \notin User /\ NoCheckout \notin Checkout
    /\ Topup \in [Checkout -> [user : User, tokens : Nat \ {0}]]
    /\ Unlimited \subseteq User
    /\ Gifts \subseteq Nat \ {0}
    /\ SignupTokens \in Nat /\ RefillTokens \in Nat /\ MaxRefills \in Nat
    /\ Cooldown \in Nat /\ Floor \in Nat /\ MaxBurn \in Nat \ {0}
    /\ MaxEntries \in Nat /\ MaxTime \in Nat
    /\ IsFiniteSet(Request) /\ Request # {}

VARIABLES
    row,      \* committed advisor_user rows
    ledger,   \* committed advisor_token_transaction rows, oldest first
    starts,   \* committed free_question_grant usage events, per user
    req,      \* what each request has read and written
    clock     \* hours, as far as the refill cooldown needs them

vars == <<row, ledger, starts, req, clock>>

-----------------------------------------------------------------------------
(* Rows, ledger entries and requests.                                      *)

\* starter and token are the flags free_question_grant_issued and
\* token_grant_issued, which share the one JSON column metadata_json.
Row == [exists : BOOLEAN, balance : Int, starter : BOOLEAN, token : BOOLEAN]

NoRow == [exists |-> FALSE, balance |-> 0, starter |-> FALSE, token |-> FALSE]

Kinds == {"signup", "refill", "topup", "burn", "gift"}

\* Only a burn takes tokens away.
Entry == {e \in [kind : Kinds, amount : Int, after : Int,
                 key : Checkout \cup {NoCheckout}, at : Nat] :
            (e.kind = "burn") <=> (e.amount < 0)}

NoEntry == [kind |-> "none", amount |-> 0, after |-> 0,
            key |-> NoCheckout, at |-> 0]

\* "auth", "clerk", "refill", "topup": the row is loaded, nothing is locked.
\* "written": the row lock is held and the transaction has its writes staged.
\* "streaming": a chat turn was admitted; no transaction is open.
Phase == {"idle", "auth", "clerk", "refill", "topup", "streaming", "written"}

RequestState == [pc : Phase, user : User \cup {NoUser}, mine : Row,
                 entry : Entry \cup {NoEntry},
                 key : Checkout \cup {NoCheckout}, starts : BOOLEAN]

Idle == [pc |-> "idle", user |-> NoUser, mine |-> NoRow, entry |-> NoEntry,
         key |-> NoCheckout, starts |-> FALSE]

\* Users are unknown to the database, or were created before the wallet (or
\* before the free-question grant) shipped and still lack the flags.
Init ==
    /\ row \in [User -> {NoRow}
            \cup [exists : {TRUE}, balance : {0}, starter : BOOLEAN, token : {FALSE}]]
    /\ ledger = [u \in User |-> <<>>]
    /\ starts = [u \in User |-> IF row[u].starter THEN 1 ELSE 0]
    /\ req = [r \in Request |-> Idle]
    /\ clock = 0

-----------------------------------------------------------------------------
(* Locks, indexes and the policy reads.                                    *)

RowLocked(u) == \E r \in Request : req[r].pc = "written" /\ req[r].user = u

\* Mutant: populate_existing is dropped.
StaleLockedRow(r) == req[r].mine

\* SELECT ... FOR UPDATE with populate_existing: the committed row, never the
\* copy the request loaded earlier.
LockedRow(r) == row[req[r].user]

EntriesOf(u, kind) == {i \in DOMAIN ledger[u] : ledger[u][i].kind = kind}

\* Mutant: the partial unique index is not there.
NoSignupIndex(u) == FALSE

\* uq_advisor_token_transaction_signup_grant: one signup row per user.
SignupIndexRefuses(u) == EntriesOf(u, "signup") # {}

\* UNIQUE stripe_checkout_session_id.
CheckoutIndexRefuses(c) ==
    \E u \in User : \E i \in DOMAIN ledger[u] : ledger[u][i].key = c

\* The refill policy: enabled, under the lifetime cap, past the cooldown.
RefillAvailable(u) ==
    /\ RefillTokens > 0 /\ MaxRefills > 0
    /\ Cardinality(EntriesOf(u, "refill")) < MaxRefills
    /\ \A i \in EntriesOf(u, "refill") : ledger[u][i].at + Cooldown <= clock

\* Mutant: a balance at the floor is let through.
MayChatAtFloor(u) == u \in Unlimited \/ row[u].balance >= Floor

MayChat(u) == u \in Unlimited \/ row[u].balance > Floor

\* The model's bound: a request begins only while its entry would still fit.
Room(u) ==
    Len(ledger[u]) + Cardinality({r \in Request : req[r].user = u}) < MaxEntries

-----------------------------------------------------------------------------
(* Steps every request shares.                                             *)

\* The request's session loads the user into its identity map.
Load(r, u, phase, c) ==
    /\ req[r].pc = "idle" /\ Room(u)
    /\ req' = [req EXCEPT ![r] = [Idle EXCEPT !.pc = phase, !.user = u,
                                              !.mine = row[u], !.key = c]]
    /\ UNCHANGED <<row, ledger, starts, clock>>

End(r) ==
    /\ req' = [req EXCEPT ![r] = Idle]
    /\ UNCHANGED <<row, ledger, starts, clock>>

Stage(r, mine, entry, issued) ==
    /\ req' = [req EXCEPT ![r].pc = "written", ![r].mine = mine,
                          ![r].entry = entry, ![r].starts = issued]
    /\ UNCHANGED <<row, ledger, starts, clock>>

Credited(base, amount) == [base EXCEPT !.balance = @ + amount]

LedgerRow(base, kind, amount, c) ==
    [kind |-> kind, amount |-> amount, after |-> base.balance + amount,
     key |-> c, at |-> clock]

\* _apply_entry: move the locked balance and write the ledger row.
ApplyEntry(r, kind, amount, c) ==
    Stage(r, Credited(LockedRow(r), amount),
          LedgerRow(LockedRow(r), kind, amount, c), FALSE)

Commit(r) ==
    /\ req[r].pc = "written"
    /\ LET u == req[r].user IN
        /\ row' = [row EXCEPT ![u] = req[r].mine]
        /\ ledger' = IF req[r].entry = NoEntry THEN ledger
                     ELSE [ledger EXCEPT ![u] = Append(@, req[r].entry)]
        /\ starts' = IF req[r].starts THEN [starts EXCEPT ![u] = @ + 1] ELSE starts
    /\ req' = [req EXCEPT ![r] = Idle]
    /\ UNCHANGED clock

\* An exception, a lost connection or a killed process.
Rollback(r) ==
    /\ req[r].pc \in {"auth", "clerk", "refill", "topup", "written"}
    /\ End(r)

-----------------------------------------------------------------------------
(* Sign-in: resolve_or_create_user runs both grants on every request.      *)

AuthLoad(r, u) == Load(r, u, "auth", NoCheckout)

\* The insert waits for a concurrent insert of the same clerk_user_id and then
\* fails on the unique index.
InsertRefused(r) == ~req[r].mine.exists /\ LockedRow(r).exists

\* grant_starter_credits_if_needed decides on the copy loaded earlier and
\* takes no lock; its flush overwrites the whole metadata_json column.
StarterFlushed(r) ==
    IF req[r].mine.starter THEN [LockedRow(r) EXCEPT !.exists = TRUE]
    ELSE [LockedRow(r) EXCEPT !.exists = TRUE, !.starter = TRUE,
                              !.token = req[r].mine.token]

\* Mutant: the absorbed IntegrityError leaves the flag as it was.
UnflaggedSignupGrant(r, base, issued) ==
    IF base.token \/ SignupIndexRefuses(req[r].user) THEN Stage(r, base, NoEntry, issued)
    ELSE Stage(r, Credited([base EXCEPT !.token = TRUE], SignupTokens),
               LedgerRow(base, "signup", SignupTokens, NoCheckout), issued)

\* grant_signup_tokens_if_needed: flag, SAVEPOINT around the grant, index.
SignupGrant(r, base, issued) ==
    LET flagged == [base EXCEPT !.token = TRUE] IN
    IF base.token THEN Stage(r, base, NoEntry, issued)
    ELSE IF SignupTokens = 0 \/ SignupIndexRefuses(req[r].user)
         THEN Stage(r, flagged, NoEntry, issued)
         ELSE Stage(r, Credited(flagged, SignupTokens),
                    LedgerRow(base, "signup", SignupTokens, NoCheckout), issued)

AuthGrants(r) ==
    /\ req[r].pc = "auth" /\ ~RowLocked(req[r].user)
    /\ IF InsertRefused(r) THEN End(r)
       ELSE SignupGrant(r, StarterFlushed(r), ~req[r].mine.starter)

\* Clerk's user.created webhook inserts the row with the starter grant only
\* (for a user it finds it changes profile fields, which are not modelled).
ClerkLoad(r, u) == ~row[u].exists /\ Load(r, u, "clerk", NoCheckout)

ClerkCreate(r) ==
    /\ req[r].pc = "clerk" /\ ~RowLocked(req[r].user)
    /\ IF LockedRow(r).exists THEN End(r)
       ELSE Stage(r, StarterFlushed(r), NoEntry, TRUE)

-----------------------------------------------------------------------------
(* Beta refill, top-up webhook, operator gift.                             *)

RefillLoad(r, u) ==
    row[u].exists /\ u \notin Unlimited /\ Load(r, u, "refill", NoCheckout)

\* Mutant: the policy is evaluated without waiting for the row lock.
UnlockedRefillClaim(r) ==
    /\ req[r].pc = "refill"
    /\ IF RefillAvailable(req[r].user)
       THEN ApplyEntry(r, "refill", RefillTokens, NoCheckout)
       ELSE End(r)

\* claim_beta_refill evaluates the policy under the row lock.
RefillClaim(r) ==
    /\ req[r].pc = "refill" /\ ~RowLocked(req[r].user)
    /\ IF RefillAvailable(req[r].user)
       THEN ApplyEntry(r, "refill", RefillTokens, NoCheckout)
       ELSE End(r)

\* Stripe may deliver a completed checkout any number of times; a delivery that
\* finds the ledger row ends there (duplicate_topup) and changes nothing.
TopupLoad(r, c) ==
    /\ row[Topup[c].user].exists
    /\ ~CheckoutIndexRefuses(c)
    /\ Load(r, Topup[c].user, "topup", c)

\* Mutant: only the webhook's own pre-check guards against a second credit.
UnguardedTopupCredit(r) ==
    /\ req[r].pc = "topup" /\ ~RowLocked(req[r].user)
    /\ ApplyEntry(r, "topup", Topup[req[r].key].tokens, req[r].key)

\* credit_topup: the unique index undoes the SAVEPOINT of a lost race.
TopupCredit(r) ==
    /\ req[r].pc = "topup" /\ ~RowLocked(req[r].user)
    /\ IF CheckoutIndexRefuses(req[r].key) THEN End(r)
       ELSE ApplyEntry(r, "topup", Topup[req[r].key].tokens, req[r].key)

\* grant_tokens by an operator's script, load and lock in one step: what it
\* loaded first is never used.
GrantTokens(r, u, amount) ==
    /\ req[r].pc = "idle" /\ Room(u) /\ row[u].exists /\ ~RowLocked(u)
    /\ req' = [req EXCEPT ![r] =
                [Idle EXCEPT !.pc = "written", !.user = u,
                             !.mine = Credited(row[u], amount),
                             !.entry = LedgerRow(row[u], "gift", amount, NoCheckout)]]
    /\ UNCHANGED <<row, ledger, starts, clock>>

-----------------------------------------------------------------------------
(* A chat turn: the floor before it, the measured burn after it.           *)

ChatPreflight(r, u) ==
    /\ row[u].exists /\ MayChat(u)
    /\ Load(r, u, "streaming", NoCheckout)

\* Mutant: the burn is written with the sign of a credit.
PositiveChatBurn(r, spent) ==
    /\ req[r].pc = "streaming" /\ ~RowLocked(req[r].user)
    /\ req[r].user \notin Unlimited
    /\ ApplyEntry(r, "burn", spent, NoCheckout)

\* burn_tokens has no floor.
ChatBurn(r, spent) ==
    /\ req[r].pc = "streaming" /\ ~RowLocked(req[r].user)
    /\ req[r].user \notin Unlimited
    /\ ApplyEntry(r, "burn", -spent, NoCheckout)

\* Mutant: the stream has no finally block.
ChatNeverEnds(r) == FALSE

\* Nothing was measured, the user is exempt, the settlement raised, or the
\* process died mid-stream.
ChatEnd(r) == req[r].pc = "streaming" /\ End(r)

Tick == clock < MaxTime /\ clock' = clock + 1 /\ UNCHANGED <<row, ledger, starts, req>>

-----------------------------------------------------------------------------

Locking(r) ==
    AuthGrants(r) \/ ClerkCreate(r) \/ RefillClaim(r) \/ TopupCredit(r)

Next ==
    \/ \E r \in Request :
        \/ Locking(r) \/ Commit(r) \/ Rollback(r) \/ ChatEnd(r)
        \/ \E spent \in 1..MaxBurn : ChatBurn(r, spent)
        \/ \E c \in Checkout : TopupLoad(r, c)
        \/ \E u \in User :
            \/ AuthLoad(r, u) \/ ClerkLoad(r, u) \/ RefillLoad(r, u)
            \/ ChatPreflight(r, u)
            \/ \E amount \in Gifts : GrantTokens(r, u, amount)
    \/ Tick

Spec == Init /\ [][Next]_vars

\* Postgres grants a released row lock to a waiter, transactions end, and the
\* turn's generator always reaches its finally block or dies.
FairSpec ==
    /\ Spec
    /\ \A r \in Request :
        SF_vars(Locking(r)) /\ WF_vars(Commit(r)) /\ WF_vars(ChatEnd(r))

-----------------------------------------------------------------------------
(* Properties.                                                             *)

\* Every variable keeps its shape; in particular a ledger row takes tokens away
\* exactly when it is a burn.
TypeOK ==
    /\ row \in [User -> Row]
    /\ ledger \in [User -> Seq(Entry)]
    /\ starts \in [User -> Nat]
    /\ req \in [Request -> RequestState]
    /\ clock \in Nat

BalanceAfter(u, i) == IF i = 0 THEN 0 ELSE ledger[u][i].after

\* However requests interleave, abort or re-read, each ledger row carries the
\* running total up to it and the last one is the stored balance: the documented
\* SUM(amount_tokens) == token_balance, with balance_after a true snapshot.
LedgerRunningBalance ==
    \A u \in User :
        /\ \A i \in DOMAIN ledger[u] :
            ledger[u][i].after = BalanceAfter(u, i - 1) + ledger[u][i].amount
        /\ row[u].balance = BalanceAfter(u, Len(ledger[u]))

\* At most one signup grant per user, even though the starter grant of a stale
\* request wipes the flag that guards it.
SignupGrantedOnce ==
    \A u \in User : \A i, j \in EntriesOf(u, "signup") : i = j

\* The token_grant_issued flag and the ledger never disagree: a flag without a
\* grant would lock the user out of it, a grant without the flag would send every
\* request into the index.
GrantFlagAgrees ==
    \A u \in User :
        /\ EntriesOf(u, "signup") # {} => row[u].token
        /\ row[u].token /\ SignupTokens > 0 => EntriesOf(u, "signup") # {}

\* A checkout is credited at most once, whoever and however often it is delivered.
TopupCreditedOnce ==
    \A u, v \in User : \A i \in DOMAIN ledger[u], j \in DOMAIN ledger[v] :
        ledger[u][i].key = ledger[v][j].key /\ ledger[u][i].key # NoCheckout
            => u = v /\ i = j

\* Refills never pass the lifetime cap and are a cooldown apart, also when two
\* claims race.
RefillPolicyHolds ==
    \A u \in User :
        /\ Cardinality(EntriesOf(u, "refill")) <= MaxRefills
        /\ \A i, j \in EntriesOf(u, "refill") :
            i < j => ledger[u][i].at + Cooldown <= ledger[u][j].at

\* The floor is read before the turn and the burn has none, so a wallet can go
\* negative: by less than one full turn per request that can run at once.
OverdrawBounded ==
    \A u \in User : row[u].balance < 0 =>
        row[u].balance > Floor - MaxBurn * Cardinality(Request)

\* The free-question starter grant is issued once per user.
StarterGrantedOnce == \A u \in User : starts[u] <= 1

Account == INSTANCE TokenAccount WITH
    balance <- [u \in User |-> row[u].balance],
    signup <- {u \in User : EntriesOf(u, "signup") # {}},
    topups <- {c \in Checkout : CheckoutIndexRefuses(c)},
    refills <- [u \in User |-> Cardinality(EntriesOf(u, "refill"))]

\* Racing, replayed and aborted requests on rows, locks and indexes amount to an
\* account whose signup grant, top-ups and refills each happen once.
ImplementsAccount == Account!Spec

\* No request waits for a row lock, or streams, for ever.
RequestsFinish == \A r \in Request : req[r].pc # "idle" ~> req[r].pc = "idle"

=============================================================================
