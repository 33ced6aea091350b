# Verification of the by-law advisor

TLA+ modules, TLC runs and TLAPS proofs for the parts of this repository whose
correctness depends on the order of concurrent steps or on a bound kept over many
of them: the token wallet, the purchase of an answer, the stored chat history,
the tool loop of a turn, the accounts that Clerk's and Stripe's events make, the
published by-law corpus, cases, the request cap and the decisions on submissions.
Every definition is translated from the code under `src/src/`; `PROJECT.json`
maps each to its lines (paths below are relative to `src/src/`).

## 1. Inventory

`advisor` is the web application (FastAPI, SQLAlchemy, Postgres), `layer1`
ingests by-law documents and publishes them, `layer2` retrieves and evaluates
them, and `mcp/bylaw_retrieval` serves them as tools. The state that concurrent
steps share is in `advisor` and in the publication part of `layer1`.

| component | state | operations | hard behaviour | correct when |
|---|---|---|---|---|
| token wallet, `advisor/db/wallet.py` | `advisor_user.token_balance`, the flags in `metadata_json`, the append-only ledger `advisor_token_transaction` | signup grant, top-up, refill, gift, burn, floor check | several sessions per user, row locks, savepoints, unique indexes, stale identity maps, redelivered webhooks | balance = sum of the ledger; each grant, checkout and refill counts once; the overdraft is bounded |
| sign-in and Clerk webhook, `advisor/api/auth.py`, `advisor/auth/` | user row | create or load the user, run both grants on each request, `user.created` | two first requests and the webhook race | one row, one grant of each kind |
| question purchase, `advisor/billing/answers.py`, `router.py` | `advisor_question_purchase`, Stripe's PaymentIntent | checkout, authorization webhook, POST answer, background job, capture / void, stale rescue, refine | unlocked read-decide-write, minutes of LLM time between, restarts lose the job, Stripe and the database commit apart | charged only with an answer; one run; settled once; every generating row resolves |
| free-question credits, `advisor/db/cases.py` | `free_questions_remaining` | consume, refund, starter grant | a lock taken without refreshing the copy | credits conserved |
| Stripe webhook, `advisor/billing/webhooks.py` | usage events as a dedupe log, `advisor_case_purchase`, pack credits | top-up, authorization, packs | redelivery, dedupe of 50 rows, exceptions answered with 200 | a paid checkout takes effect, once |
| account lifecycle, `advisor/auth/webhooks.py`, `api/auth.py` | user row, invite, markers | `user.created`, `user.deleted`, first sign-in | either creates the row, events out of order and repeated, cascade on erasure | one row per Clerk id, one grant per row, invites redeemed |
| chat turn, `advisor/api/app.py` `post_chat`, `advisor/chat/session.py` | in-memory conversation, usage event | floor check, turn, store, burn | minutes between the check and the burn | burned once, bounded |
| session store, `advisor/api/db_session_store.py` | `advisor_chat_message` rows, `_last_persisted_sequence` | create, get, post-turn insert | turns of one session overlap and share one number; restarts; two processes | history without gaps, never rewritten, turns whole |
| rate quota, `advisor/api/quota.py` | `llm_call` usage events | count then insert | count-then-insert race between processes | at most N turns per minute |
| tool loop and breakers, `advisor/llm/tool_loop.py`, `budget.py` | iteration, estimated and measured tokens | request, tool calls, three breakers, forced synthesis | a breaker that fires after the measurement; an exception loses the usage | bounded cost, paired tool blocks |
| case credits, `advisor/db/cases.py` | `advisor_case_credit` | issuance; reserve, commit, refund, upgrade, sweep have no route any more | redelivery | issued once per checkout |
| cases, `advisor/db/cases.py`, `api/cases_router.py` | `advisor_case`, numbered per user | open or continue, close, idle sweep | the number is max + 1, read seconds before the commit, no unique index | numbers without a gap |
| submissions, `advisor/api/submissions_router.py`, `integrations_router.py`, `layer2/compliance/evaluator.py` | `submission`, its attributes and decisions | upload, confirm, override, evaluate (three callers), matrix | overrides during an evaluation; verdicts aggregated over clauses, attributes and missing inputs | the matrix says what the clauses say |
| corpus, `layer1/pipeline/`, `layer1/datasets/linker.py` | `document.retrieval_enabled`, layers linked to fragments | ingest, enable (with replace), disable, prune, link, relink | operators at once, row locks, deletions by id, cascades | links sound, a publication takes effect, the newest is never pruned |
| administration, terms | rows | single-statement edits | little interaction | |
| uptime monitor, `advisor/monitoring/` | consecutive failures, alerted | probe, alert, recover | sequence only | one alert per outage |
| retrieval (`layer2`), prompts, evaluation, front end | read-only or pure | | | data quality rather than state |

`PROJECT.json` lists all of them, with the reason for each that is not modelled.

Interactions. Sign-in and every chat, refill and top-up request meet on the user
row; the chat turn reads the wallet before and burns after; the Stripe webhook
enters the wallet (top-ups) and the purchases (authorization); a free purchase
moves the counter of the same user row; a chat turn loads and stores its session
through the session store, runs the tool loop on a compacted copy of it, and is
burned what the loop's gateway requests measured: `TurnCostBounded` is the
`MaxBurn` of the wallet. Tools read the published corpus. An account's erasure
cascades to its purchases, credits and event markers. The three evaluation
callers meet on the rows of a submission.

### Execution model

The production image runs one uvicorn process without `--workers`
(`Dockerfile.advisor:143`). In it,

* `async def` handlers (`post_chat`, `post_run_answer`, `post_refine`, the
  webhooks) and background jobs run on the event loop. Their synchronous
  database code has no `await` between a read and the commit that follows, so
  such a window is atomic towards the others;
* plain `def` handlers and dependencies (the user resolver, `post_free_start`,
  the refill claim, `get_question_purchase` with its rescue) run in the thread
  pool and overlap with everything;
* a deployment or a second container adds a process.

`Wallet`, and `QuestionPurchase` with `Overlap = "any"`, allow any number of
processes. `Overlap = "loop"` is one process, `"none"` leaves all windows whole.
`SessionStore` and `RateQuota` take the set of processes as a constant. The
endpoints for cases and submissions are plain functions, so they overlap in one
process too. `Corpus` commands are separate processes at an operator's terminal.

## 2. Modules

### `Wallet`, `TokenAccount`, `WalletProofs`

A *request* is one SQLAlchemy session: `Load` puts the committed user row into
its identity map (`mine`), a locking step (`AuthGrants`, `ClerkCreate`,
`RefillClaim`, `TopupCredit`, `ChatBurn`, `GrantTokens`) waits for the row lock,
decides and stages its writes, and `Commit` publishes them or `Rollback` drops
them: under READ COMMITTED nobody sees a staged write. `LockedRow` is `SELECT ...
FOR UPDATE` with `populate_existing`; the starter grant decides on `mine`
instead, as the code does, and its flush overwrites the shared JSON column
(`StarterFlushed`). Unique indexes are `SignupIndexRefuses` and
`CheckoutIndexRefuses`. A chat turn is `ChatPreflight` (the floor), a span
without a transaction, then `ChatBurn` or `ChatEnd`. Users begin unknown or
created before the wallet existed.

`TokenAccount` is the abstract account: whole entries, and signup, top-ups and
refills that happen once. `ImplementsAccount` maps the wallet to it: ledger
entries give the sets and counts, the row gives the balance.

### `QuestionPurchase`, `AnswerSale`, `QuestionPurchaseProofs`

A *task* is one handler or background job; its read and its commit are separate
steps, and between them it holds what it read (`task[t].free`, `.count`,
`.outcome`). `row` is the purchase, `hold` Stripe's PaymentIntent (external,
modelled from how `billing/client.py` and `answers.py` use it), `free` the
counter, `served` a history of refinements delivered. `OpenCheckout` ..
`StartFree` reserve (`StartLoad` is `POST /checkout/question` with payments off; the
Stripe-off router's `/questions/free-start` makes the same calls), `PostLoad`, `PostRun`, `JobStart`, `TurnEnds` run the
engine, `Capture`, `Cancel`, `Commit`, `SettleFree` settle, `CommitFails` and
`Fail` are the job's except block, `RescueLoad` is the stale rescue, `Die` a
restart, `Refine*` the follow-ups. Three constants restrict the environment:
`Overlap` (above), `Faults` (a fault between a Stripe call and the commit after
it) and `SlowRuns` (a run may outlast `STALE_GENERATING_AFTER`).

`AnswerSale` is what a buyer is promised: a purchase is open, reserved (from a held
card or a free credit), then delivered for what was reserved or released with all
of it given back, once. `ImplementsSale` maps a purchase to it: the status of the
row gives the stage (`authorized` and `generating` are reserved; `voided` and `failed`
are released), `hold` the funds and the counter the credits, so that a job and a
rescue that both settle must be one move and a repetition.

### `SessionStore`, `ChatLog`, `SessionStoreProofs`

One chat session. `table` maps stored sequence numbers to messages, `last` is
`_last_persisted_sequence` of each process, `turn` is each POST with the
conversation object it loaded. `Post` is `store.get`: load the history, reset
the number. `TurnEnds` is the end of `send_user_message_blocking`: splice the
turn's messages on and insert those past the shared number; nothing past it
returns silently, a row the unique index refuses fails the turn. `TurnFails`,
`ReadSession` (a GET resets the number too) and `Restart` complete it. A message
is its turn and its part (question, tool_use, tool_result, answer). `alone` is a
history: no other turn of the session ran during this one.

`ChatLog` is the session without numbers, processes or an index: a log that grows
at its end. A turn that ran alone adds what it produced, a turn that shared the
session what is left of it past a first part (all of it, or none, included), and
turns that fail, one by one or with their process, add nothing. `ImplementsLog`
maps the rows in the order of their numbers to the log, and `alone` to the phase
of a running turn.

### `ToolLoop`, `ToolLoopProofs`

One session's turns. `conversation` is the list `run_tool_loop` appends to,
`messages` what the session holds, `history` what is stored. `StartTurn` appends
the prompt and submits the compacted copy; `Check` is the top of an iteration
with the breakers in the code's order, `Ship` and `Respond` the request,
`RunOneHandler` and `AppendResults` the tools, `ForceSynthesis` and `Synthesised`
the last request without tools, `Return` the splice and the store, `TurnRaises`
an exception or a lost client at any await. A message keeps its role, its
tool_use and tool_result ids and its size: the estimate is a sum of sizes, while
the measured usage of a request is any number up to `MaxRequest`, since nothing
ties the two together.

### `Corpus`, `CorpusProofs`

A command is one `session_scope`: a READ COMMITTED transaction with what it
`loaded` into its identity map, the flags it set (`on`, `off`), the rows it holds
(`locked`), the deletions (`doomed`), the layers it is still to link (`moves`) and
the layer rows it has written and holds (`pins`), all published by `Commit`.
`ReadSiblings`, `Flush` and `Relink` are one id of `set_retrieval_enabled`;
`BeginPrune` plans on the flags as they are and `DeleteRows` deletes by id later;
`Resolved` is the linker's choice of a version, `Bound` the binding to one. Row
locks and foreign keys are guards (`Unlocked`, `LayerFree`, `Linkable`,
`Referable`) and marked external. Two updates that wait for each other are a
deadlock, which Postgres ends: `Abort`.

A layer is linked in three steps that others may come between: its row is loaded
(`Relink` and `RelinkDatasets` load many; the row of `IngestDataset` is the one
just inserted, unlinked), a link is chosen (`Resolve`; `Relink` has it from the
id), and `RecordLink` is its UPDATE. A `Move` keeps the copy that was loaded,
because the UPDATE sends the columns in which the new link differs from that copy
and leaves the others as the row has them by now (`RowUpdated`). The copies of one id
need not be kept for the next: the session holds its objects weakly, and a row it
wrote is locked, so that a second load sees the same.

### `AccountEvents`, `AccountEventsProofs`

A job is one request with its transaction: `Receive` passes the dedupe
(`MayMiss`: it looks at `Window` of the markers, 50 in the code, in no order),
`HandlePaid` and `HandleProfile` decide and flush, waiting at unique indexes and
row locks for the jobs that hold them, `CommitPaid`, `CommitProfile` and
`CommitErasure` publish, and `Fails` loses the request so that the provider
repeats it. An exception inside a handler is answered with 200: `swallowed`. A
row is numbered per Clerk id, so that a row created after an erasure is another.

### `Cases`, `RateQuota`, `Submission`, `RequestProofs`

`Cases`: a request reads (`BeginInsert` takes the number and an id,
`BeginContinue`, `BeginClose`, `BeginSweep`), and commits or rolls back later,
with the lookup of the lot's facts in between. `RateQuota`: `Admit` counts,
`RecordCall` adds the row that later counts see, `Refuse` adds one that counts
as well, `MinutePasses` slides the window.

`Submission`: `Meets` .. `OverallStatus` are the evaluator's pure part over given clauses:
clause, attribute, overall. The requests are transactions: an override reads the
row and later writes the columns that differ from what it read; an evaluation
reads the attributes (`Evaluates`), is at work while others commit, flushes its
decision (`Decide`) and commits it. `current` is a history variable: the values
a decision was made on are still the submission's. The default wiring of
`advisor/api/app.py` gives the router no evaluator, so that its evaluate route
answers 503; the model is of the wiring of `api/e2e_server.py:121-130`.

### `MCComponents`, `ComponentsProofs`, `MCAccounts`

`MCComponents` runs the components that share no state in one instance: `focus`
picks one at the start and the others stay as they begin, so a run's state space
is the sum of theirs and each property is checked against its component's.
`MCAccounts` is the accounts alone. `ComponentsBehave` proves that a behaviour of the
composition is one of each component, so that what is proved of a component holds
in the run and a run's counterexample would be the component's.

## 3. Runs

| run | what it asks | instance | result |
|---|---|---|---|
| `wallet` | ledger = balance, grants and top-ups once, refill policy, overdraft bound, refinement of `TokenAccount` | 1 user, 3 requests, 1 checkout | holds |
| `wallet_fair` | every request ends | 2 users (one exempt), 2 requests | holds |
| `wallet_starter` | the starter grant issues once per user | as `wallet` | violated (finding) |
| `question` | captured means answered and charged; nothing runs unreserved | 1 card and 2 free purchases, 2 tasks, any overlap, all faults, slow runs | holds |
| `question_loop` | one engine run, refinements counted, generating resolves | 1 card and 1 free purchase, 3 tasks, one process, slow runs, restarts | holds |
| `question_serial` | holds released, free credits conserved, refinement of `AnswerSale` | 1 card and 2 free purchases, 2 tasks, windows whole, slow runs | holds |
| `question_charge` | charged only if delivered | 1 card purchase, 2 tasks, faults | violated (finding) |
| `question_free` | free credits conserved in the deployed arrangement | 2 free purchases, 2 tasks | violated (finding) |
| `question_refine` | at most MAX_REFINEMENTS follow-ups | 1 card purchase, 2 tasks | violated (finding) |
| `session_store` | stored history: no gap, no rewrite, turns whole | 3 turns, 2 processes, up to 2 tool rounds | holds |
| | tool loop: cost of a turn, blocks paired, every turn returns | 2 turns, 2 rounds, 2 tool_use blocks, all three breakers | holds |
| | corpus: links stored and, of a lone command, whole; publication takes effect; prune spares | 3 versions, 2 layers, 2 operators, 2 commands | holds |
| | accounts: pack once, grants per row, paid checkouts settle | 1 person, 1 checkout, 2 workers, 1 failure | holds |
| | cases: contiguous numbers; request cap; submission matrix | 2 requests, 3 cases; 3 servers, limit 2; 3 attributes, 2 requests | holds |
| `session_overlap` | the messages of a delivered turn are stored | 2 turns, 1 process | violated (finding) |
| `invite_order` | an invited user who signed in has the invite's credits | 1 person, 2 workers | violated (finding) |

**Bounds.** Three requests on one user give every pair of races plus a third
party (a redelivery, or a refill between two others); users meet nowhere in the
wallet except in a checkout, which belongs to one. `MaxEntries` and `MaxTime`
cut the ledger and the clock: four entries hold a grant, two refills a cooldown
apart and a burn. `MaxRefills = 2` reaches the cap and passes the cooldown.
Amounts of 1 and 2 tell sums apart, and `MaxBurn = 2` with `Floor = 0` lets a
turn end below zero. For purchases, two free ones and one credit make a stale
counter wrong, one card purchase carries the hold; two tasks give a job and the
handler that races it, three a job, a rescue and a second POST. `MaxServed`
stops the history one past the cap. Two processes and three turns give a turn
that overlaps one in its own process and one in another; two tool rounds make
histories of different length, which decide what the shared number skips.

The limits of the loop (`RequestBudget`, `CumulativeBudget`, `WalletCeiling`) are
small enough that each breaker trips first in some behaviour; two turns and
`KeepRecent = 1` compact the first. In the corpus the second version has lost a
layer's citation and the third has it twice, so that publication finds,
misses and refuses a link; two overlapping commands and an ingest give every pair
of commands. The second version is published at first and one layer is flagged on
it without a fragment, so that `relink-datasets` has a copy to go stale while
another command binds that layer. `Window = 0` puts every event past the reach of the dedupe, the worst
case of 50 markers; `MaxRows = 2` gives an erasure and a row after it. Three cases
with two requests give two overlapping numbers and one after them. Three servers
pass a limit of 2 together. The clauses of the submission instance give an outright
limit, one that depends on an attribute which may be missing, one in a list, an
attribute without clauses, and the values a match, a wrong unit and a text.
`MaxClock` is the requests and decisions of one behaviour.

The properties proved (section 5) do not depend on these bounds.

`CHECK_DEADLOCK FALSE` where the model stops: the wallet when ledger and clock
are full, the purchases when all are settled and refined, the components when
their bounds are used up.

**Why restricted environments.** `SettledMatchesHold`, `FreeCreditsConserved` and
`ImplementsSale` do not hold under all races and faults (the findings are three
of the ways), so `question_serial` asks them where no window is split: what it
does show is that a rescue and the live job it overtook, both of which have
whole minutes between their decisions, settle a purchase once and pay back once.
`question` asks with everything switched on. In the deployment without faults and
slow runs the first is proved to hold, and the third for the card purchases
(section 5).

**Fairness.** `wallet_fair`: Postgres queues lock waiters, so a request that can
take the lock again and again gets it (strong fairness of `Locking`); a
transaction that wrote ends (weak fairness of `Commit`); the stream's generator
ends by its `finally` block or dies (`ChatEnd`). `question_loop`: handlers and
turns end, as the clients of the model and of Stripe time out (weak fairness of `JobStep`
and `OtherStep`); restarts do not interrupt every settlement (strong fairness of
`Settling`); the client polls while it sees `generating` (strong fairness of
`RescueLoad`, which needs a free task). A purchase nobody looks at again may stay
generating: the code has no sweeper. `session_store`: gateway and tools return,
each with its own timeout (weak fairness of `TurnStep`), so that `TurnReturns` is
about the loop's own end; Stripe repeats an event until it is answered with 200
(strong fairness of its delivery) and a request that is handled ends (weak
fairness of `Handle`), for `PaidSettles`.

## 4. Findings

Beside each violated claim stands a theorem that says under which condition it does
hold, or by how much it can fail.

* **Starter grant twice** (`wallet_starter`). `grant_starter_credits_if_needed`
  decides on a copy loaded without a lock. Two first requests both grant; the
  docstring says once. The token grant survives the same race because of its
  index, and `GrantFlagAgrees` shows that its flag is repaired. Only the race does
  it: `StarterOnceUnraced`, and `StarterRepeatsBounded` for how often.
* **Charged without an answer** (`question_charge`). Stripe captures before the
  commit; if the commit fails, the except block marks the row failed. Without such a
  fault the claim is a theorem, `ChargesAreDelivered`.
* **Free credits** (`question_free`). `consume_free_question` locks without
  `populate_existing`, so two starts cost one credit. With windows apart none is lost
  or made: `CreditsConserved`.
* **Refinement cap** (`question_refine`). The cap is read before the turn only.
  It is overrun by at most one for each further handler in its turn:
  `RefinementsOverrun`.
* **Lost messages** (`session_overlap`). Two overlapping turns of one session
  share one number: the later one's messages, or all but their tail, are skipped
  without an error, although the comment at the hook says that a persistence
  failure fails the turn loudly. Turns that never run at once lose nothing, in any
  number of processes: `DeliveredUnoverlapped`.
* **Invites never redeemed** (`invite_order`). `resolve_or_create_user` redeems an
  invite only when it inserts the user row. When Clerk's `user.created` is first,
  the starter credits are never issued and `redeemed_at` stays empty, although the
  webhook's comment leaves the redemption to the first sign-in. Where the webhook
  inserts no row every invite is honoured: `InvitesHonouredBySignIn`.

Met while modelling, and not the subject of a run of their own:

* `llm/tool_loop.py:336-340` gives the bound of a turn as the ceiling and one
  synthesis request. The breaker looks before a round, so the round that passes
  the ceiling and the synthesis both come on top: `TurnCostBounded` is proved with
  two requests, and one does not hold.
* A second override of an attribute drops `overridden_from`, the extracted value
  that `submissions_router.py:518-519` says is preserved.
* The overall status `incomplete` is unreachable: an input that a clause refers to
  and that is missing already makes that clause, and so the whole, uncertain
  (`StatusIsVerdict` in `RequestProofs`). A submission without attributes is
  `compliant`.
* The integrations route and the chat's tool evaluate a PDF submission without
  `human_confirmed`; units are not compared for a range.
* Of two overlapping evaluations the one flushed later is the latest decision, even if it
  read the attributes first; `MatrixTrue` is about a decision nothing overtook.
* `relink-datasets` can return a layer that a publication flagged to an older
  version outside the enabled scope (`linker.py:87-99`), which
  `relink_superseded_datasets` avoids on purpose.
* Two commands that link one layer at once can leave it on a document with a
  fragment of another version. `relink-datasets` loads it as (version 2, no
  fragment), an enable of version 1 commits (1, its fragment), the linker then
  finds the citation twice in version 3 and records (3, no fragment): the UPDATE
  sends only `linked_document_id`, as the fragment is what was loaded
  (`linker.py:278-279`), and the row is (3, fragment of 1). The docstring at
  `linker.py:136-139` says such a layer is "never left pinned to a
  now-out-of-retrieval-scope prior version". The model reaches these rows, so
  `LinksSound` asks of every row only that its document and fragment are stored
  and that the citation is single in the fragment's document, and of a command
  that no other commit came between that it writes no such mixture
  (a prune, which changes columns by the deletions alone, may leave one it found).
* The idle sweep closes a case with `last_activity_at` of now, so that it can be
  reopened for another thirty days.

## 5. Proofs

All for arbitrary constants under the named assumptions of the modules
(`WalletAssumption`, `PurchaseAssumption`, `MaxRoundsAssumption`,
`LoopAssumption`, `CorpusAssumption`, `CasesAssumption`, `QuotaAssumption`,
`SubmissionAssumption`, `AccountAssumption`), which type the constants; TLC
evaluates them in the runs. `ChatLog` and
`AnswerSale` need no assumption. Each proof follows the same path: the initial states
satisfy an invariant, every action keeps it (one step per action), and each
property follows from it.

* **`WalletProofs`**: `TypeCorrect`, `BalanceIsLedgerSum`, `SignupExactlyOnce`,
  `FlagFollowsLedger`, `TopupExactlyOnce`, `RefillsRationed`. The properties are
  about committed rows, and what is committed was decided earlier by a request
  that read then: so `IInv` says of every request what it loaded or staged
  relative to the ledger as it is now (`LoadedOK`, `Staged`), and `LockExclusive`
  that only one holds writes for a user, so that another's commit cannot
  invalidate them. The top-up of a checkout stays unique because its user's lock
  covers the index. For `OverdrawLimited` every request with
  no burn of the user outstanding (`Pending`) may have taken one burn off a balance
  above the floor, and no more: an admission happens above the floor, a burn makes
  its request one of those. It needs finitely many requests, an assumption. `Refinement` takes the mapped account
  through every action: a `Commit` is the entry it publishes, all else stutters.
  `StarterRepeatsBounded` counts, for a user, the grants committed and the requests
  that may still commit one (`Starters`): together no more than there are requests,
  and once the flag is committed none joins the second (`StarterInv`). `StarterOnceUnraced` is its case of one request.
* **`QuestionPurchaseProofs`**, by four invariants for four environments:
  * *any overlap and fault*: `TypeCorrect`, `CapturedImpliesCharged`,
    `EngineNeedsHold`. Handlers overwrite each other's rows, so the row cannot carry
    the argument; the hold can: it never returns to none and never leaves captured
    (`HoldsKept`), and `TaskOK` says what each open task must have obtained from it.
  * *one process* (`Overlap # "any"`), with every fault: `OneEngineRun`. Each open
    window relies on a status of its own, so no other task can write the row it
    relies on (`LoopInv`). `RefinementsAllCounted` adds `~Faults`.
  * *one process, no fault, no run that outlasts the rescue's cutoff*
    (`~SlowRuns`): `HoldsSettledDeployed`, `SettlementIsFinalDeployed`. This is the
    deployment when nothing goes wrong. A rescue and a job never meet over a
    purchase, and a rescue that overlaps with another repeats it (`DeployInv`). The
    free credits are not conserved here, as `question_free` shows.
  * *windows apart* (`Overlap = "none"`, no fault), slow runs included:
    `HoldsSettled`, `CreditsConserved`, `SettlementIsFinal`. The one open window
    finds at its commit what it read, the copy of the counter included
    (`SerialInv`). `SaleRefined` is the refinement of `AnswerSale` there: each step
    is sorted into a move of one card purchase, a write of one free one, or neither
    (`Moves`), and each sort is mapped once. The first sort needs no more than
    `DeployInv`, which gives `CardSaleRefined` in the deployment.
  * `ChargesAreDelivered` holds in the last two. `RefinementsOverrun` needs only one
    process and no faults: past the cap, what was served and what is in flight are
    bounded together (`CapInv`).
* **`SessionStoreProofs`**: `TypeCorrect`, `NoGap`, `WholeOrNothing`,
  `StoredStays`, every safety property of the store in `session_store`. Stored
  numbers are 0 .. n-1 and no process believes more than n-1 persisted, hence an
  insert the index accepts begins at n (`RowsContinue`). `LoadedPrefix` (a running
  turn holds the first rows of the table as they still are) makes what it inserts
  its own, and `LoneLoaded` makes it all of it when nobody overlapped. `LogRefined`
  is the refinement of `ChatLog`: an accepted insert appends the end of the turn's
  own messages (`StoredEndAppends`), and only a shared turn inserts nothing
  (`LoneInserts`). `DeliveredUnoverlapped` is conditional on `[]TurnsApart`, no two turns
  running at once: then all stay alone (`AloneStays`), and the bijection from
  messages to row numbers counts them equal (`AloneIsStored`).
* **`ToolLoopProofs`**: `TurnCost`, `BlocksPaired`, `LoopTypeCorrect`. The
  invariant says for each phase what the last breaker saw (below the ceiling when a
  request was sent, below it and one request more when the synthesis was) and how
  the conversation ends; compaction keeps ids, so the first `prefix` messages of the
  conversation and of the session pair alike and the splice is paired. That the
  estimate is a number is an induction over the messages (below).
* **`CorpusProofs`**: `CorpusTypeCorrect`, `LinksAlwaysSound`,
  `PublicationEffective`, `PruneSpares`. A link is written against rows that
  others may delete: its columns are those of a link chosen earlier, which the
  foreign key checks, or what the row holds. What the invariant carries to the
  commit is that both name stored documents (`PinsSound`), that no command has
  written a name another is deleting (`Apart`), and that a deleting one holds every
  row with such a name (`DoomedCut`). Of a command that is `alone` it says that the
  copies it loaded are what the rows still hold, so that a changed-column UPDATE is
  a whole one (`AloneSound`, `UpdatedSound`), and what of its effect is written
  (`PublishSound`); a prune's versions are all below one that stays, as a finite set
  of versions has a greatest (`Greatest`).
* **`AccountEventsProofs`**: `AccountTypeCorrect`, `PacksIssuedOnce`,
  `GrantsBounded`. The dedupe of repeated events can miss, so nothing rests on it: a
  request that staged a row for a Clerk id excludes every other staged one about it,
  and one that staged a purchase every other of its checkout and every profile
  request of its buyer, until the commit. The grants are counted against erasures,
  which are what lets a Clerk id have a second row. `InvitesHonouredBySignIn` is
  conditional on an action property of the environment, `[][~WebhookInserts]`, and
  says of every row that it was redeemed with its insert (`RowsRedeemed`).
* **`RequestProofs`**: `NumbersContiguous` of `Cases`: a staged number is at most one
  past the highest, so no commit leaves a gap; rows never go and numbers never
  change. `CallsPerMinute` of `RateQuota`: every step moves
  `calls + Cardinality(admitted)` by what it admits or releases; an admission
  happens while `calls < Limit` and with at most all servers but one admitted,
  so that the sum never passes the bound, and a limit of 0 admits nobody. The
  cardinalities need finite servers, an assumption.
  `MatrixAlwaysTrue` and `SubmissionTypeCorrect` of `Submission`: an open evaluation
  marked current has read what the submission holds; `StatusIsVerdict` is
  the pure half: the three-level aggregation equals one reading over all clauses.
  The clock's bound counts the evaluations that have begun and not decided.
* **`ComponentsProofs`**: `ComponentsBehave` (a behaviour of `MCComponents` is one of
  each of its seven components) and from it `ComponentTypesCorrect`.

**Inductions over data.** The library's induction theorems take an operator as a
parameter, which no installed prover can instantiate. `EstimatedNat` (the fold over
the messages is a number) and `Greatest` are proved by a smallest counterexample
instead: `WFMin` gives a minimal element of a set of counterexamples, under an
ordering the library proves well-founded.

**Model-checked only**: `RequestsFinish`, `GeneratingResolves`, `TurnReturns` and
`PaidSettles`: liveness under fairness and `ENABLED` are beyond the prover. And
`RefinementsCapped`, which the code violates; `RefinementsOverrun` bounds by how
much. Every other property of the runs is a theorem, the violated ones under the
conditions above. The reverse holds for `ImplementsLog`: it is proved
(`LogRefined`) and was model-checked while it was written, but no run repeats it,
because TLC needs close to five minutes to evaluate the mapping over the instance
of `session_store`. No module uses RECURSIVE.

## 6. Not modelled

In the modelled parts: formatting, input validation, the SSE stream, token counts
on message rows, the customer id at Stripe, the payments toggle, disabled slugs,
the refinement window's expiry, `user.updated`, a user's exemption changing during
a turn, `adjust_tokens` (no caller), previews and prompts of the operator's
commands, the extraction of attributes and constraints from files and text, the
constraint cache. The retry on `cost_ceiling` is part of the turn.

Whole parts, with reasons in `PROJECT.json`: retrieval, ranking and claim checking
(`layer2/retrieval`, `mcp/bylaw_retrieval`), parsing and enrichment of documents
(`layer1`), prompts, quotes, pricing and reports (`advisor/billing`), the
onboarding agents, the front end, the end-to-end test server, migrations,
scripts and evaluations. They are by far the larger part of the repository's lines and they
read, transform or print: no state that outlives a call, no second actor, no order
of events to get wrong, so a model of them would be a transliteration whose
properties restate the text. Of the code that does keep state, what is left out
is the dormant case-credit transitions, which no route reaches, single-statement
administration, terms acceptance and the monitor's counter.

## 7. Plan

Done: every stateful component named in section 1 that has more than one actor or
a bound to keep, a proof of every safety property the runs check, three
refinements, and for each violated claim the condition under which it holds. What
would come next:

* Compose `ToolLoop` with `Wallet` in one instance, the measured tokens of a turn as
  its burn, in place of the constant `MaxBurn`.
* The abstract sale for free questions in the deployment, once `consume_free_question`
  refreshes the copy it locks: today `question_free` refutes it.
