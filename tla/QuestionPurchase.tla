--------------------------- MODULE QuestionPurchase ---------------------------
(***************************************************************************)
(* Buying an answer (advisor/billing/answers.py, the question endpoints of *)
(* billing/router.py, the webhook of billing/webhooks.py, the free-question*)
(* counter of db/cases.py): a card hold or a free credit is reserved, the  *)
(* engine runs as an in-memory background job with no open transaction,    *)
(* and the result captures or releases what was reserved.                  *)
(*                                                                         *)
(* Every handler reads its purchase without a lock, decides, and writes    *)
(* the columns it changed at its commit.  A task is one such handler or    *)
(* job; its reading and its commit are separate steps.  All purchases are  *)
(* one user's.                                                             *)
(***************************************************************************)
EXTENDS Integers, FiniteSets

CONSTANTS
    Purchase, Task, NoPurchase,
    Paid,             \* purchases with a card hold; the others took a free credit
    FreeGrant,        \* FREE_QUESTION_GRANT
    MaxRefinements,   \* MAX_REFINEMENTS
    MaxServed,        \* bound on the refinements served of a purchase
    Overlap,    \* which read-to-commit windows may overlap, see Excluded
    Faults,     \* FALSE: no fault between a Stripe call and the commit after it
    SlowRuns    \* TRUE: a run may outlast STALE_GENERATING_AFTER

ASSUME PurchaseAssumption ==
    /\ NoPurchase \notin Purchase /\ Paid \subseteq Purchase
    /\ FreeGrant \in Nat /\ MaxRefinements \in Nat /\ MaxServed \in Nat
    /\ Overlap \in {"none", "loop", "any"} /\ Faults \in BOOLEAN /\ SlowRuns \in BOOLEAN

VARIABLES
    row,      \* committed advisor_question_purchase rows
    hold,     \* Stripe's PaymentIntent of each purchase
    free,     \* the user's committed free_questions_remaining
    task,     \* what each handler or job has read and decided
    served    \* refinements returned to the user (history)

vars == <<row, hold, free, task, served>>

-----------------------------------------------------------------------------
(* States.                                                                 *)

Settled == {"captured", "voided", "failed"}

Status == {"none", "authorizing", "authorized", "generating"} \cup Settled

Row == [status : Status, answered : BOOLEAN, count : Nat]

Hold == {"none", "held", "captured", "released"}

\* Handlers between their read and their commit.
Windows == {"authorize", "start", "post", "settle", "commit", "failing",
            "rescue", "rescued", "refined"}

\* Those of plain functions, which FastAPI runs in its thread pool.
Threaded == {"start", "rescue", "rescued"}

\* The job: dispatched, in its LLM turn, settling, or in its except block.
Job == {"queued", "turn", "settle", "commit", "failing"}

TaskState == [pc : {"idle", "refine"} \cup Windows \cup Job,
              p : Purchase \cup {NoPurchase}, outcome : Settled \cup {"none"},
              free : Nat, count : Nat]

Idle == [pc |-> "idle", p |-> NoPurchase, outcome |-> "none", free |-> 0, count |-> 0]

Init ==
    /\ row = [p \in Purchase |-> [status |-> "none", answered |-> FALSE, count |-> 0]]
    /\ hold = [p \in Purchase |-> "none"]
    /\ free = FreeGrant
    /\ task = [t \in Task |-> Idle]
    /\ served = [p \in Purchase |-> 0]

At(t, pc) == task[t].pc = pc

Of(t) == task[t].p

\* The windows that must be closed before one of kind pc opens.  "loop" is the
\* deployment: one process, whose event loop runs the async handlers and the jobs
\* and has no await between their read and their commit, while the handlers of
\* the thread pool overlap with everything.  "any" is several processes.
Excluded(pc) ==
    CASE Overlap = "none" -> Windows
      [] Overlap = "loop" -> IF pc \in Threaded THEN {} ELSE Windows \ Threaded
      [] Overlap = "any"  -> {}

MayOpen(t, pc) == \A s \in Task \ {t} : task[s].pc \notin Excluded(pc)

JobOf(p) == {t \in Task : task[t].pc \in Job /\ task[t].p = p}

-----------------------------------------------------------------------------
(* Steps every handler shares.                                             *)

\* The handler's session loads the purchase, and the user row with its counter.
Begin(t, p, pc, outcome) ==
    /\ At(t, "idle")
    /\ task' = [task EXCEPT ![t] = [pc |-> pc, p |-> p, outcome |-> outcome,
                                    free |-> free, count |-> row[p].count]]
    /\ UNCHANGED <<row, hold, free, served>>

Finish(t) == task' = [task EXCEPT ![t] = Idle]

Goto(t, pc) == task' = [task EXCEPT ![t].pc = pc]

\* The ORM writes the status it assigned, whatever the row holds by now.
SetStatus(p, status) == row' = [row EXCEPT ![p].status = status]

\* _run_generation_job's except block looks at the row in a new session.
Raised(t) ==
    IF row[Of(t)].status = "generating" THEN Goto(t, "failing") ELSE Finish(t)

\* The process restarts, or the handler's session breaks.
Die(t) ==
    /\ ~At(t, "idle")
    /\ Faults \/ task[t].pc \notin {"commit", "rescued"}
    /\ Finish(t)
    /\ UNCHANGED <<row, hold, free, served>>

-----------------------------------------------------------------------------
(* Reserving: checkout with a card hold, or a free credit.                 *)

\* start_question_checkout, start_other_checkout.
OpenCheckout(p) ==
    /\ p \in Paid /\ row[p].status = "none"
    /\ SetStatus(p, "authorizing")
    /\ UNCHANGED <<hold, free, task, served>>

\* The cardholder completes Stripe's page.
CompleteCheckout(p) ==
    /\ row[p].status = "authorizing" /\ hold[p] = "none"
    /\ hold' = [hold EXCEPT ![p] = "held"]
    /\ UNCHANGED <<row, free, task, served>>

\* checkout.session.completed, delivered any number of times; a delivery that
\* reads a later status changes nothing.
AuthorizeLoad(t, p) ==
    /\ hold[p] # "none" /\ row[p].status = "authorizing" /\ MayOpen(t, "authorize")
    /\ Begin(t, p, "authorize", "none")

Authorize(t) ==
    /\ At(t, "authorize")
    /\ SetStatus(Of(t), "authorized") /\ Finish(t)
    /\ UNCHANGED <<hold, free, served>>

StartLoad(t, p) ==
    /\ p \notin Paid /\ row[p].status = "none" /\ MayOpen(t, "start")
    /\ \A s \in Task : ~(At(s, "start") /\ Of(s) = p)
    /\ Begin(t, p, "start", "none")

\* Mutant: the counter is decremented without looking at it.
UncheckedStart(t) ==
    /\ At(t, "start")
    /\ free' = task[t].free - 1
    /\ SetStatus(Of(t), "authorized")
    /\ Finish(t) /\ UNCHANGED <<hold, served>>

\* consume_free_question locks the user row without refreshing the copy loaded
\* before: it decides on, and decrements, that copy.
StartFree(t) ==
    /\ At(t, "start")
    /\ IF task[t].free > 0
       THEN free' = task[t].free - 1 /\ SetStatus(Of(t), "authorized")
       ELSE UNCHANGED <<free, row>>
    /\ Finish(t) /\ UNCHANGED <<hold, served>>

-----------------------------------------------------------------------------
(* Running: the answer endpoint and its background job.                    *)

\* Mutant: a purchase whose card was never authorized is run too.
PostUnauthorized(t, p) ==
    /\ row[p].status \in {"authorizing", "authorized"} /\ MayOpen(t, "post")
    /\ Begin(t, p, "post", "none")

\* Any other status is returned as it is, or refused.
PostLoad(t, p) ==
    /\ row[p].status = "authorized" /\ MayOpen(t, "post")
    /\ Begin(t, p, "post", "none")

\* Mutant: the job is dispatched, but the row is left as it was.
PostUnmarked(t) ==
    /\ At(t, "post")
    /\ Goto(t, "turn")
    /\ UNCHANGED <<row, hold, free, served>>

PostRun(t) ==
    /\ At(t, "post")
    /\ SetStatus(Of(t), "generating") /\ Goto(t, "queued")
    /\ UNCHANGED <<hold, free, served>>

JobStart(t) ==
    /\ At(t, "queued")
    /\ IF row[Of(t)].status = "generating" THEN Goto(t, "turn") ELSE Finish(t)
    /\ UNCHANGED <<row, hold, free, served>>

\* Mutant: the result is settled without reading the row again.
UnreadTurnEnds(t, outcome) ==
    /\ At(t, "turn") /\ MayOpen(t, "settle")
    /\ task' = [task EXCEPT ![t].pc = "settle", ![t].outcome = outcome, ![t].free = free]
    /\ UNCHANGED <<row, hold, free, served>>

\* The turn (retried on cost_ceiling) was grounded, failed the question, or
\* raised.  The row is read again; when that read fails the old copy serves.
TurnEnds(t, outcome) ==
    /\ At(t, "turn") /\ MayOpen(t, "settle")
    /\ \/ row[Of(t)].status \in Settled /\ Finish(t)
       \/ /\ row[Of(t)].status \notin Settled \/ Faults
          /\ task' = [task EXCEPT ![t].pc = "settle", ![t].outcome = outcome,
                                  ![t].free = free]
    /\ UNCHANGED <<row, hold, free, served>>

-----------------------------------------------------------------------------
(* Settling.                                                               *)

\* Mutant: a hold Stripe refuses to capture is reported as captured.
BlindCapture(t) ==
    /\ At(t, "settle") /\ task[t].outcome = "captured" /\ Of(t) \in Paid
    /\ hold' = [hold EXCEPT ![Of(t)] = IF @ = "held" THEN "captured" ELSE @]
    /\ Goto(t, "commit")
    /\ UNCHANGED <<row, free, served>>

\* capture_payment_intent raises unless the hold is uncaptured; with faults the
\* call may also fail, before or after Stripe has acted on it.
Capture(t) ==
    /\ At(t, "settle") /\ task[t].outcome = "captured" /\ Of(t) \in Paid
    /\ \/ /\ hold[Of(t)] = "held" /\ hold' = [hold EXCEPT ![Of(t)] = "captured"]
          /\ Goto(t, "commit") \/ (Faults /\ Raised(t))
       \/ /\ hold[Of(t)] # "held" \/ Faults
          /\ UNCHANGED hold /\ Raised(t)
    /\ UNCHANGED <<row, free, served>>

\* Mutant: the hold is left to expire.
NoCancel(t) ==
    /\ Of(t) \in Paid
    /\ \/ At(t, "settle") /\ task[t].outcome # "captured" /\ Goto(t, "commit")
       \/ At(t, "rescue") /\ Goto(t, "rescued")
    /\ UNCHANGED <<row, hold, free, served>>

\* _void on a card hold: an error of the cancel call is logged and swallowed.
Cancel(t) ==
    /\ Of(t) \in Paid
    /\ \/ At(t, "settle") /\ task[t].outcome # "captured" /\ Goto(t, "commit")
       \/ At(t, "rescue") /\ Goto(t, "rescued")
    /\ \/ hold[Of(t)] = "held" /\ hold' = [hold EXCEPT ![Of(t)] = "released"]
       \/ (hold[Of(t)] # "held" \/ Faults) /\ UNCHANGED hold
    /\ UNCHANGED <<row, free, served>>

Settle(p, outcome) ==
    row' = [row EXCEPT ![p].status = outcome,
                       ![p].answered = @ \/ outcome = "captured"]

Commit(t) ==
    /\ task[t].pc \in {"commit", "rescued"}
    /\ Settle(Of(t), task[t].outcome) /\ Finish(t)
    /\ UNCHANGED <<hold, free, served>>

\* Mutant: a failed question keeps the free credit.
SettleFreeUnrefunded(t) ==
    /\ task[t].pc \in {"settle", "rescue"} /\ Of(t) \notin Paid
    /\ Settle(Of(t), task[t].outcome) /\ Finish(t)
    /\ UNCHANGED <<hold, free, served>>

\* A free credit is confirmed, or handed back: refund_free_question increments
\* the copy of the counter loaded before its lock, in the same transaction.
SettleFree(t) ==
    /\ task[t].pc \in {"settle", "rescue"} /\ Of(t) \notin Paid
    /\ Settle(Of(t), task[t].outcome) /\ Finish(t)
    /\ free' = IF task[t].outcome = "captured" THEN free ELSE task[t].free + 1
    /\ UNCHANGED <<hold, served>>

\* A commit that fails: the job's except block takes over, a read just fails.
CommitFails(t) ==
    /\ Faults
    /\ \/ At(t, "commit") /\ Raised(t)
       \/ At(t, "settle") /\ Of(t) \notin Paid /\ Raised(t)
    /\ UNCHANGED <<row, hold, free, served>>

\* The except block marks the row; it neither cancels nor refunds.
Fail(t) ==
    /\ At(t, "failing")
    /\ SetStatus(Of(t), "failed") /\ Finish(t)
    /\ UNCHANGED <<hold, free, served>>

\* Mutant: a poll never rescues.
NoRescue(t, p) == FALSE

\* GET or POST finds a generating row older than the cutoff.
RescueLoad(t, p) ==
    /\ row[p].status = "generating" /\ MayOpen(t, "rescue")
    /\ SlowRuns \/ JobOf(p) = {}
    /\ Begin(t, p, "rescue", "failed")

-----------------------------------------------------------------------------
(* Refining a delivered answer.                                            *)

\* The cap is read before the turn, and not again.
RefineLoad(t, p) ==
    /\ row[p].status = "captured" /\ row[p].count < MaxRefinements
    /\ served[p] < MaxServed
    /\ Begin(t, p, "refine", "none")

\* Mutant: the count read before the turn is incremented.
StaleRefineEnds(t) ==
    /\ At(t, "refine") /\ MayOpen(t, "refined")
    /\ Goto(t, "refined")
    /\ UNCHANGED <<row, hold, free, served>>

\* The row is read again, so that the committed count is incremented.
RefineEnds(t) ==
    /\ At(t, "refine") /\ MayOpen(t, "refined")
    /\ \E count \in {row[Of(t)].count} \cup (IF Faults THEN {task[t].count} ELSE {}) :
        task' = [task EXCEPT ![t].pc = "refined", ![t].count = count]
    /\ UNCHANGED <<row, hold, free, served>>

RefineCommit(t) ==
    /\ At(t, "refined")
    /\ row' = [row EXCEPT ![Of(t)].count = task[t].count + 1]
    /\ served' = [served EXCEPT ![Of(t)] = @ + 1]
    /\ Finish(t) /\ UNCHANGED <<hold, free>>

-----------------------------------------------------------------------------

JobStep(t) ==
    \/ PostRun(t) \/ JobStart(t) \/ (\E outcome \in Settled : TurnEnds(t, outcome))
    \/ CommitFails(t) \/ Fail(t)

Settling(t) == Capture(t) \/ Cancel(t) \/ Commit(t) \/ SettleFree(t)

OtherStep(t) ==
    Authorize(t) \/ StartFree(t) \/ RefineEnds(t) \/ RefineCommit(t)

Next ==
    \/ \E p \in Purchase : OpenCheckout(p) \/ CompleteCheckout(p)
    \/ \E t \in Task :
        \/ JobStep(t) \/ Settling(t) \/ OtherStep(t) \/ Die(t)
        \/ \E p \in Purchase :
            \/ AuthorizeLoad(t, p) \/ StartLoad(t, p) \/ PostLoad(t, p)
            \/ RescueLoad(t, p) \/ RefineLoad(t, p)

Spec == Init /\ [][Next]_vars

\* Handlers and turns end, the client keeps polling, and restarts do not hit
\* every settlement.
FairSpec ==
    /\ Spec
    /\ \A t \in Task :
        WF_vars(JobStep(t)) /\ WF_vars(OtherStep(t)) /\ SF_vars(Settling(t))
    /\ \A p \in Purchase : SF_vars(\E t \in Task : RescueLoad(t, p))

-----------------------------------------------------------------------------
(* Properties.                                                             *)

\* Every variable keeps its shape; in particular the free counter, written from
\* stale copies, never goes below zero.
TypeOK ==
    /\ row \in [Purchase -> Row]
    /\ hold \in [Purchase -> Hold]
    /\ free \in Nat
    /\ task \in [Task -> TaskState]
    /\ served \in [Purchase -> Nat]

\* Whatever jobs, rescues, webhooks and except blocks write over each other, a
\* purchase that says captured has its answer, and its card was really charged.
CapturedRowIsCharged ==
    \A p \in Purchase : row[p].status = "captured" =>
        row[p].answered /\ (p \in Paid => hold[p] = "captured")

\* The engine never works for a purchase nothing was reserved for.
RunsOnlyOnHold ==
    \A p \in Paid : hold[p] = "none" =>
        row[p].status \in {"none", "authorizing"} /\ JobOf(p) = {}

\* No refinement served goes uncounted, though several turns overlap.
RefinementsCounted == \A p \in Purchase : row[p].count = served[p]

\* A generating row does not stay so: its job settles it, or a poll rescues it.
GeneratingResolves ==
    \A p \in Purchase : row[p].status = "generating" ~> row[p].status # "generating"

\* A failed question is never paid for, and its hold never kept.
SettledMatchesHold ==
    \A p \in Paid : row[p].status \in {"voided", "failed"} => hold[p] = "released"

\* Each free credit is in the counter, reserved by an open purchase, or spent on
\* a delivered answer.
FreeCreditsConserved ==
    free + Cardinality({p \in Purchase \ Paid :
                          row[p].status \in {"authorized", "generating", "captured"}})
        = FreeGrant

\* A settled purchase is not settled again, also when a rescue overtook the job
\* that still runs.
SettledIsFinal ==
    [][\A p \in Purchase : row[p].status \in Settled => row'[p].status = row[p].status]_vars

\* What a status says of the sale.
Stage(status) ==
    CASE status \in {"none", "authorizing"} -> "open"
      [] status \in {"authorized", "generating"} -> "reserved"
      [] status = "captured" -> "delivered"
      [] status \in {"voided", "failed"} -> "released"

Stages == [p \in Purchase |-> Stage(row[p].status)]

Sale == INSTANCE AnswerSale WITH
    Card <- Paid, Grant <- FreeGrant, state <- Stages, funds <- hold, credits <- free

\* Handlers, jobs and rescues that do not overlap sell answers: reserved once and
\* settled once, for what was reserved or with all of it given back, also when a
\* rescue overtook the job that still runs.
ImplementsSale == Sale!Spec

\* A repeated POST never fires a second engine run.
SingleEngineRun == \A p \in Purchase : Cardinality(JobOf(p)) <= 1

\* The customer is charged only when an answer is delivered.
ChargedOnlyIfDelivered ==
    \A p \in Paid : hold[p] = "captured" => row[p].status \notin {"voided", "failed"}

\* A purchase includes at most MAX_REFINEMENTS follow-ups.
RefinementsCapped == \A p \in Purchase : served[p] <= MaxRefinements

=============================================================================
