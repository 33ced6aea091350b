----------------------- MODULE QuestionPurchaseProofs -----------------------
(***************************************************************************)
(* What QuestionPurchase guarantees for any purchases, handlers and jobs,  *)
(* along six arguments.                                                    *)
(*                                                                         *)
(* Under every race and every fault: the shape of its state, that a        *)
(* captured purchase is answered and charged, and that nothing runs        *)
(* without a reservation.  The unlocked handlers overwrite each other's    *)
(* rows, so the argument cannot rest on the row: it rests on Stripe's      *)
(* hold, which never goes back to none and never leaves captured, and on   *)
(* what each open task must have obtained from it (TaskOK).                *)
(*                                                                         *)
(* In one server process (Overlap # "any"): handlers interleave at their   *)
(* awaits only, so that an engine run has one job and, without faults, no  *)
(* refinement is lost (LoopInv, CountInv).                                 *)
(*                                                                         *)
(* When no two handlers of a purchase overlap and nothing fails: the row   *)
(* can be trusted, the hold and the free credits follow it, and a settled  *)
(* row is final (SerialInv).                                               *)
(*                                                                         *)
(* In one process, without faults and slow runs: the hold follows the row, *)
(* and a settled row is final, though rescues overlap with everything      *)
(* (DeployInv).                                                            *)
(*                                                                         *)
(* In the last two settings the handlers implement AnswerSale: every step  *)
(* is one move of a sale or none (Moves).                                  *)
(*                                                                         *)
(* And the cap on refinements, which can be overrun, can be overrun only   *)
(* by the turns that were admitted before it was reached (CapInv).         *)
(***************************************************************************)
EXTENDS QuestionPurchase, FiniteSetTheorems, TLAPS

Deciding == {"settle", "commit", "rescue", "rescued"}

\* What an open handler or job knows, and what it may rely on at its commit.
TaskOK(t) ==
    /\ task[t].pc # "idle" => task[t].p \in Purchase
    /\ task[t].pc # "idle" /\ task[t].p \in Paid => hold[task[t].p] # "none"
    /\ task[t].pc \in Deciding => task[t].outcome \in Settled
    /\ task[t].pc \in {"rescue", "rescued"} => task[t].outcome = "failed"
    /\ task[t].pc = "commit" /\ task[t].outcome = "captured" /\ task[t].p \in Paid
        => hold[task[t].p] = "captured"

\* A card purchase moves past authorizing only when its hold exists.
ReservedFirst ==
    \A p \in Paid : hold[p] = "none" => row[p].status \in {"none", "authorizing"}

IInv ==
    /\ TypeOK
    /\ \A t \in Task : TaskOK(t)
    /\ CapturedRowIsCharged
    /\ ReservedFirst

\* What a step may do to the holds: one that exists is not forgotten, and one
\* that was captured stays captured.
HoldsKept ==
    \A p \in Purchase :
        /\ hold[p] # "none" => hold'[p] # "none"
        /\ hold[p] = "captured" => hold'[p] = "captured"

-----------------------------------------------------------------------------
(* Lemmas: what the shared steps preserve.                                 *)

\* A step of one task leaves every other open task what it relied on.
LEMMA OneTask ==
    ASSUME IInv, HoldsKept, NEW t \in Task, TaskOK(t)',
           \A s \in Task \ {t} : task'[s] = task[s]
    PROVE  \A s \in Task : TaskOK(s)'
<1> SUFFICES ASSUME NEW s \in Task, s # t PROVE TaskOK(s)'
  OBVIOUS
<1>1. task'[s] = task[s] /\ TaskOK(s)
  BY DEF IInv
<1>2. Paid \subseteq Purchase
  BY PurchaseAssumption
<1> QED BY <1>1, <1>2 DEF TaskOK, HoldsKept

\* A step that writes no row keeps what the rows promise.
LEMMA SameRows ==
    ASSUME IInv, HoldsKept, row' = row
    PROVE  CapturedRowIsCharged' /\ ReservedFirst'
<1>1. Paid \subseteq Purchase
  BY PurchaseAssumption
<1> QED BY <1>1 DEF IInv, HoldsKept, CapturedRowIsCharged, ReservedFirst

\* A status written blindly keeps what the rows promise, unless it is captured.
LEMMA StatusWritten ==
    ASSUME IInv, hold' = hold, NEW p \in Purchase, NEW s \in Status \ {"captured"},
           SetStatus(p, s), s = "authorizing" \/ (p \in Paid => hold[p] # "none")
    PROVE  row' \in [Purchase -> Row] /\ CapturedRowIsCharged' /\ ReservedFirst'
<1>1. row \in [Purchase -> Row] /\ Paid \subseteq Purchase
  BY PurchaseAssumption DEF IInv, TypeOK
<1>2. row' = [row EXCEPT ![p] = [row[p] EXCEPT !.status = s]]
  BY <1>1 DEF SetStatus
<1>3. row'[p].status = s /\ row' \in [Purchase -> Row]
  BY <1>1, <1>2 DEF Row
<1>4. \A q \in Purchase : q # p => row'[q] = row[q]
  BY <1>1, <1>2
<1>5. CapturedRowIsCharged'
  BY <1>3, <1>4 DEF IInv, CapturedRowIsCharged
<1>6. ReservedFirst'
  BY <1>1, <1>3, <1>4 DEF IInv, ReservedFirst
<1> QED BY <1>3, <1>5, <1>6

\* A settlement keeps what the rows promise when a captured outcome was charged.
LEMMA RowSettled ==
    ASSUME IInv, hold' = hold, NEW p \in Purchase, NEW outcome \in Settled,
           Settle(p, outcome), p \in Paid => hold[p] # "none",
           p \in Paid /\ outcome = "captured" => hold[p] = "captured"
    PROVE  row' \in [Purchase -> Row] /\ CapturedRowIsCharged' /\ ReservedFirst'
<1>1. row \in [Purchase -> Row] /\ Paid \subseteq Purchase
  BY PurchaseAssumption DEF IInv, TypeOK
<1>2. row' = [row EXCEPT ![p] = [row[p] EXCEPT !.status = outcome,
                !.answered = row[p].answered \/ outcome = "captured"]]
  BY <1>1 DEF Settle
<1>3. row[p] \in Row /\ outcome \in Status
  BY <1>1 DEF Status
<1>4. /\ row'[p] = [status |-> outcome, count |-> row[p].count,
                    answered |-> row[p].answered \/ outcome = "captured"]
      /\ row' \in [Purchase -> Row]
  BY <1>1, <1>2, <1>3 DEF Row
<1>5. \A q \in Purchase : q # p => row'[q] = row[q]
  BY <1>1, <1>2
<1>6. row'[p].status = outcome /\ (outcome = "captured" => row'[p].answered)
  <2>1. row'[p].status = outcome
    BY <1>4
  <2>2. row'[p].answered = (row[p].answered \/ outcome = "captured")
    BY <1>4
  <2> QED BY <2>1, <2>2, Zenon
<1>7. CapturedRowIsCharged'
  <2> SUFFICES ASSUME NEW q \in Purchase, row'[q].status = "captured"
               PROVE  row'[q].answered /\ (q \in Paid => hold'[q] = "captured")
    BY DEF CapturedRowIsCharged
  <2>1. CASE q = p
    BY <1>6, <2>1
  <2>2. CASE q # p
    BY <1>5, <2>2 DEF IInv, CapturedRowIsCharged
  <2> QED BY <2>1, <2>2
<1>8. ReservedFirst'
  BY <1>1, <1>5, <1>6 DEF IInv, ReservedFirst
<1> QED BY <1>4, <1>7, <1>8

\* A task that returns is idle, and relies on nothing.
LEMMA Finished ==
    ASSUME IInv, NEW t \in Task, Finish(t)
    PROVE  /\ task' \in [Task -> TaskState] /\ TaskOK(t)'
           /\ \A s \in Task \ {t} : task'[s] = task[s]
<1>1. task \in [Task -> TaskState]
  BY DEF IInv, TypeOK
<1>2. Idle \in TaskState
  BY DEF Idle, TaskState
<1>3. task' = [task EXCEPT ![t] = Idle]
  BY DEF Finish
<1>4. /\ task' \in [Task -> TaskState] /\ task'[t] = Idle
      /\ \A s \in Task \ {t} : task'[s] = task[s]
  BY <1>1, <1>2, <1>3
<1>5. TaskOK(t)'
  BY <1>4 DEF TaskOK, Deciding, Idle
<1> QED BY <1>4, <1>5

\* A handler that loads its purchase relies on the hold it was guarded by.
LEMMA Begun ==
    ASSUME IInv, NEW t \in Task, NEW p \in Purchase, NEW pc \in Windows \cup {"refine"},
           NEW outcome \in Settled \cup {"none"}, Begin(t, p, pc, outcome),
           p \in Paid => hold[p] # "none",
           pc \notin Deciding \/ (pc = "rescue" /\ outcome = "failed")
    PROVE  IInv'
<1>1. task \in [Task -> TaskState] /\ row \in [Purchase -> Row] /\ free \in Nat
  BY DEF IInv, TypeOK
<1>2. HoldsKept /\ row' = row /\ hold' = hold /\ free' = free /\ served' = served
  BY DEF Begin, HoldsKept
<1> DEFINE new == [pc |-> pc, p |-> p, outcome |-> outcome,
                   free |-> free, count |-> row[p].count]
<1>3. task' = [task EXCEPT ![t] = new]
  BY DEF Begin
<1>4. new \in TaskState
  BY <1>1 DEF TaskState, Row
<1>5. task'[t] = new /\ task' \in [Task -> TaskState]
  BY <1>1, <1>3, <1>4
<1>6. TaskOK(t)'
  BY <1>2, <1>5 DEF TaskOK, Deciding, Settled
<1>7. \A s \in Task \ {t} : task'[s] = task[s]
  BY <1>1, <1>3
<1>8. \A s \in Task : TaskOK(s)'
  BY <1>2, <1>6, <1>7, OneTask
<1>9. TypeOK'
  BY <1>2, <1>5 DEF IInv, TypeOK
<1> QED BY <1>2, <1>8, <1>9, SameRows DEF IInv

\* A task that moves on keeps its purchase and its outcome.
LEMMA Moved ==
    ASSUME IInv, HoldsKept, NEW t \in Task, ~At(t, "idle"),
           NEW pc \in Windows \cup Job, Goto(t, pc),
           pc \in Deciding => task[t].outcome \in Settled,
           pc \in {"rescue", "rescued"} => task[t].outcome = "failed",
           pc = "commit" /\ task[t].outcome = "captured" /\ Of(t) \in Paid
               => hold'[Of(t)] = "captured"
    PROVE  /\ task' \in [Task -> TaskState] /\ TaskOK(t)'
           /\ \A s \in Task \ {t} : task'[s] = task[s]
<1>1. task \in [Task -> TaskState] /\ TaskOK(t)
  BY DEF IInv, TypeOK
<1>2. task' = [task EXCEPT ![t] = [task[t] EXCEPT !.pc = pc]]
  BY <1>1 DEF Goto
<1>3. task[t] \in TaskState
  BY <1>1
<1>4. [task[t] EXCEPT !.pc = pc] \in TaskState
  BY <1>3 DEF TaskState
<1>5. task' \in [Task -> TaskState] /\ \A s \in Task \ {t} : task'[s] = task[s]
  BY <1>1, <1>2, <1>4
<1>6. task'[t].pc = pc /\ task'[t].p = task[t].p /\ task'[t].outcome = task[t].outcome
  BY <1>1, <1>2, <1>3 DEF TaskState
<1>7. task[t].pc # "idle" /\ task[t].p \in Purchase
  BY <1>1 DEF At, TaskOK
<1>8. TaskOK(t)'
  BY <1>1, <1>6, <1>7 DEF TaskOK, HoldsKept, Of
<1> QED BY <1>5, <1>8

\* An exception in the job leads to its except block, or ends it.
LEMMA RaisedOK ==
    ASSUME IInv, HoldsKept, NEW t \in Task, ~At(t, "idle"), Raised(t)
    PROVE  /\ task' \in [Task -> TaskState] /\ TaskOK(t)'
           /\ \A s \in Task \ {t} : task'[s] = task[s]
<1>1. CASE Goto(t, "failing")
  <2>1. "failing" \in Windows \cup Job /\ "failing" \notin Deciding
    BY DEF Windows, Job, Deciding
  <2> QED BY <1>1, <2>1, Moved
<1>2. CASE Finish(t)
  BY <1>2, Finished
<1> QED BY <1>1, <1>2 DEF Raised

\* The frame every step of one task is proved in: what is left to show of it is
\* the task, the rows and the types it changed.
LEMMA TaskStep ==
    ASSUME IInv, HoldsKept, NEW t \in Task,
           task' \in [Task -> TaskState], TaskOK(t)',
           \A s \in Task \ {t} : task'[s] = task[s],
           row' \in [Purchase -> Row], CapturedRowIsCharged', ReservedFirst',
           hold' \in [Purchase -> Hold], free' \in Nat,
           served' \in [Purchase -> Nat]
    PROVE  IInv'
<1>1. \A s \in Task : TaskOK(s)'
  BY OneTask
<1> QED BY <1>1 DEF IInv, TypeOK

-----------------------------------------------------------------------------
(* The steps, grouped as in Next.                                          *)

LEMMA Types ==
    ASSUME IInv
    PROVE  /\ row \in [Purchase -> Row] /\ hold \in [Purchase -> Hold]
           /\ free \in Nat /\ task \in [Task -> TaskState]
           /\ served \in [Purchase -> Nat] /\ Paid \subseteq Purchase
BY PurchaseAssumption DEF IInv, TypeOK

\* The steps that write no hold.
LEMMA HoldUnchanged ==
    ASSUME hold' = hold
    PROVE  HoldsKept
BY DEF HoldsKept

\* The cardholder's side of a checkout.
LEMMA CheckoutStep ==
    ASSUME IInv, NEW p \in Purchase, OpenCheckout(p) \/ CompleteCheckout(p)
    PROVE  IInv'
<1>1. CASE OpenCheckout(p)
  <2>1. HoldsKept /\ hold' = hold /\ task' = task /\ free' = free /\ served' = served
    BY <1>1, HoldUnchanged DEF OpenCheckout
  <2>2. row' \in [Purchase -> Row] /\ CapturedRowIsCharged' /\ ReservedFirst'
    <3>1. "authorizing" \in Status \ {"captured"} /\ SetStatus(p, "authorizing")
      BY <1>1 DEF OpenCheckout, Status
    <3> QED BY <2>1, <3>1, StatusWritten
  <2>3. \A t \in Task : TaskOK(t)'
    BY <2>1 DEF IInv, TaskOK
  <2>4. TypeOK'
    BY <2>1, <2>2 DEF IInv, TypeOK
  <2> QED BY <2>2, <2>3, <2>4 DEF IInv
<1>2. CASE CompleteCheckout(p)
  <2>1. /\ hold' = [hold EXCEPT ![p] = "held"] /\ hold[p] = "none"
        /\ row' = row /\ task' = task /\ free' = free /\ served' = served
    BY <1>2 DEF CompleteCheckout
  <2>2. HoldsKept /\ hold' \in [Purchase -> Hold]
    BY <2>1, Types DEF HoldsKept, Hold
  <2>3. CapturedRowIsCharged' /\ ReservedFirst'
    BY <2>1, <2>2, SameRows
  <2>4. \A t \in Task : TaskOK(t)'
    BY <2>1, <2>2, Types DEF IInv, TaskOK, HoldsKept
  <2>5. TypeOK'
    BY <2>1, <2>2 DEF IInv, TypeOK
  <2> QED BY <2>3, <2>4, <2>5 DEF IInv
<1> QED BY <1>1, <1>2

\* A handler begins: its guard on the row implies the hold it will rely on.
LEMMA LoadStep ==
    ASSUME IInv, NEW t \in Task, NEW p \in Purchase,
           \/ AuthorizeLoad(t, p) \/ StartLoad(t, p) \/ PostLoad(t, p)
           \/ RescueLoad(t, p) \/ RefineLoad(t, p)
    PROVE  IInv'
<1>1. p \in Paid /\ row[p].status \notin {"none", "authorizing"} => hold[p] # "none"
  BY DEF IInv, ReservedFirst
<1>2. CASE AuthorizeLoad(t, p)
  BY <1>2, Begun DEF AuthorizeLoad, Windows, Deciding
<1>3. CASE StartLoad(t, p)
  BY <1>3, Begun DEF StartLoad, Windows, Deciding
<1>4. CASE PostLoad(t, p)
  BY <1>1, <1>4, Begun DEF PostLoad, Windows, Deciding
<1>5. CASE RescueLoad(t, p)
  BY <1>1, <1>5, Begun DEF RescueLoad, Windows, Settled
<1>6. CASE RefineLoad(t, p)
  BY <1>1, <1>6, Begun DEF RefineLoad, Deciding
<1> QED BY <1>2, <1>3, <1>4, <1>5, <1>6

\* The webhook, the free start and the refinement write their row and return.
LEMMA OtherStepInv ==
    ASSUME IInv, NEW t \in Task, OtherStep(t)
    PROVE  IInv'
<1>1. Of(t) = task[t].p /\ task[t] \in TaskState /\ TaskOK(t)
  BY Types DEF Of, IInv
<1>2. CASE Authorize(t)
  <2>1. HoldsKept /\ hold' = hold /\ free' = free /\ served' = served
    BY <1>2, HoldUnchanged DEF Authorize
  <2>2. Of(t) \in Purchase /\ (Of(t) \in Paid => hold[Of(t)] # "none")
    BY <1>1, <1>2 DEF Authorize, TaskOK, At
  <2>3. "authorized" \in Status \ {"captured"} /\ SetStatus(Of(t), "authorized")
    BY <1>2 DEF Authorize, Status
  <2>4. row' \in [Purchase -> Row] /\ CapturedRowIsCharged' /\ ReservedFirst'
    BY <2>1, <2>2, <2>3, StatusWritten
  <2>5. Finish(t)
    BY <1>2 DEF Authorize
  <2> QED BY <2>1, <2>4, <2>5, Finished, TaskStep, Types
<1>3. CASE StartFree(t)
  <2>1. HoldsKept /\ hold' = hold /\ served' = served /\ Finish(t)
    BY <1>3, HoldUnchanged DEF StartFree
  <2>2. Of(t) \in Purchase /\ (Of(t) \in Paid => hold[Of(t)] # "none")
    BY <1>1, <1>3 DEF StartFree, TaskOK, At
  <2>3. CASE task[t].free > 0
    <3>1. free' = task[t].free - 1 /\ SetStatus(Of(t), "authorized")
      BY <1>3, <2>3 DEF StartFree
    <3>2. free' \in Nat
      BY <1>1, <2>3, <3>1 DEF TaskState
    <3>3. "authorized" \in Status \ {"captured"}
      BY DEF Status
    <3>4. row' \in [Purchase -> Row] /\ CapturedRowIsCharged' /\ ReservedFirst'
      BY <2>1, <2>2, <3>1, <3>3, StatusWritten
    <3> QED BY <2>1, <3>2, <3>4, Finished, TaskStep, Types
  <2>4. CASE ~(task[t].free > 0)
    <3>1. row' = row /\ free' = free
      BY <1>3, <2>4 DEF StartFree
    <3> QED BY <2>1, <3>1, SameRows, Finished, TaskStep, Types
  <2> QED BY <2>3, <2>4
<1>4. CASE RefineEnds(t)
  <2>1. /\ HoldsKept /\ row' = row /\ hold' = hold /\ free' = free /\ served' = served
        /\ task[t].pc = "refine"
    BY <1>4, HoldUnchanged DEF RefineEnds, At
  <2>2. PICK count \in {row[Of(t)].count, task[t].count} :
            task' = [task EXCEPT ![t] = [task[t] EXCEPT !.pc = "refined", !.count = count]]
    BY <1>4, Types DEF RefineEnds
  <2>3. count \in Nat
    BY <1>1, <2>1, Types DEF TaskOK, TaskState, Row
  <2>4. [task[t] EXCEPT !.pc = "refined", !.count = count] \in TaskState
    BY <1>1, <2>3 DEF TaskState, Windows
  <2>5. /\ task' \in [Task -> TaskState] /\ \A s \in Task \ {t} : task'[s] = task[s]
        /\ task'[t] = [task[t] EXCEPT !.pc = "refined", !.count = count]
    BY <2>2, <2>4, Types
  <2>6. task'[t].pc = "refined" /\ task'[t].p = task[t].p
    BY <1>1, <2>5 DEF TaskState
  <2>7. TaskOK(t)'
    BY <1>1, <2>1, <2>6 DEF TaskOK, Deciding
  <2> QED BY <2>1, <2>5, <2>7, SameRows, TaskStep, Types
<1>5. CASE RefineCommit(t)
  <2>1. /\ HoldsKept /\ hold' = hold /\ free' = free /\ Finish(t)
        /\ task[t].pc = "refined"
    BY <1>5, HoldUnchanged DEF RefineCommit, At
  <2>2. Of(t) \in Purchase /\ task[t].count + 1 \in Nat
    BY <1>1, <2>1 DEF TaskOK, TaskState
  <2>3. row' = [row EXCEPT ![Of(t)] = [row[Of(t)] EXCEPT !.count = task[t].count + 1]]
    BY <1>5, <2>2, Types DEF RefineCommit
  <2>4. row' \in [Purchase -> Row]
    BY <2>2, <2>3, Types DEF Row
  <2>5. \A q \in Purchase : row'[q].status = row[q].status /\ row'[q].answered = row[q].answered
    BY <2>2, <2>3, Types DEF Row
  <2>6. CapturedRowIsCharged' /\ ReservedFirst'
    BY <2>1, <2>5, Types DEF IInv, CapturedRowIsCharged, ReservedFirst
  <2>7. served' \in [Purchase -> Nat]
    BY <1>5, <2>2, Types DEF RefineCommit
  <2> QED BY <2>1, <2>4, <2>6, <2>7, Finished, TaskStep, Types
<1> QED BY <1>2, <1>3, <1>4, <1>5 DEF OtherStep

\* The steps of a task that write neither rows, holds nor the counter.
LEMMA OnlyTask ==
    ASSUME IInv, NEW t \in Task, UNCHANGED <<row, hold, free, served>>,
           task' \in [Task -> TaskState], TaskOK(t)',
           \A s \in Task \ {t} : task'[s] = task[s]
    PROVE  IInv'
BY HoldUnchanged, SameRows, TaskStep, Types

\* The job is dispatched, started, answered, or falls into its except block.
LEMMA JobStepInv ==
    ASSUME IInv, NEW t \in Task, JobStep(t)
    PROVE  IInv'
<1>1. Of(t) = task[t].p /\ task[t] \in TaskState /\ TaskOK(t)
  BY Types DEF Of, IInv
<1>2. CASE PostRun(t)
  <2>1. /\ HoldsKept /\ hold' = hold /\ free' = free /\ served' = served
        /\ ~At(t, "idle") /\ Goto(t, "queued") /\ SetStatus(Of(t), "generating")
    BY <1>2, HoldUnchanged DEF PostRun, At
  <2>2. Of(t) \in Purchase /\ (Of(t) \in Paid => hold[Of(t)] # "none")
    BY <1>1, <2>1 DEF TaskOK, At
  <2>3. "generating" \in Status \ {"captured"}
    BY DEF Status
  <2>4. row' \in [Purchase -> Row] /\ CapturedRowIsCharged' /\ ReservedFirst'
    BY <2>1, <2>2, <2>3, StatusWritten
  <2>5. "queued" \in Windows \cup Job /\ "queued" \notin Deciding
    BY DEF Job, Deciding
  <2>6. /\ task' \in [Task -> TaskState] /\ TaskOK(t)'
        /\ \A s \in Task \ {t} : task'[s] = task[s]
    BY <2>1, <2>5, Moved
  <2> QED BY <2>1, <2>4, <2>6, TaskStep, Types
<1>3. CASE JobStart(t)
  <2>1. UNCHANGED <<row, hold, free, served>> /\ HoldsKept /\ ~At(t, "idle")
    BY <1>3, HoldUnchanged DEF JobStart, At
  <2>2. "turn" \in Windows \cup Job /\ "turn" \notin Deciding
    BY DEF Job, Deciding
  <2>3. Goto(t, "turn") \/ Finish(t)
    BY <1>3 DEF JobStart
  <2> QED BY <2>1, <2>2, <2>3, Moved, Finished, OnlyTask
<1>4. CASE \E outcome \in Settled : TurnEnds(t, outcome)
  <2>1. PICK outcome \in Settled : TurnEnds(t, outcome)
    BY <1>4
  <2>2. UNCHANGED <<row, hold, free, served>> /\ task[t].pc = "turn"
    BY <2>1 DEF TurnEnds, At
  <2>3. CASE Finish(t)
    BY <2>2, <2>3, Finished, OnlyTask
  <2>4. CASE task' = [task EXCEPT ![t].pc = "settle", ![t].outcome = outcome, ![t].free = free]
    <3> DEFINE new == [task[t] EXCEPT !.pc = "settle", !.outcome = outcome, !.free = free]
    <3>1. task' = [task EXCEPT ![t] = new]
      BY <2>4, Types
    <3>2. new \in TaskState
      BY <1>1, Types DEF TaskState, Windows
    <3>3. new.pc = "settle" /\ new.p = task[t].p /\ new.outcome = outcome
      BY <1>1 DEF TaskState
    <3>4. /\ task' \in [Task -> TaskState] /\ task'[t] = new
          /\ \A s \in Task \ {t} : task'[s] = task[s]
      BY <3>1, <3>2, Types
    <3>5. TaskOK(t)'
      BY <1>1, <2>2, <3>3, <3>4 DEF TaskOK, Deciding
    <3> QED BY <2>2, <3>4, <3>5, OnlyTask
  <2> QED BY <2>1, <2>3, <2>4 DEF TurnEnds
<1>5. CASE CommitFails(t)
  <2>1. UNCHANGED <<row, hold, free, served>> /\ HoldsKept /\ ~At(t, "idle") /\ Raised(t)
    BY <1>5, HoldUnchanged DEF CommitFails, At
  <2> QED BY <2>1, RaisedOK, OnlyTask
<1>6. CASE Fail(t)
  <2>1. /\ HoldsKept /\ hold' = hold /\ free' = free /\ served' = served
        /\ Finish(t) /\ SetStatus(Of(t), "failed") /\ task[t].pc = "failing"
    BY <1>6, HoldUnchanged DEF Fail, At
  <2>2. Of(t) \in Purchase /\ (Of(t) \in Paid => hold[Of(t)] # "none")
    BY <1>1, <2>1 DEF TaskOK
  <2>3. "failed" \in Status \ {"captured"}
    BY DEF Status, Settled
  <2>4. row' \in [Purchase -> Row] /\ CapturedRowIsCharged' /\ ReservedFirst'
    BY <2>1, <2>2, <2>3, StatusWritten
  <2> QED BY <2>1, <2>4, Finished, TaskStep, Types
<1> QED BY <1>2, <1>3, <1>4, <1>5, <1>6 DEF JobStep

\* Settling: only a capture that Stripe accepted leads to a captured outcome.
LEMMA SettlingInv ==
    ASSUME IInv, NEW t \in Task, Settling(t)
    PROVE  IInv'
<1>1. Of(t) = task[t].p /\ task[t] \in TaskState /\ TaskOK(t)
  BY Types DEF Of, IInv
<1>2. "commit" \in Windows \cup Job /\ "rescued" \in Windows \cup Job
  BY DEF Windows
<1>3. CASE Capture(t)
  <2>1. /\ row' = row /\ free' = free /\ served' = served /\ ~At(t, "idle")
        /\ task[t].pc = "settle" /\ Of(t) \in Purchase /\ task[t].outcome \in Settled
    BY <1>1, <1>3 DEF Capture, At, TaskOK, Deciding
  <2>2. CASE hold' = [hold EXCEPT ![Of(t)] = "captured"]
    <3>1. HoldsKept /\ hold' \in [Purchase -> Hold] /\ hold'[Of(t)] = "captured"
      BY <2>1, <2>2, Types DEF HoldsKept, Hold
    <3>2. Goto(t, "commit") \/ Raised(t)
      BY <1>3 DEF Capture
    <3>3. /\ task' \in [Task -> TaskState] /\ TaskOK(t)'
          /\ \A s \in Task \ {t} : task'[s] = task[s]
      BY <1>2, <2>1, <3>1, <3>2, Moved, RaisedOK
    <3> QED BY <2>1, <3>1, <3>3, SameRows, TaskStep, Types
  <2>3. CASE hold' = hold /\ Raised(t)
    BY <2>1, <2>3, HoldUnchanged, RaisedOK, OnlyTask
  <2> QED BY <1>3, <2>2, <2>3 DEF Capture
<1>4. CASE Cancel(t)
  <2>1. /\ row' = row /\ free' = free /\ served' = served /\ ~At(t, "idle")
        /\ Of(t) \in Purchase /\ task[t].outcome \in Settled
    BY <1>1, <1>4 DEF Cancel, At, TaskOK, Deciding
  <2>2. HoldsKept /\ hold' \in [Purchase -> Hold]
    <3>1. CASE hold[Of(t)] = "held" /\ hold' = [hold EXCEPT ![Of(t)] = "released"]
      BY <2>1, <3>1, Types DEF HoldsKept, Hold
    <3>2. CASE hold' = hold
      BY <3>2, HoldUnchanged, Types
    <3> QED BY <1>4, <3>1, <3>2 DEF Cancel
  <2>3. \/ task[t].outcome # "captured" /\ Goto(t, "commit")
        \/ task[t].outcome = "failed" /\ Goto(t, "rescued")
    BY <1>1, <1>4 DEF Cancel, At, TaskOK
  <2>4. /\ task' \in [Task -> TaskState] /\ TaskOK(t)'
        /\ \A s \in Task \ {t} : task'[s] = task[s]
    BY <1>2, <2>1, <2>2, <2>3, Moved
  <2> QED BY <2>1, <2>2, <2>4, SameRows, TaskStep, Types
<1>5. CASE Commit(t)
  <2>1. /\ HoldsKept /\ hold' = hold /\ free' = free /\ served' = served
        /\ Finish(t) /\ Settle(Of(t), task[t].outcome)
        /\ task[t].pc \in {"commit", "rescued"}
    BY <1>5, HoldUnchanged DEF Commit
  <2>2. /\ Of(t) \in Purchase /\ task[t].outcome \in Settled
        /\ Of(t) \in Paid => hold[Of(t)] # "none"
        /\ Of(t) \in Paid /\ task[t].outcome = "captured" => hold[Of(t)] = "captured"
    BY <1>1, <2>1 DEF TaskOK, Deciding
  <2>3. row' \in [Purchase -> Row] /\ CapturedRowIsCharged' /\ ReservedFirst'
    BY <2>1, <2>2, RowSettled
  <2> QED BY <2>1, <2>3, Finished, TaskStep, Types
<1>6. CASE SettleFree(t)
  <2>1. /\ HoldsKept /\ hold' = hold /\ served' = served
        /\ Finish(t) /\ Settle(Of(t), task[t].outcome)
        /\ task[t].pc \in {"settle", "rescue"} /\ Of(t) \notin Paid
    BY <1>6, HoldUnchanged DEF SettleFree
  <2>2. Of(t) \in Purchase /\ task[t].outcome \in Settled
    BY <1>1, <2>1 DEF TaskOK, Deciding
  <2>3. row' \in [Purchase -> Row] /\ CapturedRowIsCharged' /\ ReservedFirst'
    BY <2>1, <2>2, RowSettled
  <2>4. free' \in Nat
    BY <1>1, <1>6, Types DEF SettleFree, TaskState
  <2> QED BY <2>1, <2>3, <2>4, Finished, TaskStep, Types
<1> QED BY <1>3, <1>4, <1>5, <1>6 DEF Settling

\* No purchase, no task: the invariant holds at the start.
LEMMA InitInv == Init => IInv
<1> SUFFICES ASSUME Init PROVE IInv
  OBVIOUS
<1>1. Paid \subseteq Purchase /\ FreeGrant \in Nat
  BY PurchaseAssumption
<1>2. Idle \in TaskState
  BY DEF Idle, TaskState
<1>3. TypeOK
  BY <1>1, <1>2 DEF Init, TypeOK, Row, Status, Hold
<1>4. \A t \in Task : TaskOK(t)
  BY DEF Init, TaskOK, Idle, Deciding
<1>5. CapturedRowIsCharged /\ ReservedFirst
  BY <1>1 DEF Init, CapturedRowIsCharged, ReservedFirst
<1> QED BY <1>3, <1>4, <1>5 DEF IInv

\* Every step keeps the invariant, one step of the proof per action.
LEMMA NextInv == IInv /\ [Next]_vars => IInv'
<1> SUFFICES ASSUME IInv, [Next]_vars PROVE IInv'
  OBVIOUS
<1>1. CASE \E p \in Purchase : OpenCheckout(p) \/ CompleteCheckout(p)
  BY <1>1, CheckoutStep
<1>2. ASSUME NEW t \in Task, JobStep(t) PROVE IInv'
  BY <1>2, JobStepInv
<1>3. ASSUME NEW t \in Task, Settling(t) PROVE IInv'
  BY <1>3, SettlingInv
<1>4. ASSUME NEW t \in Task, OtherStep(t) PROVE IInv'
  BY <1>4, OtherStepInv
<1>5. ASSUME NEW t \in Task, Die(t) PROVE IInv'
  BY <1>5, Finished, OnlyTask DEF Die
<1>6. ASSUME NEW t \in Task, NEW p \in Purchase,
             \/ AuthorizeLoad(t, p) \/ StartLoad(t, p) \/ PostLoad(t, p)
             \/ RescueLoad(t, p) \/ RefineLoad(t, p)
      PROVE  IInv'
  BY <1>6, LoadStep
<1>7. CASE UNCHANGED vars
  <2>1. HoldsKept /\ UNCHANGED <<row, hold, free, task, served>>
    BY <1>7 DEF vars, HoldsKept
  <2>2. CapturedRowIsCharged' /\ ReservedFirst'
    BY <2>1, SameRows
  <2>3. TypeOK' /\ \A t \in Task : TaskOK(t)'
    BY <2>1 DEF IInv, TypeOK, TaskOK
  <2> QED BY <2>2, <2>3 DEF IInv
<1> QED BY <1>1, <1>2, <1>3, <1>4, <1>5, <1>6, <1>7 DEF Next

-----------------------------------------------------------------------------
(* Theorems.                                                               *)

\* The invariant behind the three guarantees below holds in every behaviour of
\* the purchase handlers and their jobs.
THEOREM Invariance == Spec => []IInv
<1>1. Init => IInv
  BY InitInv
<1>2. IInv /\ [Next]_vars => IInv'
  BY NextInv
<1> QED BY <1>1, <1>2, PTL DEF Spec

\* Whatever interleaves or fails, the state keeps its shape; the free counter,
\* written back from stale copies, stays a natural number.
THEOREM TypeCorrect == Spec => []TypeOK
<1>1. IInv => TypeOK
  BY DEF IInv
<1> QED BY <1>1, Invariance, PTL

\* A purchase whose row says captured has its answer, and a card purchase was
\* really charged: run_answer, the rescue, the except block and the webhook may
\* overwrite each other's rows, and none can forge that state.
THEOREM CapturedImpliesCharged == Spec => []CapturedRowIsCharged
<1>1. IInv => CapturedRowIsCharged
  BY DEF IInv
<1> QED BY <1>1, Invariance, PTL

\* No engine job exists, and no status past authorizing, for a card purchase
\* without a hold.
THEOREM EngineNeedsHold == Spec => []RunsOnlyOnHold
<1>1. IInv => RunsOnlyOnHold
  <2> SUFFICES ASSUME IInv, NEW p \in Paid, hold[p] = "none"
               PROVE  row[p].status \in {"none", "authorizing"} /\ JobOf(p) = {}
    BY DEF RunsOnlyOnHold
  <2>1. row[p].status \in {"none", "authorizing"}
    BY DEF IInv, ReservedFirst
  <2>2. \A t \in Task : task[t].pc # "idle" => task[t].p # p
    BY DEF IInv, TaskOK
  <2> QED BY <2>1, <2>2 DEF JobOf, Job
<1> QED BY <1>1, Invariance, PTL
-----------------------------------------------------------------------------
(* One process.  The event loop has one window of its own open at a time,  *)
(* and a handler of the thread pool cannot touch the purchase another      *)
(* handler relies on, because each relies on a status of its own (LoopOK). *)
(* What follows is true of Overlap = "loop" and "none", with every fault.  *)

\* The statuses of a purchase a job was dispatched for.
Running == {"generating"} \cup Settled

\* The windows of the event loop.
Looped == Windows \ Threaded

\* What an open task relies on in its row since it read it.
LoopOK(t) ==
    /\ task[t].pc = "authorize" =>
        task[t].p \in Paid /\ row[task[t].p].status = "authorizing"
    /\ task[t].pc = "start" => task[t].p \notin Paid /\ row[task[t].p].status = "none"
    /\ task[t].pc = "post" => row[task[t].p].status = "authorized"
    /\ task[t].pc \in Job \cup {"rescue", "rescued"} => row[task[t].p].status \in Running

\* Two tasks that may not be at once where they are.
Clash(s, t) ==
    \/ task[s].pc \in Looped /\ task[t].pc \in Looped
    \/ task[s].pc = "start" /\ task[t].pc = "start" /\ task[s].p = task[t].p
    \/ task[s].pc \in Job /\ task[t].pc \in Job /\ task[s].p = task[t].p

LoopInv ==
    /\ \A s, t \in Task : Clash(s, t) => s = t
    /\ \A p \in Purchase \ Paid : row[p].status # "authorizing"
    /\ \A t \in Task : LoopOK(t)

\* The one write a task may make to the status of its purchase.
StatusMoves(t) ==
    LET new == row'[task[t].p].status IN
    \/ task[t].pc \in {"authorize", "start"} /\ new = "authorized"
    \/ task[t].pc = "post" /\ new = "generating"
    \/ task[t].pc \in Job \cup {"rescue", "rescued"} /\ new \in Settled

\* What a step leaves alone of the statuses, all but its task's purchase.
OtherStatuses(t) ==
    \A q \in Purchase : q # task[t].p => row'[q].status = row[q].status

LEMMA MayOpenLooped ==
    ASSUME Overlap # "any", NEW t \in Task, NEW pc \in Looped, MayOpen(t, pc)
    PROVE  \A s \in Task \ {t} : task[s].pc \notin Looped
<1>1. Overlap = "none" \/ Overlap = "loop"
  BY PurchaseAssumption
<1>2. pc \notin Threaded
  BY DEF Looped
<1>3. Looped \subseteq Excluded(pc)
  BY <1>1, <1>2 DEF Excluded, Looped
<1> QED BY <1>3 DEF MayOpen

\* How Goto, Finish and Begin leave the tasks.
LEMMA GotoIs ==
    ASSUME task \in [Task -> TaskState], NEW t \in Task, NEW pc, Goto(t, pc)
    PROVE  /\ task'[t] = [task[t] EXCEPT !.pc = pc]
           /\ task'[t].pc = pc /\ task'[t].p = task[t].p
           /\ task'[t].outcome = task[t].outcome
           /\ task'[t].free = task[t].free /\ task'[t].count = task[t].count
           /\ \A s \in Task \ {t} : task'[s] = task[s]
<1>1. task[t] \in TaskState
  OBVIOUS
<1>2. /\ task'[t] = [task[t] EXCEPT !.pc = pc]
      /\ \A s \in Task \ {t} : task'[s] = task[s]
  BY DEF Goto
<1> QED BY <1>1, <1>2 DEF TaskState

LEMMA FinishIs ==
    ASSUME task \in [Task -> TaskState], NEW t \in Task, Finish(t)
    PROVE  /\ task'[t] = Idle /\ task'[t].pc = "idle"
           /\ \A s \in Task \ {t} : task'[s] = task[s]
BY DEF Finish, Idle

LEMMA BeginIs ==
    ASSUME task \in [Task -> TaskState], NEW t \in Task, NEW p, NEW pc, NEW outcome,
           Begin(t, p, pc, outcome)
    PROVE  /\ task'[t] = [pc |-> pc, p |-> p, outcome |-> outcome,
                          free |-> free, count |-> row[p].count]
           /\ task[t].pc = "idle"
           /\ UNCHANGED <<row, hold, free, served>>
           /\ \A s \in Task \ {t} : task'[s] = task[s]
BY DEF Begin, At

\* What the blind writes of a status leave of a row.
LEMMA StatusIs ==
    ASSUME row \in [Purchase -> Row], NEW p \in Purchase, NEW s, SetStatus(p, s)
    PROVE  /\ row'[p].status = s
           /\ row'[p].count = row[p].count
           /\ \A q \in Purchase : q # p => row'[q] = row[q]
<1>1. row[p] \in Row
  OBVIOUS
<1>2. row'[p] = [row[p] EXCEPT !.status = s]
  BY DEF SetStatus
<1> QED BY <1>1, <1>2 DEF SetStatus, Row

LEMMA SettleIs ==
    ASSUME row \in [Purchase -> Row], NEW p \in Purchase, NEW s, Settle(p, s)
    PROVE  /\ row'[p].status = s
           /\ row'[p].count = row[p].count
           /\ \A q \in Purchase : q # p => row'[q] = row[q]
<1>1. row[p] \in Row
  OBVIOUS
<1>2. row'[p] = [row[p] EXCEPT !.status = s,
                               !.answered = row[p].answered \/ s = "captured"]
  BY DEF Settle
<1>3. row'[p].status = s /\ row'[p].count = row[p].count
  BY <1>1, <1>2 DEF Row
<1> QED BY <1>3 DEF Settle

\* A step of one task keeps what the others rely on.
LEMMA LoopStep ==
    ASSUME IInv, LoopInv, NEW t \in Task, task[t].pc # "idle",
           \A s \in Task \ {t} : task'[s] = task[s],
           OtherStatuses(t),
           StatusMoves(t) \/ row'[task[t].p].status = row[task[t].p].status,
           LoopOK(t)',
           \A s \in Task \ {t} : ~Clash(s, t)'
    PROVE  LoopInv'
<1>1. task[t].p \in Purchase /\ LoopOK(t)
  BY DEF IInv, TaskOK, LoopInv
<1>2. \A r, s \in Task : Clash(r, s)' => r = s
  <2>1. ASSUME NEW r \in Task, NEW s \in Task, r # t, s # t, Clash(r, s)'
        PROVE  r = s
    BY <2>1 DEF LoopInv, Clash
  <2>2. ASSUME NEW s \in Task, s # t PROVE ~Clash(t, s)'
    BY <2>2 DEF Clash
  <2> QED BY <2>1, <2>2
<1>3. ASSUME NEW p \in Purchase \ Paid PROVE row'[p].status # "authorizing"
  BY <1>1, <1>3 DEF OtherStatuses, StatusMoves, LoopInv, Settled
<1>4. ASSUME NEW s \in Task \ {t} PROVE LoopOK(s)'
  <2>1. LoopOK(s) /\ task'[s] = task[s] /\ ~Clash(s, t)
    BY <1>4 DEF LoopInv
  <2>2. CASE task[s].pc = "idle"
    BY <2>1, <2>2 DEF LoopOK, Job
  <2>3. CASE task[s].pc # "idle" /\ task[s].p # task[t].p
    <3>1. task[s].p \in Purchase
      BY <2>3 DEF IInv, TaskOK
    <3> QED BY <2>1, <2>3, <3>1 DEF LoopOK, OtherStatuses
  <2>4. CASE /\ task[s].p = task[t].p
             /\ row'[task[t].p].status = row[task[t].p].status
    BY <2>1, <2>4 DEF LoopOK
  <2>5. CASE task[s].p = task[t].p /\ StatusMoves(t)
    BY <1>1, <2>1, <2>5
       DEF LoopOK, StatusMoves, Clash, Running, Settled, Looped, Windows, Threaded, Job
  <2> QED BY <2>2, <2>3, <2>4, <2>5
<1> QED BY <1>2, <1>3, <1>4 DEF LoopInv

\* A task that returns leaves its row as it was, or writes its one status.
LEMMA LoopFinish ==
    ASSUME IInv, LoopInv, NEW t \in Task, task[t].pc # "idle", Finish(t),
           OtherStatuses(t),
           StatusMoves(t) \/ row'[task[t].p].status = row[task[t].p].status
    PROVE  LoopInv'
<1>1. task'[t].pc = "idle" /\ \A s \in Task \ {t} : task'[s] = task[s]
  BY FinishIs, Types
<1>2. LoopOK(t)' /\ \A s \in Task \ {t} : ~Clash(s, t)'
  BY <1>1 DEF LoopOK, Clash, Looped, Windows, Job
<1> QED BY <1>1, <1>2, LoopStep

\* A job that moves on in the same window, or to one that was free for it.
LEMMA LoopGoto ==
    ASSUME IInv, LoopInv, NEW t \in Task, task[t].pc # "idle",
           task'[t].p = task[t].p,
           \A s \in Task \ {t} : task'[s] = task[s],
           UNCHANGED row,
           task'[t].pc # "start" /\ task'[t].pc # "authorize" /\ task'[t].pc # "post",
           task'[t].pc \in Looped =>
                task[t].pc \in Looped \/ \A s \in Task \ {t} : task[s].pc \notin Looped,
           task'[t].pc \in Job => task[t].pc \in Job,
           task'[t].pc \in {"rescue", "rescued"} => task[t].pc \in {"rescue", "rescued"}
    PROVE  LoopInv'
<1>1. LoopOK(t)
  BY DEF LoopInv
<1>2. LoopOK(t)'
  BY <1>1 DEF LoopOK
<1>3. ASSUME NEW s \in Task \ {t} PROVE ~Clash(s, t)'
  BY <1>3 DEF LoopInv, Clash
<1> QED BY <1>2, <1>3, LoopStep DEF OtherStatuses

\* A handler that loads its purchase.
LEMMA LoopLoad ==
    ASSUME Overlap # "any", IInv, LoopInv, NEW t \in Task, NEW p \in Purchase,
           \/ AuthorizeLoad(t, p) \/ StartLoad(t, p) \/ PostLoad(t, p)
           \/ RescueLoad(t, p) \/ RefineLoad(t, p)
    PROVE  LoopInv'
<1>1. PICK pc \in {"authorize", "start", "post", "rescue", "refine"},
           outcome \in {"none", "failed"} :
        /\ Begin(t, p, pc, outcome)
        /\ pc # "refine" => MayOpen(t, pc)
        /\ pc = "authorize" => row[p].status = "authorizing"
        /\ pc = "start" => p \notin Paid /\ row[p].status = "none"
                /\ \A s \in Task : ~(task[s].pc = "start" /\ task[s].p = p)
        /\ pc = "post" => row[p].status = "authorized"
        /\ pc = "rescue" => row[p].status = "generating"
  BY DEF AuthorizeLoad, StartLoad, PostLoad, RescueLoad, RefineLoad, At, Of
<1>2. /\ task'[t].pc = pc /\ task'[t].p = p /\ row' = row
      /\ \A s \in Task \ {t} : task'[s] = task[s]
  <2>1. Begin(t, p, pc, outcome)
    BY <1>1
  <2>2. task'[t] = [pc |-> pc, p |-> p, outcome |-> outcome,
                    free |-> free, count |-> row[p].count]
    BY <2>1, BeginIs, Types
  <2> QED BY <2>1, <2>2, BeginIs, Types
<1>3. pc \in Looped => \A s \in Task \ {t} : task[s].pc \notin Looped
  <2>1. pc \in Looped => MayOpen(t, pc)
    BY <1>1 DEF Looped, Windows
  <2> QED BY <2>1, MayOpenLooped
<1>4. ASSUME NEW s \in Task \ {t} PROVE ~Clash(s, t)'
  BY <1>1, <1>2, <1>3 DEF Clash, Job
<1>5. LoopOK(t)'
  BY <1>1, <1>2 DEF LoopOK, LoopInv, Running, Job
<1>6. ASSUME NEW r \in Task, NEW s \in Task, Clash(r, s)' PROVE r = s
  <2>1. CASE r # t /\ s # t
    BY <1>2, <1>6, <2>1 DEF LoopInv, Clash
  <2> QED BY <1>4, <1>6, <2>1 DEF Clash
<1>7. ASSUME NEW s \in Task \ {t} PROVE LoopOK(s)'
  BY <1>2 DEF LoopInv, LoopOK
<1> QED BY <1>2, <1>5, <1>6, <1>7 DEF LoopInv

\* The user's and the webhook's side.
LEMMA LoopCheckout ==
    ASSUME IInv, LoopInv, NEW p \in Purchase, OpenCheckout(p) \/ CompleteCheckout(p)
    PROVE  LoopInv'
<1>1. task' = task
  BY DEF OpenCheckout, CompleteCheckout
<1>2. CASE CompleteCheckout(p)
  BY <1>1, <1>2 DEF CompleteCheckout, LoopInv, LoopOK, Clash
<1>3. CASE OpenCheckout(p)
  <2>1. /\ p \in Paid /\ row[p].status = "none" /\ row'[p].status = "authorizing"
        /\ \A q \in Purchase : q # p => row'[q] = row[q]
    BY <1>3, StatusIs, Types DEF OpenCheckout
  <2>2. ASSUME NEW t \in Task PROVE LoopOK(t)'
    <3>1. LoopOK(t) /\ (task[t].pc # "idle" => task[t].p \in Purchase)
      BY DEF LoopInv, IInv, TaskOK
    <3> QED BY <1>1, <2>1, <3>1 DEF LoopOK, Running, Settled, Job
  <2>3. \A r, s \in Task : Clash(r, s)' => r = s
    BY <1>1 DEF LoopInv, Clash
  <2> QED BY <2>1, <2>2, <2>3 DEF LoopInv
<1> QED BY <1>2, <1>3

LEMMA LoopOther ==
    ASSUME Overlap # "any", IInv, LoopInv, NEW t \in Task, OtherStep(t) \/ Die(t)
    PROVE  LoopInv'
<1>1. task[t].pc # "idle" /\ task[t].p \in Purchase
  BY DEF OtherStep, Authorize, StartFree, RefineEnds, RefineCommit, Die, At, IInv, TaskOK
<1>2. CASE Authorize(t) \/ (StartFree(t) /\ SetStatus(Of(t), "authorized"))
  <2>1. /\ Finish(t) /\ task[t].pc \in {"authorize", "start"}
        /\ SetStatus(task[t].p, "authorized")
    BY <1>2 DEF Authorize, StartFree, At, Of
  <2>2. row'[task[t].p].status = "authorized" /\ OtherStatuses(t)
    BY <1>1, <2>1, StatusIs, Types DEF OtherStatuses
  <2> QED BY <1>1, <2>1, <2>2, LoopFinish DEF StatusMoves
<1>3. CASE (StartFree(t) \/ Die(t)) /\ UNCHANGED row
  BY <1>1, <1>3, LoopFinish DEF StartFree, Die, OtherStatuses
<1>4. CASE RefineEnds(t)
  <2>1. PICK count \in Nat : task' = [task EXCEPT ![t].pc = "refined", ![t].count = count]
    BY <1>1, <1>4, Types DEF RefineEnds, Of, Row, TaskState
  <2>2. task[t] \in TaskState /\ task \in [Task -> TaskState]
    BY Types
  <2>3. /\ task'[t].pc = "refined" /\ task'[t].p = task[t].p
        /\ \A s \in Task \ {t} : task'[s] = task[s]
    BY <2>1, <2>2 DEF TaskState
  <2>4. "refined" \in Looped /\ "refined" \notin Job
    BY DEF Looped, Windows, Threaded, Job
  <2>5. \A s \in Task \ {t} : task[s].pc \notin Looped
    BY <1>4, <2>4, MayOpenLooped DEF RefineEnds
  <2> QED BY <1>1, <1>4, <2>3, <2>4, <2>5, LoopGoto DEF RefineEnds
<1>5. CASE RefineCommit(t)
  <2>1. row' = [row EXCEPT ![task[t].p] = [row[task[t].p] EXCEPT !.count = task[t].count + 1]]
    BY <1>5, <1>1, Types DEF RefineCommit, Of
  <2>2. row[task[t].p] \in Row
    BY <1>1, Types
  <2>3. row'[task[t].p].status = row[task[t].p].status /\ OtherStatuses(t)
    BY <1>1, <2>1, <2>2, Types DEF Row, OtherStatuses
  <2> QED BY <1>1, <1>5, <2>3, LoopFinish DEF RefineCommit
<1> QED BY <1>2, <1>3, <1>4, <1>5 DEF OtherStep, StartFree, Die


\* An exception leads from a window of the job to another, or ends it.
LEMMA LoopRaised ==
    ASSUME IInv, LoopInv, NEW t \in Task, task[t].pc \in {"settle", "commit"},
           UNCHANGED row, Raised(t)
    PROVE  LoopInv'
<1>1. CASE Goto(t, "failing")
  <2>1. /\ task'[t].pc = "failing" /\ task'[t].p = task[t].p
        /\ \A s \in Task \ {t} : task'[s] = task[s]
    BY <1>1, GotoIs, Types
  <2> QED BY <2>1, LoopGoto DEF Looped, Windows, Threaded, Job
<1>2. CASE Finish(t)
  BY <1>2, LoopFinish DEF OtherStatuses
<1> QED BY <1>1, <1>2 DEF Raised

LEMMA LoopJob ==
    ASSUME Overlap # "any", IInv, LoopInv, NEW t \in Task, JobStep(t)
    PROVE  LoopInv'
<1>1. task[t].pc # "idle" /\ task[t].p \in Purchase
  BY DEF JobStep, PostRun, JobStart, TurnEnds, CommitFails, Fail, At, IInv, TaskOK
<1>2. CASE PostRun(t)
  <2>1. /\ task[t].pc = "post" /\ SetStatus(task[t].p, "generating") /\ Goto(t, "queued")
    BY <1>2 DEF PostRun, At, Of
  <2>2. /\ task'[t].pc = "queued" /\ task'[t].p = task[t].p
        /\ \A s \in Task \ {t} : task'[s] = task[s]
    BY <2>1, GotoIs, Types
  <2>3. row'[task[t].p].status = "generating" /\ OtherStatuses(t)
    BY <1>1, <2>1, StatusIs, Types DEF OtherStatuses
  <2>4. LoopOK(t)'
    BY <2>2, <2>3 DEF LoopOK, Running
  <2>5. ASSUME NEW s \in Task \ {t} PROVE ~Clash(s, t)'
    <3>1. LoopOK(s) /\ LoopOK(t)
      BY DEF LoopInv
    <3>2. ~(task[s].pc \in Job /\ task[s].p = task[t].p)
      BY <2>1, <3>1 DEF LoopOK, Running, Settled
    <3> QED BY <2>2, <2>5, <3>2 DEF Clash, Looped, Windows
  <2> QED BY <1>1, <2>1, <2>2, <2>3, <2>4, <2>5, LoopStep DEF StatusMoves
<1>3. CASE JobStart(t)
  <2>1. task[t].pc = "queued" /\ UNCHANGED row /\ (Goto(t, "turn") \/ Finish(t))
    BY <1>3 DEF JobStart, At
  <2>2. CASE Goto(t, "turn")
    <3>1. /\ task'[t].pc = "turn" /\ task'[t].p = task[t].p
          /\ \A s \in Task \ {t} : task'[s] = task[s]
      BY <2>2, GotoIs, Types
    <3> QED BY <2>1, <3>1, LoopGoto DEF Looped, Windows, Job
  <2> QED BY <1>1, <2>1, <2>2, LoopFinish DEF OtherStatuses
<1>4. ASSUME NEW outcome \in Settled, TurnEnds(t, outcome) PROVE LoopInv'
  <2>1. task[t].pc = "turn" /\ UNCHANGED row /\ MayOpen(t, "settle")
    BY <1>4 DEF TurnEnds, At
  <2>2. CASE task' = [task EXCEPT ![t].pc = "settle", ![t].outcome = outcome, ![t].free = free]
    <3>1. task[t] \in TaskState
      BY Types
    <3>2. /\ task'[t].pc = "settle" /\ task'[t].p = task[t].p
          /\ \A s \in Task \ {t} : task'[s] = task[s]
      BY <2>2, <3>1, Types DEF TaskState
    <3>3. "settle" \in Looped
      BY DEF Looped, Windows, Threaded
    <3>4. \A s \in Task \ {t} : task[s].pc \notin Looped
      BY <2>1, <3>3, MayOpenLooped
    <3> QED BY <2>1, <3>2, <3>4, LoopGoto DEF Job
  <2>3. CASE Finish(t)
    BY <1>1, <2>1, <2>3, LoopFinish DEF OtherStatuses
  <2> QED BY <1>4, <2>2, <2>3 DEF TurnEnds
<1>5. CASE CommitFails(t)
  BY <1>5, LoopRaised DEF CommitFails, At
<1>6. CASE Fail(t)
  <2>1. task[t].pc = "failing" /\ SetStatus(task[t].p, "failed") /\ Finish(t)
    BY <1>6 DEF Fail, At, Of
  <2>2. row'[task[t].p].status = "failed" /\ OtherStatuses(t)
    BY <1>1, <2>1, StatusIs, Types DEF OtherStatuses
  <2> QED BY <1>1, <2>1, <2>2, LoopFinish DEF StatusMoves, Settled, Job
<1> QED BY <1>2, <1>3, <1>4, <1>5, <1>6 DEF JobStep

LEMMA LoopSettling ==
    ASSUME IInv, LoopInv, NEW t \in Task, Settling(t)
    PROVE  LoopInv'
<1>1. task[t].pc # "idle" /\ task[t].p \in Purchase
  BY DEF Settling, Capture, Cancel, Commit, SettleFree, At, IInv, TaskOK
<1>2. CASE Capture(t) \/ Cancel(t)
  <2>1. task[t].pc \in {"settle", "rescue"} /\ UNCHANGED row
    BY <1>2 DEF Capture, Cancel, At
  <2>2. CASE Raised(t) /\ task[t].pc = "settle"
    BY <2>1, <2>2, LoopRaised
  <2>3. ASSUME NEW pc \in {"commit", "rescued"}, Goto(t, pc),
               pc = "commit" <=> task[t].pc = "settle"
        PROVE  LoopInv'
    <3>1. /\ task'[t].pc = pc /\ task'[t].p = task[t].p
          /\ \A s \in Task \ {t} : task'[s] = task[s]
      BY <2>3, GotoIs, Types
    <3> QED BY <2>1, <2>3, <3>1, LoopGoto DEF Looped, Windows, Threaded, Job
  <2> QED BY <1>2, <2>2, <2>3 DEF Capture, Cancel, At
<1>3. CASE Commit(t) \/ SettleFree(t)
  <2>1. /\ task[t].pc \in Job \cup {"rescue", "rescued"} /\ task[t].outcome \in Settled
        /\ Settle(task[t].p, task[t].outcome) /\ Finish(t)
    BY <1>3 DEF Commit, SettleFree, Of, Job, IInv, TaskOK, Deciding
  <2>2. row'[task[t].p].status \in Settled /\ OtherStatuses(t)
    BY <1>1, <2>1, SettleIs, Types DEF OtherStatuses
  <2> QED BY <1>1, <2>1, <2>2, LoopFinish DEF StatusMoves
<1> QED BY <1>2, <1>3 DEF Settling

LEMMA LoopNext ==
    ASSUME Overlap # "any" PROVE IInv /\ LoopInv /\ [Next]_vars => LoopInv'
<1> SUFFICES ASSUME IInv, LoopInv, [Next]_vars PROVE LoopInv'
  OBVIOUS
<1>1. CASE \E p \in Purchase : OpenCheckout(p) \/ CompleteCheckout(p)
  BY <1>1, LoopCheckout
<1>2. ASSUME NEW t \in Task, JobStep(t) PROVE LoopInv'
  BY <1>2, LoopJob
<1>3. ASSUME NEW t \in Task, Settling(t) PROVE LoopInv'
  BY <1>3, LoopSettling
<1>4. ASSUME NEW t \in Task, OtherStep(t) \/ Die(t) PROVE LoopInv'
  BY <1>4, LoopOther
<1>5. ASSUME NEW t \in Task, NEW p \in Purchase,
             \/ AuthorizeLoad(t, p) \/ StartLoad(t, p) \/ PostLoad(t, p)
             \/ RescueLoad(t, p) \/ RefineLoad(t, p)
      PROVE  LoopInv'
  BY <1>5, LoopLoad
<1>6. CASE UNCHANGED vars
  BY <1>6 DEF vars, LoopInv, LoopOK, Clash
<1> QED BY <1>1, <1>2, <1>3, <1>4, <1>5, <1>6 DEF Next

\* In the deployment, no task relies on a row that another one may write.
THEOREM LoopInvariance ==
    ASSUME Overlap # "any" PROVE Spec => []LoopInv
<1>1. Init => LoopInv
  <2> SUFFICES ASSUME Init PROVE LoopInv
    OBVIOUS
  <2>1. \A t \in Task : task[t].pc = "idle"
    BY DEF Init, Idle
  <2>2. \A p \in Purchase : row[p].status = "none"
    BY DEF Init
  <2> QED BY <2>1, <2>2 DEF LoopInv, LoopOK, Clash, Looped, Windows, Job
<1>2. IInv /\ LoopInv /\ [Next]_vars => LoopInv'
  BY LoopNext
<1> QED BY <1>1, <1>2, Invariance, PTL DEF Spec

\* Whatever fails or restarts, and however often the answer is posted, a purchase
\* never has two engine runs: its row is read and marked in one window.
THEOREM OneEngineRun ==
    ASSUME Overlap # "any" PROVE Spec => []SingleEngineRun
<1>1. LoopInv => SingleEngineRun
  <2> SUFFICES ASSUME LoopInv, NEW p \in Purchase PROVE Cardinality(JobOf(p)) <= 1
    BY DEF SingleEngineRun
  <2>1. CASE JobOf(p) = {}
    BY <2>1, FS_EmptySet
  <2>2. ASSUME NEW t \in JobOf(p) PROVE Cardinality(JobOf(p)) <= 1
    <3>1. JobOf(p) = {t}
      BY <2>2 DEF JobOf, LoopInv, Clash
    <3>2. Cardinality({t}) = 1
      BY FS_Singleton
    <3> QED BY <3>1, <3>2
  <2> QED BY <2>1, <2>2
<1> QED BY <1>1, LoopInvariance, PTL


-----------------------------------------------------------------------------
(* The refinement count, in one process and with no fault.                 *)

\* The count a refinement is about to increment is the committed one.
CountInv ==
    /\ RefinementsCounted
    /\ \A t \in Task : task[t].pc = "refined" => task[t].count = row[task[t].p].count

\* A step that serves no refinement and brings none to its commit.
LEMMA CountKept ==
    ASSUME IInv, CountInv, NEW t \in Task, task'[t].pc # "refined",
           \A s \in Task \ {t} : task'[s] = task[s],
           UNCHANGED served,
           \A p \in Purchase : row'[p].count = row[p].count
    PROVE  CountInv'
<1>1. RefinementsCounted'
  BY DEF CountInv, RefinementsCounted
<1>2. ASSUME NEW s \in Task, task'[s].pc = "refined"
      PROVE  task'[s].count = row'[task'[s].p].count
  <2>1. task'[s] = task[s] /\ task[s].pc = "refined" /\ task[s].p \in Purchase
    BY <1>2 DEF IInv, TaskOK
  <2> QED BY <2>1 DEF CountInv
<1> QED BY <1>1, <1>2 DEF CountInv

\* No write of a status touches a count.
LEMMA StatusKeepsCount ==
    ASSUME IInv, NEW p \in Purchase, NEW s, SetStatus(p, s) \/ Settle(p, s)
    PROVE  \A q \in Purchase : row'[q].count = row[q].count
BY StatusIs, SettleIs, Types

LEMMA CountReturn ==
    ASSUME IInv, CountInv, NEW t \in Task, UNCHANGED served,
           \A p \in Purchase : row'[p].count = row[p].count,
           \/ Finish(t) \/ Raised(t)
           \/ \E pc \in Windows \cup Job : pc # "refined" /\ Goto(t, pc)
    PROVE  CountInv'
<1>1. task'[t].pc # "refined" /\ \A s \in Task \ {t} : task'[s] = task[s]
  <2>1. CASE Finish(t)
    BY <2>1, FinishIs, Types
  <2>2. ASSUME NEW pc, pc # "refined", Goto(t, pc)
        PROVE  task'[t].pc # "refined" /\ \A s \in Task \ {t} : task'[s] = task[s]
    BY <2>2, GotoIs, Types
  <2> QED BY <2>1, <2>2 DEF Raised
<1> QED BY <1>1, CountKept

LEMMA CountNext ==
    ASSUME Overlap # "any", ~Faults
    PROVE  IInv /\ LoopInv /\ CountInv /\ [Next]_vars => CountInv'
<1> SUFFICES ASSUME IInv, LoopInv, CountInv, [Next]_vars PROVE CountInv'
  OBVIOUS
<1>o. \A t \in Task : task[t].pc # "idle" => task[t].p \in Purchase /\ Of(t) = task[t].p
  BY DEF IInv, TaskOK, Of
<1>1. ASSUME NEW p \in Purchase, OpenCheckout(p) \/ CompleteCheckout(p) PROVE CountInv'
  <2>1. task' = task /\ UNCHANGED served
    BY <1>1 DEF OpenCheckout, CompleteCheckout
  <2>2. \A q \in Purchase : row'[q].count = row[q].count
    BY <1>1, StatusKeepsCount DEF OpenCheckout, CompleteCheckout
  <2>3. ASSUME NEW s \in Task, task'[s].pc = "refined"
        PROVE  task'[s].count = row'[task'[s].p].count
    BY <1>o, <2>1, <2>2, <2>3 DEF CountInv
  <2> QED BY <2>1, <2>2, <2>3 DEF CountInv, RefinementsCounted
<1>2. ASSUME NEW t \in Task, JobStep(t) PROVE CountInv'
  <2>1. CASE PostRun(t) \/ Fail(t)
    <3>1. task[t].p \in Purchase /\ Of(t) = task[t].p
      BY <1>o, <2>1 DEF PostRun, Fail, At
    <3>2. \A q \in Purchase : row'[q].count = row[q].count
      BY <2>1, <3>1, StatusKeepsCount DEF PostRun, Fail
    <3> QED BY <2>1, <3>2, CountReturn DEF PostRun, Fail, Windows, Job
  <2>2. CASE JobStart(t)
    BY <2>2, CountReturn DEF JobStart, Job
  <2>3. ASSUME NEW outcome \in Settled, TurnEnds(t, outcome) PROVE CountInv'
    <3>1. CASE Finish(t)
      BY <2>3, <3>1, CountReturn DEF TurnEnds
    <3>2. CASE task' = [task EXCEPT ![t].pc = "settle", ![t].outcome = outcome, ![t].free = free]
      <4>1. task[t] \in TaskState
        BY Types
      <4>2. task'[t].pc = "settle" /\ \A s \in Task \ {t} : task'[s] = task[s]
        BY <3>2, <4>1, Types DEF TaskState
      <4> QED BY <2>3, <4>2, CountKept DEF TurnEnds
    <3> QED BY <2>3, <3>1, <3>2 DEF TurnEnds
  <2>4. CASE CommitFails(t)
    BY <2>4 DEF CommitFails
  <2> QED BY <1>2, <2>1, <2>2, <2>3, <2>4 DEF JobStep
<1>3. ASSUME NEW t \in Task, Settling(t) PROVE CountInv'
  <2>1. CASE Capture(t)
    BY <2>1, CountReturn DEF Capture, Windows
  <2>2. CASE Cancel(t)
    BY <2>2, CountReturn DEF Cancel, Windows
  <2>3. CASE Commit(t) \/ SettleFree(t)
    <3>1. task[t].p \in Purchase /\ Of(t) = task[t].p
      BY <1>o, <2>3 DEF Commit, SettleFree
    <3>2. \A q \in Purchase : row'[q].count = row[q].count
      BY <2>3, <3>1, StatusKeepsCount DEF Commit, SettleFree
    <3> QED BY <2>3, <3>2, CountReturn DEF Commit, SettleFree
  <2> QED BY <1>3, <2>1, <2>2, <2>3 DEF Settling
<1>4. ASSUME NEW t \in Task, Authorize(t) \/ StartFree(t) \/ Die(t) PROVE CountInv'
  <2>1. task[t].p \in Purchase /\ Of(t) = task[t].p
    BY <1>o, <1>4 DEF Authorize, StartFree, Die, At
  <2>2. \A q \in Purchase : row'[q].count = row[q].count
    BY <1>4, <2>1, StatusKeepsCount DEF Authorize, StartFree, Die
  <2> QED BY <1>4, <2>2, CountReturn DEF Authorize, StartFree, Die
<1>5. ASSUME NEW t \in Task, RefineEnds(t) PROVE CountInv'
  <2>1. /\ task[t].pc = "refine" /\ UNCHANGED <<row, served>> /\ task[t].p \in Purchase
        /\ task' = [task EXCEPT ![t].pc = "refined", ![t].count = row[task[t].p].count]
    BY <1>o, <1>5 DEF RefineEnds, At
  <2>2. task[t] \in TaskState
    BY Types
  <2>3. /\ task'[t].p = task[t].p /\ task'[t].count = row[task[t].p].count
        /\ \A s \in Task \ {t} : task'[s] = task[s]
    BY <2>1, <2>2, Types DEF TaskState
  <2> QED BY <2>1, <2>3 DEF CountInv, RefinementsCounted
<1>6. ASSUME NEW t \in Task, RefineCommit(t) PROVE CountInv'
  <2> DEFINE p == task[t].p
  <2>1. /\ task[t].pc = "refined" /\ p \in Purchase /\ Finish(t)
        /\ row' = [row EXCEPT ![p].count = task[t].count + 1]
        /\ served' = [served EXCEPT ![p] = @ + 1]
    BY <1>o, <1>6 DEF RefineCommit, At
  <2>2. row[p] \in Row /\ served[p] \in Nat /\ row[p].count = served[p]
        /\ task[t].count = row[p].count
    BY <2>1, Types DEF CountInv, RefinementsCounted
  <2>3. /\ row'[p].count = served[p] + 1 /\ served'[p] = served[p] + 1
        /\ \A q \in Purchase : q # p => row'[q] = row[q] /\ served'[q] = served[q]
    BY <2>1, <2>2, Types DEF Row
  <2>4. RefinementsCounted'
    BY <2>3 DEF CountInv, RefinementsCounted
  <2>5. ASSUME NEW s \in Task PROVE task'[s].pc # "refined"
    <3>1. "refined" \in Looped
      BY DEF Looped, Windows, Threaded
    <3>2. s # t => task[s].pc # "refined"
      BY <2>1, <3>1 DEF LoopInv, Clash
    <3> QED BY <2>1, <3>2, FinishIs, Types
  <2> QED BY <2>4, <2>5 DEF CountInv
<1>7. ASSUME NEW t \in Task, NEW p \in Purchase,
             \/ AuthorizeLoad(t, p) \/ StartLoad(t, p) \/ PostLoad(t, p)
             \/ RescueLoad(t, p) \/ RefineLoad(t, p)
      PROVE  CountInv'
  <2>1. PICK pc \in {"authorize", "start", "post", "rescue", "refine"},
             outcome \in {"none", "failed"} : Begin(t, p, pc, outcome)
    BY <1>7 DEF AuthorizeLoad, StartLoad, PostLoad, RescueLoad, RefineLoad
  <2>2. task'[t] = [pc |-> pc, p |-> p, outcome |-> outcome,
                    free |-> free, count |-> row[p].count]
    BY <2>1, BeginIs, Types
  <2>3. task'[t].pc # "refined" /\ UNCHANGED <<row, served>>
        /\ \A s \in Task \ {t} : task'[s] = task[s]
    BY <2>1, <2>2, BeginIs, Types
  <2> QED BY <2>3, CountKept
<1>8. CASE UNCHANGED vars
  BY <1>8 DEF vars, CountInv, RefinementsCounted
<1> QED BY <1>1, <1>2, <1>3, <1>4, <1>5, <1>6, <1>7, <1>8 DEF Next, OtherStep

\* In one process, while no read or commit fails, overlapping refinement turns are
\* each counted: the count is read again in the window that writes it.
THEOREM RefinementsAllCounted ==
    ASSUME Overlap # "any", ~Faults PROVE Spec => []RefinementsCounted
<1>1. Init => CountInv
  BY DEF Init, CountInv, RefinementsCounted, Idle
<1>2. IInv /\ LoopInv /\ CountInv /\ [Next]_vars => CountInv'
  BY CountNext
<1>3. CountInv => RefinementsCounted
  BY DEF CountInv
<1> QED BY <1>1, <1>2, <1>3, Invariance, LoopInvariance, PTL DEF Spec


-----------------------------------------------------------------------------
(* One window at a time and no fault.  Holds, statuses and the counter of  *)
(* free credits then agree; with two thread-pool windows, or a fault       *)
(* between a Stripe call and its commit, they do not (the runs that expect *)
(* a violation).                                                           *)

\* The card settlements whose Stripe call is done and whose commit is not.
Committing == {"commit", "rescued"}

\* What the one open window relies on at its commit.
SerialOK(t) ==
    /\ task[t].pc # "failing"
    /\ task[t].pc \in {"settle", "rescue"} \cup Committing
        => row[task[t].p].status = "generating"
    /\ task[t].pc = "start" => task[t].free = free
    /\ task[t].pc \in {"settle", "rescue"} /\ task[t].p \notin Paid => task[t].free = free
    /\ task[t].pc \in Committing =>
        /\ task[t].p \in Paid
        /\ task[t].outcome = "captured" => hold[task[t].p] = "captured"
        /\ task[t].outcome # "captured" => hold[task[t].p] = "released"

\* The hold of a card purchase in each status.  It runs ahead of the status only
\* while the page is completed and while a settlement is between Stripe and its
\* commit.
HoldOK(p) ==
    /\ row[p].status = "none" => hold[p] = "none"
    /\ row[p].status = "authorizing" => hold[p] \in {"none", "held"}
    /\ row[p].status = "authorized" => hold[p] = "held"
    /\ row[p].status = "generating" =>
        hold[p] = "held" \/ \E t \in Task : task[t].pc \in Committing /\ task[t].p = p
    /\ row[p].status = "captured" => hold[p] = "captured"
    /\ row[p].status \in {"voided", "failed"} => hold[p] = "released"

Reserved == {p \in Purchase \ Paid :
                row[p].status \in {"authorized", "generating", "captured"}}

CreditsOK == IsFiniteSet(Reserved) /\ free + Cardinality(Reserved) = FreeGrant

SerialInv ==
    /\ \A s, t \in Task : task[s].pc \in Windows /\ task[t].pc \in Windows => s = t
    /\ \A t \in Task : SerialOK(t)
    /\ \A p \in Paid : HoldOK(p)
    /\ CreditsOK

\* A step of a task that has no window open, and writes nothing.
LEMMA SerialQuiet ==
    ASSUME SerialInv, NEW t \in Task, task[t].pc \notin Windows,
           UNCHANGED <<row, hold, free>>,
           \A s \in Task \ {t} : task'[s] = task[s],
           task'[t].pc \in Windows => \A s \in Task \ {t} : task[s].pc \notin Windows,
           SerialOK(t)'
    PROVE  SerialInv'
<1>1. \A r, s \in Task : task'[r].pc \in Windows /\ task'[s].pc \in Windows => r = s
  BY DEF SerialInv
<1>2. ASSUME NEW s \in Task PROVE SerialOK(s)'
  BY DEF SerialInv, SerialOK
<1>3. ASSUME NEW p \in Paid PROVE HoldOK(p)'
  <2>1. task[t].pc \notin Committing
    BY DEF Committing, Windows
  <2>2. (\E s \in Task : task[s].pc \in Committing /\ task[s].p = p)
        => \E s \in Task : task'[s].pc \in Committing /\ task'[s].p = p
    BY <2>1
  <2>3. HoldOK(p)
    BY DEF SerialInv
  <2> QED BY <2>2, <2>3 DEF HoldOK
<1>4. CreditsOK'
  BY DEF SerialInv, CreditsOK, Reserved
<1> QED BY <1>1, <1>2, <1>3, <1>4 DEF SerialInv

\* A step of the task whose window is open: nobody else relies on anything.
LEMMA SerialWindow ==
    ASSUME SerialInv, NEW t \in Task, task[t].pc \in Windows,
           NEW own \in Purchase, own = task[t].p,
           \A s \in Task \ {t} : task'[s] = task[s],
           \A q \in Purchase : q # own =>
                row'[q].status = row[q].status /\ hold'[q] = hold[q],
           SerialOK(t)', own \in Paid => HoldOK(own)',
           CreditsOK'
    PROVE  SerialInv'
<1>1. \A s \in Task \ {t} : task[s].pc \notin Windows
  BY DEF SerialInv
<1>2. \A r, s \in Task : task'[r].pc \in Windows /\ task'[s].pc \in Windows => r = s
  BY <1>1
<1>3. ASSUME NEW s \in Task PROVE SerialOK(s)'
  BY <1>1 DEF SerialOK, Windows, Committing
<1>4. ASSUME NEW p \in Paid, p # own PROVE HoldOK(p)'
  <2>1. ~ \E s \in Task : task[s].pc \in Committing /\ task[s].p = p
    BY <1>1, <1>4 DEF Windows, Committing
  <2>2. HoldOK(p) /\ row'[p].status = row[p].status /\ hold'[p] = hold[p]
    BY <1>4, PurchaseAssumption DEF SerialInv
  <2> QED BY <2>1, <2>2 DEF HoldOK
<1> QED BY <1>2, <1>3, <1>4 DEF SerialInv

\* Nothing is reserved or handed back by a step that moves a purchase within, or
\* outside, the reserved statuses, or a card purchase.
LEMMA CreditsKept ==
    ASSUME CreditsOK, UNCHANGED free, NEW p \in Purchase,
           \A q \in Purchase : q # p => row'[q].status = row[q].status,
           \/ p \in Paid \/ row'[p].status = row[p].status
           \/ /\ row[p].status \in {"authorized", "generating", "captured"}
              /\ row'[p].status \in {"authorized", "generating", "captured"}
    PROVE  CreditsOK'
<1>1. Reserved' = Reserved
  BY DEF Reserved
<1> QED BY <1>1 DEF CreditsOK

LEMMA SerialOpen ==
    ASSUME Overlap = "none", NEW t \in Task, NEW pc, MayOpen(t, pc)
    PROVE  \A s \in Task \ {t} : task[s].pc \notin Windows
BY DEF MayOpen, Excluded

\* A handler or job that returns without writing.
LEMMA SerialEnds ==
    ASSUME IInv, SerialInv, NEW t \in Task, task[t].pc \notin Committing, Finish(t),
           UNCHANGED <<row, hold, free>>
    PROVE  SerialInv'
<1>1. task'[t].pc = "idle" /\ \A s \in Task \ {t} : task'[s] = task[s]
  BY FinishIs, Types
<1>2. SerialOK(t)'
  BY <1>1 DEF SerialOK, Committing
<1>3. CASE task[t].pc \notin Windows
  BY <1>1, <1>2, <1>3, SerialQuiet DEF Windows
<1>4. CASE task[t].pc \in Windows
  <2>o. PICK own \in Purchase : own = task[t].p
    BY <1>4 DEF IInv, TaskOK, Windows
  <2>1. ASSUME own \in Paid PROVE HoldOK(own)'
    <3>1. HoldOK(own)
      BY <2>1 DEF SerialInv
    <3>2. ~ \E s \in Task : task[s].pc \in Committing /\ task[s].p = own
      BY <1>4 DEF SerialInv, Windows, Committing
    <3> QED BY <3>1, <3>2 DEF HoldOK
  <2>2. CreditsOK'
    BY DEF SerialInv, CreditsOK, Reserved
  <2> QED BY <1>1, <1>2, <1>4, <2>o, <2>1, <2>2, SerialWindow
<1> QED BY <1>3, <1>4

\* A card purchase whose one open window is about to settle it is held.
LEMMA HeldWhenSettling ==
    ASSUME SerialInv, NEW t \in Task, task[t].pc \in {"settle", "rescue"},
           task[t].p \in Paid
    PROVE  hold[task[t].p] = "held"
<1>1. row[task[t].p].status = "generating" /\ HoldOK(task[t].p)
  BY DEF SerialInv, SerialOK
<1>2. ~ \E s \in Task : task[s].pc \in Committing /\ task[s].p = task[t].p
  BY DEF SerialInv, Windows, Committing
<1> QED BY <1>1, <1>2 DEF HoldOK


LEMMA SerialCheckout ==
    ASSUME IInv, SerialInv, NEW p \in Purchase, OpenCheckout(p) \/ CompleteCheckout(p)
    PROVE  SerialInv'
<1>1. task' = task /\ free' = free /\ (\A t \in Task : task[t].pc # "idle" => task[t].p \in Purchase)
  BY DEF OpenCheckout, CompleteCheckout, IInv, TaskOK
<1>2. \A s, t \in Task : task'[s].pc \in Windows /\ task'[t].pc \in Windows => s = t
  BY <1>1 DEF SerialInv
<1>3. CASE OpenCheckout(p)
  <2>1. /\ p \in Paid /\ row[p].status = "none" /\ row'[p].status = "authorizing"
        /\ \A q \in Purchase : q # p => row'[q] = row[q]
        /\ hold' = hold
    BY <1>3, StatusIs, Types DEF OpenCheckout
  <2>2. ASSUME NEW t \in Task PROVE SerialOK(t)'
    BY <1>1, <2>1 DEF SerialInv, SerialOK, Committing
  <2>3. ASSUME NEW q \in Paid PROVE HoldOK(q)'
    <3>1. CASE q = p
      BY <2>1, <3>1 DEF SerialInv, HoldOK
    <3>2. CASE q # p
      BY <1>1, <2>1, <3>2, PurchaseAssumption DEF SerialInv, HoldOK
    <3> QED BY <3>1, <3>2
  <2>4. CreditsOK'
    BY <1>1, <2>1, CreditsKept DEF SerialInv
  <2> QED BY <1>2, <2>2, <2>3, <2>4 DEF SerialInv
<1>4. CASE CompleteCheckout(p)
  <2>1. /\ row[p].status = "authorizing" /\ row' = row
        /\ hold'[p] = "held" /\ \A q \in Purchase : q # p => hold'[q] = hold[q]
    BY <1>4, Types DEF CompleteCheckout
  <2>2. ASSUME NEW t \in Task PROVE SerialOK(t)'
    BY <1>1, <2>1 DEF SerialInv, SerialOK, Committing
  <2>3. ASSUME NEW q \in Paid PROVE HoldOK(q)'
    <3>1. CASE q = p
      BY <2>1, <3>1 DEF HoldOK
    <3>2. CASE q # p
      BY <1>1, <2>1, <3>2, PurchaseAssumption DEF SerialInv, HoldOK
    <3> QED BY <3>1, <3>2
  <2>4. CreditsOK'
    BY <1>1, <2>1, CreditsKept DEF SerialInv
  <2> QED BY <1>2, <2>2, <2>3, <2>4 DEF SerialInv
<1> QED BY <1>3, <1>4

LEMMA SerialLoad ==
    ASSUME Overlap = "none", IInv, LoopInv, SerialInv, NEW t \in Task, NEW p \in Purchase,
           \/ AuthorizeLoad(t, p) \/ StartLoad(t, p) \/ PostLoad(t, p)
           \/ RescueLoad(t, p) \/ RefineLoad(t, p)
    PROVE  SerialInv'
<1>1. PICK pc \in {"authorize", "start", "post", "rescue", "refine"},
           outcome \in {"none", "failed"} :
        /\ Begin(t, p, pc, outcome)
        /\ pc # "refine" => MayOpen(t, pc)
        /\ pc = "rescue" => row[p].status = "generating"
  BY DEF AuthorizeLoad, StartLoad, PostLoad, RescueLoad, RefineLoad
<1>2. /\ task'[t] = [pc |-> pc, p |-> p, outcome |-> outcome,
                     free |-> free, count |-> row[p].count]
      /\ task[t].pc = "idle" /\ UNCHANGED <<row, hold, free>>
      /\ \A s \in Task \ {t} : task'[s] = task[s]
  <2>1. Begin(t, p, pc, outcome)
    BY <1>1
  <2> QED BY <2>1, BeginIs, Types
<1>3. task'[t].pc = pc /\ task'[t].p = p /\ task'[t].free = free
  BY <1>2
<1>4. SerialOK(t)'
  BY <1>1, <1>2, <1>3 DEF SerialOK, Committing
<1>5. task'[t].pc \in Windows => \A s \in Task \ {t} : task[s].pc \notin Windows
  <2>1. pc \in Windows => MayOpen(t, pc)
    BY <1>1 DEF Windows
  <2> QED BY <1>3, <2>1, SerialOpen
<1>6. task[t].pc \notin Windows
  BY <1>2 DEF Windows
<1> QED BY <1>2, <1>4, <1>5, <1>6, SerialQuiet

LEMMA SerialOther ==
    ASSUME Overlap = "none", ~Faults, IInv, LoopInv, SerialInv, NEW t \in Task,
           OtherStep(t) \/ Die(t)
    PROVE  SerialInv'
<1>o. PICK p \in Purchase : p = task[t].p /\ p = Of(t)
  BY DEF OtherStep, Authorize, StartFree, RefineEnds, RefineCommit, Die, At, IInv, TaskOK, Of
<1>1. TaskOK(t) /\ LoopOK(t) /\ SerialOK(t) /\ CreditsOK /\ (p \in Paid => HoldOK(p))
  BY DEF IInv, LoopInv, SerialInv
<1>2. ASSUME Finish(t)
      PROVE  /\ \A s \in Task \ {t} : task'[s] = task[s]
             /\ task'[t].pc = "idle" /\ SerialOK(t)'
  BY <1>2, FinishIs, Types DEF SerialOK, Committing
<1>3. CASE Authorize(t)
  <2>1. /\ task[t].pc = "authorize" /\ Finish(t) /\ SetStatus(p, "authorized")
        /\ UNCHANGED <<hold, free>>
    BY <1>o, <1>3 DEF Authorize, At
  <2>2. row[p].status = "authorizing" /\ p \in Paid /\ hold[p] = "held"
    BY <1>o, <1>1, <2>1 DEF LoopOK, TaskOK, HoldOK
  <2>3. row'[p].status = "authorized" /\ \A q \in Purchase : q # p => row'[q] = row[q]
    BY <2>1, StatusIs, Types
  <2>4. HoldOK(p)'
    BY <2>1, <2>2, <2>3 DEF HoldOK
  <2>5. CreditsOK'
    BY <1>1, <2>1, <2>2, <2>3, CreditsKept
  <2>6. task[t].pc \in Windows
    BY <2>1 DEF Windows
  <2> QED BY <1>o, <1>2, <2>1, <2>3, <2>4, <2>5, <2>6, SerialWindow
<1>4. CASE StartFree(t)
  <2>1. task[t].pc = "start" /\ Finish(t) /\ UNCHANGED hold
    BY <1>4 DEF StartFree, At
  <2>2. CASE UNCHANGED <<free, row>>
    BY <2>1, <2>2, SerialEnds DEF Committing
  <2>3. CASE task[t].free > 0 /\ free' = task[t].free - 1 /\ SetStatus(p, "authorized")
    <3>1. row[p].status = "none" /\ p \notin Paid /\ task[t].free = free
      BY <1>o, <1>1, <2>1 DEF LoopOK, SerialOK
    <3>2. row'[p].status = "authorized" /\ \A q \in Purchase : q # p => row'[q] = row[q]
      BY <2>3, StatusIs, Types
    <3>3. Reserved' = Reserved \cup {p} /\ p \notin Reserved
      BY <3>1, <3>2 DEF Reserved
    <3>4. /\ IsFiniteSet(Reserved \cup {p})
          /\ Cardinality(Reserved \cup {p}) = Cardinality(Reserved) + 1
          /\ Cardinality(Reserved) \in Nat
      BY <1>1, <3>3, FS_AddElement, FS_CardinalityType DEF CreditsOK
    <3>5. CreditsOK'
      <4>1. free \in Nat /\ FreeGrant \in Nat /\ free' = free - 1
        BY <2>3, <3>1, Types, PurchaseAssumption
      <4>2. Cardinality(Reserved') = Cardinality(Reserved) + 1 /\ IsFiniteSet(Reserved')
        BY <3>3, <3>4
      <4> QED BY <1>1, <3>4, <4>1, <4>2 DEF CreditsOK
    <3>6. task[t].pc \in Windows
      BY <2>1 DEF Windows
    <3> QED BY <1>o, <1>2, <2>1, <3>1, <3>2, <3>5, <3>6, SerialWindow
  <2> QED BY <1>o, <1>4, <2>2, <2>3 DEF StartFree
<1>5. CASE RefineEnds(t)
  <2>1. /\ task[t].pc = "refine" /\ MayOpen(t, "refined") /\ UNCHANGED <<row, hold, free>>
        /\ task' = [task EXCEPT ![t].pc = "refined", ![t].count = row[p].count]
    BY <1>o, <1>5 DEF RefineEnds, At
  <2>2. task[t] \in TaskState
    BY Types
  <2>3. task'[t].pc = "refined" /\ \A s \in Task \ {t} : task'[s] = task[s]
    BY <2>1, <2>2, Types DEF TaskState
  <2>4. SerialOK(t)'
    BY <2>3 DEF SerialOK, Committing
  <2>5. task[t].pc \notin Windows
    BY <2>1 DEF Windows
  <2> QED BY <2>1, <2>3, <2>4, <2>5, SerialOpen, SerialQuiet
<1>6. CASE RefineCommit(t)
  <2>1. /\ task[t].pc = "refined" /\ Finish(t) /\ UNCHANGED <<hold, free>>
        /\ row' = [row EXCEPT ![p] = [row[p] EXCEPT !.count = task[t].count + 1]]
    BY <1>o, <1>6, Types DEF RefineCommit, At
  <2>2. row[p] \in Row
    BY Types
  <2>3. \A q \in Purchase : row'[q].status = row[q].status
    BY <2>1, <2>2, Types DEF Row
  <2>4. task[t].pc \in Windows /\ task[t].pc \notin Committing
    BY <2>1 DEF Windows, Committing
  <2>5. p \in Paid => HoldOK(p)'
    <3>1. ~ \E s \in Task : task[s].pc \in Committing /\ task[s].p = p
      BY <2>4 DEF SerialInv, Windows, Committing
    <3> QED BY <1>1, <2>1, <2>3, <3>1 DEF HoldOK
  <2>6. CreditsOK'
    BY <1>1, <2>1, <2>3, CreditsKept
  <2> QED BY <1>o, <1>2, <2>1, <2>3, <2>4, <2>5, <2>6, SerialWindow
<1>7. CASE Die(t)
  BY <1>7, SerialEnds DEF Die, Committing
<1> QED BY <1>3, <1>4, <1>5, <1>6, <1>7 DEF OtherStep


LEMMA SerialJob ==
    ASSUME Overlap = "none", ~Faults, IInv, LoopInv, SerialInv, NEW t \in Task, JobStep(t)
    PROVE  SerialInv'
<1>o. PICK p \in Purchase : p = task[t].p /\ p = Of(t)
  BY DEF JobStep, PostRun, JobStart, TurnEnds, CommitFails, Fail, At, IInv, TaskOK, Of
<1>1. LoopOK(t) /\ SerialOK(t) /\ CreditsOK /\ (p \in Paid => HoldOK(p))
  BY DEF LoopInv, SerialInv
<1>2. CASE PostRun(t)
  <2>1. /\ task[t].pc = "post" /\ SetStatus(p, "generating") /\ Goto(t, "queued")
        /\ UNCHANGED <<hold, free>>
    BY <1>o, <1>2 DEF PostRun, At
  <2>2. task'[t].pc = "queued" /\ \A s \in Task \ {t} : task'[s] = task[s]
    BY <2>1, GotoIs, Types
  <2>3. row[p].status = "authorized"
    BY <1>o, <1>1, <2>1 DEF LoopOK
  <2>4. row'[p].status = "generating" /\ \A q \in Purchase : q # p => row'[q] = row[q]
    BY <2>1, StatusIs, Types
  <2>5. p \in Paid => HoldOK(p)'
    BY <1>1, <2>1, <2>3, <2>4 DEF HoldOK
  <2>6. CreditsOK'
    BY <1>1, <2>1, <2>3, <2>4, CreditsKept
  <2>7. SerialOK(t)' /\ task[t].pc \in Windows
    BY <2>1, <2>2 DEF SerialOK, Committing, Windows
  <2> QED BY <1>o, <2>1, <2>2, <2>4, <2>5, <2>6, <2>7, SerialWindow
<1>3. CASE JobStart(t)
  <2>1. /\ task[t].pc = "queued" /\ UNCHANGED <<row, hold, free>>
        /\ Goto(t, "turn") \/ Finish(t)
    BY <1>3 DEF JobStart, At
  <2>2. CASE Goto(t, "turn")
    <3>1. task'[t].pc = "turn" /\ \A s \in Task \ {t} : task'[s] = task[s]
      BY <2>2, GotoIs, Types
    <3>2. SerialOK(t)' /\ task[t].pc \notin Windows /\ task'[t].pc \notin Windows
      BY <2>1, <3>1 DEF SerialOK, Committing, Windows
    <3> QED BY <2>1, <3>1, <3>2, SerialQuiet
  <2> QED BY <2>1, <2>2, SerialEnds DEF Committing
<1>4. ASSUME NEW outcome \in Settled, TurnEnds(t, outcome) PROVE SerialInv'
  <2>1. task[t].pc = "turn" /\ UNCHANGED <<row, hold, free>> /\ MayOpen(t, "settle")
    BY <1>4 DEF TurnEnds, At
  <2>2. CASE /\ row[p].status \notin Settled
             /\ task' = [task EXCEPT ![t].pc = "settle", ![t].outcome = outcome, ![t].free = free]
    <3>1. task[t] \in TaskState
      BY Types
    <3>2. /\ task'[t].pc = "settle" /\ task'[t].p = task[t].p /\ task'[t].free = free
          /\ \A s \in Task \ {t} : task'[s] = task[s]
      BY <2>2, <3>1, Types DEF TaskState
    <3>3. row[p].status = "generating"
      BY <1>o, <1>1, <2>1, <2>2 DEF LoopOK, Running, Job
    <3>4. SerialOK(t)'
      BY <1>o, <2>1, <3>2, <3>3 DEF SerialOK, Committing
    <3>5. task[t].pc \notin Windows
      BY <2>1 DEF Windows
    <3> QED BY <2>1, <3>2, <3>4, <3>5, SerialOpen, SerialQuiet
  <2>3. CASE Finish(t)
    BY <2>1, <2>3, SerialEnds DEF Committing
  <2> QED BY <1>o, <1>4, <2>2, <2>3 DEF TurnEnds
<1>5. CASE CommitFails(t) \/ Fail(t)
  BY <1>1, <1>5 DEF CommitFails, Fail, SerialOK, At
<1> QED BY <1>2, <1>3, <1>4, <1>5 DEF JobStep

LEMMA SerialSettling ==
    ASSUME Overlap = "none", ~Faults, IInv, LoopInv, SerialInv, NEW t \in Task, Settling(t)
    PROVE  SerialInv'
<1>o. PICK p \in Purchase : p = task[t].p /\ p = Of(t)
  BY DEF Settling, Capture, Cancel, Commit, SettleFree, At, IInv, TaskOK, Of
<1>1. TaskOK(t) /\ SerialOK(t) /\ CreditsOK /\ (p \in Paid => HoldOK(p))
  BY DEF IInv, SerialInv
<1>2. CASE Capture(t) \/ Cancel(t)
  <2>1. /\ task[t].pc \in {"settle", "rescue"} /\ p \in Paid
        /\ UNCHANGED <<row, free>>
    BY <1>o, <1>2 DEF Capture, Cancel, At
  <2>2. hold[p] = "held" /\ row[p].status = "generating"
    BY <1>o, <1>1, <2>1, HeldWhenSettling DEF SerialOK
  <2>3. PICK h \in {"captured", "released"}, pc \in Committing :
            /\ hold' = [hold EXCEPT ![p] = h] /\ Goto(t, pc)
            /\ task[t].outcome = "captured" <=> h = "captured"
    <3>1. CASE Capture(t)
      BY <1>o, <2>2, <3>1 DEF Capture, Committing
    <3>2. CASE Cancel(t)
      BY <1>o, <1>1, <2>2, <3>2 DEF Cancel, Committing, TaskOK, At
    <3> QED BY <1>2, <3>1, <3>2
  <2>4. /\ task'[t].pc = pc /\ task'[t].p = p /\ task'[t].outcome = task[t].outcome
        /\ \A s \in Task \ {t} : task'[s] = task[s]
    BY <1>o, <2>3, GotoIs, Types
  <2>5. hold'[p] = h /\ \A q \in Purchase : q # p => hold'[q] = hold[q]
    BY <2>3, Types
  <2>6. SerialOK(t)'
    BY <2>1, <2>2, <2>3, <2>4, <2>5 DEF SerialOK, Committing
  <2>7. HoldOK(p)'
    <3>1. \E s \in Task : task'[s].pc \in Committing /\ task'[s].p = p
      BY <2>3, <2>4
    <3>2. row'[p].status = "generating"
      BY <2>1, <2>2
    <3> QED BY <3>1, <3>2 DEF HoldOK
  <2>8. CreditsOK' /\ task[t].pc \in Windows
    BY <1>1, <2>1, CreditsKept DEF Windows
  <2> QED BY <1>o, <2>1, <2>4, <2>5, <2>6, <2>7, <2>8, SerialWindow
<1>3. CASE Commit(t)
  <2>1. /\ task[t].pc \in Committing /\ Settle(p, task[t].outcome) /\ Finish(t)
        /\ UNCHANGED <<hold, free>> /\ p \in Paid /\ task[t].outcome \in Settled
        /\ task[t].outcome = "captured" => hold[p] = "captured"
        /\ task[t].outcome # "captured" => hold[p] = "released"
    BY <1>o, <1>1, <1>3 DEF Commit, Committing, SerialOK, TaskOK, Deciding
  <2>2. /\ row'[p].status = task[t].outcome
        /\ \A q \in Purchase : q # p => row'[q] = row[q]
    BY <2>1, SettleIs, Types
  <2>3. HoldOK(p)'
    BY <2>1, <2>2 DEF HoldOK, Settled
  <2>4. CreditsOK'
    BY <1>1, <2>1, <2>2, CreditsKept
  <2>5. task'[t].pc = "idle" /\ \A s \in Task \ {t} : task'[s] = task[s]
    BY <2>1, FinishIs, Types
  <2>6. SerialOK(t)' /\ task[t].pc \in Windows
    BY <2>1, <2>5 DEF SerialOK, Committing, Windows
  <2> QED BY <1>o, <2>1, <2>2, <2>3, <2>4, <2>5, <2>6, SerialWindow
<1>4. CASE SettleFree(t)
  <2>1. /\ task[t].pc \in {"settle", "rescue"} /\ Settle(p, task[t].outcome) /\ Finish(t)
        /\ UNCHANGED hold /\ p \notin Paid /\ task[t].outcome \in Settled
        /\ free' = IF task[t].outcome = "captured" THEN free ELSE task[t].free + 1
    BY <1>o, <1>1, <1>4 DEF SettleFree, TaskOK, Deciding
  <2>2. /\ row'[p].status = task[t].outcome
        /\ \A q \in Purchase : q # p => row'[q] = row[q]
    BY <2>1, SettleIs, Types
  <2>3. row[p].status = "generating" /\ task[t].free = free
    BY <1>o, <1>1, <2>1 DEF SerialOK
  <2>4. CreditsOK'
    <3>1. CASE task[t].outcome = "captured"
      BY <1>1, <2>1, <2>2, <2>3, <3>1, CreditsKept
    <3>2. CASE task[t].outcome # "captured"
      <4>1. Reserved' = Reserved \ {p} /\ p \in Reserved
        BY <2>1, <2>2, <2>3, <3>2 DEF Reserved, Settled
      <4>2. /\ IsFiniteSet(Reserved \ {p})
            /\ Cardinality(Reserved \ {p}) = Cardinality(Reserved) - 1
            /\ Cardinality(Reserved) \in Nat
        BY <1>1, <4>1, FS_RemoveElement, FS_CardinalityType DEF CreditsOK
      <4>3. IsFiniteSet(Reserved') /\ Cardinality(Reserved') = Cardinality(Reserved) - 1
        BY <4>1, <4>2
      <4>4. free' = free + 1 /\ free \in Nat /\ FreeGrant \in Nat
        BY <2>1, <2>3, <3>2, Types, PurchaseAssumption
      <4> QED BY <1>1, <4>2, <4>3, <4>4 DEF CreditsOK
    <3> QED BY <3>1, <3>2
  <2>5. task'[t].pc = "idle" /\ \A s \in Task \ {t} : task'[s] = task[s]
    BY <2>1, FinishIs, Types
  <2>6. SerialOK(t)' /\ task[t].pc \in Windows
    BY <2>1, <2>5 DEF SerialOK, Committing, Windows
  <2> QED BY <1>o, <2>1, <2>2, <2>4, <2>5, <2>6, SerialWindow
<1> QED BY <1>2, <1>3, <1>4 DEF Settling

LEMMA SerialNext ==
    ASSUME Overlap = "none", ~Faults
    PROVE  IInv /\ LoopInv /\ SerialInv /\ [Next]_vars => SerialInv'
<1> SUFFICES ASSUME IInv, LoopInv, SerialInv, [Next]_vars PROVE SerialInv'
  OBVIOUS
<1>1. CASE \E p \in Purchase : OpenCheckout(p) \/ CompleteCheckout(p)
  BY <1>1, SerialCheckout
<1>2. ASSUME NEW t \in Task, JobStep(t) PROVE SerialInv'
  BY <1>2, SerialJob
<1>3. ASSUME NEW t \in Task, Settling(t) PROVE SerialInv'
  BY <1>3, SerialSettling
<1>4. ASSUME NEW t \in Task, OtherStep(t) \/ Die(t) PROVE SerialInv'
  BY <1>4, SerialOther
<1>5. ASSUME NEW t \in Task, NEW p \in Purchase,
             \/ AuthorizeLoad(t, p) \/ StartLoad(t, p) \/ PostLoad(t, p)
             \/ RescueLoad(t, p) \/ RefineLoad(t, p)
      PROVE  SerialInv'
  BY <1>5, SerialLoad
<1>6. CASE UNCHANGED vars
  BY <1>6 DEF vars, SerialInv, SerialOK, HoldOK, CreditsOK, Reserved
<1> QED BY <1>1, <1>2, <1>3, <1>4, <1>5, <1>6 DEF Next

LEMMA SerialInit == Init => SerialInv
<1> SUFFICES ASSUME Init PROVE SerialInv
  OBVIOUS
<1>1. \A t \in Task : task[t].pc = "idle"
  BY DEF Init, Idle
<1>2. \A p \in Purchase : row[p].status = "none" /\ hold[p] = "none"
  BY DEF Init
<1>3. Reserved = {} /\ free = FreeGrant /\ FreeGrant \in Nat
  BY <1>2, PurchaseAssumption DEF Init, Reserved
<1>4. CreditsOK
  BY <1>3, FS_EmptySet DEF CreditsOK
<1>5. \A p \in Paid : HoldOK(p)
  BY <1>2, PurchaseAssumption DEF HoldOK
<1> QED BY <1>1, <1>4, <1>5 DEF SerialInv, SerialOK, Committing, Windows

\* While windows do not overlap and nothing fails between Stripe and a commit, each
\* window finds at its commit what it read.
THEOREM SerialInvariance ==
    ASSUME Overlap = "none", ~Faults PROVE Spec => []SerialInv
<1>1. IInv /\ LoopInv /\ SerialInv /\ [Next]_vars => SerialInv'
  BY SerialNext
<1>2. Overlap # "any"
  OBVIOUS
<1>3. Spec => []LoopInv
  BY <1>2, LoopInvariance
<1> QED BY <1>1, <1>3, SerialInit, Invariance, PTL DEF Spec

\* Then a question that failed or was voided has its card hold released.
THEOREM HoldsSettled ==
    ASSUME Overlap = "none", ~Faults PROVE Spec => []SettledMatchesHold
<1>1. SerialInv => SettledMatchesHold
  BY DEF SerialInv, HoldOK, SettledMatchesHold
<1> QED BY <1>1, SerialInvariance, PTL

\* And a free credit is never lost and never spent twice, however many purchases
\* are started, refunded and rescued.
THEOREM CreditsConserved ==
    ASSUME Overlap = "none", ~Faults PROVE Spec => []FreeCreditsConserved
<1>1. SerialInv => FreeCreditsConserved
  BY DEF SerialInv, CreditsOK, Reserved, FreeCreditsConserved
<1> QED BY <1>1, SerialInvariance, PTL

Final == \A p \in Purchase :
            row[p].status \in Settled => row'[p].status = row[p].status

\* A step keeps settled rows if no except block is about to write, and whoever
\* settles a purchase finds it open, or settled the way it would settle it.
LEMMA FinalStep ==
    ASSUME IInv, LoopInv, [Next]_vars,
           \A t \in Task : task[t].pc # "failing",
           \A t \in Task : task[t].pc \in {"settle", "rescue"} \cup Committing
                => row[task[t].p].status \notin Settled \ {task[t].outcome}
    PROVE  Final
<1>1. ASSUME NEW t \in Task, NEW s, NEW p \in Purchase, p = task[t].p,
             SetStatus(p, s) \/ Settle(p, s), row[p].status \in Settled => s = row[p].status
      PROVE  Final
  <2>1. \A q \in Purchase : q # p => row'[q] = row[q]
    BY <1>1, StatusIs, SettleIs, Types
  <2>2. row'[p].status = s
    BY <1>1, StatusIs, SettleIs, Types
  <2> QED BY <1>1, <2>1, <2>2 DEF Final
<1>2. CASE UNCHANGED row
  BY <1>2 DEF Final
<1>3. ASSUME NEW p \in Purchase, OpenCheckout(p) \/ CompleteCheckout(p) PROVE Final
  BY <1>3, StatusIs, Types DEF OpenCheckout, CompleteCheckout, Settled, Final
<1>4. ASSUME NEW t \in Task, JobStep(t) PROVE Final
  <2>1. CASE PostRun(t)
    <3>1. task[t].p \in Purchase /\ row[task[t].p].status = "authorized"
      BY <2>1 DEF PostRun, At, LoopInv, LoopOK, IInv, TaskOK
    <3> QED BY <1>1, <2>1, <3>1 DEF PostRun, Of, Settled
  <2> QED BY <1>2, <1>4, <2>1 DEF JobStep, JobStart, TurnEnds, CommitFails, Fail, At
<1>5. ASSUME NEW t \in Task, Settling(t) PROVE Final
  <2>1. CASE UNCHANGED row
    BY <1>2, <2>1
  <2>2. CASE /\ task[t].pc \in {"settle", "rescue"} \cup Committing
             /\ Settle(task[t].p, task[t].outcome)
    <3>1. task[t].p \in Purchase
      BY <2>2 DEF IInv, TaskOK, Committing
    <3> QED BY <1>1, <2>2, <3>1
  <2> QED BY <1>5, <2>1, <2>2
      DEF Settling, Capture, Cancel, Commit, SettleFree, At, Of, Committing
<1>6. ASSUME NEW t \in Task, RefineCommit(t) PROVE Final
  <2>1. task[t].p \in Purchase
    BY <1>6 DEF RefineCommit, At, IInv, TaskOK
  <2>2. row' = [row EXCEPT ![task[t].p] = [row[task[t].p] EXCEPT !.count = task[t].count + 1]]
    BY <1>6, <2>1, Types DEF RefineCommit, Of
  <2>3. row[task[t].p] \in Row
    BY <2>1, Types
  <2> QED BY <2>1, <2>2, <2>3, Types DEF Row, Final
<1>7. ASSUME NEW t \in Task, Authorize(t) \/ StartFree(t) \/ RefineEnds(t) \/ Die(t)
      PROVE  Final
  <2>1. CASE UNCHANGED row
    BY <1>2, <2>1
  <2>2. CASE task[t].pc \in {"authorize", "start"} /\ SetStatus(task[t].p, "authorized")
    <3>1. task[t].p \in Purchase /\ row[task[t].p].status \in {"none", "authorizing"}
      BY <2>2 DEF LoopInv, LoopOK, IInv, TaskOK
    <3> QED BY <1>1, <2>2, <3>1 DEF Settled
  <2> QED BY <1>7, <2>1, <2>2 DEF Authorize, StartFree, RefineEnds, Die, At, Of
<1>8. ASSUME NEW t \in Task, NEW p \in Purchase,
             \/ AuthorizeLoad(t, p) \/ StartLoad(t, p) \/ PostLoad(t, p)
             \/ RescueLoad(t, p) \/ RefineLoad(t, p)
      PROVE  Final
  BY <1>2, <1>8 DEF AuthorizeLoad, StartLoad, PostLoad, RescueLoad, RefineLoad, Begin
<1> QED BY <1>2, <1>3, <1>4, <1>5, <1>6, <1>7, <1>8 DEF Next, OtherStep, vars

\* And no job, rescue or except block writes over a settlement: each writer's
\* purchase was still open.
THEOREM SettlementIsFinal ==
    ASSUME Overlap = "none", ~Faults PROVE Spec => SettledIsFinal
<1>1. ASSUME IInv, LoopInv, SerialInv, [Next]_vars PROVE Final
  <2>1. ASSUME NEW t \in Task
        PROVE  /\ task[t].pc # "failing"
               /\ task[t].pc \in {"settle", "rescue"} \cup Committing
                    => row[task[t].p].status \notin Settled
    BY <1>1 DEF SerialInv, SerialOK, Settled
  <2> QED BY <1>1, <2>1, FinalStep
<1>2. IInv /\ LoopInv /\ SerialInv /\ [Next]_vars => [Final]_vars
  BY <1>1
<1>3. Spec => []LoopInv
  BY LoopInvariance
<1>4. Spec => []SerialInv
  BY SerialInvariance
<1>5. Spec => [][Final]_vars
  BY <1>2, <1>3, <1>4, Invariance, PTL DEF Spec
<1> QED BY <1>5 DEF SettledIsFinal, Final

-----------------------------------------------------------------------------
(* The deployment itself: one process whose thread pool overlaps with      *)
(* everything, no fault, and no run that outlasts the cutoff of a rescue.  *)
(* The free credits may then still go wrong (the handlers' copies of the   *)
(* counter are stale), but the holds cannot: a rescue and a job never meet *)
(* over a purchase, and rescues only repeat what the first one did.        *)

Rescuing == {"rescue", "rescued"}

\* What a job or a rescue relies on at its commit.
DeployOK(t) ==
    /\ task[t].pc \in Job =>
        task[t].pc # "failing" /\ row[task[t].p].status = "generating"
    /\ task[t].pc = "commit" =>
        /\ task[t].p \in Paid
        /\ task[t].outcome = "captured" => hold[task[t].p] = "captured"
        /\ task[t].outcome # "captured" => hold[task[t].p] = "released"
    /\ task[t].pc \in Rescuing => row[task[t].p].status \in {"generating", "failed"}
    /\ task[t].pc = "rescued" => task[t].p \in Paid /\ hold[task[t].p] = "released"

\* A job and a rescue of one purchase.
Meet(s, t) ==
    task[s].pc \in Job /\ task[t].pc \in Rescuing /\ task[s].p = task[t].p

DeployInv ==
    /\ \A s, t \in Task : ~Meet(s, t)
    /\ \A t \in Task : DeployOK(t)
    /\ \A p \in Paid : HoldOK(p)

\* A step of one task about its purchase own.
LEMMA DeployStep ==
    ASSUME IInv, DeployInv, NEW t \in Task, NEW own \in Purchase,
           task[t].pc \in Committing => task[t].p = own,
           \A s \in Task \ {t} : task'[s] = task[s],
           \A q \in Purchase : q # own =>
                row'[q].status = row[q].status /\ hold'[q] = hold[q],
           \A s \in Task \ {t} : ~Meet(s, t)' /\ ~Meet(t, s)',
           DeployOK(t)', own \in Paid => HoldOK(own)',
           \A s \in Task \ {t} :
                task[s].p = own /\ task[s].pc \in Job \cup Rescuing => DeployOK(s)'
    PROVE  DeployInv'
<1>1. ASSUME NEW r \in Task, NEW s \in Task PROVE ~Meet(r, s)'
  <2>1. CASE r # t /\ s # t
    BY <2>1 DEF DeployInv, Meet
  <2>2. CASE r = t /\ s = t
    BY <2>2 DEF Meet, Job, Rescuing
  <2> QED BY <2>1, <2>2
<1>2. ASSUME NEW s \in Task \ {t} PROVE DeployOK(s)'
  <2>1. DeployOK(s) /\ task'[s] = task[s]
    BY DEF DeployInv
  <2>2. CASE task[s].pc \notin Job \cup Rescuing
    BY <2>1, <2>2 DEF DeployOK, Job, Rescuing
  <2>3. CASE task[s].pc \in Job \cup Rescuing /\ task[s].p # own
    <3>1. task[s].p \in Purchase
      BY <2>3 DEF IInv, TaskOK, Job, Rescuing
    <3>2. /\ row'[task[s].p].status = row[task[s].p].status
          /\ hold'[task[s].p] = hold[task[s].p]
      BY <2>3, <3>1
    <3> QED BY <2>1, <3>2 DEF DeployOK
  <2> QED BY <2>2, <2>3
<1>3. ASSUME NEW p \in Paid, p # own PROVE HoldOK(p)'
  <2>1. /\ HoldOK(p) /\ row'[p].status = row[p].status /\ hold'[p] = hold[p]
    BY <1>3, PurchaseAssumption DEF DeployInv
  <2>2. ASSUME NEW s \in Task, task[s].pc \in Committing, task[s].p = p
        PROVE  task'[s].pc \in Committing /\ task'[s].p = p
    BY <1>3, <2>2
  <2> QED BY <2>1, <2>2 DEF HoldOK
<1> QED BY <1>1, <1>2, <1>3 DEF DeployInv

\* A step that writes neither the status nor the hold of a purchase.
LEMMA DeployQuiet ==
    ASSUME IInv, DeployInv, NEW t \in Task, task[t].pc \notin Committing,
           UNCHANGED hold,
           \A q \in Purchase : row'[q].status = row[q].status,
           \A s \in Task \ {t} : task'[s] = task[s],
           \A s \in Task \ {t} : ~Meet(s, t)' /\ ~Meet(t, s)',
           DeployOK(t)'
    PROVE  DeployInv'
<1>1. ASSUME NEW s \in Task \ {t} PROVE DeployOK(s)'
  <2>1. DeployOK(s) /\ (task[s].pc # "idle" => task[s].p \in Purchase)
    BY DEF DeployInv, IInv, TaskOK
  <2> QED BY <2>1 DEF DeployOK, Job, Rescuing
<1>2. ASSUME NEW p \in Paid PROVE HoldOK(p)'
  <2>1. HoldOK(p) /\ row'[p].status = row[p].status
    BY PurchaseAssumption DEF DeployInv
  <2>2. ASSUME NEW s \in Task, task[s].pc \in Committing, task[s].p = p
        PROVE  task'[s].pc \in Committing /\ task'[s].p = p
    BY <2>2
  <2> QED BY <2>1, <2>2 DEF HoldOK
<1>3. ASSUME NEW r \in Task, NEW s \in Task PROVE ~Meet(r, s)'
  <2>1. CASE r # t /\ s # t
    BY <2>1 DEF DeployInv, Meet
  <2>2. CASE r = t /\ s = t
    BY <2>2 DEF Meet, Job, Rescuing
  <2> QED BY <2>1, <2>2
<1> QED BY <1>1, <1>2, <1>3 DEF DeployInv

\* A task that ends without writing a status.
LEMMA DeployEnds ==
    ASSUME IInv, DeployInv, NEW t \in Task, task[t].pc \notin Committing, Finish(t),
           UNCHANGED hold, \A q \in Purchase : row'[q].status = row[q].status
    PROVE  DeployInv'
<1>1. task'[t].pc = "idle" /\ \A s \in Task \ {t} : task'[s] = task[s]
  BY FinishIs, Types
<1>2. DeployOK(t)' /\ \A s \in Task \ {t} : ~Meet(s, t)' /\ ~Meet(t, s)'
  BY <1>1 DEF DeployOK, Meet, Job, Rescuing
<1> QED BY <1>1, <1>2, DeployQuiet

LEMMA DeployCheckout ==
    ASSUME IInv, LoopInv, DeployInv, NEW p \in Purchase,
           OpenCheckout(p) \/ CompleteCheckout(p)
    PROVE  DeployInv'
<1>1. task' = task /\ \A t \in Task : LoopOK(t) /\ DeployOK(t)
  BY DEF OpenCheckout, CompleteCheckout, LoopInv, DeployInv
<1>2. \A r, s \in Task : ~Meet(r, s)'
  BY <1>1 DEF DeployInv, Meet
<1>3. /\ row[p].status \in {"none", "authorizing"}
      /\ row'[p].status = "authorizing"
      /\ \A q \in Purchase : q # p => row'[q] = row[q] /\ hold'[q] = hold[q]
      /\ hold'[p] \in {"none", "held"} \/ (hold'[p] = hold[p] /\ row[p].status = "none")
  <2>1. CASE OpenCheckout(p)
    BY <2>1, StatusIs, Types DEF OpenCheckout
  <2>2. CASE CompleteCheckout(p)
    <3>1. /\ row[p].status = "authorizing" /\ row'[p] = row[p]
          /\ \A q \in Purchase : row'[q] = row[q]
      BY <2>2 DEF CompleteCheckout
    <3>2. hold'[p] = "held" /\ \A q \in Purchase : q # p => hold'[q] = hold[q]
      BY <2>2, Types DEF CompleteCheckout
    <3> QED BY <3>1, <3>2
  <2> QED BY <2>1, <2>2
<1>4. ASSUME NEW t \in Task PROVE DeployOK(t)'
  <2>1. CASE task[t].pc \notin Job \cup Rescuing
    BY <1>1, <2>1 DEF DeployOK, Job, Rescuing
  <2>2. CASE task[t].pc \in Job \cup Rescuing
    <3>1. task[t].p \in Purchase /\ row[task[t].p].status \in Running
      BY <1>1, <2>2 DEF LoopOK, IInv, TaskOK, Job, Rescuing
    <3>2. task[t].p # p
      BY <1>3, <3>1 DEF Running, Settled
    <3> QED BY <1>1, <1>3, <3>1, <3>2 DEF DeployOK
  <2> QED BY <2>1, <2>2
<1>5. ASSUME NEW q \in Paid PROVE HoldOK(q)'
  <2>1. HoldOK(q) /\ q \in Purchase
    BY PurchaseAssumption DEF DeployInv
  <2>2. CASE q = p
    BY <1>3, <2>1, <2>2 DEF HoldOK
  <2>3. CASE q # p
    BY <1>1, <1>3, <2>1, <2>3 DEF HoldOK
  <2> QED BY <2>2, <2>3
<1> QED BY <1>2, <1>4, <1>5 DEF DeployInv

LEMMA DeployLoad ==
    ASSUME ~SlowRuns, IInv, LoopInv, DeployInv, NEW t \in Task, NEW p \in Purchase,
           \/ AuthorizeLoad(t, p) \/ StartLoad(t, p) \/ PostLoad(t, p)
           \/ RescueLoad(t, p) \/ RefineLoad(t, p)
    PROVE  DeployInv'
<1>1. PICK pc \in {"authorize", "start", "post", "rescue", "refine"},
           outcome \in {"none", "failed"} :
        /\ Begin(t, p, pc, outcome)
        /\ pc = "rescue" => row[p].status = "generating" /\ JobOf(p) = {}
  BY DEF AuthorizeLoad, StartLoad, PostLoad, RescueLoad, RefineLoad
<1>2. /\ task'[t] = [pc |-> pc, p |-> p, outcome |-> outcome,
                     free |-> free, count |-> row[p].count]
      /\ task[t].pc = "idle" /\ UNCHANGED <<row, hold, free>>
      /\ \A s \in Task \ {t} : task'[s] = task[s]
  <2>1. Begin(t, p, pc, outcome)
    BY <1>1
  <2> QED BY <2>1, BeginIs, Types
<1>3. task'[t].pc = pc /\ task'[t].p = p
  BY <1>2
<1>4. DeployOK(t)'
  BY <1>1, <1>2, <1>3 DEF DeployOK, Job, Rescuing
<1>5. ASSUME NEW s \in Task \ {t} PROVE ~Meet(s, t)' /\ ~Meet(t, s)'
  <2>1. pc = "rescue" => ~(task[s].pc \in Job /\ task[s].p = p)
    BY <1>1 DEF JobOf
  <2> QED BY <1>2, <1>3, <2>1 DEF Meet, Job, Rescuing
<1> QED BY <1>2, <1>4, <1>5, DeployQuiet DEF Committing


\* A purchase that was not dispatched yet has neither a job nor a rescue.
LEMMA NotDispatched ==
    ASSUME LoopInv, NEW s \in Task, task[s].pc \in Job \cup Rescuing
    PROVE  row[task[s].p].status \in Running
BY DEF LoopInv, LoopOK, Rescuing

LEMMA DeployOther ==
    ASSUME Overlap # "any", ~Faults, IInv, LoopInv, DeployInv, NEW t \in Task,
           OtherStep(t) \/ Die(t)
    PROVE  DeployInv'
<1>o. PICK p \in Purchase : p = task[t].p /\ p = Of(t)
  BY DEF OtherStep, Authorize, StartFree, RefineEnds, RefineCommit, Die, At, IInv, TaskOK, Of
<1>1. TaskOK(t) /\ LoopOK(t) /\ (p \in Paid => HoldOK(p))
  BY DEF IInv, LoopInv, DeployInv
<1>2. CASE Authorize(t) \/ (StartFree(t) /\ SetStatus(p, "authorized"))
  <2>1. /\ task[t].pc \in {"authorize", "start"} /\ Finish(t) /\ SetStatus(p, "authorized")
        /\ UNCHANGED hold
    BY <1>o, <1>2 DEF Authorize, StartFree, At
  <2>2. row[p].status \in {"none", "authorizing"} /\ (p \in Paid => hold[p] = "held")
    BY <1>o, <1>1, <2>1 DEF LoopOK, TaskOK, HoldOK
  <2>3. row'[p].status = "authorized" /\ \A q \in Purchase : q # p => row'[q] = row[q]
    BY <2>1, StatusIs, Types
  <2>4. p \in Paid => HoldOK(p)'
    BY <2>1, <2>2, <2>3 DEF HoldOK
  <2>5. task'[t].pc = "idle" /\ \A s \in Task \ {t} : task'[s] = task[s]
    BY <2>1, FinishIs, Types
  <2>6. DeployOK(t)' /\ \A s \in Task \ {t} : ~Meet(s, t)' /\ ~Meet(t, s)'
    BY <2>5 DEF DeployOK, Meet, Job, Rescuing
  <2>7. \A s \in Task : task[s].p = p => task[s].pc \notin Job \cup Rescuing
    BY <2>2, NotDispatched DEF Running, Settled
  <2>8. task[t].pc \notin Committing
    BY <2>1 DEF Committing
  <2> QED BY <2>1, <2>3, <2>4, <2>5, <2>6, <2>7, <2>8, DeployStep
<1>3. CASE StartFree(t) /\ UNCHANGED row
  BY <1>3, DeployEnds DEF StartFree, At, Committing
<1>4. CASE RefineEnds(t)
  <2>1. /\ task[t].pc = "refine" /\ UNCHANGED <<row, hold>>
        /\ task' = [task EXCEPT ![t].pc = "refined", ![t].count = row[p].count]
    BY <1>o, <1>4 DEF RefineEnds, At
  <2>2. task[t] \in TaskState
    BY Types
  <2>3. task'[t].pc = "refined" /\ \A s \in Task \ {t} : task'[s] = task[s]
    BY <2>1, <2>2, Types DEF TaskState
  <2>4. DeployOK(t)' /\ \A s \in Task \ {t} : ~Meet(s, t)' /\ ~Meet(t, s)'
    BY <2>3 DEF DeployOK, Meet, Job, Rescuing
  <2> QED BY <2>1, <2>3, <2>4, DeployQuiet DEF Committing
<1>5. CASE RefineCommit(t)
  <2>1. /\ task[t].pc = "refined" /\ Finish(t) /\ UNCHANGED hold
        /\ row' = [row EXCEPT ![p] = [row[p] EXCEPT !.count = task[t].count + 1]]
    BY <1>o, <1>5, Types DEF RefineCommit, At
  <2>2. row[p] \in Row
    BY Types
  <2>3. \A q \in Purchase : row'[q].status = row[q].status
    BY <2>1, <2>2, Types DEF Row
  <2> QED BY <2>1, <2>3, DeployEnds DEF Committing
<1>6. CASE Die(t)
  BY <1>6, DeployEnds DEF Die, Committing
<1> QED BY <1>o, <1>2, <1>3, <1>4, <1>5, <1>6 DEF OtherStep, StartFree

LEMMA DeployJob ==
    ASSUME Overlap # "any", ~Faults, IInv, LoopInv, DeployInv, NEW t \in Task, JobStep(t)
    PROVE  DeployInv'
<1>o. PICK p \in Purchase : p = task[t].p /\ p = Of(t)
  BY DEF JobStep, PostRun, JobStart, TurnEnds, CommitFails, Fail, At, IInv, TaskOK, Of
<1>1. LoopOK(t) /\ DeployOK(t) /\ (p \in Paid => HoldOK(p))
  BY DEF LoopInv, DeployInv
<1>2. CASE PostRun(t)
  <2>1. /\ task[t].pc = "post" /\ SetStatus(p, "generating") /\ Goto(t, "queued")
        /\ UNCHANGED hold
    BY <1>o, <1>2 DEF PostRun, At
  <2>2. /\ task'[t].pc = "queued" /\ task'[t].p = p
        /\ \A s \in Task \ {t} : task'[s] = task[s]
    BY <1>o, <2>1, GotoIs, Types
  <2>3. row[p].status = "authorized"
    BY <1>o, <1>1, <2>1 DEF LoopOK
  <2>4. row'[p].status = "generating" /\ \A q \in Purchase : q # p => row'[q] = row[q]
    BY <2>1, StatusIs, Types
  <2>5. p \in Paid => HoldOK(p)'
    BY <1>1, <2>1, <2>3, <2>4 DEF HoldOK
  <2>6. \A s \in Task : task[s].p = p => task[s].pc \notin Job \cup Rescuing
    BY <2>3, NotDispatched DEF Running, Settled
  <2>7. DeployOK(t)'
    BY <2>2, <2>4 DEF DeployOK, Rescuing
  <2>8. \A s \in Task \ {t} : ~Meet(s, t)' /\ ~Meet(t, s)'
    BY <2>2, <2>6 DEF Meet, Rescuing
  <2>9. task[t].pc \notin Committing
    BY <2>1 DEF Committing
  <2> QED BY <2>1, <2>2, <2>4, <2>5, <2>6, <2>7, <2>8, <2>9, DeployStep
<1>3. ASSUME NEW pc \in {"turn", "settle"}, task'[t].pc = pc, task'[t].p = p,
             task[t].pc \in {"queued", "turn"}, UNCHANGED <<row, hold>>,
             \A s \in Task \ {t} : task'[s] = task[s]
      PROVE  DeployInv'
  <2>1. DeployOK(t)'
    BY <1>o, <1>1, <1>3 DEF DeployOK, Job, Rescuing
  <2>2. ASSUME NEW s \in Task \ {t} PROVE ~Meet(s, t)' /\ ~Meet(t, s)'
    <3>1. ~Meet(t, s) /\ task'[s] = task[s]
      BY <1>3 DEF DeployInv
    <3>2. ~(task[s].pc \in Rescuing /\ task[s].p = p)
      BY <1>o, <1>3, <3>1 DEF Meet, Job
    <3>3. task'[t].pc \notin Rescuing
      BY <1>3 DEF Rescuing
    <3> QED BY <1>3, <3>1, <3>2, <3>3 DEF Meet
  <2> QED BY <1>3, <2>1, <2>2, DeployQuiet DEF Committing
<1>4. CASE JobStart(t)
  <2>1. task[t].pc = "queued" /\ UNCHANGED <<row, hold>> /\ (Goto(t, "turn") \/ Finish(t))
    BY <1>4 DEF JobStart, At
  <2>2. CASE Goto(t, "turn")
    <3>1. /\ task'[t].pc = "turn" /\ task'[t].p = p
          /\ \A s \in Task \ {t} : task'[s] = task[s]
      BY <1>o, <2>2, GotoIs, Types
    <3> QED BY <1>3, <2>1, <3>1
  <2> QED BY <2>1, <2>2, DeployEnds DEF Committing
<1>5. ASSUME NEW outcome \in Settled, TurnEnds(t, outcome) PROVE DeployInv'
  <2>1. task[t].pc = "turn" /\ UNCHANGED <<row, hold>>
    BY <1>5 DEF TurnEnds, At
  <2>2. CASE task' = [task EXCEPT ![t].pc = "settle", ![t].outcome = outcome, ![t].free = free]
    <3>1. task[t] \in TaskState
      BY Types
    <3>2. /\ task'[t].pc = "settle" /\ task'[t].p = p
          /\ \A s \in Task \ {t} : task'[s] = task[s]
      BY <1>o, <2>2, <3>1, Types DEF TaskState
    <3> QED BY <1>3, <2>1, <3>2
  <2>3. CASE Finish(t)
    BY <2>1, <2>3, DeployEnds DEF Committing
  <2> QED BY <1>5, <2>2, <2>3 DEF TurnEnds
<1>6. CASE CommitFails(t) \/ Fail(t)
  BY <1>1, <1>6 DEF CommitFails, Fail, DeployOK, At, Job
<1> QED BY <1>2, <1>4, <1>5, <1>6 DEF JobStep


LEMMA DeploySettling ==
    ASSUME Overlap # "any", ~Faults, IInv, LoopInv, DeployInv, NEW t \in Task, Settling(t)
    PROVE  DeployInv'
<1>o. PICK p \in Purchase : p = task[t].p /\ p = Of(t)
  BY DEF Settling, Capture, Cancel, Commit, SettleFree, At, IInv, TaskOK, Of
<1>1. TaskOK(t) /\ DeployOK(t) /\ (p \in Paid => HoldOK(p))
  BY DEF IInv, DeployInv
<1>2. /\ task[t].pc \in {"settle", "commit"} \cup Rescuing
      /\ task[t].pc \in {"settle", "commit"} => task[t].pc \in Job
  BY DEF Settling, Capture, Cancel, Commit, SettleFree, At, Job, Rescuing
\* Whoever else the purchase has: only rescues, if this is one.
<1>3. ASSUME NEW s \in Task \ {t}, task[s].p = p, task[s].pc \in Job \cup Rescuing
      PROVE  task[s].pc \in Rescuing /\ task[t].pc \in Rescuing
  BY <1>o, <1>2, <1>3 DEF LoopInv, DeployInv, Clash, Meet
<1>4. CASE task[t].pc \in Job /\ (Capture(t) \/ Cancel(t))
  <2>1. task[t].pc = "settle" /\ p \in Paid /\ UNCHANGED row
    BY <1>o, <1>4 DEF Capture, Cancel, At, Job
  <2>2. row[p].status = "generating" /\ hold[p] = "held"
    <3>1. row[p].status = "generating"
      BY <1>o, <1>1, <1>4 DEF DeployOK
    <3>2. ~ \E s \in Task : task[s].pc \in Committing /\ task[s].p = p
      BY <1>3, <2>1 DEF Committing, Job, Rescuing
    <3> QED BY <1>1, <2>1, <3>1, <3>2 DEF HoldOK
  <2>3. PICK h \in {"captured", "released"} :
            /\ hold' = [hold EXCEPT ![p] = h] /\ Goto(t, "commit")
            /\ task[t].outcome = "captured" <=> h = "captured"
    BY <1>o, <1>4, <2>1, <2>2 DEF Capture, Cancel, At
  <2>4. /\ task'[t].pc = "commit" /\ task'[t].p = p /\ task'[t].outcome = task[t].outcome
        /\ \A s \in Task \ {t} : task'[s] = task[s]
    BY <1>o, <2>3, GotoIs, Types
  <2>5. hold'[p] = h /\ \A q \in Purchase : q # p => hold'[q] = hold[q]
    BY <2>3, Types
  <2>6. DeployOK(t)'
    BY <2>1, <2>2, <2>3, <2>4, <2>5 DEF DeployOK, Rescuing
  <2>7. HoldOK(p)'
    <3>1. \E s \in Task : task'[s].pc \in Committing /\ task'[s].p = p
      BY <2>4 DEF Committing
    <3>2. row'[p].status = "generating"
      BY <2>1, <2>2
    <3> QED BY <3>1, <3>2 DEF HoldOK
  <2>8. ASSUME NEW s \in Task \ {t} PROVE ~Meet(s, t)' /\ ~Meet(t, s)'
    <3>1. ~(task[s].pc \in Rescuing /\ task[s].p = p)
      BY <1>3, <2>1 DEF Rescuing
    <3> QED BY <2>4, <3>1 DEF Meet, Rescuing
  <2>9. \A s \in Task \ {t} : task[s].p = p => task[s].pc \notin Job \cup Rescuing
    BY <1>3, <2>1 DEF Rescuing
  <2>10. task[t].pc \notin Committing
    BY <2>1 DEF Committing
  <2> QED BY <2>1, <2>4, <2>5, <2>6, <2>7, <2>8, <2>9, <2>10, DeployStep
<1>5. CASE task[t].pc \in Rescuing /\ (Capture(t) \/ Cancel(t))
  <2>1. /\ task[t].pc = "rescue" /\ p \in Paid /\ UNCHANGED row /\ Goto(t, "rescued")
        /\ row[p].status \in {"generating", "failed"}
    BY <1>o, <1>1, <1>5 DEF Capture, Cancel, At, Rescuing, DeployOK
  <2>2. hold[p] \in {"held", "released"}
    <3>1. ASSUME NEW s \in Task, task[s].pc \in Committing, task[s].p = p
          PROVE  hold[p] = "released"
      <4>1. task[s].pc = "rescued"
        BY <1>3, <2>1, <3>1 DEF Committing, Job, Rescuing
      <4> QED BY <3>1, <4>1 DEF DeployInv, DeployOK
    <3> QED BY <1>1, <2>1, <3>1 DEF HoldOK
  <2>3. hold' = [hold EXCEPT ![p] = "released"] \/ (hold' = hold /\ hold[p] = "released")
    BY <1>o, <1>5, <2>1, <2>2 DEF Capture, Cancel, At
  <2>4. hold'[p] = "released" /\ \A q \in Purchase : q # p => hold'[q] = hold[q]
    BY <2>3, Types
  <2>5. /\ task'[t].pc = "rescued" /\ task'[t].p = p
        /\ \A s \in Task \ {t} : task'[s] = task[s]
    BY <1>o, <2>1, GotoIs, Types
  <2>6. DeployOK(t)'
    BY <2>1, <2>4, <2>5 DEF DeployOK, Job, Rescuing
  <2>7. HoldOK(p)'
    <3>1. \E s \in Task : task'[s].pc \in Committing /\ task'[s].p = p
      BY <2>5 DEF Committing
    <3>2. row'[p].status \in {"generating", "failed"}
      BY <2>1
    <3> QED BY <2>4, <3>1, <3>2 DEF HoldOK
  <2>8. ASSUME NEW s \in Task \ {t} PROVE ~Meet(s, t)' /\ ~Meet(t, s)'
    <3>1. ~(task[s].pc \in Job /\ task[s].p = p)
      BY <1>3 DEF Job, Rescuing
    <3> QED BY <2>5, <3>1 DEF Meet, Job
  <2>9. ASSUME NEW s \in Task \ {t}, task[s].p = p, task[s].pc \in Job \cup Rescuing
        PROVE  DeployOK(s)'
    <3>1. task[s].pc \in Rescuing /\ DeployOK(s) /\ task'[s] = task[s]
      BY <1>3, <2>5, <2>9 DEF DeployInv
    <3> QED BY <2>1, <2>4, <2>9, <3>1 DEF DeployOK, Job, Rescuing
  <2>10. task[t].pc \notin Committing
    BY <2>1 DEF Committing
  <2> QED BY <2>1, <2>4, <2>5, <2>6, <2>7, <2>8, <2>9, <2>10, DeployStep
<1>6. CASE Commit(t) \/ SettleFree(t)
  <2>1. /\ Settle(p, task[t].outcome) /\ Finish(t) /\ UNCHANGED hold
        /\ task[t].outcome \in Settled
        /\ task[t].pc \in Rescuing => task[t].outcome = "failed"
    BY <1>o, <1>1, <1>6 DEF Commit, SettleFree, TaskOK, Deciding, Rescuing
  <2>2. p \in Paid => IF task[t].outcome = "captured" THEN hold[p] = "captured"
                                                      ELSE hold[p] = "released"
    BY <1>o, <1>1, <1>6, <2>1 DEF Commit, SettleFree, DeployOK, Rescuing
  <2>3. /\ row'[p].status = task[t].outcome
        /\ \A q \in Purchase : q # p => row'[q] = row[q]
    BY <2>1, SettleIs, Types
  <2>4. task'[t].pc = "idle" /\ \A s \in Task \ {t} : task'[s] = task[s]
    BY <2>1, FinishIs, Types
  <2>5. p \in Paid => HoldOK(p)'
    BY <2>1, <2>2, <2>3 DEF HoldOK, Settled
  <2>6. DeployOK(t)' /\ \A s \in Task \ {t} : ~Meet(s, t)' /\ ~Meet(t, s)'
    BY <2>4 DEF DeployOK, Meet, Job, Rescuing
  <2>7. ASSUME NEW s \in Task \ {t}, task[s].p = p, task[s].pc \in Job \cup Rescuing
        PROVE  DeployOK(s)'
    <3>1. task[s].pc \in Rescuing /\ DeployOK(s) /\ task'[s] = task[s]
      BY <1>3, <2>4, <2>7 DEF DeployInv
    <3>2. row'[p].status = "failed" /\ hold'[p] = hold[p]
      BY <1>3, <2>1, <2>3, <2>7
    <3> QED BY <2>7, <3>1, <3>2 DEF DeployOK, Job, Rescuing
  <2> QED BY <1>o, <2>1, <2>3, <2>4, <2>5, <2>6, <2>7, DeployStep
<1> QED BY <1>2, <1>4, <1>5, <1>6 DEF Settling

LEMMA DeployNext ==
    ASSUME Overlap # "any", ~Faults, ~SlowRuns
    PROVE  IInv /\ LoopInv /\ DeployInv /\ [Next]_vars => DeployInv'
<1> SUFFICES ASSUME IInv, LoopInv, DeployInv, [Next]_vars PROVE DeployInv'
  OBVIOUS
<1>1. CASE \E p \in Purchase : OpenCheckout(p) \/ CompleteCheckout(p)
  BY <1>1, DeployCheckout
<1>2. ASSUME NEW t \in Task, JobStep(t) PROVE DeployInv'
  BY <1>2, DeployJob
<1>3. ASSUME NEW t \in Task, Settling(t) PROVE DeployInv'
  BY <1>3, DeploySettling
<1>4. ASSUME NEW t \in Task, OtherStep(t) \/ Die(t) PROVE DeployInv'
  BY <1>4, DeployOther
<1>5. ASSUME NEW t \in Task, NEW p \in Purchase,
             \/ AuthorizeLoad(t, p) \/ StartLoad(t, p) \/ PostLoad(t, p)
             \/ RescueLoad(t, p) \/ RefineLoad(t, p)
      PROVE  DeployInv'
  BY <1>5, DeployLoad
<1>6. CASE UNCHANGED vars
  BY <1>6 DEF vars, DeployInv, DeployOK, HoldOK, Meet
<1> QED BY <1>1, <1>2, <1>3, <1>4, <1>5, <1>6 DEF Next

\* While no run outlasts the cutoff, a rescue finds a purchase whose job is gone,
\* and what several rescues do is what the first one did.
THEOREM DeployInvariance ==
    ASSUME Overlap # "any", ~Faults, ~SlowRuns PROVE Spec => []DeployInv
<1>1. Init => DeployInv
  <2> SUFFICES ASSUME Init PROVE DeployInv
    OBVIOUS
  <2>1. \A t \in Task : task[t].pc = "idle"
    BY DEF Init, Idle
  <2>2. \A p \in Paid : row[p].status = "none" /\ hold[p] = "none"
    BY PurchaseAssumption DEF Init
  <2> QED BY <2>1, <2>2 DEF DeployInv, DeployOK, Meet, HoldOK, Job, Rescuing
<1>2. IInv /\ LoopInv /\ DeployInv /\ [Next]_vars => DeployInv'
  BY DeployNext
<1> QED BY <1>1, <1>2, Invariance, LoopInvariance, PTL DEF Spec

\* In one process without faults, a question that failed or was voided has its card
\* hold released: the thread pool may rescue at any moment and from many polls.
THEOREM HoldsSettledDeployed ==
    ASSUME Overlap # "any", ~Faults, ~SlowRuns PROVE Spec => []SettledMatchesHold
<1>1. DeployInv => SettledMatchesHold
  BY DEF DeployInv, HoldOK, SettledMatchesHold
<1> QED BY <1>1, DeployInvariance, PTL

\* And what a purchase was settled as stays, although nothing locks the row.
THEOREM SettlementIsFinalDeployed ==
    ASSUME Overlap # "any", ~Faults, ~SlowRuns PROVE Spec => SettledIsFinal
<1>1. ASSUME IInv, LoopInv, DeployInv, [Next]_vars PROVE Final
  <2>1. ASSUME NEW t \in Task
        PROVE  /\ task[t].pc # "failing"
               /\ task[t].pc \in {"settle", "rescue"} \cup Committing
                    => row[task[t].p].status \notin Settled \ {task[t].outcome}
    <3>1. DeployOK(t) /\ TaskOK(t)
      BY <1>1 DEF DeployInv, IInv
    <3>2. task[t].pc # "failing"
      BY <3>1 DEF DeployOK, Job
    <3>3. CASE task[t].pc \in {"settle", "commit"}
      BY <3>1, <3>3 DEF DeployOK, Job, Settled
    <3>4. CASE task[t].pc \in Rescuing
      BY <3>1, <3>4 DEF DeployOK, TaskOK, Rescuing, Settled
    <3> QED BY <3>2, <3>3, <3>4 DEF Committing, Rescuing
  <2> QED BY <1>1, <2>1, FinalStep
<1>2. IInv /\ LoopInv /\ DeployInv /\ [Next]_vars => [Final]_vars
  BY <1>1
<1>3. Spec => []LoopInv
  BY LoopInvariance
<1>4. Spec => []DeployInv
  BY DeployInvariance
<1>5. Spec => [][Final]_vars
  BY <1>2, <1>3, <1>4, Invariance, PTL DEF Spec
<1> QED BY <1>5 DEF SettledIsFinal, Final


-----------------------------------------------------------------------------
(* The handlers implement AnswerSale.  What the two settings above have in *)
(* common is what a card settlement relies on (CardOK); from it, each step *)
(* is one move of a sale, or none.                                         *)

CardOK(t) ==
    /\ task[t].pc # "failing"
    /\ task[t].pc = "settle" /\ task[t].p \in Paid =>
        row[task[t].p].status = "generating" /\ hold[task[t].p] = "held"
    /\ task[t].pc = "commit" =>
        /\ row[task[t].p].status = "generating" /\ task[t].p \in Paid
        /\ task[t].outcome = "captured" => hold[task[t].p] = "captured"
        /\ task[t].outcome # "captured" => hold[task[t].p] = "released"
    /\ task[t].pc = "rescue" /\ task[t].p \in Paid =>
        \/ row[task[t].p].status = "generating" /\ hold[task[t].p] \in {"held", "released"}
        \/ row[task[t].p].status = "failed" /\ hold[task[t].p] = "released"
    /\ task[t].pc = "rescued" =>
        /\ row[task[t].p].status \in {"generating", "failed"} /\ task[t].p \in Paid
        /\ hold[task[t].p] = "released"

CardInv == (\A t \in Task : CardOK(t)) /\ \A p \in Paid : HoldOK(p)

LEMMA SerialCard == ASSUME IInv, SerialInv PROVE CardInv
<1>1. ASSUME NEW t \in Task PROVE CardOK(t)
  <2>1. SerialOK(t) /\ (task[t].pc = "rescued" => task[t].outcome = "failed")
    BY DEF SerialInv, IInv, TaskOK
  <2>2. task[t].pc \in {"settle", "rescue"} /\ task[t].p \in Paid => hold[task[t].p] = "held"
    BY HeldWhenSettling
  <2> QED BY <2>1, <2>2 DEF CardOK, SerialOK, Committing
<1> QED BY <1>1 DEF CardInv, SerialInv

LEMMA DeployCard == ASSUME LoopInv, DeployInv PROVE CardInv
<1>1. ASSUME NEW t \in Task PROVE CardOK(t)
  <2>1. DeployOK(t)
    BY DEF DeployInv
  <2>2. CASE task[t].pc = "settle" /\ task[t].p \in Paid
    <3>1. row[task[t].p].status = "generating" /\ HoldOK(task[t].p)
      BY <2>1, <2>2 DEF DeployOK, Job, DeployInv
    <3>2. ~ \E s \in Task : task[s].pc \in Committing /\ task[s].p = task[t].p
      BY <2>2 DEF DeployInv, LoopInv, Clash, Meet, Committing, Job, Rescuing
    <3>3. hold[task[t].p] = "held"
      BY <3>1, <3>2 DEF HoldOK
    <3> QED BY <2>2, <3>1, <3>3 DEF CardOK
  <2>3. CASE task[t].pc = "rescue" /\ task[t].p \in Paid
    <3>1. row[task[t].p].status \in {"generating", "failed"} /\ HoldOK(task[t].p)
      BY <2>1, <2>3 DEF DeployOK, Rescuing, DeployInv
    <3>2. ASSUME NEW s \in Task, task[s].pc \in Committing, task[s].p = task[t].p
          PROVE  hold[task[t].p] = "released"
      BY <2>3, <3>2 DEF DeployInv, DeployOK, Meet, Committing, Job, Rescuing
    <3>3. hold[task[t].p] \in {"held", "released"}
      BY <3>1, <3>2 DEF HoldOK
    <3>4. row[task[t].p].status = "failed" => hold[task[t].p] = "released"
      BY <3>1 DEF HoldOK
    <3> QED BY <2>3, <3>1, <3>3, <3>4 DEF CardOK
  <2>4. CASE task[t].pc \in {"commit", "rescued"}
    BY <2>1, <2>4 DEF CardOK, DeployOK, Job, Rescuing
  <2>5. task[t].pc # "failing"
    BY <2>1 DEF DeployOK, Job
  <2> QED BY <2>2, <2>3, <2>4, <2>5 DEF CardOK
<1> QED BY <1>1 DEF CardInv, DeployInv

Staged(p) == Stage(row[p].status)

\* A step that leaves every purchase but p, and the counter, where they were.
OnlyOf(p) ==
    \A q \in Purchase : q # p => Staged(q)' = Staged(q) /\ hold'[q] = hold[q]

\* The moves of a sale by card, as AnswerSale has them.
CardMove(p) ==
    /\ OnlyOf(p) /\ UNCHANGED free
    /\ \/ /\ Staged(p) = "open" /\ Staged(p)' = "open"
          /\ hold[p] = "none" /\ hold'[p] = "held"
       \/ /\ Staged(p) = "open" /\ Staged(p)' = "reserved"
          /\ hold[p] = "held" /\ hold'[p] = "held"
       \/ /\ Staged(p) = "reserved" /\ Staged(p)' = "reserved"
          /\ hold[p] = "held" /\ hold'[p] \in {"captured", "released"}
       \/ /\ Staged(p) = "reserved" /\ Staged(p)' = "delivered"
          /\ hold[p] = "captured" /\ hold'[p] = "captured"
       \/ /\ Staged(p) = "reserved" /\ Staged(p)' = "released"
          /\ hold[p] = "released" /\ hold'[p] = "released"

NoMove == UNCHANGED <<hold, free>> /\ \A q \in Purchase : Staged(q)' = Staged(q)

\* A write of the free-credit path about purchase p.
FreeWrite(p) ==
    /\ OnlyOf(p) /\ UNCHANGED hold
    /\ \E t \in Task : task[t].p = p /\ (StartFree(t) \/ SettleFree(t))

LEMMA StageIs ==
    /\ \A s \in {"none", "authorizing"} : Stage(s) = "open"
    /\ \A s \in {"authorized", "generating"} : Stage(s) = "reserved"
    /\ Stage("captured") = "delivered"
    /\ \A s \in {"voided", "failed"} : Stage(s) = "released"
BY DEF Stage

\* A step that leaves every row its status.
LEMMA SameStages ==
    ASSUME UNCHANGED <<hold, free>>, \A q \in Purchase : row'[q].status = row[q].status
    PROVE  NoMove
BY DEF NoMove, Staged

LEMMA MoveCheckout ==
    ASSUME IInv, LoopInv, NEW p \in Purchase, OpenCheckout(p) \/ CompleteCheckout(p)
    PROVE  NoMove \/ \E q \in Paid : CardMove(q)
<1>1. CASE OpenCheckout(p)
  <2>1. /\ row[p].status = "none" /\ row'[p].status = "authorizing"
        /\ \A q \in Purchase : q # p => row'[q] = row[q]
        /\ UNCHANGED <<hold, free>>
    BY <1>1, StatusIs, Types DEF OpenCheckout
  <2> QED BY <2>1, StageIs DEF NoMove, Staged
<1>2. CASE CompleteCheckout(p)
  <2>1. /\ row[p].status = "authorizing" /\ row' = row /\ free' = free /\ hold[p] = "none"
        /\ hold'[p] = "held" /\ \A q \in Purchase : q # p => hold'[q] = hold[q]
    BY <1>2, Types DEF CompleteCheckout
  <2>2. p \in Paid
    BY <2>1 DEF LoopInv
  <2>3. Staged(p) = "open" /\ Staged(p)' = "open" /\ OnlyOf(p)
    BY <2>1, StageIs DEF Staged, OnlyOf
  <2> QED BY <2>1, <2>2, <2>3 DEF CardMove
<1> QED BY <1>1, <1>2

LEMMA MoveOther ==
    ASSUME ~Faults, IInv, LoopInv, CardInv, NEW t \in Task, OtherStep(t) \/ Die(t)
    PROVE  NoMove \/ (\E p \in Paid : CardMove(p)) \/ \E p \in Purchase \ Paid : FreeWrite(p)
<1>o. PICK p \in Purchase : p = task[t].p /\ p = Of(t)
  BY DEF OtherStep, Authorize, StartFree, RefineEnds, RefineCommit, Die, At, IInv, TaskOK, Of
<1>1. TaskOK(t) /\ LoopOK(t) /\ (p \in Paid => HoldOK(p))
  BY DEF IInv, LoopInv, CardInv
<1>2. CASE Authorize(t)
  <2>1. /\ task[t].pc = "authorize" /\ SetStatus(p, "authorized") /\ UNCHANGED <<hold, free>>
    BY <1>o, <1>2 DEF Authorize, At
  <2>2. row[p].status = "authorizing" /\ p \in Paid /\ hold[p] = "held"
    BY <1>o, <1>1, <2>1 DEF LoopOK, TaskOK, HoldOK
  <2>3. row'[p].status = "authorized" /\ \A q \in Purchase : q # p => row'[q] = row[q]
    BY <2>1, StatusIs, Types
  <2>4. Staged(p) = "open" /\ Staged(p)' = "reserved" /\ OnlyOf(p)
    BY <2>1, <2>2, <2>3, StageIs DEF Staged, OnlyOf
  <2> QED BY <2>1, <2>2, <2>4 DEF CardMove
<1>3. CASE StartFree(t)
  <2>1. /\ task[t].pc = "start" /\ UNCHANGED hold
        /\ UNCHANGED row \/ SetStatus(p, "authorized")
    BY <1>o, <1>3 DEF StartFree, At
  <2>2. p \notin Paid
    BY <1>o, <1>1, <2>1 DEF LoopOK
  <2>3. \A q \in Purchase : q # p => row'[q] = row[q]
    BY <2>1, StatusIs, Types
  <2> QED BY <1>o, <1>3, <2>1, <2>2, <2>3 DEF FreeWrite, OnlyOf, Staged
<1>4. CASE RefineEnds(t) \/ Die(t)
  BY <1>4, SameStages DEF RefineEnds, Die
<1>5. CASE RefineCommit(t)
  <2>1. /\ UNCHANGED <<hold, free>>
        /\ row' = [row EXCEPT ![p] = [row[p] EXCEPT !.count = task[t].count + 1]]
    BY <1>o, <1>5, Types DEF RefineCommit
  <2>2. row[p] \in Row
    BY Types
  <2>3. \A q \in Purchase : row'[q].status = row[q].status
    BY <2>1, <2>2, Types DEF Row
  <2> QED BY <2>1, <2>3, SameStages
<1> QED BY <1>2, <1>3, <1>4, <1>5 DEF OtherStep

LEMMA MoveJob ==
    ASSUME ~Faults, IInv, LoopInv, CardInv, NEW t \in Task, JobStep(t)
    PROVE  NoMove
<1>1. CASE PostRun(t)
  <2>1. PICK p \in Purchase : p = task[t].p /\ p = Of(t)
    BY <1>1 DEF PostRun, At, IInv, TaskOK, Of
  <2>2. /\ row[p].status = "authorized" /\ SetStatus(p, "generating")
        /\ UNCHANGED <<hold, free>>
    BY <1>1, <2>1 DEF PostRun, At, LoopInv, LoopOK
  <2>3. row'[p].status = "generating" /\ \A q \in Purchase : q # p => row'[q] = row[q]
    BY <2>2, StatusIs, Types
  <2> QED BY <2>2, <2>3, StageIs DEF NoMove, Staged
<1>2. CASE JobStart(t) \/ \E outcome \in Settled : TurnEnds(t, outcome)
  BY <1>2, SameStages DEF JobStart, TurnEnds
<1>3. CASE CommitFails(t) \/ Fail(t)
  BY <1>3 DEF CommitFails, Fail, CardInv, CardOK, At
<1> QED BY <1>1, <1>2, <1>3 DEF JobStep

LEMMA MoveSettling ==
    ASSUME ~Faults, IInv, LoopInv, CardInv, NEW t \in Task, Settling(t)
    PROVE  NoMove \/ (\E p \in Paid : CardMove(p)) \/ \E p \in Purchase \ Paid : FreeWrite(p)
<1>o. PICK p \in Purchase : p = task[t].p /\ p = Of(t)
  BY DEF Settling, Capture, Cancel, Commit, SettleFree, At, IInv, TaskOK, Of
<1>1. TaskOK(t) /\ CardOK(t)
  BY DEF IInv, CardInv
<1>2. CASE Capture(t) \/ Cancel(t)
  <2>1. /\ task[t].pc \in {"settle", "rescue"} /\ p \in Paid /\ UNCHANGED <<row, free>>
        /\ row[p].status \in {"generating", "failed"} /\ hold[p] \in {"held", "released"}
        /\ hold[p] = "held" => row[p].status = "generating"
    BY <1>o, <1>1, <1>2 DEF Capture, Cancel, At, CardOK
  <2>2. CASE UNCHANGED hold
    BY <2>1, <2>2, SameStages
  <2>3. CASE hold[p] = "held" /\ \E h \in {"captured", "released"} :
                                    hold' = [hold EXCEPT ![p] = h]
    <3>1. /\ hold'[p] \in {"captured", "released"}
          /\ \A q \in Purchase : q # p => hold'[q] = hold[q]
      BY <2>3, Types
    <3>2. Staged(p) = "reserved" /\ Staged(p)' = "reserved" /\ OnlyOf(p)
      BY <2>1, <2>3, <3>1, StageIs DEF Staged, OnlyOf
    <3> QED BY <2>1, <2>3, <3>1, <3>2 DEF CardMove
  <2>4. UNCHANGED hold \/ (hold[p] = "held" /\ \E h \in {"captured", "released"} :
                                                    hold' = [hold EXCEPT ![p] = h])
    BY <1>o, <1>2 DEF Capture, Cancel
  <2> QED BY <2>2, <2>3, <2>4
<1>3. CASE Commit(t)
  <2>1. /\ task[t].pc \in {"commit", "rescued"} /\ p \in Paid
        /\ Settle(p, task[t].outcome) /\ UNCHANGED <<hold, free>>
        /\ task[t].outcome \in Settled
        /\ \/ row[p].status = "generating"
           \/ row[p].status = "failed" /\ task[t].outcome = "failed"
        /\ task[t].outcome = "captured" => hold[p] = "captured"
        /\ task[t].outcome # "captured" => hold[p] = "released"
    BY <1>o, <1>1, <1>3 DEF Commit, CardOK, TaskOK, Deciding
  <2>2. /\ row'[p].status = task[t].outcome
        /\ \A q \in Purchase : q # p => row'[q] = row[q]
    BY <2>1, SettleIs, Types
  <2>3. CASE row[p].status = "generating"
    <3>1. /\ Staged(p) = "reserved" /\ OnlyOf(p)
          /\ Staged(p)' = IF task[t].outcome = "captured" THEN "delivered" ELSE "released"
      BY <2>1, <2>2, <2>3, StageIs DEF Staged, OnlyOf, Settled
    <3> QED BY <2>1, <3>1 DEF CardMove
  <2>4. CASE row[p].status = task[t].outcome
    BY <2>1, <2>2, <2>4, SameStages
  <2> QED BY <2>1, <2>3, <2>4
<1>4. CASE SettleFree(t)
  <2>1. Settle(p, task[t].outcome) /\ UNCHANGED hold /\ p \notin Paid
    BY <1>o, <1>4 DEF SettleFree
  <2>2. \A q \in Purchase : q # p => row'[q] = row[q]
    BY <2>1, SettleIs, Types
  <2> QED BY <1>o, <1>4, <2>1, <2>2 DEF FreeWrite, OnlyOf, Staged
<1> QED BY <1>2, <1>3, <1>4 DEF Settling

\* Every step is one move of a sale, a write of the free-credit path, or none.
LEMMA Moves ==
    ASSUME ~Faults, IInv, LoopInv, CardInv, [Next]_vars
    PROVE  NoMove \/ (\E p \in Paid : CardMove(p)) \/ \E p \in Purchase \ Paid : FreeWrite(p)
<1>1. CASE \E p \in Purchase : OpenCheckout(p) \/ CompleteCheckout(p)
  BY <1>1, MoveCheckout
<1>2. ASSUME NEW t \in Task, JobStep(t) PROVE NoMove
  BY <1>2, MoveJob
<1>3. CASE \E t \in Task : Settling(t)
  BY <1>3, MoveSettling
<1>4. CASE \E t \in Task : OtherStep(t) \/ Die(t)
  BY <1>4, MoveOther
<1>5. ASSUME NEW t \in Task, NEW p \in Purchase,
             \/ AuthorizeLoad(t, p) \/ StartLoad(t, p) \/ PostLoad(t, p)
             \/ RescueLoad(t, p) \/ RefineLoad(t, p)
      PROVE  NoMove
  BY <1>5, SameStages DEF AuthorizeLoad, StartLoad, PostLoad, RescueLoad, RefineLoad, Begin
<1>6. CASE UNCHANGED vars
  BY <1>6, SameStages DEF vars
<1> QED BY <1>1, <1>2, <1>3, <1>4, <1>5, <1>6 DEF Next


\* The free-credit path, where its handlers do not overlap.
LEMMA FreeRefines ==
    ASSUME ~Faults, IInv, LoopInv, SerialInv, NEW p \in Purchase \ Paid, FreeWrite(p)
    PROVE  Sale!Next \/ UNCHANGED Sale!sale
<1>1. PICK t \in Task : task[t].p = p /\ Of(t) = p /\ (StartFree(t) \/ SettleFree(t))
  BY DEF FreeWrite, Of
<1>2. LoopOK(t) /\ SerialOK(t) /\ TaskOK(t)
  BY DEF LoopInv, SerialInv, IInv
<1>3. ASSUME NEW to, Staged(p)' = to PROVE Stages' = [Stages EXCEPT ![p] = to]
  BY <1>3 DEF Stages, Staged, FreeWrite, OnlyOf
<1>4. Stages[p] = Staged(p) /\ UNCHANGED hold
  BY DEF Stages, Staged, FreeWrite
<1>5. CASE StartFree(t)
  <2>1. task[t].free = free /\ row[p].status = "none"
    BY <1>1, <1>2, <1>5 DEF StartFree, At, LoopOK, SerialOK
  <2>2. CASE UNCHANGED <<free, row>>
    BY <1>4, <2>2 DEF Sale!sale, Stages
  <2>3. CASE free > 0 /\ free' = free - 1 /\ SetStatus(p, "authorized")
    <3>1. Staged(p)' = "reserved" /\ Staged(p) = "open"
      BY <2>1, <2>3, StatusIs, StageIs, Types DEF Staged
    <3>2. Sale!Reserve(p)
      BY <1>3, <1>4, <2>3, <3>1 DEF Sale!Reserve, Sale!Becomes
    <3> QED BY <3>2 DEF Sale!Next
  <2> QED BY <1>1, <1>5, <2>1, <2>2, <2>3 DEF StartFree
<1>6. CASE SettleFree(t)
  <2>1. /\ row[p].status = "generating" /\ Settle(p, task[t].outcome)
        /\ task[t].outcome \in Settled /\ p \notin Paid
        /\ free' = IF task[t].outcome = "captured" THEN free ELSE free + 1
    BY <1>1, <1>2, <1>6 DEF SettleFree, SerialOK, TaskOK, Deciding
  <2>2. Staged(p) = "reserved" /\ row'[p].status = task[t].outcome
    BY <2>1, SettleIs, StageIs, Types DEF Staged
  <2>3. CASE task[t].outcome = "captured"
    <3>1. Staged(p)' = "delivered" /\ free' = free
      BY <2>1, <2>2, <2>3, StageIs DEF Staged
    <3>2. Sale!Deliver(p)
      BY <1>3, <1>4, <2>1, <2>2, <3>1 DEF Sale!Deliver, Sale!Becomes
    <3> QED BY <3>2 DEF Sale!Next
  <2>4. CASE task[t].outcome # "captured"
    <3>1. Staged(p)' = "released" /\ free' = free + 1
      BY <2>1, <2>2, <2>4, StageIs DEF Staged, Settled
    <3>2. Sale!Release(p)
      BY <1>3, <1>4, <2>1, <2>2, <3>1 DEF Sale!Release, Sale!Becomes
    <3> QED BY <3>2 DEF Sale!Next
  <2> QED BY <2>3, <2>4
<1> QED BY <1>1, <1>5, <1>6

LEMMA SaleInit == Init => Sale!Init
<1> SUFFICES ASSUME Init PROVE Sale!Init
  OBVIOUS
<1>1. Stages = [p \in Purchase |-> "open"]
  BY StageIs DEF Init, Stages
<1> QED BY <1>1 DEF Init, Sale!Init

LEMMA SaleNext ==
    ASSUME ~Faults
    PROVE  IInv /\ IInv' /\ LoopInv /\ SerialInv /\ [Next]_vars
                => [Sale!Next]_(Sale!sale)
<1> SUFFICES ASSUME IInv, IInv', LoopInv, SerialInv, [Next]_vars
             PROVE  Sale!Next \/ UNCHANGED Sale!sale
  OBVIOUS
<1>1. hold \in [Purchase -> Hold] /\ hold' \in [Purchase -> Hold] /\ Paid \subseteq Purchase
  BY PurchaseAssumption DEF IInv, TypeOK
<1>2. CASE NoMove
  BY <1>2 DEF NoMove, Sale!sale, Stages, Staged
<1>3. ASSUME NEW p \in Paid, CardMove(p) PROVE Sale!Next
  <2>1. /\ Stages[p] = Staged(p) /\ Stages' = [Stages EXCEPT ![p] = Staged(p)']
        /\ hold' = [hold EXCEPT ![p] = hold'[p]] /\ free' = free
    BY <1>1, <1>3 DEF Stages, Staged, CardMove, OnlyOf
  <2>2. /\ Staged(p)' = Staged(p) => Stages' = Stages
        /\ hold'[p] = hold[p] => hold' = hold
    BY <1>1, <2>1 DEF Stages
  <2>3. Sale!Authorize(p) \/ Sale!Reserve(p) \/ Sale!Clear(p) \/ Sale!Deliver(p) \/ Sale!Release(p)
    BY <1>3, <2>1, <2>2 DEF CardMove, Sale!Authorize, Sale!Reserve, Sale!Clear,
       Sale!Deliver, Sale!Release, Sale!Becomes, Sale!Moves
  <2> QED BY <1>1, <2>3 DEF Sale!Next
<1>4. ASSUME NEW p \in Purchase \ Paid, FreeWrite(p) PROVE Sale!Next \/ UNCHANGED Sale!sale
  BY <1>4, FreeRefines
<1>5. CardInv
  BY SerialCard
<1> QED BY <1>2, <1>3, <1>4, <1>5, Moves

\* While handlers do not overlap and nothing fails between Stripe and a commit,
\* answers are sold as AnswerSale sells them, and jobs and rescues that meet only
\* repeat or skip a move.
THEOREM SaleRefined ==
    ASSUME Overlap = "none", ~Faults PROVE Spec => ImplementsSale
<1>1. IInv /\ IInv' /\ LoopInv /\ SerialInv /\ [Next]_vars => [Sale!Next]_(Sale!sale)
  BY SaleNext
<1>2. Spec => []LoopInv
  BY LoopInvariance
<1>3. Spec => []SerialInv
  BY SerialInvariance
<1> QED BY <1>1, <1>2, <1>3, SaleInit, Invariance, PTL DEF Spec, ImplementsSale, Sale!Spec


\* The card purchases alone, as sales of AnswerSale.
CardStages == [p \in Paid |-> Staged(p)]

CardHolds == [p \in Paid |-> hold[p]]

CardSale == INSTANCE AnswerSale WITH
    Purchase <- Paid, Card <- Paid, Grant <- FreeGrant,
    state <- CardStages, funds <- CardHolds, credits <- FreeGrant

LEMMA CardSaleInit == Init => CardSale!Init
<1> SUFFICES ASSUME Init PROVE CardSale!Init
  OBVIOUS
<1>1. CardStages = [p \in Paid |-> "open"] /\ CardHolds = [p \in Paid |-> "none"]
  BY StageIs, PurchaseAssumption DEF Init, CardStages, CardHolds, Staged
<1> QED BY <1>1 DEF CardSale!Init

LEMMA CardSaleNext ==
    ASSUME ~Faults
    PROVE  IInv /\ LoopInv /\ DeployInv /\ [Next]_vars => [CardSale!Next]_(CardSale!sale)
<1> SUFFICES ASSUME IInv, LoopInv, DeployInv, [Next]_vars
             PROVE  CardSale!Next \/ UNCHANGED CardSale!sale
  OBVIOUS
<1>1. Paid \subseteq Purchase
  BY PurchaseAssumption
<1>2. ASSUME \A p \in Paid : Staged(p)' = Staged(p) /\ hold'[p] = hold[p]
      PROVE  UNCHANGED CardSale!sale
  BY <1>2 DEF CardSale!sale, CardStages, CardHolds
<1>3. CASE NoMove
  BY <1>1, <1>2, <1>3 DEF NoMove
<1>4. ASSUME NEW p \in Purchase \ Paid, FreeWrite(p) PROVE UNCHANGED CardSale!sale
  BY <1>1, <1>2, <1>4 DEF FreeWrite, OnlyOf
<1>5. ASSUME NEW p \in Paid, CardMove(p) PROVE CardSale!Next
  <2>1. /\ CardStages[p] = Staged(p) /\ CardStages' = [CardStages EXCEPT ![p] = Staged(p)']
        /\ CardHolds[p] = hold[p] /\ CardHolds' = [CardHolds EXCEPT ![p] = hold'[p]]
    BY <1>1, <1>5 DEF CardStages, CardHolds, CardMove, OnlyOf
  <2>2. /\ Staged(p)' = Staged(p) => CardStages' = CardStages
        /\ hold'[p] = hold[p] => CardHolds' = CardHolds
    BY <2>1 DEF CardStages, CardHolds
  <2>3. \/ CardSale!Authorize(p) \/ CardSale!Reserve(p) \/ CardSale!Clear(p)
        \/ CardSale!Deliver(p) \/ CardSale!Release(p)
    BY <1>5, <2>1, <2>2 DEF CardMove, CardSale!Authorize, CardSale!Reserve,
       CardSale!Clear, CardSale!Deliver, CardSale!Release, CardSale!Becomes, CardSale!Moves
  <2> QED BY <2>3 DEF CardSale!Next
<1>6. CardInv
  BY DeployCard
<1> QED BY <1>3, <1>4, <1>5, <1>6, Moves

\* In the deployment the card purchases are sold so, although polls rescue them at
\* any moment from the thread pool: a second rescue is no second move.
THEOREM CardSaleRefined ==
    ASSUME Overlap # "any", ~Faults, ~SlowRuns PROVE Spec => CardSale!Spec
<1>1. IInv /\ LoopInv /\ DeployInv /\ [Next]_vars => [CardSale!Next]_(CardSale!sale)
  BY CardSaleNext
<1>2. Spec => []LoopInv
  BY LoopInvariance
<1>3. Spec => []DeployInv
  BY DeployInvariance
<1> QED BY <1>1, <1>2, <1>3, CardSaleInit, Invariance, PTL DEF Spec, CardSale!Spec


\* In the same two settings a card is charged only for an answer that is delivered,
\* or is about to be: the one commit between Stripe and the row is what can lose it.
THEOREM ChargesAreDelivered ==
    ASSUME ~Faults, Overlap = "none" \/ (Overlap = "loop" /\ ~SlowRuns)
    PROVE  Spec => []ChargedOnlyIfDelivered
<1>1. (\A p \in Paid : HoldOK(p)) => ChargedOnlyIfDelivered
  BY DEF HoldOK, ChargedOnlyIfDelivered
<1>2. CASE Overlap = "none"
  <2>1. SerialInv => ChargedOnlyIfDelivered
    BY <1>1 DEF SerialInv
  <2>2. Spec => []SerialInv
    BY <1>2, SerialInvariance
  <2> QED BY <2>1, <2>2, PTL
<1>3. CASE Overlap = "loop" /\ ~SlowRuns
  <2>1. DeployInv => ChargedOnlyIfDelivered
    BY <1>1 DEF DeployInv
  <2>2. Spec => []DeployInv
    BY <1>3, DeployInvariance
  <2> QED BY <2>1, <2>2, PTL
<1> QED BY <1>2, <1>3

-----------------------------------------------------------------------------
(* How far the cap on refinements can be overrun.  It is read before a     *)
(* turn and not again, so that the turns already admitted when it is       *)
(* reached are still served: one for each other handler there is.          *)

\* The refinements of a purchase that were admitted and not yet served.
Admitted(p) == {t \in Task : task[t].pc \in {"refine", "refined"} /\ task[t].p = p}

CapInv ==
    \A p \in Purchase :
        /\ MaxRefinements = 0 => served[p] = 0 /\ Admitted(p) = {}
        /\ \/ served[p] < MaxRefinements \/ MaxRefinements = 0
           \/ served[p] + Cardinality(Admitted(p)) <= MaxRefinements - 1 + Cardinality(Task)

\* A step that admits and serves no refinement.
LEMMA CapKept ==
    ASSUME IsFiniteSet(Task), CapInv, UNCHANGED served, IInv,
           \A t \in Task : task'[t].pc \in {"refine", "refined"} =>
                task[t].pc \in {"refine", "refined"} /\ task'[t].p = task[t].p
    PROVE  CapInv'
<1> SUFFICES ASSUME NEW p \in Purchase
             PROVE  /\ MaxRefinements = 0 => served[p] = 0 /\ Admitted(p)' = {}
                    /\ \/ served[p] < MaxRefinements \/ MaxRefinements = 0
                       \/ served[p] + Cardinality(Admitted(p)') <=
                            MaxRefinements - 1 + Cardinality(Task)
  BY DEF CapInv
<1>1. Admitted(p)' \subseteq Admitted(p) /\ Admitted(p) \subseteq Task
  BY DEF Admitted
<1>2. IsFiniteSet(Admitted(p))
  BY <1>1, FS_Subset
<1>3. /\ IsFiniteSet(Admitted(p)') /\ Cardinality(Admitted(p)') <= Cardinality(Admitted(p))
      /\ Cardinality(Admitted(p)') \in Nat /\ Cardinality(Admitted(p)) \in Nat
      /\ Cardinality(Task) \in Nat
  BY <1>1, <1>2, FS_Subset, FS_CardinalityType
<1> QED BY <1>1, <1>3, Types, PurchaseAssumption DEF CapInv

\* A task that takes no part in refining leaves the others where they are.
LEMMA CapOther ==
    ASSUME IsFiniteSet(Task), CapInv, UNCHANGED served, IInv, NEW t \in Task,
           task'[t].pc \notin {"refine", "refined"},
           \A s \in Task \ {t} : task'[s] = task[s]
    PROVE  CapInv'
BY CapKept

LEMMA CapMoves ==
    ASSUME IsFiniteSet(Task), CapInv, UNCHANGED served, IInv, NEW t \in Task,
           \/ Finish(t) \/ Raised(t)
           \/ \E pc \in {"queued", "turn", "commit", "rescued"} : Goto(t, pc)
    PROVE  CapInv'
<1>1. CASE Finish(t)
  BY <1>1, FinishIs, CapOther, Types
<1>2. ASSUME NEW pc \in {"queued", "turn", "commit", "rescued", "failing"}, Goto(t, pc)
      PROVE  CapInv'
  BY <1>2, GotoIs, CapOther, Types
<1> QED BY <1>1, <1>2 DEF Raised

LEMMA CapCommit ==
    ASSUME IsFiniteSet(Task), CapInv, IInv, NEW t \in Task, RefineCommit(t)
    PROVE  CapInv'
<1> DEFINE cap == MaxRefinements - 1 + Cardinality(Task)
<1>o. PICK p \in Purchase : p = task[t].p
  BY DEF RefineCommit, At, IInv, TaskOK
<1>1. /\ task[t].pc = "refined" /\ Finish(t)
      /\ served' = [served EXCEPT ![p] = @ + 1]
  BY <1>o DEF RefineCommit, At, Of
<1>2. /\ served[p] \in Nat /\ served'[p] = served[p] + 1
      /\ \A q \in Purchase : q # p => served'[q] = served[q]
  BY <1>1, Types
<1>3. task'[t].pc = "idle" /\ \A s \in Task \ {t} : task'[s] = task[s]
  BY <1>1, FinishIs, Types
<1>4. t \in Admitted(p) /\ Admitted(p)' = Admitted(p) \ {t} /\ Admitted(p) \subseteq Task
  BY <1>o, <1>1, <1>3 DEF Admitted
<1>5. \A q \in Purchase : q # p => Admitted(q)' = Admitted(q)
  <2>1. ASSUME NEW q \in Purchase, q # p, NEW s \in Task
        PROVE  s \in Admitted(q)' <=> s \in Admitted(q)
    BY <1>o, <1>3, <2>1 DEF Admitted
  <2> QED BY <2>1 DEF Admitted
<1>6. IsFiniteSet(Admitted(p)) /\ Cardinality(Admitted(p)) <= Cardinality(Task)
  BY <1>4, FS_Subset
<1>7. /\ Cardinality(Admitted(p) \ {t}) = Cardinality(Admitted(p)) - 1
      /\ Cardinality(Admitted(p)) \in Nat /\ Cardinality(Task) \in Nat
  BY <1>4, <1>6, FS_RemoveElement, FS_CardinalityType
<1>8. MaxRefinements # 0 /\ MaxRefinements \in Nat
  BY <1>1, <1>4, PurchaseAssumption DEF CapInv
<1>9. served'[p] + Cardinality(Admitted(p)') <= cap \/ served'[p] < MaxRefinements
  <2>1. Cardinality(Admitted(p)') = Cardinality(Admitted(p)) - 1
    BY <1>4, <1>7
  <2>2. CASE served[p] < MaxRefinements
    BY <1>2, <1>6, <1>7, <1>8, <2>1, <2>2
  <2>3. CASE served[p] + Cardinality(Admitted(p)) <= cap
    BY <1>2, <1>7, <1>8, <2>1, <2>3
  <2> QED BY <1>1, <1>8, <2>2, <2>3 DEF CapInv
<1>10. ASSUME NEW q \in Purchase
       PROVE  \/ served'[q] < MaxRefinements
              \/ served'[q] + Cardinality(Admitted(q)') <= cap
  <2>1. CASE q = p
    BY <1>9, <2>1
  <2>2. CASE q # p
    BY <1>2, <1>5, <1>8, <2>2 DEF CapInv
  <2> QED BY <2>1, <2>2
<1> QED BY <1>8, <1>10 DEF CapInv

LEMMA CapLoad ==
    ASSUME IsFiniteSet(Task), CapInv, CountInv, IInv, NEW t \in Task, NEW p \in Purchase,
           \/ AuthorizeLoad(t, p) \/ StartLoad(t, p) \/ PostLoad(t, p)
           \/ RescueLoad(t, p) \/ RefineLoad(t, p)
    PROVE  CapInv'
<1>1. PICK pc \in {"authorize", "start", "post", "rescue", "refine"},
           outcome \in {"none", "failed"} :
        /\ Begin(t, p, pc, outcome)
        /\ pc = "refine" => row[p].count < MaxRefinements
  BY DEF AuthorizeLoad, StartLoad, PostLoad, RescueLoad, RefineLoad
<1>2. Begin(t, p, pc, outcome)
  BY <1>1
<1>3. task'[t] = [pc |-> pc, p |-> p, outcome |-> outcome,
                  free |-> free, count |-> row[p].count]
  BY <1>2, BeginIs, Types
<1>4. /\ task'[t].pc = pc /\ task'[t].p = p /\ UNCHANGED served
      /\ \A s \in Task \ {t} : task'[s] = task[s]
  BY <1>2, <1>3, BeginIs, Types
<1>5. CASE pc # "refine"
  BY <1>4, <1>5, CapOther
<1>6. CASE pc = "refine"
  <2>1. served[p] < MaxRefinements /\ MaxRefinements \in Nat /\ served[p] \in Nat
    BY <1>1, <1>6, Types, PurchaseAssumption DEF CountInv, RefinementsCounted
  <2>2. ASSUME NEW q \in Purchase, q # p PROVE Admitted(q)' \subseteq Admitted(q)
    BY <1>4, <2>2 DEF Admitted
  <2>3. ASSUME NEW q \in Purchase, q # p
        PROVE  \/ served'[q] < MaxRefinements \/ MaxRefinements = 0
               \/ served'[q] + Cardinality(Admitted(q)') <= MaxRefinements - 1 + Cardinality(Task)
    <3>1. IsFiniteSet(Admitted(q))
      <4>1. Admitted(q) \subseteq Task
        BY DEF Admitted
      <4> QED BY <4>1, FS_Subset
    <3>2. /\ Cardinality(Admitted(q)') <= Cardinality(Admitted(q)) /\ Cardinality(Task) \in Nat
          /\ Cardinality(Admitted(q)') \in Nat /\ Cardinality(Admitted(q)) \in Nat
      BY <2>2, <2>3, <3>1, FS_Subset, FS_CardinalityType
    <3>3. served'[q] = served[q] /\ served[q] \in Nat
      BY <1>4, Types
    <3> QED BY <2>1, <2>3, <3>2, <3>3 DEF CapInv
  <2> QED BY <1>4, <2>1, <2>3 DEF CapInv
<1> QED BY <1>5, <1>6

LEMMA CapNext ==
    ASSUME IsFiniteSet(Task)
    PROVE  IInv /\ CountInv /\ CapInv /\ [Next]_vars => CapInv'
<1> SUFFICES ASSUME IInv, CountInv, CapInv, [Next]_vars PROVE CapInv'
  OBVIOUS
<1>1. ASSUME NEW p \in Purchase, OpenCheckout(p) \/ CompleteCheckout(p) PROVE CapInv'
  BY <1>1, CapKept DEF OpenCheckout, CompleteCheckout
<1>2. ASSUME NEW t \in Task, JobStep(t) PROVE CapInv'
  <2>1. ASSUME NEW outcome \in Settled, TurnEnds(t, outcome) PROVE CapInv'
    <3>1. CASE task' = [task EXCEPT ![t].pc = "settle", ![t].outcome = outcome, ![t].free = free]
      <4>1. task[t] \in TaskState
        BY Types
      <4>2. task'[t].pc = "settle" /\ \A s \in Task \ {t} : task'[s] = task[s]
        BY <3>1, <4>1, Types DEF TaskState
      <4> QED BY <2>1, <4>2, CapOther DEF TurnEnds
    <3> QED BY <2>1, <3>1, CapMoves DEF TurnEnds
  <2> QED BY <1>2, <2>1, CapMoves DEF JobStep, PostRun, JobStart, CommitFails, Fail
<1>3. ASSUME NEW t \in Task, Settling(t) PROVE CapInv'
  BY <1>3, CapMoves DEF Settling, Capture, Cancel, Commit, SettleFree
<1>4. ASSUME NEW t \in Task, Authorize(t) \/ StartFree(t) \/ Die(t) PROVE CapInv'
  BY <1>4, CapMoves DEF Authorize, StartFree, Die
<1>5. ASSUME NEW t \in Task, RefineEnds(t) PROVE CapInv'
  <2>1. PICK count \in {row[Of(t)].count} \cup (IF Faults THEN {task[t].count} ELSE {}) :
            task' = [task EXCEPT ![t].pc = "refined", ![t].count = count]
    BY <1>5 DEF RefineEnds
  <2>2. task[t] \in TaskState
    BY Types
  <2>3. task'[t].p = task[t].p /\ \A s \in Task \ {t} : task'[s] = task[s]
    BY <2>1, <2>2, Types DEF TaskState
  <2> QED BY <1>5, <2>3, CapKept DEF RefineEnds, At
<1>6. ASSUME NEW t \in Task, RefineCommit(t) PROVE CapInv'
  BY <1>6, CapCommit
<1>7. ASSUME NEW t \in Task, NEW p \in Purchase,
             \/ AuthorizeLoad(t, p) \/ StartLoad(t, p) \/ PostLoad(t, p)
             \/ RescueLoad(t, p) \/ RefineLoad(t, p)
      PROVE  CapInv'
  BY <1>7, CapLoad
<1>8. CASE UNCHANGED vars
  BY <1>8, CapKept DEF vars
<1> QED BY <1>1, <1>2, <1>3, <1>4, <1>5, <1>6, <1>7, <1>8 DEF Next, OtherStep

\* The refinements a purchase can really be served.
RefinementsBounded ==
    \A p \in Purchase :
        served[p] <= IF MaxRefinements = 0 THEN 0 ELSE MaxRefinements - 1 + Cardinality(Task)

\* In one process without faults the cap is overrun by at most one refinement for
\* each further handler that was inside its turn when it was reached; with one
\* refinement at a time it holds.
THEOREM RefinementsOverrun ==
    ASSUME Overlap # "any", ~Faults, IsFiniteSet(Task), Task # {}
    PROVE  Spec => []RefinementsBounded
<1>1. Init => CapInv
  <2> SUFFICES ASSUME Init PROVE CapInv
    OBVIOUS
  <2>1. \A p \in Purchase : served[p] = 0 /\ Admitted(p) = {}
    BY DEF Init, Idle, Admitted
  <2> QED BY <2>1, PurchaseAssumption DEF CapInv
<1>2. IInv /\ CountInv /\ CapInv /\ [Next]_vars => CapInv'
  BY CapNext
<1>3. IInv /\ CapInv => RefinementsBounded
  <2> SUFFICES ASSUME IInv, CapInv, NEW p \in Purchase
               PROVE  served[p] <= IF MaxRefinements = 0 THEN 0
                                   ELSE MaxRefinements - 1 + Cardinality(Task)
    BY DEF RefinementsBounded
  <2>1. Admitted(p) \subseteq Task
    BY DEF Admitted
  <2>2. IsFiniteSet(Admitted(p))
    BY <2>1, FS_Subset
  <2>3. /\ Cardinality(Admitted(p)) \in Nat /\ Cardinality(Task) \in Nat
        /\ Cardinality(Task) # 0 /\ served[p] \in Nat /\ MaxRefinements \in Nat
    BY <2>2, FS_CardinalityType, FS_EmptySet, Types, PurchaseAssumption
  <2> QED BY <2>3 DEF CapInv
<1>4. Spec => []CountInv
  <2>1. Init => CountInv
    BY DEF Init, CountInv, RefinementsCounted, Idle
  <2>2. IInv /\ LoopInv /\ CountInv /\ [Next]_vars => CountInv'
    BY CountNext
  <2> QED BY <2>1, <2>2, Invariance, LoopInvariance, PTL DEF Spec
<1> QED BY <1>1, <1>2, <1>3, <1>4, Invariance, PTL DEF Spec

=============================================================================
