----------------------------- MODULE Submission -----------------------------
(***************************************************************************)
(* A submission of a development: the attributes extracted from its IFC or *)
(* PDF, overridden by hand, and evaluated against the clauses of the       *)
(* by-laws (advisor/api/submissions_router.py, integrations_router.py,     *)
(* layer1/pipeline/ingest_submission.py, layer2/compliance/evaluator.py,   *)
(* and the evaluation tool of the chat in advisor/chat/tools.py).          *)
(*                                                                         *)
(* The endpoints are synchronous and run in a thread pool, each in one     *)
(* READ COMMITTED transaction that commits when it returns and is rolled   *)
(* back when it raises.                                                    *)
(***************************************************************************)
EXTENDS Integers, FiniteSets

CONSTANTS
    Attribute,   \* attribute keys a client can name
    Taxonomy,    \* those of the taxonomy
    Derived,     \* those of them computed from the parcel
    Clauses,     \* Clauses[a]: the clauses retrieved for attribute a
    Extracted,   \* values an extractor yields
    Typed,       \* values a client or the chat's model gives
    Text,        \* a value that is not a number
    NoValue,
    Review,      \* requests that write, open at once
    MaxClock     \* bound on the requests begun and the decisions made

\* A clause requires the number low of its unit, a number between low and high,
\* or one of low .. high, on condition that the inputs on are given.
ClauseOperator == {"unknown", "<", "<=", "==", ">=", ">", "between", "in"}

\* A value has a number or a text n, and a unit.
Value == Extracted \cup Typed

ASSUME SubmissionAssumption ==
    /\ Taxonomy \subseteq Attribute /\ Derived \subseteq Taxonomy
    /\ \A a \in Attribute : \A c \in Clauses[a] :
         /\ c.op \in ClauseOperator /\ c.low \in Int /\ c.high \in Int
         /\ c.on \subseteq Attribute
    /\ Text \notin Int /\ MaxClock \in Nat
    /\ \A v \in Value : v.n \in Int \cup {Text}
    /\ NoValue \notin Value

VARIABLES
    submission,  \* its row, and its attribute rows
    decisions,   \* committed approval_decision rows
    reviews,     \* the requests
    clock        \* created_at, and bound

submissionVars == <<submission, decisions, reviews, clock>>

-----------------------------------------------------------------------------
(* The evaluator.  bag: the attributes it is given, a function.            *)

\* One or no number is compared: _numeric_verdict and the other operators.
Meets(x, c) ==
    \/ c.op = "<" /\ x < c.low
    \/ c.op = "<=" /\ x <= c.low
    \/ c.op = ">" /\ x > c.low
    \/ c.op = ">=" /\ x >= c.low
    \/ c.op = "==" /\ x = c.low
    \/ c.op \in {"between", "in"} /\ c.low <= x /\ x <= c.high

\* Units are compared for one required number only, never converted; the model's
\* values and clauses all name theirs.
UnitMismatch(v, c) == c.op \notin {"between", "in"} /\ v.unit # c.unit

\* No constraint was extracted from the text, it depends on an input that was
\* not given, or its unit is another: the clause decides nothing.
Undecided(bag, v, c) ==
    c.op = "unknown" \/ ~(c.on \subseteq DOMAIN bag) \/ UnitMismatch(v, c)

\* Comparing a text with a number raises; looking for it in a list does not.
Raises(bag) ==
    \E a \in (DOMAIN bag) \cap Taxonomy : \E c \in Clauses[a] :
        bag[a].n = Text /\ c.op # "in" /\ ~Undecided(bag, bag[a], c)

ClauseVerdict(bag, v, c) ==
    IF Undecided(bag, v, c) THEN "uncertain"
    ELSE IF v.n # Text /\ Meets(v.n, c) THEN "pass" ELSE "fail"

\* Mutant of AttributeVerdict: one passing clause is enough.
LenientVerdict(bag, a) ==
    LET verdicts == {ClauseVerdict(bag, bag[a], c) : c \in Clauses[a]}
    IN IF a \notin Taxonomy THEN "uncertain"
       ELSE IF "fail" \in verdicts THEN "fail"
       ELSE IF "pass" \in verdicts THEN "pass" ELSE "uncertain"

AttributeVerdict(bag, a) ==
    LET verdicts == {ClauseVerdict(bag, bag[a], c) : c \in Clauses[a]}
    IN IF a \notin Taxonomy \/ verdicts = {} THEN "uncertain"
       ELSE IF "fail" \in verdicts THEN "fail"
       ELSE IF "uncertain" \in verdicts THEN "uncertain" ELSE "pass"

\* Inputs that a surfaced clause refers to and the submission lacks.
Unevaluated(bag) ==
    LET surfaced == UNION {Clauses[a] : a \in (DOMAIN bag) \cap Taxonomy}
    IN (UNION {c.on : c \in surfaced}) \ DOMAIN bag

OverallStatus(bag) ==
    LET verdicts == {AttributeVerdict(bag, a) : a \in DOMAIN bag}
    IN IF "fail" \in verdicts THEN "non_compliant"
       ELSE IF "uncertain" \in verdicts THEN "uncertain"
       ELSE IF Unevaluated(bag) # {} THEN "incomplete" ELSE "compliant"

-----------------------------------------------------------------------------
(* The rows.                                                               *)

Source == {"extracted", "derived", "override"}

\* from: overridden_from of the evidence, the value an override displaced.
AttributeRow == [value : Value, source : Source, from : Value \cup {NoValue}]

Bags(S, V) == UNION {[D -> V] : D \in SUBSET S}

SubmissionStatus == {"none", "draft", "evaluated"}

Decision == [status : {"compliant", "non_compliant", "uncertain", "incomplete"},
             at : Nat, current : BOOLEAN]

\* "override": the row of key was read, or none found.  "evaluate": the
\* attributes were read.  "decided": the decision is flushed.  locks: it loaded
\* the submission as a draft, so its UPDATE of the status holds the row.
\* current: history, the values it decides on are the submission's.
ReviewPhase == {"idle", "override", "evaluate", "decided"}

NoReview == [phase |-> "idle"]

\* Those whose flushed UPDATE of the status holds the submission's row.
Locking == {r \in Review : reviews[r].phase = "decided" /\ reviews[r].locks}

Bag == [a \in DOMAIN submission.rows |-> submission.rows[a].value]

SubmissionInit ==
    /\ submission = [status |-> "none", pdf |-> FALSE, confirmed |-> FALSE,
                     rows |-> <<>>]
    /\ decisions = {}
    /\ reviews = [r \in Review |-> NoReview]
    /\ clock = 0

\* upload_submission of either router, and ingest_submission: the attributes of the taxonomy the
\* extractor found and those derived.  If it raises there are none; the
\* submission stays in draft.
Upload ==
    /\ submission.status = "none"
    /\ \E pdf \in BOOLEAN, bag \in Bags(Taxonomy, Extracted) :
         submission' = [status |-> "draft", pdf |-> pdf, confirmed |-> FALSE,
            rows |-> [a \in DOMAIN bag |->
                        [value |-> bag[a], from |-> NoValue,
                         source |-> IF a \in Derived THEN "derived"
                                    ELSE "extracted"]]]
    /\ UNCHANGED <<decisions, reviews, clock>>

ConfirmSubmission ==
    /\ submission.status # "none"
    /\ Locking = {}
    /\ submission' = [submission EXCEPT !.confirmed = TRUE]
    /\ UNCHANGED <<decisions, reviews, clock>>

Opens(r, review) ==
    /\ reviews[r] = NoReview /\ clock < MaxClock
    /\ submission.status # "none"
    /\ reviews' = [reviews EXCEPT ![r] = review]
    /\ clock' = clock + 1
    /\ UNCHANGED <<submission, decisions>>

-----------------------------------------------------------------------------
(* override_attribute.  Any key can be overridden, of the taxonomy or not. *)

OverrideBegins(r) ==
    \E a \in Attribute, v \in Typed :
        Opens(r, [phase |-> "override", key |-> a, value |-> v,
                   found |-> IF a \in DOMAIN submission.rows
                             THEN {submission.rows[a]} ELSE {}])

\* What an override wants: the row it displaces goes to the evidence, but a
\* row that is an override already does not, and its evidence is dropped.
Overridden(review) ==
    [value |-> review.value, source |-> "override",
     from |-> IF \E row \in review.found : row.source # "override"
              THEN (CHOOSE row \in review.found : TRUE).value ELSE NoValue]

\* The UPDATE sets the columns that differ from those that were read.
Updated(review, row) ==
    [f \in DOMAIN row |->
       IF \E old \in review.found : old[f] = Overridden(review)[f]
       THEN row[f] ELSE Overridden(review)[f]]

\* Whoever decides on the values read before it decides on old ones.
Outdated(review) == IF review.phase \in {"evaluate", "decided"}
                    THEN [review EXCEPT !.current = FALSE] ELSE review

\* An INSERT of a key that another request has inserted fails.
OverrideEnds(r) ==
    LET review == reviews[r]
        a == review.key
    IN /\ review.phase = "override"
       /\ IF review.found = {} /\ a \in DOMAIN submission.rows
          THEN /\ reviews' = [reviews EXCEPT ![r] = NoReview]
               /\ UNCHANGED <<submission, decisions>>
          ELSE /\ submission' = [submission EXCEPT !.rows =
                    [k \in DOMAIN @ \cup {a} |->
                       IF k # a THEN @[k]
                       ELSE IF a \in DOMAIN @ THEN Updated(review, @[a])
                       ELSE Overridden(review)]]
               /\ decisions' = {[d EXCEPT !.current = FALSE] : d \in decisions}
               /\ reviews' = [s \in Review |->
                    IF s = r THEN NoReview ELSE Outdated(reviews[s])]
       /\ UNCHANGED clock

-----------------------------------------------------------------------------
(* The evaluations.                                                        *)

\* status: of the submission, as the request loaded it.
Evaluates(r, bag, status, current) ==
    Opens(r, [phase |-> "evaluate", bag |-> bag, status |-> status,
               current |-> current])

\* evaluate_submission of the submissions router wants a PDF confirmed ...
EvaluateSubmission(r) ==
    /\ submission.pdf => submission.confirmed
    /\ Evaluates(r, Bag, submission.status, TRUE)

\* ... and that of the integrations router does not.
EvaluateForIntegration(r) == Evaluates(r, Bag, submission.status, TRUE)

\* The chat's tool evaluates what the model gives it, and with persist_decision
\* files the result under the submission, which it loads only then.
EvaluateForChat(r) ==
    \E a \in Attribute, v \in Typed :
        Evaluates(r, [k \in {a} |-> v], "none", FALSE)

\* The decision is flushed, created_at taken, the status set if it was another.
Decide(r) ==
    LET review == reviews[r]
        loaded == IF review.status = "none" THEN submission.status
                  ELSE review.status
    IN /\ review.phase = "evaluate" /\ ~Raises(review.bag)
       /\ loaded = "draft" => Locking = {}
       /\ reviews' = [reviews EXCEPT ![r] =
            [phase |-> "decided", locks |-> loaded = "draft",
             current |-> review.current, status |-> OverallStatus(review.bag),
             at |-> clock + 1]]
       /\ clock' = clock + 1
       /\ UNCHANGED <<submission, decisions>>

CommitDecision(r) ==
    LET review == reviews[r]
    IN /\ review.phase = "decided"
       /\ submission' = [submission EXCEPT !.status = "evaluated"]
       /\ decisions' = decisions \cup {[status |-> review.status,
                                        at |-> review.at,
                                        current |-> review.current]}
       /\ reviews' = [reviews EXCEPT ![r] = NoReview]
       /\ UNCHANGED clock

\* evaluator_failed, a lost connection or process: all is rolled back.
ReviewFails(r) ==
    /\ reviews[r].phase # "idle"
    /\ reviews' = [reviews EXCEPT ![r] = NoReview]
    /\ UNCHANGED <<submission, decisions, clock>>

SubmissionNext ==
    \/ Upload \/ ConfirmSubmission
    \/ \E r \in Review :
         \/ OverrideBegins(r) \/ OverrideEnds(r)
         \/ EvaluateSubmission(r) \/ EvaluateForIntegration(r)
         \/ EvaluateForChat(r)
         \/ Decide(r) \/ CommitDecision(r) \/ ReviewFails(r)

SubmissionSpec == SubmissionInit /\ [][SubmissionNext]_submissionVars

-----------------------------------------------------------------------------
SubmissionTypeOK ==
    /\ submission.status \in SubmissionStatus
    /\ {submission.pdf, submission.confirmed} \subseteq BOOLEAN
    /\ DOMAIN submission.rows \subseteq Attribute
    /\ \A a \in DOMAIN submission.rows : submission.rows[a] \in AttributeRow
    /\ decisions \subseteq Decision
    /\ \A r \in Review : reviews[r].phase \in ReviewPhase
    /\ clock \in 0 .. 2 * MaxClock

\* What a planner would say of the attributes, clause by clause.
Verdict(bag) ==
    LET applies == [a \in DOMAIN bag |->
                      IF a \in Taxonomy THEN Clauses[a] ELSE {}]
        breached(a, c) == /\ ~Undecided(bag, bag[a], c)
                          /\ bag[a].n = Text \/ ~Meets(bag[a].n, c)
    IN IF \E a \in DOMAIN bag : \E c \in applies[a] : breached(a, c)
       THEN "non_compliant"
       ELSE IF \A a \in DOMAIN bag :
                 /\ applies[a] # {}
                 /\ \A c \in applies[a] : ~Undecided(bag, bag[a], c)
       THEN "compliant" ELSE "uncertain"

\* The matrix shown is that of the last decision: unless an override came
\* after what it read, or the chat filed it, it says of the submission as it is
\* now what its clauses say, compliant only if every clause of every attribute
\* was decided and met.  A submission marked evaluated has one to show.
MatrixTrue ==
    /\ (submission.status = "evaluated") <=> (decisions # {})
    /\ \A d \in decisions :
         (d.current /\ \A e \in decisions : e.at <= d.at) =>
             d.status = Verdict(Bag)

=============================================================================
