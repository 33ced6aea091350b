---------------------------- MODULE MCComponents ----------------------------
(* The components that share no state, for TLC: a behaviour is one of        *)
(* theirs, chosen by focus, while the others stay as they begin.             *)
EXTENDS SessionStore, ToolLoop, Corpus, AccountEvents, Cases, RateQuota,
        Submission

CONSTANTS
    t1, t2, t3, p1, p2,      \* turns and processes of a session
    s1, s2, s3,              \* servers behind the request cap
    r1, r2,                  \* requests about cases
    home, street,            \* anchors
    o1, o2, hazard, zoning,  \* operators of the corpus, layers
    halifax,                 \* a by-law
    w1, w2, person, checkout,
    height, corner, colour,  \* attributes of a submission
    q1, q2                   \* requests about it

VARIABLE focus

\* The second version lost the citation of the zoning layer and the third has
\* it twice; the hazard layer's is in all of them.  The zoning layer followed the
\* second when it was published, and is flagged.
MCBylaw == [d \in Document |-> halifax]
MCDeclared == [l \in Layer |-> halifax]
MCMatches == [d \in Document |-> [l \in Layer |->
                IF l = hazard \/ d = 1 THEN 1 ELSE IF d = 2 THEN 0 ELSE 2]]
MCLinked == [l \in {zoning} |-> 2]

MCBuyer == [c \in Checkout |-> person]
MCQuantity == [c \in Checkout |-> 2]

\* The height is limited outright, and otherwise on a corner lot, which the
\* submission may not say it is; no clause is found for a colour.
MCClause(op, low, high, on) ==
    [op |-> op, low |-> low, high |-> high, unit |-> "m", on |-> on]
MCValue(n, unit) == [n |-> n, unit |-> unit]
MCClauses == [a \in Attribute |->
    IF a = height
    THEN {MCClause("<=", 2, 2, {}), MCClause("between", 1, 1, {corner})}
    ELSE IF a = corner THEN {MCClause("in", 1, 1, {})} ELSE {}]
MCExtracted == {MCValue(1, "m")}
MCTyped == {MCValue(1, "ft"), MCValue(Text, "m")}

MCVars == <<vars, loopVars, corpusVars, accountVars, casesVars, quotaVars,
            submissionVars, focus>>

MCInit ==
    /\ Init /\ LoopInit /\ CorpusInit /\ AccountInit /\ CasesInit /\ QuotaInit
    /\ SubmissionInit
    /\ focus \in {"store", "loop", "corpus", "accounts", "cases", "quota",
                 "submissions"}

MCNext ==
    /\ UNCHANGED focus
    /\ IF focus = "store" THEN Next ELSE UNCHANGED vars
    /\ IF focus = "loop" THEN LoopNext ELSE UNCHANGED loopVars
    /\ IF focus = "corpus" THEN CorpusNext ELSE UNCHANGED corpusVars
    /\ IF focus = "accounts" THEN AccountNext ELSE UNCHANGED accountVars
    /\ IF focus = "cases" THEN CasesNext ELSE UNCHANGED casesVars
    /\ IF focus = "quota" THEN QuotaNext ELSE UNCHANGED quotaVars
    /\ IF focus = "submissions" THEN SubmissionNext ELSE UNCHANGED submissionVars

\* A component that stays as it begins is fair: its fair steps are not
\* enabled, or not its to take.
MCSpec ==
    /\ MCInit /\ [][MCNext]_MCVars
    /\ WF_loopVars(TurnStep)
    /\ AccountFairness

\* Every component keeps its types: what a process remembers of a session, the
\* rows of a Clerk id in their bound, the loop's blocks and rounds, the
\* transactions of the corpus, the cases and the submissions.
ComponentTypes ==
    /\ TypeOK /\ LoopTypeOK /\ CorpusTypeOK /\ AccountTypeOK /\ CasesTypeOK
    /\ QuotaTypeOK /\ SubmissionTypeOK

=============================================================================
