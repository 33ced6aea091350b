------------------------------- MODULE Cases --------------------------------
(***************************************************************************)
(* The cases of one user (advisor/db/cases.py, advisor/api/cases_router.py)*)
(* opened for an anchor, numbered for display, closed by the user or by    *)
(* the sweep of idle cases, reopened within the idle window.               *)
(*                                                                         *)
(* A request reads in its transaction which case matches, or the highest   *)
(* number in use, then looks the lot up for seconds, then commits: several *)
(* requests can stand between the reading and the commit.  A commit writes *)
(* the columns the request assigned.  The credits of a case, which nothing *)
(* reserves any more, are left out.                                        *)
(***************************************************************************)
EXTENDS Integers, FiniteSetsExt

CONSTANTS
    Anchor,   \* normalised anchor keys
    Request,  \* threads that serve this user's requests, and the sweep
    MaxCases  \* bound on the cases created

ASSUME CasesAssumption == MaxCases \in Nat

VARIABLES
    cases,    \* the committed rows, by id; "by" is history: who inserted it
    ids,      \* the id sequence, which a rollback does not take back
    request   \* what each request is about to commit

casesVars == <<cases, ids, request>>

\* recent: last_activity_at is in the idle window of 30 days.
Case == [number : Nat, anchor : Anchor, status : {"open", "closed"},
         recent : BOOLEAN, by : Request]

NoRequest == [kind |-> "none"]

RequestState ==
    {NoRequest}
    \cup [kind : {"insert"}, id : Nat, number : Nat, anchor : Anchor]
    \cup [kind : {"reopen", "touch", "close"}, ids : SUBSET Nat]

Ids == DOMAIN cases

CasesInit ==
    /\ cases = [i \in {} |-> NoRequest]
    /\ ids = 0
    /\ request = [r \in Request |-> NoRequest]

-----------------------------------------------------------------------------
\* match_case takes the latest of these; which one that is, when overlapping
\* requests made several, is left open.
Matched(a) == {i \in Ids : cases[i].anchor = a /\ cases[i].recent}

\* A mutation of NextNumber: the number follows the id sequence.
SequenceNumber == ids + 1

\* coalesce(max(user_case_number), 0) + 1
NextNumber == Max({0} \cup {cases[i].number : i \in Ids}) + 1

Begins(r, state) ==
    /\ request[r] = NoRequest
    /\ request' = [request EXCEPT ![r] = state]
    /\ UNCHANGED cases

\* open_case_free with no case to continue: the row is flushed with an id of
\* the sequence, invisible to others until the commit.
BeginInsert(r, a) ==
    /\ Matched(a) = {} /\ ids < MaxCases
    /\ ids' = ids + 1
    /\ Begins(r, [kind |-> "insert", id |-> ids + 1, number |-> NextNumber,
                  anchor |-> a])

\* open_case_free with one: it is opened again if it was read as closed, and
\* only its activity is renewed otherwise.
BeginContinue(r, a) ==
    \E i \in Matched(a) :
        /\ Begins(r, [kind |-> IF cases[i].status = "closed" THEN "reopen"
                               ELSE "touch",
                      ids |-> {i}])
        /\ UNCHANGED ids

\* close_case of a case read as open; a closed one is left alone.
BeginClose(r, i) ==
    /\ cases[i].status = "open"
    /\ Begins(r, [kind |-> "close", ids |-> {i}])
    /\ UNCHANGED ids

\* close_expired_cases closes the open cases outside the window, all at once.
Expired == {i \in Ids : cases[i].status = "open" /\ ~cases[i].recent}

BeginSweep(r) ==
    /\ Expired # {}
    /\ Begins(r, [kind |-> "close", ids |-> Expired])
    /\ UNCHANGED ids

\* The row as the request r leaves it.
Written(r, i) ==
    [cases[i] EXCEPT
        !.status = CASE request[r].kind = "reopen" -> "open"
                     [] request[r].kind = "close" -> "closed"
                     [] request[r].kind = "touch" -> @,
        !.recent = TRUE]

CommitInsert(r) ==
    /\ request[r].kind = "insert"
    /\ cases' = [i \in Ids \cup {request[r].id} |->
                    IF i = request[r].id
                    THEN [number |-> request[r].number,
                          anchor |-> request[r].anchor, status |-> "open",
                          recent |-> TRUE, by |-> r]
                    ELSE cases[i]]
    /\ request' = [request EXCEPT ![r] = NoRequest]
    /\ UNCHANGED ids

CommitUpdate(r) ==
    /\ request[r].kind \in {"reopen", "touch", "close"}
    /\ cases' = [i \in Ids |->
                    IF i \in request[r].ids THEN Written(r, i) ELSE cases[i]]
    /\ request' = [request EXCEPT ![r] = NoRequest]
    /\ UNCHANGED ids

\* The lookup of the lot or the connection fails: nothing is written.
Rollback(r) ==
    /\ request[r] # NoRequest
    /\ request' = [request EXCEPT ![r] = NoRequest]
    /\ UNCHANGED <<cases, ids>>

\* Thirty days go by without activity on a case.
GoesIdle(i) ==
    /\ cases[i].recent
    /\ cases' = [cases EXCEPT ![i].recent = FALSE]
    /\ UNCHANGED <<ids, request>>

CasesNext ==
    \/ \E r \in Request, a \in Anchor : BeginInsert(r, a) \/ BeginContinue(r, a)
    \/ \E r \in Request, i \in Ids : BeginClose(r, i)
    \/ \E r \in Request :
          BeginSweep(r) \/ CommitInsert(r) \/ CommitUpdate(r) \/ Rollback(r)
    \/ \E i \in Ids : GoesIdle(i)

CasesSpec == CasesInit /\ [][CasesNext]_casesVars

-----------------------------------------------------------------------------
CasesTypeOK ==
    /\ Ids \subseteq 1 .. ids /\ ids \in Nat
    /\ \A i \in Ids : cases[i] \in Case
    /\ request \in [Request -> RequestState]

\* What the comment at user_case_number says the user sees, however requests
\* overlap and however many are rolled back: the numbers in use are 1 to the
\* highest.  Two cases can get one number, the column has no unique index, but
\* only from requests that overlapped: one thread never gives a number twice.
CaseNumbersContiguous ==
    LET numbers == {cases[i].number : i \in Ids}
    IN  /\ \A n \in numbers : 1 .. n \subseteq numbers
        /\ 0 \notin numbers
        /\ \A i, j \in Ids :
              cases[i].number = cases[j].number /\ cases[i].by = cases[j].by
                => i = j

=============================================================================
