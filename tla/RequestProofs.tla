--------------------------- MODULE RequestProofs ----------------------------
(* Proofs about three components that serve overlapping requests of one      *)
(* user: Cases, RateQuota and Submission.                                    *)
(*                                                                           *)
(* The invariant of the cases speaks of the requests too: the number an      *)
(* insert is about to commit continues the numbers in use or repeats one,    *)
(* and is above every number its own thread gave before.  For the cap, every *)
(* step moves the calls of a minute or the processes past the cap by one,    *)
(* and a process is let past it only below the limit.                        *)
(*                                                                           *)
(* What the matrix of a submission says is what its clauses say, for every   *)
(* taxonomy, set of clauses, set of values and number of racing requests.    *)
(* Then the shape of rows, requests and decisions; that the clock keeps its  *)
(* bound counts the evaluations that have not decided yet.                   *)
EXTENDS Cases, RateQuota, Submission, FiniteSetTheorems, TLAPS

-----------------------------------------------------------------------------
(* Cases.                                                                    *)

Numbers == {cases[i].number : i \in Ids}

Inserting(r) == request[r].kind = "insert"

InsertsSound ==
    \A r \in Request : Inserting(r) =>
        /\ request[r].id \in 1 .. ids /\ request[r].id \notin Ids
        /\ request[r].number \in Nat \ {0}
        /\ 1 .. request[r].number - 1 \subseteq Numbers
        /\ \A i \in Ids :
              cases[i].by = r => cases[i].number < request[r].number
        /\ \A s \in Request :
              Inserting(s) /\ request[s].id = request[r].id => s = r

CasesInv ==
    /\ CasesTypeOK
    /\ \E m \in Nat : Numbers = 1 .. m
    /\ InsertsSound
    /\ \A i, j \in Ids :
          cases[i].number = cases[j].number /\ cases[i].by = cases[j].by => i = j

-----------------------------------------------------------------------------
\* With numbers 1 to m in use the next is m + 1.
LEMMA NextIsFree ==
  ASSUME NEW m \in Nat, Numbers = 1 .. m
  PROVE  NextNumber = m + 1
<1>1. {0} \cup {cases[i].number : i \in Ids} = 0 .. m
  BY DEF Numbers
<1>2. Max(0 .. m) = m
  BY DEF Max
<1> QED
  BY <1>1, <1>2 DEF NextNumber

\* A request that begins an update leaves the rows and the inserts alone.
LEMMA BeginsUpdate ==
  ASSUME CasesInv, NEW r \in Request, NEW k \in {"reopen", "touch", "close"},
         NEW D \in SUBSET Ids, Begins(r, [kind |-> k, ids |-> D]),
         UNCHANGED ids
  PROVE  CasesInv'
<1>1. cases' = cases /\ ids' = ids
  BY DEF Begins
<1>2. request' = [request EXCEPT ![r] = [kind |-> k, ids |-> D]]
  BY DEF Begins
<1>3. request \in [Request -> RequestState] /\ Ids \subseteq Nat
  BY DEF CasesInv, CasesTypeOK
<1>4. [kind |-> k, ids |-> D] \in RequestState
  BY <1>3 DEF RequestState
<1>5. CasesTypeOK'
  BY <1>1, <1>2, <1>3, <1>4 DEF CasesInv, CasesTypeOK, Ids
<1>6. \A s \in Request : Inserting(s)' => Inserting(s) /\ request'[s] = request[s]
  BY <1>2, <1>3 DEF Inserting
<1>7. Numbers' = Numbers /\ Ids' = Ids
  BY <1>1 DEF Numbers, Ids
<1>8. InsertsSound'
  BY <1>1, <1>6, <1>7 DEF CasesInv, InsertsSound
<1> QED
  BY <1>1, <1>5, <1>7, <1>8 DEF CasesInv

\* Rows that keep their number and author, and requests that end.
LEMMA RowsKept ==
  ASSUME CasesInv, CasesTypeOK', ids' = ids, Ids' = Ids,
         \A i \in Ids : /\ cases'[i].number = cases[i].number
                        /\ cases'[i].by = cases[i].by,
         \A s \in Request : Inserting(s)' => /\ Inserting(s)
                                             /\ request'[s] = request[s]
  PROVE  CasesInv'
<1>1. Numbers' = Numbers
  BY DEF Numbers
<1>2. InsertsSound'
  BY <1>1 DEF CasesInv, InsertsSound
<1> QED
  BY <1>1, <1>2 DEF CasesInv

LEMMA InsertBegun ==
  ASSUME CasesInv, NEW r \in Request, NEW a \in Anchor, BeginInsert(r, a)
  PROVE  CasesInv'
<1> DEFINE new == [kind |-> "insert", id |-> ids + 1, number |-> NextNumber,
                   anchor |-> a]
<1>1. PICK m \in Nat : Numbers = 1 .. m
  BY DEF CasesInv
<1>2. NextNumber = m + 1
  BY <1>1, NextIsFree
<1>3. /\ cases' = cases /\ ids' = ids + 1
      /\ request[r] = NoRequest /\ request' = [request EXCEPT ![r] = new]
  BY DEF BeginInsert, Begins
<1>4. ids \in Nat /\ request \in [Request -> RequestState] /\ Ids \subseteq 1 .. ids
  BY DEF CasesInv, CasesTypeOK
<1>5. new \in RequestState
  BY <1>2, <1>4 DEF RequestState
<1>6. Numbers' = Numbers /\ Ids' = Ids
  BY <1>3 DEF Numbers, Ids
<1>7. CasesTypeOK'
  BY <1>3, <1>4, <1>5, <1>6 DEF CasesInv, CasesTypeOK
<1>8. ASSUME NEW s \in Request, Inserting(s)'
      PROVE  /\ request'[s].id \in 1 .. ids' /\ request'[s].id \notin Ids'
             /\ request'[s].number \in Nat \ {0}
             /\ 1 .. request'[s].number - 1 \subseteq Numbers'
             /\ \A i \in Ids' :
                   cases'[i].by = s => cases'[i].number < request'[s].number
             /\ \A q \in Request :
                   Inserting(q)' /\ request'[q].id = request'[s].id => q = s
  <2>1. \A q \in Request : q # r => request'[q] = request[q]
    BY <1>3, <1>4
  <2>2. request'[r] = new
    BY <1>3, <1>4
  <2>3. \A q \in Request : q # r /\ Inserting(q)' =>
            Inserting(q) /\ request[q].id \in 1 .. ids
    BY <2>1 DEF Inserting, CasesInv, InsertsSound
  <2>4. CASE s = r
    <3>1. request'[s].id = ids + 1 /\ request'[s].number = m + 1
      BY <1>2, <2>2, <2>4
    <3>2. \A i \in Ids : cases[i].number \in 1 .. m
      BY <1>1 DEF Numbers
    <3>3. \A q \in Request : q # r /\ Inserting(q)' => request'[q].id # ids + 1
      BY <1>4, <2>1, <2>3
    <3> QED
      BY <1>1, <1>3, <1>4, <1>6, <2>4, <3>1, <3>2, <3>3
  <2>5. CASE s # r
    <3>1. Inserting(s) /\ request'[s] = request[s]
      BY <1>8, <2>1, <2>3, <2>5
    <3>2. /\ request[s].id \in 1 .. ids /\ request[s].id \notin Ids
          /\ request[s].number \in Nat \ {0}
          /\ 1 .. request[s].number - 1 \subseteq Numbers
          /\ \A i \in Ids : cases[i].by = s => cases[i].number < request[s].number
          /\ \A q \in Request :
                Inserting(q) /\ request[q].id = request[s].id => q = s
      BY <3>1 DEF CasesInv, InsertsSound
    <3>3. request'[r].id # request[s].id
      BY <1>4, <2>2, <3>2
    <3> QED
      BY <1>3, <1>4, <1>6, <2>1, <2>3, <3>1, <3>2, <3>3
  <2> QED
    BY <2>4, <2>5
<1>9. InsertsSound'
  BY <1>8 DEF InsertsSound
<1> QED
  BY <1>1, <1>3, <1>6, <1>7, <1>9 DEF CasesInv

LEMMA InsertCommitted ==
  ASSUME CasesInv, NEW r \in Request, CommitInsert(r)
  PROVE  CasesInv'
<1> DEFINE n == request[r].number
           d == request[r].id
<1>1. PICK m \in Nat : Numbers = 1 .. m
  BY DEF CasesInv
<1>2. /\ d \in 1 .. ids /\ d \notin Ids /\ n \in Nat \ {0}
      /\ 1 .. n - 1 \subseteq Numbers
      /\ \A i \in Ids : cases[i].by = r => cases[i].number < n
      /\ \A s \in Request : Inserting(s) /\ request[s].id = d => s = r
  BY DEF CommitInsert, CasesInv, InsertsSound, Inserting
<1>3. /\ ids' = ids /\ Ids' = Ids \cup {d}
      /\ request' = [request EXCEPT ![r] = NoRequest]
      /\ \A i \in Ids : cases'[i] = cases[i]
      /\ cases'[d] = [number |-> n, anchor |-> request[r].anchor,
                      status |-> "open", recent |-> TRUE, by |-> r]
  BY <1>2 DEF CommitInsert, Ids
<1>4. /\ ids \in Nat /\ request \in [Request -> RequestState]
      /\ Ids \subseteq 1 .. ids /\ \A i \in Ids : cases[i] \in Case
  BY DEF CasesInv, CasesTypeOK
<1>5. request[r].anchor \in Anchor
  BY <1>4 DEF CommitInsert, RequestState, NoRequest
<1>6. CasesTypeOK'
  <2>1. cases'[d] \in Case
    BY <1>2, <1>3, <1>5 DEF Case
  <2>2. request' \in [Request -> RequestState]
    BY <1>3, <1>4 DEF RequestState
  <2> QED
    BY <1>2, <1>3, <1>4, <2>1, <2>2 DEF CasesTypeOK
<1>7. Numbers' = Numbers \cup {n}
  BY <1>2, <1>3 DEF Numbers
<1>8. \E k \in Nat : Numbers' = 1 .. k
  <2>1. n <= m + 1
    <3>1. n # 1 => n - 1 \in 1 .. n - 1
      BY <1>2
    <3>2. n # 1 => n - 1 \in 1 .. m
      BY <1>1, <1>2, <3>1
    <3> QED
      BY <1>2, <3>2
  <2>2. CASE n <= m
    BY <1>1, <1>2, <1>7, <2>2
  <2>3. CASE n = m + 1
    <3>1. Numbers' = 1 .. m + 1
      BY <1>1, <1>2, <1>7, <2>3
    <3> QED
      BY <3>1
  <2> QED
    BY <1>2, <2>1, <2>2, <2>3
<1>9. \A s \in Request : Inserting(s)' =>
          Inserting(s) /\ s # r /\ request'[s] = request[s]
  BY <1>3, <1>4 DEF Inserting, NoRequest
<1>10. InsertsSound'
  <2> SUFFICES ASSUME NEW s \in Request, Inserting(s)'
      PROVE  /\ request'[s].id \in 1 .. ids' /\ request'[s].id \notin Ids'
             /\ request'[s].number \in Nat \ {0}
             /\ 1 .. request'[s].number - 1 \subseteq Numbers'
             /\ \A i \in Ids' :
                   cases'[i].by = s => cases'[i].number < request'[s].number
             /\ \A q \in Request :
                   Inserting(q)' /\ request'[q].id = request'[s].id => q = s
    BY DEF InsertsSound
  <2>1. Inserting(s) /\ s # r /\ request'[s] = request[s]
    BY <1>9
  <2>2. /\ request[s].id \in 1 .. ids /\ request[s].id \notin Ids
        /\ request[s].number \in Nat \ {0}
        /\ 1 .. request[s].number - 1 \subseteq Numbers
        /\ \A i \in Ids : cases[i].by = s => cases[i].number < request[s].number
        /\ \A q \in Request :
              Inserting(q) /\ request[q].id = request[s].id => q = s
    BY <2>1 DEF CasesInv, InsertsSound
  <2>3. request[s].id # d /\ cases'[d].by # s
    BY <1>2, <1>3, <2>1
  <2> QED
    BY <1>3, <1>7, <1>9, <2>1, <2>2, <2>3
<1>11. \A i, j \in Ids' :
          cases'[i].number = cases'[j].number /\ cases'[i].by = cases'[j].by
            => i = j
  <2>1. \A i \in Ids : cases[i].by = r => cases[i].number # n
    BY <1>2, <1>4 DEF Case
  <2>2. cases'[d].number = n /\ cases'[d].by = r
    BY <1>3
  <2>3. \A i, j \in Ids :
          cases[i].number = cases[j].number /\ cases[i].by = cases[j].by => i = j
    BY DEF CasesInv
  <2> QED
    BY <1>3, <2>1, <2>2, <2>3
<1> QED
  BY <1>6, <1>8, <1>10, <1>11 DEF CasesInv

\* An update writes rows that are there and keeps their numbers.
LEMMA UpdateCommitted ==
  ASSUME CasesInv, NEW r \in Request, CommitUpdate(r)
  PROVE  CasesInv'
<1>1. /\ ids' = ids /\ Ids' = Ids
      /\ request' = [request EXCEPT ![r] = NoRequest]
      /\ \A i \in Ids : cases'[i] = IF i \in request[r].ids THEN Written(r, i)
                                    ELSE cases[i]
      /\ request[r].kind \in {"reopen", "touch", "close"}
  BY DEF CommitUpdate, Ids
<1>2. /\ ids \in Nat /\ request \in [Request -> RequestState]
      /\ Ids \subseteq 1 .. ids /\ \A i \in Ids : cases[i] \in Case
  BY DEF CasesInv, CasesTypeOK
<1>3. ASSUME NEW i \in Ids
      PROVE  /\ cases'[i] \in Case /\ cases'[i].number = cases[i].number
             /\ cases'[i].by = cases[i].by
  <2>1. CASE request[r].kind = "reopen"
    BY <1>1, <1>2, <2>1 DEF Written, Case
  <2>2. CASE request[r].kind = "close"
    BY <1>1, <1>2, <2>2 DEF Written, Case
  <2>3. CASE request[r].kind = "touch"
    BY <1>1, <1>2, <2>3 DEF Written, Case
  <2> QED
    BY <1>1, <2>1, <2>2, <2>3
<1>4. CasesTypeOK'
  BY <1>1, <1>2, <1>3 DEF CasesTypeOK, RequestState
<1>5. \A s \in Request : Inserting(s)' => Inserting(s) /\ request'[s] = request[s]
  BY <1>1, <1>2 DEF Inserting, NoRequest
<1> QED
  BY <1>1, <1>3, <1>4, <1>5, RowsKept

-----------------------------------------------------------------------------
LEMMA CasesStep == CasesInv /\ [CasesNext]_casesVars => CasesInv'
<1> SUFFICES ASSUME CasesInv, [CasesNext]_casesVars PROVE CasesInv'
  OBVIOUS
<1>0. /\ ids \in Nat /\ request \in [Request -> RequestState]
      /\ Ids \subseteq 1 .. ids /\ \A i \in Ids : cases[i] \in Case
  BY DEF CasesInv, CasesTypeOK
<1>1. ASSUME NEW r \in Request, NEW a \in Anchor, BeginInsert(r, a)
      PROVE  CasesInv'
  BY <1>1, InsertBegun
<1>2. ASSUME NEW r \in Request, NEW a \in Anchor, BeginContinue(r, a)
      PROVE  CasesInv'
  <2>1. PICK i \in Matched(a) :
           /\ Begins(r, [kind |-> IF cases[i].status = "closed" THEN "reopen"
                                  ELSE "touch",
                         ids |-> {i}])
           /\ UNCHANGED ids
    BY <1>2 DEF BeginContinue
  <2>2. {i} \in SUBSET Ids
    BY DEF Matched
  <2>3. (IF cases[i].status = "closed" THEN "reopen" ELSE "touch")
           \in {"reopen", "touch", "close"}
    OBVIOUS
  <2> QED
    BY <2>1, <2>2, <2>3, BeginsUpdate
<1>3. ASSUME NEW r \in Request, NEW i \in Ids, BeginClose(r, i)
      PROVE  CasesInv'
  <2>1. Begins(r, [kind |-> "close", ids |-> {i}]) /\ UNCHANGED ids
    BY <1>3 DEF BeginClose
  <2> QED
    BY <2>1, BeginsUpdate
<1>4. ASSUME NEW r \in Request, BeginSweep(r) PROVE CasesInv'
  <2>1. Begins(r, [kind |-> "close", ids |-> Expired]) /\ UNCHANGED ids
    BY <1>4 DEF BeginSweep
  <2>2. Expired \in SUBSET Ids
    BY DEF Expired
  <2> QED
    BY <2>1, <2>2, BeginsUpdate
<1>5. ASSUME NEW r \in Request, CommitInsert(r) PROVE CasesInv'
  BY <1>5, InsertCommitted
<1>6. ASSUME NEW r \in Request, CommitUpdate(r) PROVE CasesInv'
  BY <1>6, UpdateCommitted
<1>7. ASSUME NEW r \in Request, Rollback(r) PROVE CasesInv'
  <2>1. /\ cases' = cases /\ ids' = ids
        /\ request' = [request EXCEPT ![r] = NoRequest]
    BY <1>7 DEF Rollback
  <2>2. CasesTypeOK' /\ Ids' = Ids
    BY <1>0, <2>1 DEF CasesTypeOK, Ids, RequestState
  <2>3. \A s \in Request :
            Inserting(s)' => Inserting(s) /\ request'[s] = request[s]
    BY <1>0, <2>1 DEF Inserting, NoRequest
  <2> QED
    BY <2>1, <2>2, <2>3, RowsKept
<1>8. ASSUME NEW i \in Ids, GoesIdle(i) PROVE CasesInv'
  <2>1. /\ ids' = ids /\ request' = request
        /\ cases' = [cases EXCEPT ![i].recent = FALSE]
    BY <1>8 DEF GoesIdle
  <2>2. Ids' = Ids
    BY <2>1 DEF Ids
  <2>3. \A j \in Ids : /\ cases'[j] \in Case
                       /\ cases'[j].number = cases[j].number
                       /\ cases'[j].by = cases[j].by
    <3> SUFFICES ASSUME NEW j \in Ids
        PROVE /\ cases'[j] \in Case /\ cases'[j].number = cases[j].number
              /\ cases'[j].by = cases[j].by
      OBVIOUS
    <3>1. j \in DOMAIN cases
      BY DEF Ids
    <3>2. cases'[j] = IF j = i THEN [cases[i] EXCEPT !.recent = FALSE]
                      ELSE cases[j]
      BY <2>1, <3>1
    <3> QED
      BY <1>0, <3>2 DEF Case
  <2>4. CasesTypeOK'
    BY <1>0, <2>1, <2>2, <2>3 DEF CasesTypeOK
  <2>5. \A s \in Request :
            Inserting(s)' => Inserting(s) /\ request'[s] = request[s]
    BY <2>1 DEF Inserting
  <2> QED
    BY <2>1, <2>2, <2>3, <2>4, <2>5, RowsKept
<1>9. CASE UNCHANGED casesVars
  <2>1. cases' = cases /\ ids' = ids /\ request' = request /\ Ids' = Ids
    BY <1>9 DEF casesVars, Ids
  <2>2. CasesTypeOK'
    BY <2>1 DEF CasesInv, CasesTypeOK
  <2>3. \A s \in Request :
            Inserting(s)' => Inserting(s) /\ request'[s] = request[s]
    BY <2>1 DEF Inserting
  <2> QED
    BY <2>1, <2>2, <2>3, RowsKept
<1> QED
  BY <1>1, <1>2, <1>3, <1>4, <1>5, <1>6, <1>7, <1>8, <1>9 DEF CasesNext

\* The inductive invariant of a user's cases.
THEOREM CasesInvariance == CasesSpec => []CasesInv
<1>1. CasesInit => CasesInv
  <2> SUFFICES ASSUME CasesInit PROVE CasesInv
    OBVIOUS
  <2>1. Ids = {}
    BY DEF CasesInit, Ids
  <2>2. Numbers = 1 .. 0
    BY <2>1 DEF Numbers
  <2>3. \A r \in Request : ~Inserting(r)
    BY DEF CasesInit, Inserting, NoRequest
  <2>4. CasesTypeOK
    BY <2>1 DEF CasesInit, CasesTypeOK, RequestState
  <2> QED
    BY <2>1, <2>2, <2>3, <2>4 DEF CasesInv, InsertsSound
<1> QED
  BY <1>1, CasesStep, PTL DEF CasesSpec

\* The rows of a user's cases and the requests about them keep their types.
THEOREM CasesTypeCorrect == CasesSpec => []CasesTypeOK
<1>1. CasesInv => CasesTypeOK
  BY DEF CasesInv
<1> QED
  BY <1>1, CasesInvariance, PTL

\* The numbers in use are 1 to the highest, and one thread never gives a number
\* twice, for any number of threads, anchors and cases.
THEOREM NumbersContiguous == CasesSpec => []CaseNumbersContiguous
<1>1. CasesInv => CaseNumbersContiguous
  <2> SUFFICES ASSUME CasesInv PROVE CaseNumbersContiguous
    OBVIOUS
  <2>1. PICK m \in Nat : Numbers = 1 .. m
    BY DEF CasesInv
  <2>2. {cases[i].number : i \in Ids} = 1 .. m
    BY <2>1 DEF Numbers
  <2>3. \A n \in 1 .. m : 1 .. n \subseteq 1 .. m
    OBVIOUS
  <2>4. 0 \notin 1 .. m
    OBVIOUS
  <2>5. \A i, j \in Ids :
          cases[i].number = cases[j].number /\ cases[i].by = cases[j].by => i = j
    BY DEF CasesInv
  <2> QED
    BY <2>2, <2>3, <2>4, <2>5 DEF CaseNumbersContiguous
<1> QED
  BY <1>1, CasesInvariance, PTL

-----------------------------------------------------------------------------
(* The request cap.                                                          *)

\* The state of the cap keeps its types.
THEOREM QuotaTypeCorrect == QuotaSpec => []QuotaTypeOK
<1>1. QuotaInit => QuotaTypeOK
  BY QuotaAssumption DEF QuotaInit, QuotaTypeOK
<1>2. QuotaTypeOK /\ [QuotaNext]_quotaVars => QuotaTypeOK'
  <2> SUFFICES ASSUME QuotaTypeOK, [QuotaNext]_quotaVars PROVE QuotaTypeOK'
    OBVIOUS
  <2> USE QuotaAssumption DEF QuotaTypeOK
  <2>1. ASSUME NEW p \in Server, Admit(p) PROVE QuotaTypeOK'
    BY <2>1 DEF Admit
  <2>2. ASSUME NEW p \in Server, Refuse(p) PROVE QuotaTypeOK'
    BY <2>2 DEF Refuse
  <2>3. ASSUME NEW p \in Server, RecordCall(p) PROVE QuotaTypeOK'
    BY <2>3 DEF RecordCall
  <2>4. ASSUME NEW p \in Server, TurnedAway(p) PROVE QuotaTypeOK'
    BY <2>4 DEF TurnedAway
  <2>5. CASE MinutePasses
    BY <2>5 DEF MinutePasses
  <2>6. CASE UNCHANGED quotaVars
    BY <2>6 DEF quotaVars
  <2> QED
    BY <2>1, <2>2, <2>3, <2>4, <2>5, <2>6 DEF QuotaNext
<1> QED
  BY <1>1, <1>2, PTL DEF QuotaSpec

-----------------------------------------------------------------------------
\* The processes past the cap are finitely many, and one that is not among
\* them leaves room for itself.
LEMMA AdmittedCount ==
  ASSUME QuotaTypeOK
  PROVE  /\ IsFiniteSet(admitted)
         /\ Cardinality(admitted) \in Nat /\ Cardinality(Server) \in Nat
         /\ Cardinality(Server) >= 1
         /\ \A p \in Server : p \notin admitted =>
               Cardinality(admitted) <= Cardinality(Server) - 1
<1>1. /\ IsFiniteSet(Server) /\ admitted \subseteq Server /\ Server # {}
  BY QuotaAssumption DEF QuotaTypeOK
<1>2. IsFiniteSet(admitted)
  BY <1>1, FS_Subset
<1>3. Cardinality(admitted) \in Nat /\ Cardinality(Server) \in Nat
  BY <1>1, <1>2, FS_CardinalityType
<1>4. Cardinality(Server) >= 1
  BY <1>1, <1>3, FS_EmptySet
<1>5. ASSUME NEW p \in Server, p \notin admitted
      PROVE  Cardinality(admitted) <= Cardinality(Server) - 1
  <2>1. /\ IsFiniteSet(Server \ {p})
        /\ Cardinality(Server \ {p}) = Cardinality(Server) - 1
    BY <1>1, <1>5, FS_RemoveElement
  <2>2. admitted \subseteq Server \ {p}
    BY <1>1, <1>5
  <2> QED
    BY <2>1, <2>2, FS_Subset
<1> QED
  BY <1>2, <1>3, <1>4, <1>5

\* Entering and leaving the pre-flight moves the count by one.
LEMMA AdmittedStep ==
  ASSUME QuotaTypeOK, NEW p \in Server
  PROVE  /\ p \notin admitted =>
              Cardinality(admitted \cup {p}) = Cardinality(admitted) + 1
         /\ p \in admitted =>
              Cardinality(admitted \ {p}) = Cardinality(admitted) - 1
  BY AdmittedCount, FS_AddElement, FS_RemoveElement

\* No minute has more calls than the limit and one for every process but one,
\* counting those admitted and not yet recorded; a limit of 0 lets none pass.
THEOREM CallsPerMinute == QuotaSpec => []RateBounded
<1> DEFINE Inv == RateBounded /\ (Limit = 0 => admitted = {})
<1>1. QuotaInit => Inv
  <2> SUFFICES ASSUME QuotaInit PROVE Inv
    OBVIOUS
  <2>1. Cardinality(admitted) = 0 /\ calls = 0 /\ admitted = {}
    BY FS_EmptySet DEF QuotaInit
  <2>2. Cardinality(Server) \in Nat /\ Cardinality(Server) >= 1
    BY QuotaAssumption, FS_CardinalityType, FS_EmptySet
  <2> QED
    BY <2>1, <2>2, QuotaAssumption DEF RateBounded
<1>2. QuotaTypeOK /\ Inv /\ [QuotaNext]_quotaVars => Inv'
  <2> SUFFICES ASSUME QuotaTypeOK, Inv, [QuotaNext]_quotaVars PROVE Inv'
    OBVIOUS
  <2>0. /\ Cardinality(admitted) \in Nat /\ Cardinality(Server) \in Nat
        /\ calls \in Nat /\ refused \in Nat /\ Limit \in Nat
    BY AdmittedCount, QuotaAssumption DEF QuotaTypeOK
  <2>1. ASSUME NEW p \in Server, Admit(p) PROVE Inv'
    <3>1. Cardinality(admitted') = Cardinality(admitted) + 1
      BY <2>1, AdmittedStep DEF Admit
    <3>2. Cardinality(admitted) <= Cardinality(Server) - 1
      BY <2>1, AdmittedCount DEF Admit
    <3>3. calls + refused < Limit /\ calls' = calls
      BY <2>1 DEF Admit, UnderLimit
    <3> QED
      BY <2>0, <3>1, <3>2, <3>3 DEF RateBounded
  <2>2. ASSUME NEW p \in Server, Refuse(p) PROVE Inv'
    BY <2>2 DEF Refuse, RateBounded
  <2>3. ASSUME NEW p \in Server, RecordCall(p) PROVE Inv'
    <3>1. Cardinality(admitted') = Cardinality(admitted) - 1
      BY <2>3, AdmittedStep DEF RecordCall
    <3>2. calls' = calls + 1 /\ Limit # 0
      BY <2>3 DEF RecordCall
    <3> QED
      BY <2>0, <3>1, <3>2 DEF RateBounded
  <2>4. ASSUME NEW p \in Server, TurnedAway(p) PROVE Inv'
    <3>1. Cardinality(admitted') = Cardinality(admitted) - 1 /\ calls' = calls
      BY <2>4, AdmittedStep DEF TurnedAway
    <3>2. Limit = 0 => admitted' = {}
      BY <2>4 DEF TurnedAway
    <3> QED
      BY <2>0, <3>1, <3>2 DEF RateBounded
  <2>5. CASE MinutePasses
    BY <2>0, <2>5 DEF MinutePasses, RateBounded
  <2>6. CASE UNCHANGED quotaVars
    BY <2>6 DEF quotaVars, RateBounded
  <2> QED
    BY <2>1, <2>2, <2>3, <2>4, <2>5, <2>6 DEF QuotaNext
<1> QED
  BY <1>1, <1>2, QuotaTypeCorrect, PTL DEF QuotaSpec

-----------------------------------------------------------------------------
(* Submission.                                                               *)

\* The records have the fields that the actions update.
Shapes ==
    /\ {"status", "rows"} \subseteq DOMAIN submission
    /\ reviews = [r \in Review |-> reviews[r]]
    /\ \A r \in Review : reviews[r].phase \in {"evaluate", "decided"} =>
         {"phase", "current"} \subseteq DOMAIN reviews[r]
    /\ \A d \in decisions : "current" \in DOMAIN d

\* No request is about a submission that was not uploaded.
NothingBefore ==
    submission.status = "none" => \A r \in Review : reviews[r] = NoReview

\* A request that no override overtook holds the attributes as they are ...
ReadsTrue ==
    \A r \in Review :
        reviews[r].phase = "evaluate" /\ reviews[r].current =>
            reviews[r].bag = Bag

\* ... or decided on them as they are, ...
DecidedTrue ==
    \A r \in Review :
        reviews[r].phase = "decided" /\ reviews[r].current =>
            reviews[r].status = OverallStatus(Bag)

\* ... and so did the decisions that no override followed.
DecisionsTrue ==
    /\ (submission.status = "evaluated") <=> (decisions # {})
    /\ \A d \in decisions : d.current => d.status = OverallStatus(Bag)

SubmissionInv ==
    Shapes /\ NothingBefore /\ ReadsTrue /\ DecidedTrue /\ DecisionsTrue

-----------------------------------------------------------------------------
\* An attribute fails iff a clause of it that is decided is breached.
LEMMA AttributeFails ==
    ASSUME NEW bag, NEW a
    PROVE  AttributeVerdict(bag, a) = "fail" <=>
             /\ a \in Taxonomy
             /\ \E c \in Clauses[a] :
                  /\ ~Undecided(bag, bag[a], c)
                  /\ bag[a].n = Text \/ ~Meets(bag[a].n, c)
BY DEF AttributeVerdict, ClauseVerdict

\* An attribute passes iff it has clauses, all of them decided and met.
LEMMA AttributePasses ==
    ASSUME NEW bag, NEW a
    PROVE  AttributeVerdict(bag, a) = "pass" <=>
             /\ a \in Taxonomy /\ Clauses[a] # {}
             /\ \A c \in Clauses[a] :
                  /\ ~Undecided(bag, bag[a], c)
                  /\ bag[a].n # Text /\ Meets(bag[a].n, c)
BY DEF AttributeVerdict, ClauseVerdict

LEMMA AttributeVerdicts ==
    ASSUME NEW bag, NEW a
    PROVE  AttributeVerdict(bag, a) \in {"fail", "uncertain", "pass"}
BY DEF AttributeVerdict

\* Where every attribute passes, no clause depends on an input that is missing:
\* the status "incomplete" is never given.
LEMMA NothingMissing ==
    ASSUME NEW bag,
           \A a \in DOMAIN bag : AttributeVerdict(bag, a) = "pass"
    PROVE  Unevaluated(bag) = {}
<1>1. \A a \in (DOMAIN bag) \cap Taxonomy : \A c \in Clauses[a] :
        c.on \subseteq DOMAIN bag
    BY AttributePasses DEF Undecided
<1>2. SUFFICES ASSUME NEW x \in Unevaluated(bag)
               PROVE  FALSE
    OBVIOUS
<1> DEFINE surfaced == UNION {Clauses[a] : a \in (DOMAIN bag) \cap Taxonomy}
<1> DEFINE inputs == UNION {c.on : c \in surfaced}
<1>3. x \in inputs /\ x \notin DOMAIN bag
    <2>1. Unevaluated(bag) = inputs \ DOMAIN bag
        BY Zenon DEF Unevaluated
    <2> HIDE DEF inputs
    <2>2. QED
        BY <1>2, <2>1
<1>4. PICK c \in surfaced : x \in c.on
    BY <1>3
<1>5. PICK a \in (DOMAIN bag) \cap Taxonomy : c \in Clauses[a]
    BY <1>4
<1>6. QED
    BY <1>1, <1>3, <1>4, <1>5

\* The aggregation over attributes and over clauses says what the clauses say.
LEMMA StatusIsVerdict ==
    ASSUME NEW bag
    PROVE  OverallStatus(bag) = Verdict(bag)
<1> DEFINE applies == [a \in DOMAIN bag |->
                         IF a \in Taxonomy THEN Clauses[a] ELSE {}]
           Breached(a, c) == /\ ~Undecided(bag, bag[a], c)
                             /\ bag[a].n = Text \/ ~Meets(bag[a].n, c)
<1>1. (\E a \in DOMAIN bag : \E c \in applies[a] : Breached(a, c)) <=>
      \E a \in DOMAIN bag : AttributeVerdict(bag, a) = "fail"
    BY AttributeFails
<1>2. CASE \E a \in DOMAIN bag : AttributeVerdict(bag, a) = "fail"
    <2>1. OverallStatus(bag) = "non_compliant"
        BY <1>2 DEF OverallStatus
    <2>2. QED
        BY <1>1, <1>2, <2>1 DEF Verdict
<1>3. CASE \A a \in DOMAIN bag : AttributeVerdict(bag, a) = "pass"
    <2>1. OverallStatus(bag) = "compliant"
        BY <1>3, NothingMissing DEF OverallStatus
    <2>2. \A a \in DOMAIN bag :
            /\ applies[a] # {}
            /\ \A c \in applies[a] : ~Undecided(bag, bag[a], c)
        BY <1>3, AttributePasses
    <2>3. ~ \E a \in DOMAIN bag : AttributeVerdict(bag, a) = "fail"
        BY <1>3
    <2>4. QED
        BY <1>1, <2>1, <2>2, <2>3 DEF Verdict
<1>4. CASE /\ ~ \E a \in DOMAIN bag : AttributeVerdict(bag, a) = "fail"
           /\ \E a \in DOMAIN bag : AttributeVerdict(bag, a) # "pass"
    <2>1. PICK a \in DOMAIN bag : AttributeVerdict(bag, a) # "pass"
        BY <1>4
    <2>2. AttributeVerdict(bag, a) = "uncertain"
        BY <1>4, <2>1, AttributeVerdicts
    <2>3. OverallStatus(bag) = "uncertain"
        BY <1>4, <2>2 DEF OverallStatus
    <2>4. ~ /\ applies[a] # {}
            /\ \A c \in applies[a] : ~Undecided(bag, bag[a], c)
        BY <1>4, <2>1, AttributePasses, AttributeFails
    <2>5. QED
        BY <1>1, <1>4, <2>3, <2>4 DEF Verdict
<1>5. QED
    BY <1>2, <1>3, <1>4

-----------------------------------------------------------------------------
\* The bag, and what is decided on it, follow the attribute rows alone.
LEMMA BagUnchanged ==
    ASSUME submission'.rows = submission.rows
    PROVE  Bag' = Bag /\ OverallStatus(Bag)' = OverallStatus(Bag)
<1>1. Bag' = Bag
    BY DEF Bag
<1>2. QED
    BY <1>1 DEF OverallStatus, AttributeVerdict, Unevaluated

\* A step that begins a review keeps the invariant if what it read is as it is.
LEMMA OpensKeeps ==
    ASSUME SubmissionInv, NEW r \in Review, NEW review, Opens(r, review),
           review.phase # "decided",
           review.phase \in {"evaluate", "decided"} =>
             {"phase", "current"} \subseteq DOMAIN review,
           review.phase = "evaluate" /\ review.current => review.bag = Bag
    PROVE  SubmissionInv'
<1> USE DEF Opens, SubmissionInv
<1>1. /\ submission' = submission /\ decisions' = decisions
      /\ submission.status # "none"
      /\ reviews' = [s \in Review |-> IF s = r THEN review ELSE reviews[s]]
    BY DEF Shapes
<1>2. Bag' = Bag /\ OverallStatus(Bag)' = OverallStatus(Bag)
    BY <1>1, BagUnchanged
<1>3. Shapes'
    BY <1>1 DEF Shapes
<1>4. NothingBefore'
    BY <1>1 DEF NothingBefore
<1>5. ReadsTrue'
    BY <1>1, <1>2 DEF ReadsTrue
<1>6. DecidedTrue'
    BY <1>1, <1>2 DEF DecidedTrue
<1>7. DecisionsTrue'
    BY <1>1, <1>2 DEF DecisionsTrue
<1>8. QED
    BY <1>3, <1>4, <1>5, <1>6, <1>7

\* A step that ends a review and leaves the rows alone keeps the invariant.
LEMMA EndsKeeps ==
    ASSUME SubmissionInv, NEW r \in Review,
           UNCHANGED <<submission, decisions>>,
           reviews' = [reviews EXCEPT ![r] = NoReview]
    PROVE  SubmissionInv'
<1> USE DEF SubmissionInv
<1>1. reviews' = [s \in Review |-> IF s = r THEN NoReview ELSE reviews[s]]
    BY DEF Shapes
<1>2. Bag' = Bag /\ OverallStatus(Bag)' = OverallStatus(Bag)
    BY BagUnchanged
<1>3. Shapes'
    BY <1>1 DEF Shapes, NoReview
<1>4. NothingBefore'
    BY <1>1 DEF NothingBefore
<1>5. ReadsTrue'
    BY <1>1, <1>2 DEF ReadsTrue, NoReview
<1>6. DecidedTrue'
    BY <1>1, <1>2 DEF DecidedTrue, NoReview
<1>7. DecisionsTrue'
    BY <1>2 DEF DecisionsTrue
<1>8. QED
    BY <1>3, <1>4, <1>5, <1>6, <1>7

LEMMA UploadKeeps ==
    ASSUME SubmissionInv, Upload
    PROVE  SubmissionInv'
<1> USE DEF SubmissionInv
<1>1. /\ submission.status = "none" /\ submission'.status = "draft"
      /\ {"status", "rows"} \subseteq DOMAIN submission'
      /\ decisions' = decisions /\ reviews' = reviews
    BY DEF Upload
<1>2. decisions = {} /\ \A r \in Review : reviews[r] = NoReview
    BY <1>1 DEF DecisionsTrue, NothingBefore
<1>3. Shapes'
    BY <1>1 DEF Shapes
<1>4. NothingBefore'
    BY <1>1 DEF NothingBefore
<1>5. ReadsTrue' /\ DecidedTrue'
    BY <1>1, <1>2 DEF ReadsTrue, DecidedTrue, NoReview
<1>6. DecisionsTrue'
    BY <1>1, <1>2 DEF DecisionsTrue
<1>7. QED
    BY <1>3, <1>4, <1>5, <1>6

LEMMA ConfirmKeeps ==
    ASSUME SubmissionInv, ConfirmSubmission
    PROVE  SubmissionInv'
<1> USE DEF SubmissionInv
<1>1. /\ submission'.status = submission.status
      /\ submission'.rows = submission.rows
      /\ DOMAIN submission' = DOMAIN submission
      /\ decisions' = decisions /\ reviews' = reviews
    BY DEF ConfirmSubmission, Shapes
<1>2. Bag' = Bag /\ OverallStatus(Bag)' = OverallStatus(Bag)
    BY <1>1, BagUnchanged
<1>3. Shapes'
    BY <1>1 DEF Shapes
<1>4. NothingBefore'
    BY <1>1 DEF NothingBefore
<1>5. ReadsTrue'
    BY <1>1, <1>2 DEF ReadsTrue
<1>6. DecidedTrue'
    BY <1>1, <1>2 DEF DecidedTrue
<1>7. DecisionsTrue'
    BY <1>1, <1>2 DEF DecisionsTrue
<1>8. QED
    BY <1>3, <1>4, <1>5, <1>6, <1>7

\* An override makes whatever was read or decided before it outdated.
LEMMA OverrideKeeps ==
    ASSUME SubmissionInv, NEW r \in Review, OverrideEnds(r)
    PROVE  SubmissionInv'
<1> USE DEF SubmissionInv
<1> DEFINE review == reviews[r]
<1>1. CASE review.found = {} /\ review.key \in DOMAIN submission.rows
    <2>1. /\ UNCHANGED <<submission, decisions>>
          /\ reviews' = [reviews EXCEPT ![r] = NoReview]
        BY <1>1 DEF OverrideEnds
    <2>2. QED
        BY <2>1, EndsKeeps
<1>2. CASE ~(review.found = {} /\ review.key \in DOMAIN submission.rows)
    <2>1. /\ review.phase = "override"
          /\ submission'.status = submission.status
          /\ DOMAIN submission' = DOMAIN submission
          /\ decisions' = {[d EXCEPT !.current = FALSE] : d \in decisions}
          /\ reviews' = [s \in Review |->
                IF s = r THEN NoReview ELSE Outdated(reviews[s])]
        BY <1>2 DEF OverrideEnds, Shapes
    <2>2. submission.status # "none"
        BY <2>1 DEF NothingBefore, NoReview
    <2>3. ASSUME NEW s \in Review, reviews'[s].phase \in {"evaluate", "decided"}
          PROVE  /\ {"phase", "current"} \subseteq DOMAIN reviews'[s]
                 /\ reviews'[s].current = FALSE
        <3>1. s # r /\ reviews'[s] = Outdated(reviews[s])
            BY <2>1, <2>3 DEF NoReview
        <3>2. reviews[s].phase \in {"evaluate", "decided"}
            BY <2>3, <3>1 DEF Outdated
        <3>3. reviews'[s] = [reviews[s] EXCEPT !.current = FALSE]
            BY <3>1, <3>2 DEF Outdated
        <3>4. {"phase", "current"} \subseteq DOMAIN reviews[s]
            BY <3>2 DEF Shapes
        <3>5. QED
            BY <3>3, <3>4
    <2>4. \A d \in decisions' : "current" \in DOMAIN d /\ d.current = FALSE
        BY <2>1 DEF Shapes
    <2>5. Shapes'
        BY <2>1, <2>3, <2>4 DEF Shapes
    <2>6. NothingBefore'
        BY <2>1, <2>2 DEF NothingBefore
    <2>7. ReadsTrue' /\ DecidedTrue'
        BY <2>3 DEF ReadsTrue, DecidedTrue
    <2>8. (decisions' # {}) <=> (decisions # {})
        BY <2>1
    <2>9. DecisionsTrue'
        BY <2>1, <2>4, <2>8 DEF DecisionsTrue
    <2>10. QED
        BY <2>5, <2>6, <2>7, <2>9
<1>3. QED
    BY <1>1, <1>2

LEMMA DecideKeeps ==
    ASSUME SubmissionInv, NEW r \in Review, Decide(r)
    PROVE  SubmissionInv'
<1> USE DEF SubmissionInv
<1> DEFINE loaded == IF reviews[r].status = "none" THEN submission.status
                    ELSE reviews[r].status
           decided == [phase |-> "decided", locks |-> loaded = "draft",
                       current |-> reviews[r].current,
                       status |-> OverallStatus(reviews[r].bag),
                       at |-> clock + 1]
<1>1. /\ reviews[r].phase = "evaluate"
      /\ submission' = submission /\ decisions' = decisions
      /\ reviews' = [s \in Review |-> IF s = r THEN decided ELSE reviews[s]]
    BY DEF Decide, Shapes
<1>2. Bag' = Bag /\ OverallStatus(Bag)' = OverallStatus(Bag)
    BY <1>1, BagUnchanged
<1>3. submission.status # "none"
    BY <1>1 DEF NothingBefore, NoReview
<1>4. Shapes'
    BY <1>1 DEF Shapes
<1>5. NothingBefore'
    BY <1>1, <1>3 DEF NothingBefore
<1>6. ReadsTrue'
    BY <1>1, <1>2 DEF ReadsTrue
<1>7. reviews[r].current => OverallStatus(reviews[r].bag) = OverallStatus(Bag)
    BY <1>1 DEF ReadsTrue
<1>8. DecidedTrue'
    BY <1>1, <1>2, <1>7 DEF DecidedTrue
<1>9. DecisionsTrue'
    BY <1>1, <1>2 DEF DecisionsTrue
<1>10. QED
    BY <1>4, <1>5, <1>6, <1>8, <1>9

LEMMA CommitKeeps ==
    ASSUME SubmissionInv, NEW r \in Review, CommitDecision(r)
    PROVE  SubmissionInv'
<1> USE DEF SubmissionInv
<1>1. /\ reviews[r].phase = "decided"
      /\ submission'.status = "evaluated"
      /\ submission'.rows = submission.rows
      /\ DOMAIN submission' = DOMAIN submission
      /\ decisions' = decisions \cup {[status |-> reviews[r].status,
                                       at |-> reviews[r].at,
                                       current |-> reviews[r].current]}
      /\ reviews' = [s \in Review |-> IF s = r THEN NoReview ELSE reviews[s]]
    BY DEF CommitDecision, Shapes
<1>2. Bag' = Bag /\ OverallStatus(Bag)' = OverallStatus(Bag)
    BY <1>1, BagUnchanged
<1>3. Shapes'
    BY <1>1 DEF Shapes, NoReview
<1>4. NothingBefore'
    BY <1>1 DEF NothingBefore
<1>5. ReadsTrue'
    BY <1>1, <1>2 DEF ReadsTrue, NoReview
<1>6. DecidedTrue'
    BY <1>1, <1>2 DEF DecidedTrue, NoReview
<1>7. reviews[r].current => reviews[r].status = OverallStatus(Bag)
    BY <1>1 DEF DecidedTrue
<1>8. DecisionsTrue'
    <2>1. decisions' # {}
        BY <1>1
    <2>2. ASSUME NEW d \in decisions', d.current
          PROVE  d.status = OverallStatus(Bag)
        <3>1. CASE d \in decisions
            BY <2>2, <3>1 DEF DecisionsTrue
        <3>2. CASE d \notin decisions
            <4>1. d = [status |-> reviews[r].status, at |-> reviews[r].at,
                       current |-> reviews[r].current]
                BY <1>1, <3>2
            <4>2. QED
                BY <1>7, <2>2, <4>1
        <3>3. QED
            BY <3>1, <3>2
    <2>3. QED
        BY <1>1, <1>2, <2>1, <2>2 DEF DecisionsTrue
<1>9. QED
    BY <1>3, <1>4, <1>5, <1>6, <1>8

-----------------------------------------------------------------------------
\* The inductive invariant: whoever read or decided before the last override is
\* known to be outdated, and everybody else agrees with the attributes.
THEOREM SubmissionInvariance == SubmissionSpec => []SubmissionInv
<1>1. SubmissionInit => SubmissionInv
    BY DEF SubmissionInit, SubmissionInv, Shapes, NothingBefore, ReadsTrue,
           DecidedTrue, DecisionsTrue, NoReview
<1>2. SubmissionInv /\ [SubmissionNext]_submissionVars => SubmissionInv'
    <2> SUFFICES ASSUME SubmissionInv, [SubmissionNext]_submissionVars
                 PROVE  SubmissionInv'
        OBVIOUS
    <2>1. CASE Upload
        BY <2>1, UploadKeeps
    <2>2. CASE ConfirmSubmission
        BY <2>2, ConfirmKeeps
    <2>3. ASSUME NEW r \in Review, OverrideBegins(r)
          PROVE  SubmissionInv'
        BY <2>3, OpensKeeps DEF OverrideBegins
    <2>4. ASSUME NEW r \in Review, OverrideEnds(r)
          PROVE  SubmissionInv'
        BY <2>4, OverrideKeeps
    <2>5. ASSUME NEW r \in Review,
                 Evaluates(r, Bag, submission.status, TRUE)
          PROVE  SubmissionInv'
        BY <2>5, OpensKeeps DEF Evaluates
    <2>6. ASSUME NEW r \in Review, EvaluateForChat(r)
          PROVE  SubmissionInv'
        BY <2>6, OpensKeeps DEF EvaluateForChat, Evaluates
    <2>7. ASSUME NEW r \in Review, Decide(r)
          PROVE  SubmissionInv'
        BY <2>7, DecideKeeps
    <2>8. ASSUME NEW r \in Review, CommitDecision(r)
          PROVE  SubmissionInv'
        BY <2>8, CommitKeeps
    <2>9. ASSUME NEW r \in Review, ReviewFails(r)
          PROVE  SubmissionInv'
        BY <2>9, EndsKeeps DEF ReviewFails
    <2>10. CASE UNCHANGED submissionVars
        <3>1. Bag' = Bag /\ OverallStatus(Bag)' = OverallStatus(Bag)
            BY <2>10, BagUnchanged DEF submissionVars
        <3>2. QED
            BY <2>10, <3>1 DEF submissionVars, SubmissionInv, Shapes,
                   NothingBefore, ReadsTrue, DecidedTrue, DecisionsTrue
    <2>11. QED
        BY <2>1, <2>2, <2>3, <2>4, <2>5, <2>6, <2>7, <2>8, <2>9, <2>10
           DEF SubmissionNext, EvaluateSubmission, EvaluateForIntegration
<1>3. QED
    BY <1>1, <1>2, PTL DEF SubmissionSpec

\* The last decision shown says of the attributes what their clauses say,
\* unless an override or the chat's model came in between (evaluator.py,
\* submissions_router.py), for all clauses, values and requests.
THEOREM MatrixAlwaysTrue == SubmissionSpec => []MatrixTrue
<1>1. SubmissionInv => MatrixTrue
    BY StatusIsVerdict DEF SubmissionInv, DecisionsTrue, MatrixTrue
<1>2. QED
    BY <1>1, SubmissionInvariance, PTL


-----------------------------------------------------------------------------
(* The shapes of the rows and requests, and the bound of the clock.        *)

\* Every request deciding took a tick of the clock when it began, and takes one
\* more when it decides.
Evaluating == {r \in Review : reviews[r].phase = "evaluate"}

ClockOK ==
    /\ clock \in Nat /\ IsFiniteSet(Evaluating)
    /\ Cardinality(Evaluating) <= clock
    /\ clock + Cardinality(Evaluating) <= 2 * MaxClock

ReviewOK(review) ==
    /\ review.phase \in ReviewPhase
    /\ review.phase = "override" =>
        /\ review.key \in Attribute /\ review.value \in Value
        /\ review.found \subseteq AttributeRow
    /\ review.phase \in {"evaluate", "decided"} => review.current \in BOOLEAN
    /\ review.phase = "decided" =>
        /\ {"phase", "status", "at", "current"} \subseteq DOMAIN review
        /\ [status |-> review.status, at |-> review.at, current |-> review.current]
                \in Decision

SubmissionOK ==
    /\ submission = [status |-> submission.status, pdf |-> submission.pdf,
                     confirmed |-> submission.confirmed, rows |-> submission.rows]
    /\ submission.status \in SubmissionStatus
    /\ submission.pdf \in BOOLEAN /\ submission.confirmed \in BOOLEAN
    /\ DOMAIN submission.rows \subseteq Attribute
    /\ \A a \in DOMAIN submission.rows : submission.rows[a] \in AttributeRow

TypeInv ==
    /\ SubmissionOK
    /\ decisions \subseteq Decision
    /\ \A r \in Review : ReviewOK(reviews[r])
    /\ ClockOK

\* What an override writes is a row again.
LEMMA OverriddenTyped ==
    ASSUME NEW review, ReviewOK(review), review.phase = "override"
    PROVE  /\ Overridden(review) \in AttributeRow
           /\ \A row \in AttributeRow : Updated(review, row) \in AttributeRow
<1>1. review.value \in Value /\ review.found \subseteq AttributeRow
  BY DEF ReviewOK
<1>2. Overridden(review) \in AttributeRow
  <2>1. CASE \E row \in review.found : row.source # "override"
    <3>1. (CHOOSE row \in review.found : TRUE) \in AttributeRow
      BY <1>1, <2>1
    <3> QED BY <1>1, <2>1, <3>1 DEF Overridden, AttributeRow, Source
  <2>2. CASE ~ \E row \in review.found : row.source # "override"
    BY <1>1, <2>2 DEF Overridden, AttributeRow, Source
  <2> QED BY <2>1, <2>2
<1>3. ASSUME NEW row \in AttributeRow PROVE Updated(review, row) \in AttributeRow
  <2> DEFINE new == Overridden(review)
             keeps(f) == \E old \in review.found : old[f] = new[f]
  <2>1. /\ DOMAIN row = {"value", "source", "from"}
        /\ row.value \in Value /\ row.source \in Source
        /\ row.from \in Value \cup {NoValue}
    BY DEF AttributeRow
  <2>2. /\ new.value \in Value /\ new.source \in Source
        /\ new.from \in Value \cup {NoValue}
    BY <1>2 DEF AttributeRow
  <2>3. Updated(review, row) = [f \in DOMAIN row |-> IF keeps(f) THEN row[f] ELSE new[f]]
    BY DEF Updated
  <2> HIDE DEF new, keeps
  <2>4. Updated(review, row) =
            [value |-> IF keeps("value") THEN row.value ELSE new.value,
             source |-> IF keeps("source") THEN row.source ELSE new.source,
             from |-> IF keeps("from") THEN row.from ELSE new.from]
    BY <2>1, <2>3
  <2> QED BY <2>1, <2>2, <2>4 DEF AttributeRow
<1> QED BY <1>2, <1>3

\* A step that opens no evaluation and lets the clock be.
LEMMA ClockKept ==
    ASSUME ClockOK, UNCHANGED clock, Evaluating' \subseteq Evaluating PROVE ClockOK'
<1>1. IsFiniteSet(Evaluating') /\ Cardinality(Evaluating') <= Cardinality(Evaluating)
  BY FS_Subset DEF ClockOK
<1>2. Cardinality(Evaluating) \in Nat /\ Cardinality(Evaluating') \in Nat
  BY <1>1, FS_CardinalityType DEF ClockOK
<1> QED BY <1>1, <1>2, SubmissionAssumption DEF ClockOK

\* The step of one request.
LEMMA ReviewTyped ==
    ASSUME Shapes, TypeInv, NEW r \in Review, NEW review, ReviewOK(review),
           reviews' = [reviews EXCEPT ![r] = review]
    PROVE  /\ \A s \in Review : ReviewOK(reviews'[s])
           /\ Evaluating' = IF review.phase = "evaluate" THEN Evaluating \cup {r}
                                                         ELSE Evaluating \ {r}
<1>1. reviews' = [s \in Review |-> IF s = r THEN review ELSE reviews[s]]
  BY DEF Shapes
<1>2. \A s \in Review : ReviewOK(reviews'[s])
  BY <1>1 DEF TypeInv
<1>3. Evaluating' = IF review.phase = "evaluate" THEN Evaluating \cup {r}
                                                 ELSE Evaluating \ {r}
  BY <1>1 DEF Evaluating
<1> QED BY <1>2, <1>3

LEMMA OpensTyped ==
    ASSUME Shapes, TypeInv, NEW r \in Review, NEW review, Opens(r, review),
           ReviewOK(review)
    PROVE  TypeInv'
<1>1. /\ reviews[r] = NoReview /\ clock < MaxClock /\ clock' = clock + 1
      /\ reviews' = [reviews EXCEPT ![r] = review]
      /\ UNCHANGED <<submission, decisions>>
  BY DEF Opens
<1>2. \A s \in Review : ReviewOK(reviews'[s])
  BY <1>1, ReviewTyped
<1>3. ClockOK'
  <2>1. /\ clock \in Nat /\ IsFiniteSet(Evaluating) /\ MaxClock \in Nat
        /\ Cardinality(Evaluating) <= clock
    BY SubmissionAssumption DEF TypeInv, ClockOK
  <2>2. r \notin Evaluating
    BY <1>1 DEF Evaluating, NoReview
  <2>3. /\ IsFiniteSet(Evaluating \cup {r})
        /\ Cardinality(Evaluating \cup {r}) = Cardinality(Evaluating) + 1
        /\ Cardinality(Evaluating) \in Nat
    BY <2>1, <2>2, FS_AddElement, FS_CardinalityType
  <2>4. Evaluating' = Evaluating \cup {r} \/ Evaluating' = Evaluating
    <3>1. Evaluating \ {r} = Evaluating
      BY <2>2
    <3> QED BY <1>1, <3>1, ReviewTyped
  <2>5. /\ IsFiniteSet(Evaluating') /\ Cardinality(Evaluating') \in Nat
        /\ Cardinality(Evaluating') <= Cardinality(Evaluating) + 1
    <3>1. CASE Evaluating' = Evaluating \cup {r}
      BY <2>3, <3>1
    <3>2. CASE Evaluating' = Evaluating
      BY <2>1, <2>3, <3>2
    <3> QED BY <2>4, <3>1, <3>2
  <2> QED BY <1>1, <2>1, <2>3, <2>5 DEF ClockOK
<1>4. SubmissionOK' /\ decisions' \subseteq Decision
  BY <1>1 DEF TypeInv, SubmissionOK
<1> QED BY <1>2, <1>3, <1>4 DEF TypeInv

\* A request that ends without writing.
LEMMA EndsTyped ==
    ASSUME Shapes, TypeInv, NEW r \in Review, UNCHANGED clock,
           reviews' = [reviews EXCEPT ![r] = NoReview]
    PROVE  (\A s \in Review : ReviewOK(reviews'[s])) /\ ClockOK'
<1>1. ReviewOK(NoReview) /\ NoReview.phase # "evaluate"
  BY DEF ReviewOK, NoReview, ReviewPhase
<1>2. (\A s \in Review : ReviewOK(reviews'[s])) /\ Evaluating' = Evaluating \ {r}
  BY <1>1, ReviewTyped
<1> QED BY <1>2, ClockKept DEF TypeInv


LEMMA UploadTyped ==
    ASSUME TypeInv, Upload PROVE TypeInv'
<1>1. PICK pdf \in BOOLEAN, bag \in Bags(Taxonomy, Extracted) :
        submission' = [status |-> "draft", pdf |-> pdf, confirmed |-> FALSE,
            rows |-> [a \in DOMAIN bag |->
                        [value |-> bag[a], from |-> NoValue,
                         source |-> IF a \in Derived THEN "derived" ELSE "extracted"]]]
  BY DEF Upload
<1>2. PICK D \in SUBSET Taxonomy : bag \in [D -> Extracted]
  BY DEF Bags
<1>3. D \subseteq Attribute /\ DOMAIN bag = D /\ \A a \in D : bag[a] \in Value
  BY <1>2, SubmissionAssumption DEF Value
<1>4. SubmissionOK'
  <2>1. \A a \in D : submission'.rows[a] \in AttributeRow
    BY <1>1, <1>3 DEF AttributeRow, Source
  <2>2. DOMAIN submission'.rows = D
    BY <1>1, <1>3
  <2> QED BY <1>1, <1>3, <2>1, <2>2 DEF SubmissionOK, SubmissionStatus
<1>5. Evaluating' = Evaluating /\ UNCHANGED <<decisions, reviews, clock>>
  BY DEF Upload, Evaluating
<1> QED BY <1>4, <1>5, ClockKept DEF TypeInv

LEMMA ConfirmTyped ==
    ASSUME TypeInv, ConfirmSubmission PROVE TypeInv'
<1>1. /\ submission' = [status |-> submission.status, pdf |-> submission.pdf,
                        confirmed |-> TRUE, rows |-> submission.rows]
      /\ UNCHANGED <<decisions, reviews, clock>>
  BY DEF ConfirmSubmission, TypeInv, SubmissionOK
<1>2. SubmissionOK'
  BY <1>1 DEF TypeInv, SubmissionOK
<1>3. Evaluating' = Evaluating
  BY <1>1 DEF Evaluating
<1> QED BY <1>1, <1>2, <1>3, ClockKept DEF TypeInv

LEMMA OverrideBeginsTyped ==
    ASSUME Shapes, TypeInv, NEW r \in Review, OverrideBegins(r) PROVE TypeInv'
<1>1. PICK a \in Attribute, v \in Typed :
        Opens(r, [phase |-> "override", key |-> a, value |-> v,
                  found |-> IF a \in DOMAIN submission.rows
                            THEN {submission.rows[a]} ELSE {}])
  BY DEF OverrideBegins
<1>2. ASSUME a \in DOMAIN submission.rows PROVE submission.rows[a] \in AttributeRow
  BY <1>2 DEF TypeInv, SubmissionOK
<1>3. ReviewOK([phase |-> "override", key |-> a, value |-> v,
                found |-> IF a \in DOMAIN submission.rows
                          THEN {submission.rows[a]} ELSE {}])
  BY <1>2 DEF ReviewOK, ReviewPhase, Value
<1> QED BY <1>1, <1>3, OpensTyped

LEMMA EvaluatesTyped ==
    ASSUME Shapes, TypeInv, NEW r \in Review, NEW bag, NEW status, NEW current \in BOOLEAN,
           Evaluates(r, bag, status, current)
    PROVE  TypeInv'
<1>1. ReviewOK([phase |-> "evaluate", bag |-> bag, status |-> status,
                current |-> current])
  BY DEF ReviewOK, ReviewPhase
<1> QED BY <1>1, OpensTyped DEF Evaluates

LEMMA OverrideEndsTyped ==
    ASSUME Shapes, TypeInv, NEW r \in Review, OverrideEnds(r) PROVE TypeInv'
<1> DEFINE review == reviews[r]
           a == review.key
           rows == submission.rows
<1>1. /\ ReviewOK(review) /\ review.phase = "override" /\ UNCHANGED clock
      /\ a \in Attribute
  BY DEF OverrideEnds, TypeInv, ReviewOK
<1>2. CASE review.found = {} /\ a \in DOMAIN rows
  <2>1. /\ reviews' = [reviews EXCEPT ![r] = NoReview]
        /\ UNCHANGED <<submission, decisions>>
    BY <1>2 DEF OverrideEnds
  <2>2. SubmissionOK'
    BY <2>1 DEF TypeInv, SubmissionOK
  <2> QED BY <1>1, <2>1, <2>2, EndsTyped DEF TypeInv
<1>3. CASE ~(review.found = {} /\ a \in DOMAIN rows)
  <2> DEFINE new == [k \in DOMAIN rows \cup {a} |->
                        IF k # a THEN rows[k]
                        ELSE IF a \in DOMAIN rows THEN Updated(review, rows[a])
                        ELSE Overridden(review)]
  <2>1. /\ submission' = [submission EXCEPT !.rows = new]
        /\ decisions' = {[d EXCEPT !.current = FALSE] : d \in decisions}
        /\ reviews' = [s \in Review |->
                IF s = r THEN NoReview ELSE Outdated(reviews[s])]
    BY <1>3 DEF OverrideEnds
  <2>2. \A k \in DOMAIN rows \cup {a} : new[k] \in AttributeRow
    BY <1>1, OverriddenTyped DEF TypeInv, SubmissionOK
  <2>3. DOMAIN new \subseteq Attribute
    BY <1>1 DEF TypeInv, SubmissionOK
  <2>4. DOMAIN new = DOMAIN rows \cup {a}
    OBVIOUS
  <2> HIDE DEF new, rows, a, review
  <2>5. submission' = [status |-> submission.status, pdf |-> submission.pdf,
                       confirmed |-> submission.confirmed, rows |-> new]
    BY <2>1 DEF TypeInv, SubmissionOK
  <2>6. SubmissionOK'
    BY <2>2, <2>3, <2>4, <2>5 DEF TypeInv, SubmissionOK
  <2>7. decisions' \subseteq Decision
    <3>1. ASSUME NEW d \in Decision PROVE [d EXCEPT !.current = FALSE] \in Decision
      BY DEF Decision
    <3> QED BY <2>1, <3>1 DEF TypeInv
  <2>8. ASSUME NEW s \in Review PROVE ReviewOK(reviews'[s])
    <3>1. CASE s = r
      BY <2>1, <3>1 DEF ReviewOK, NoReview, ReviewPhase
    <3>2. CASE s # r /\ reviews[s].phase \notin {"evaluate", "decided"}
      BY <2>1, <3>2 DEF Outdated, TypeInv
    <3>3. CASE s # r /\ reviews[s].phase \in {"evaluate", "decided"}
      <4>1. /\ reviews'[s] = [reviews[s] EXCEPT !.current = FALSE]
            /\ {"phase", "current"} \subseteq DOMAIN reviews[s]
            /\ ReviewOK(reviews[s])
        BY <2>1, <3>3 DEF Outdated, Shapes, TypeInv
      <4>2. reviews'[s].phase = reviews[s].phase /\ reviews'[s].current = FALSE
        BY <4>1
      <4>3. ASSUME reviews[s].phase = "decided"
            PROVE  /\ {"phase", "status", "at", "current"} \subseteq DOMAIN reviews'[s]
                   /\ reviews'[s].status = reviews[s].status
                   /\ reviews'[s].at = reviews[s].at
        BY <4>1, <4>3 DEF ReviewOK
      <4> QED BY <3>3, <4>1, <4>2, <4>3 DEF ReviewOK, Decision
    <3> QED BY <3>1, <3>2, <3>3
  <2>9. Evaluating' \subseteq Evaluating
    <3>1. ASSUME NEW s \in Evaluating' PROVE s \in Evaluating
      <4>1. s \in Review /\ s # r /\ Outdated(reviews[s]).phase = "evaluate"
        BY <2>1 DEF Evaluating, NoReview
      <4>2. CASE reviews[s].phase \in {"evaluate", "decided"}
        <5>1. Outdated(reviews[s]).phase = reviews[s].phase
          BY <4>1, <4>2 DEF Outdated, Shapes
        <5> QED BY <4>1, <5>1 DEF Evaluating
      <4> QED BY <4>1, <4>2 DEF Outdated, Evaluating
    <3> QED BY <3>1
  <2> QED BY <1>1, <2>6, <2>7, <2>8, <2>9, ClockKept DEF TypeInv
<1> QED BY <1>2, <1>3

LEMMA DecideTyped ==
    ASSUME Shapes, TypeInv, NEW r \in Review, Decide(r) PROVE TypeInv'
<1> DEFINE overall == OverallStatus(reviews[r].bag)
           loaded == IF reviews[r].status = "none" THEN submission.status
                     ELSE reviews[r].status
           decided == [phase |-> "decided", locks |-> loaded = "draft",
                       current |-> reviews[r].current, status |-> overall,
                       at |-> clock + 1]
<1>1. /\ reviews[r].phase = "evaluate" /\ clock' = clock + 1
      /\ reviews' = [reviews EXCEPT ![r] = decided]
      /\ UNCHANGED <<submission, decisions>>
  BY DEF Decide
<1>2. overall \in {"compliant", "non_compliant", "uncertain", "incomplete"}
  BY DEF OverallStatus
<1>3. reviews[r].current \in BOOLEAN /\ clock \in Nat
  BY <1>1 DEF TypeInv, ReviewOK, ClockOK
<1> HIDE DEF overall, loaded
<1>4. ReviewOK(decided) /\ decided.phase = "decided"
  BY <1>2, <1>3 DEF ReviewOK, ReviewPhase, Decision
<1> HIDE DEF decided
<1>5. (\A s \in Review : ReviewOK(reviews'[s])) /\ Evaluating' = Evaluating \ {r}
  BY <1>1, <1>4, ReviewTyped
<1>6. ClockOK'
  <2>1. r \in Evaluating /\ IsFiniteSet(Evaluating)
    BY <1>1 DEF Evaluating, TypeInv, ClockOK
  <2>2. /\ IsFiniteSet(Evaluating \ {r})
        /\ Cardinality(Evaluating \ {r}) = Cardinality(Evaluating) - 1
        /\ Cardinality(Evaluating) \in Nat /\ Cardinality(Evaluating \ {r}) \in Nat
    BY <2>1, FS_RemoveElement, FS_CardinalityType
  <2>3. IsFiniteSet(Evaluating') /\ Cardinality(Evaluating') = Cardinality(Evaluating) - 1
    BY <1>5, <2>2
  <2>4. /\ Cardinality(Evaluating) <= clock
        /\ clock + Cardinality(Evaluating) <= 2 * MaxClock /\ MaxClock \in Nat
    BY SubmissionAssumption DEF TypeInv, ClockOK
  <2> QED BY <1>1, <1>3, <2>2, <2>3, <2>4 DEF ClockOK
<1>7. SubmissionOK'
  BY <1>1 DEF TypeInv, SubmissionOK
<1> QED BY <1>1, <1>5, <1>6, <1>7 DEF TypeInv

LEMMA CommitTyped ==
    ASSUME Shapes, TypeInv, NEW r \in Review, CommitDecision(r) PROVE TypeInv'
<1>1. /\ submission' = [submission EXCEPT !.status = "evaluated"]
      /\ decisions' = decisions \cup {[status |-> reviews[r].status,
                                       at |-> reviews[r].at,
                                       current |-> reviews[r].current]}
      /\ reviews' = [reviews EXCEPT ![r] = NoReview] /\ UNCHANGED clock
      /\ reviews[r].phase = "decided"
  BY DEF CommitDecision
<1>2. decisions' \subseteq Decision
  BY <1>1 DEF TypeInv, ReviewOK
<1>3. submission' = [status |-> "evaluated", pdf |-> submission.pdf,
                     confirmed |-> submission.confirmed, rows |-> submission.rows]
  BY <1>1 DEF TypeInv, SubmissionOK
<1>4. SubmissionOK'
  BY <1>3 DEF TypeInv, SubmissionOK, SubmissionStatus
<1> QED BY <1>1, <1>2, <1>4, EndsTyped DEF TypeInv

\* Rows, decisions and requests keep their shape, and the clock its bound: every
\* decision was begun before the clock reached it.
THEOREM SubmissionTypeCorrect == SubmissionSpec => []SubmissionTypeOK
<1>1. SubmissionInit => TypeInv
  <2> SUFFICES ASSUME SubmissionInit PROVE TypeInv
    OBVIOUS
  <2>1. SubmissionOK /\ decisions \subseteq Decision
    BY DEF SubmissionInit, SubmissionOK, SubmissionStatus
  <2>2. \A r \in Review : ReviewOK(reviews[r]) /\ reviews[r].phase # "evaluate"
    BY DEF SubmissionInit, ReviewOK, NoReview, ReviewPhase
  <2>3. Evaluating = {} /\ clock = 0 /\ MaxClock \in Nat
    BY <2>2, SubmissionAssumption DEF Evaluating, SubmissionInit
  <2>4. ClockOK
    BY <2>3, FS_EmptySet DEF ClockOK
  <2> QED BY <2>1, <2>2, <2>4 DEF TypeInv
<1>2. SubmissionInv /\ TypeInv /\ [SubmissionNext]_submissionVars => TypeInv'
  <2> SUFFICES ASSUME SubmissionInv, TypeInv, [SubmissionNext]_submissionVars
               PROVE  TypeInv'
    OBVIOUS
  <2>0. Shapes
    BY DEF SubmissionInv
  <2>1. CASE Upload
    BY <2>1, UploadTyped
  <2>2. CASE ConfirmSubmission
    BY <2>2, ConfirmTyped
  <2>3. ASSUME NEW r \in Review, OverrideBegins(r) \/ OverrideEnds(r) PROVE TypeInv'
    BY <2>0, <2>3, OverrideBeginsTyped, OverrideEndsTyped
  <2>4. ASSUME NEW r \in Review,
               EvaluateSubmission(r) \/ EvaluateForIntegration(r) \/ EvaluateForChat(r)
        PROVE  TypeInv'
    BY <2>0, <2>4, EvaluatesTyped
       DEF EvaluateSubmission, EvaluateForIntegration, EvaluateForChat
  <2>5. ASSUME NEW r \in Review, Decide(r) \/ CommitDecision(r) PROVE TypeInv'
    BY <2>0, <2>5, DecideTyped, CommitTyped
  <2>6. ASSUME NEW r \in Review, ReviewFails(r) PROVE TypeInv'
    <3>1. /\ reviews' = [reviews EXCEPT ![r] = NoReview]
          /\ UNCHANGED <<submission, decisions, clock>>
      BY <2>6 DEF ReviewFails
    <3>2. SubmissionOK'
      BY <3>1 DEF TypeInv, SubmissionOK
    <3> QED BY <2>0, <3>1, <3>2, EndsTyped DEF TypeInv
  <2>7. CASE UNCHANGED submissionVars
    <3>1. UNCHANGED <<submission, decisions, reviews, clock>>
      BY <2>7 DEF submissionVars
    <3>2. Evaluating' = Evaluating /\ SubmissionOK'
      BY <3>1 DEF Evaluating, TypeInv, SubmissionOK
    <3> QED BY <3>1, <3>2, ClockKept DEF TypeInv
  <2> QED BY <2>1, <2>2, <2>3, <2>4, <2>5, <2>6, <2>7 DEF SubmissionNext
<1>3. TypeInv => SubmissionTypeOK
  <2> SUFFICES ASSUME TypeInv PROVE SubmissionTypeOK
    OBVIOUS
  <2>1. clock \in 0 .. 2 * MaxClock
    <3>1. Cardinality(Evaluating) \in Nat /\ clock \in Nat
      BY FS_CardinalityType DEF TypeInv, ClockOK
    <3>2. clock + Cardinality(Evaluating) <= 2 * MaxClock /\ MaxClock \in Nat
      BY SubmissionAssumption DEF TypeInv, ClockOK
    <3> QED BY <3>1, <3>2
  <2> QED BY <2>1 DEF TypeInv, SubmissionOK, ReviewOK, SubmissionTypeOK
<1> QED BY <1>1, <1>2, <1>3, SubmissionInvariance, PTL DEF SubmissionSpec

=============================================================================
