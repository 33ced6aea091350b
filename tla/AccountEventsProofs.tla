------------------------ MODULE AccountEventsProofs ------------------------
(* Proofs about AccountEvents: its types, the purchase of a checkout and the *)
(* rows and grants of a Clerk id, for any identities, checkouts, events and  *)
(* workers, and for a dedupe of any reach.                                   *)
(*                                                                           *)
(* The properties speak of what is committed; the invariant speaks of what   *)
(* is staged as well.  A staged profile request excludes every other staged  *)
(* request about its Clerk id, so that the row it found is still the row     *)
(* when it commits; a staged purchase excludes every other of its checkout,  *)
(* and every profile request of the buyer.  No such thing is true of a       *)
(* request that has only passed the dedupe, and none is needed.              *)
EXTENDS AccountEvents, TLAPS

\* The request of w handles an event that some provider or client can send.
RequestSound(w) ==
    LET e == job[w].event
    IN /\ e \in Event \cup SignIn
       /\ e.kind = "paid" => paid[e.of] # 0

\* A staged profile request found the row as it still is, and is alone.
ProfileStaged(w) ==
    LET i == job[w].event.of
    IN /\ job[w].user = row[i]
       /\ row[i] = 0 => job[w].event.kind # "deleted" /\ rows[i] < MaxRows
       /\ \A v \in Worker :
            job[v].phase = "staged" /\ Subject(job[v].event) = i => v = w

\* A staged purchase is the only one of its checkout, and its buyer's row is
\* still the one that paid.
PurchaseStaged(w) ==
    LET c == job[w].event.of
    IN /\ job[w].user = paid[c] /\ row[Buyer[c]] = paid[c] /\ pack[c] = 0
       /\ \A v \in Staged({"paid"}) : job[v].event.of = c => v = w

RequestsSound ==
    \A w \in Worker :
        /\ job[w].phase # "idle" => RequestSound(w)
        /\ job[w].phase = "staged" /\ job[w].event.kind = "paid" =>
             PurchaseStaged(w)
        /\ job[w].phase = "staged" /\ job[w].event.kind # "paid" =>
             ProfileStaged(w)

\* A row without the flag of the signup grant has still its grant to come, and
\* the flag goes with the row.
FlagsSound ==
    \A i \in Identity :
        /\ row[i] = 0 => i \notin flagged
        /\ row[i] # 0 /\ i \notin flagged => granted[i] < rows[i]

\* A payment is reported only of a checkout that is paid.
EventsSound == \A e \in unanswered : e.kind = "paid" => paid[e.of] # 0

Committed == PackIssuedOnce /\ GrantsBoundedByErasures /\ FlagsSound

AccountInv == AccountTypeOK /\ RequestsSound /\ EventsSound /\ Committed

-----------------------------------------------------------------------------
(* The events.                                                             *)

LEMMA EventShape ==
  ASSUME NEW e \in Event \cup SignIn
  PROVE  /\ e.kind \in {"paid", "created", "deleted", "signin"}
         /\ e.kind = "paid" <=> e \in Paid
         /\ e.kind = "paid" => /\ e \in Event /\ e.of \in Checkout
                               /\ Subject(e) = Buyer[e.of]
         /\ e.kind # "paid" => /\ e \in Clerk \cup SignIn /\ e.of \in Identity
                               /\ Subject(e) = e.of
         /\ Subject(e) \in Identity
  BY AccountAssumption DEF Event, Paid, Clerk, SignIn, Subject

LEMMA JobShape ==
  ASSUME AccountTypeOK, NEW w \in Worker
  PROVE  /\ job[w].phase \in {"idle", "handle", "staged"}
         /\ job[w].event \in Event \cup SignIn \cup {NoEvent}
         /\ job[w].user \in Nat
  BY DEF AccountTypeOK, Job

-----------------------------------------------------------------------------
(* What a step leaves as it was.                                           *)

\* The committed part depends on these variables only.
LEMMA CommittedKept ==
  ASSUME Committed, UNCHANGED <<profiles, purchases, paid>>
  PROVE  Committed'
  BY DEF Committed, PackIssuedOnce, GrantsBoundedByErasures, FlagsSound,
         profiles, purchases

\* A request that begins, or ends with nothing written, leaves the others
\* sound.
LEMMA RequestChanges ==
  ASSUME AccountTypeOK, RequestsSound, UNCHANGED <<row, rows, paid, pack>>,
         NEW w \in Worker, NEW j \in Job, job' = [job EXCEPT ![w] = j],
         j.phase # "staged",
         j.phase # "idle" => /\ j.event \in Event \cup SignIn
                             /\ j.event.kind = "paid" => paid[j.event.of] # 0
  PROVE  RequestsSound'
<1> SUFFICES ASSUME NEW v \in Worker
             PROVE  /\ job'[v].phase # "idle" => RequestSound(v)'
                    /\ job'[v].phase = "staged" /\ job'[v].event.kind = "paid"
                         => PurchaseStaged(v)'
                    /\ job'[v].phase = "staged" /\ job'[v].event.kind # "paid"
                         => ProfileStaged(v)'
  BY DEF RequestsSound
<1>1. /\ job'[w] = j
      /\ \A u \in Worker : u # w => job'[u] = job[u]
  BY DEF AccountTypeOK
<1>2. CASE v = w
  BY <1>1, <1>2 DEF RequestSound
<1>3. CASE v # w
  <2>1. job'[v] = job[v]
    BY <1>1, <1>3
  <2>2. \A u \in Worker : job'[u].phase = "staged" =>
                            job[u].phase = "staged" /\ job'[u] = job[u]
    BY <1>1
  <2>3. job[v].phase # "idle" => RequestSound(v)'
    BY <2>1 DEF RequestsSound, RequestSound
  <2>4. job[v].phase = "staged" /\ job[v].event.kind = "paid" =>
          PurchaseStaged(v)'
    BY <2>1, <2>2 DEF RequestsSound, PurchaseStaged, Staged
  <2>5. job[v].phase = "staged" /\ job[v].event.kind # "paid" =>
          ProfileStaged(v)'
    BY <2>1, <2>2 DEF RequestsSound, ProfileStaged
  <2> QED
    BY <2>1, <2>3, <2>4, <2>5
<1> QED
  BY <1>2, <1>3

\* The end of a request of w is such a change.
LEMMA NoJobIsOne == NoJob \in Job /\ NoJob.phase = "idle"
  BY DEF NoJob, Job

LEMMA RequestEnds ==
  ASSUME AccountInv, NEW w \in Worker, job' = [job EXCEPT ![w] = NoJob],
         UNCHANGED <<profiles, purchases, paid, marker>>,
         unanswered' \subseteq unanswered, swallowed' \subseteq Checkout,
         failures' \in 0..MaxFailures
  PROVE  AccountInv'
<1>1. RequestsSound'
  BY NoJobIsOne, RequestChanges DEF AccountInv, profiles, purchases
<1>2. Committed'
  BY CommittedKept DEF AccountInv
<1>3. EventsSound'
  BY DEF AccountInv, EventsSound
<1>4. AccountTypeOK'
  BY NoJobIsOne DEF AccountInv, AccountTypeOK, profiles, purchases
<1> QED
  BY <1>1, <1>2, <1>3, <1>4 DEF AccountInv

-----------------------------------------------------------------------------
(* The providers and the deliveries.                                       *)

LEMMA SendingKeeps ==
  ASSUME AccountInv, NEW e \in Event, ClerkSends(e) \/ StripeResends(e)
  PROVE  AccountInv'
<1>1. /\ UNCHANGED <<profiles, purchases, paid, marker, swallowed, job, failures>>
      /\ unanswered' = unanswered \cup {e}
      /\ e.kind = "paid" => paid[e.of] # 0
  BY EventShape DEF ClerkSends, StripeResends, Event, Clerk
<1>2. Committed'
  BY <1>1, CommittedKept DEF AccountInv
<1>3. EventsSound'
  BY <1>1 DEF AccountInv, EventsSound
<1>4. AccountTypeOK'
  BY <1>1 DEF AccountInv, AccountTypeOK, profiles, purchases
<1>5. RequestsSound'
  BY <1>1 DEF AccountInv, RequestsSound, RequestSound, PurchaseStaged,
              ProfileStaged, Staged, profiles, purchases
<1> QED
  BY <1>2, <1>3, <1>4, <1>5 DEF AccountInv

LEMMA PayKeeps ==
  ASSUME AccountInv, NEW c \in Checkout, Pay(c)
  PROVE  AccountInv'
<1> USE DEF AccountInv
<1>1. /\ UNCHANGED <<profiles, purchases, marker, swallowed, job, failures>>
      /\ paid[c] = 0 /\ paid' = [paid EXCEPT ![c] = row[Buyer[c]]]
      /\ row[Buyer[c]] # 0
      /\ unanswered' = unanswered \cup {e \in Paid : e.of = c}
  BY DEF Pay
<1>2. /\ paid'[c] # 0 /\ \A d \in Checkout : d # c => paid'[d] = paid[d]
      /\ \A d \in Checkout : paid[d] # 0 => paid'[d] = paid[d]
  BY <1>1 DEF AccountTypeOK
<1>3. AccountTypeOK'
  BY <1>1, AccountAssumption
  DEF AccountTypeOK, profiles, purchases, Event
<1>4. EventsSound'
  BY <1>1, <1>2, EventShape DEF EventsSound, AccountTypeOK
<1>5. PackIssuedOnce'
  BY <1>1, <1>2 DEF Committed, PackIssuedOnce, AccountTypeOK, profiles,
                    purchases
<1>6. (GrantsBoundedByErasures /\ FlagsSound)'
  BY <1>1 DEF Committed, GrantsBoundedByErasures, FlagsSound, profiles
<1>7. RequestsSound'
  <2> SUFFICES ASSUME NEW v \in Worker, job[v].phase # "idle"
               PROVE  /\ RequestSound(v)'
                      /\ job[v].phase = "staged" /\ job[v].event.kind = "paid"
                           => PurchaseStaged(v)'
                      /\ job[v].phase = "staged" /\ job[v].event.kind # "paid"
                           => ProfileStaged(v)'
    BY <1>1 DEF RequestsSound
  <2>1. RequestSound(v)
    BY DEF RequestsSound
  <2>2. job[v].event.kind = "paid" =>
          /\ job[v].event.of \in Checkout
          /\ paid'[job[v].event.of] = paid[job[v].event.of]
    BY <2>1, <1>2, EventShape DEF RequestSound
  <2>3. RequestSound(v)'
    BY <2>1, <2>2, <1>1 DEF RequestSound
  <2>4. job[v].phase = "staged" /\ job[v].event.kind = "paid" =>
          PurchaseStaged(v)'
    BY <2>2, <1>1 DEF RequestsSound, PurchaseStaged, Staged, profiles,
                      purchases
  <2>5. job[v].phase = "staged" /\ job[v].event.kind # "paid" =>
          ProfileStaged(v)'
    BY <1>1 DEF RequestsSound, ProfileStaged, profiles
  <2> QED
    BY <2>3, <2>4, <2>5
<1> QED
  BY <1>3, <1>4, <1>5, <1>6, <1>7 DEF Committed

LEMMA ReceiveKeeps ==
  ASSUME AccountInv, NEW w \in Worker, NEW e \in Event \cup SignIn,
         Receive(w, e)
  PROVE  AccountInv'
<1> DEFINE j == [phase |-> "handle", event |-> e, user |-> 0]
<1>1. /\ UNCHANGED <<profiles, purchases, paid, marker, unanswered, swallowed,
                     failures>>
      /\ job' = [job EXCEPT ![w] = j] /\ e \in unanswered \cup SignIn
  BY DEF Receive
<1>2. j \in Job /\ j.phase = "handle" /\ j.event = e
  BY DEF Job
<1>3. e.kind = "paid" => paid[e.of] # 0
  BY <1>1, EventShape DEF AccountInv, EventsSound, SignIn
<1>4. RequestsSound'
  <2> HIDE DEF j
  <2> QED
    BY <1>1, <1>2, <1>3, RequestChanges DEF AccountInv, profiles, purchases
<1>5. Committed'
  BY <1>1, CommittedKept DEF AccountInv
<1>6. EventsSound'
  BY <1>1 DEF AccountInv, EventsSound
<1>7. AccountTypeOK'
  BY <1>1, <1>2 DEF AccountInv, AccountTypeOK, profiles, purchases
<1> QED
  BY <1>4, <1>5, <1>6, <1>7 DEF AccountInv

LEMMA DuplicateKeeps ==
  ASSUME AccountInv, NEW w \in Worker, NEW e \in Event \cup SignIn,
         Duplicate(w, e)
  PROVE  AccountInv'
<1>1. /\ UNCHANGED <<profiles, purchases, paid, marker, swallowed, job, failures>>
      /\ unanswered' = unanswered \ {e}
  BY DEF Duplicate
<1>2. Committed'
  BY <1>1, CommittedKept DEF AccountInv
<1>3. EventsSound'
  BY <1>1 DEF AccountInv, EventsSound
<1>4. AccountTypeOK'
  BY <1>1 DEF AccountInv, AccountTypeOK, profiles, purchases
<1>5. RequestsSound'
  BY <1>1 DEF AccountInv, RequestsSound, RequestSound, PurchaseStaged,
              ProfileStaged, Staged, profiles, purchases
<1> QED
  BY <1>2, <1>3, <1>4, <1>5 DEF AccountInv


-----------------------------------------------------------------------------
(* The handlers: a request ends, or its writes are staged.                 *)

\* The event of a request past the dedupe, and its state.
LEMMA Handling ==
  ASSUME AccountInv, NEW w \in Worker, job[w].phase # "idle"
  PROVE  /\ job[w].event \in Event \cup SignIn
         /\ job[w].event.kind = "paid" => paid[job[w].event.of] # 0
  BY DEF AccountInv, RequestsSound, RequestSound

LEMMA FailsKeeps ==
  ASSUME AccountInv, NEW w \in Worker, Fails(w)
  PROVE  AccountInv'
<1>1. failures' \in 0..MaxFailures
  BY AccountAssumption DEF Fails, AccountInv, AccountTypeOK
<1>2. swallowed' \subseteq Checkout
  BY DEF Fails, AccountInv, AccountTypeOK
<1> QED
  BY <1>1, <1>2, RequestEnds DEF Fails

LEMMA AnsweredKeeps ==
  ASSUME AccountInv, NEW w \in Worker, Answered(w),
         swallowed' \subseteq Checkout, failures' \in 0..MaxFailures
  PROVE  AccountInv'
  BY RequestEnds DEF Answered

\* What staging does to the variables, and to which requests are staged.
LEMMA StagesFrame ==
  ASSUME AccountInv, NEW w \in Worker, NEW user \in Nat, Stages(w, user),
         job[w].phase = "handle"
  PROVE  /\ AccountTypeOK' /\ EventsSound' /\ Committed'
         /\ UNCHANGED <<profiles, purchases, paid>>
         /\ job'[w].phase = "staged" /\ job'[w].event = job[w].event
         /\ job'[w].user = user
         /\ \A v \in Worker : v # w => job'[v] = job[v]
<1> DEFINE j == [phase |-> "staged", event |-> job[w].event, user |-> user]
<1>1. /\ UNCHANGED <<profiles, purchases, paid, marker, unanswered, swallowed,
                     failures>>
      /\ job' = [job EXCEPT ![w] = j]
  BY DEF Stages
<1>2. j \in Job
  BY JobShape DEF AccountInv, Job
<1>3. AccountTypeOK'
  BY <1>1, <1>2 DEF AccountInv, AccountTypeOK, profiles, purchases
<1>4. EventsSound'
  BY <1>1 DEF AccountInv, EventsSound
<1>5. Committed'
  BY <1>1, CommittedKept DEF AccountInv
<1>6. job'[w] = j /\ \A v \in Worker : v # w => job'[v] = job[v]
  BY <1>1 DEF AccountInv, AccountTypeOK
<1> QED
  BY <1>1, <1>3, <1>4, <1>5, <1>6

\* Staging w leaves the other requests sound if none of theirs excludes it.
LEMMA OthersSound ==
  ASSUME AccountInv, NEW w \in Worker, NEW v \in Worker, v # w,
         UNCHANGED <<profiles, purchases, paid>>,
         job'[w].phase = "staged", job'[w].event = job[w].event,
         \A u \in Worker : u # w => job'[u] = job[u],
         job[v].phase = "staged" =>
           IF job[v].event.kind = "paid"
           THEN ~(job[w].event.kind = "paid"
                    /\ job[w].event.of = job[v].event.of)
           ELSE Subject(job[w].event) # job[v].event.of
  PROVE  /\ job'[v].phase # "idle" => RequestSound(v)'
         /\ job'[v].phase = "staged" /\ job'[v].event.kind = "paid" =>
              PurchaseStaged(v)'
         /\ job'[v].phase = "staged" /\ job'[v].event.kind # "paid" =>
              ProfileStaged(v)'
<1>1. job'[v] = job[v]
  OBVIOUS
<1>2. job[v].phase # "idle" => RequestSound(v)'
  BY <1>1 DEF AccountInv, RequestsSound, RequestSound
<1>3. job[v].phase = "staged" /\ job[v].event.kind = "paid" =>
        PurchaseStaged(v)'
  <2> SUFFICES ASSUME job[v].phase = "staged", job[v].event.kind = "paid"
               PROVE  PurchaseStaged(v)'
    OBVIOUS
  <2>1. PurchaseStaged(v)
    BY DEF AccountInv, RequestsSound
  <2>2. ASSUME NEW u \in Worker, job'[u].phase = "staged",
               job'[u].event.kind = "paid",
               job'[u].event.of = job[v].event.of
        PROVE  u = v
    <3>1. u # w
      BY <2>2
    <3> QED
      BY <2>1, <2>2, <3>1 DEF PurchaseStaged, Staged
  <2> QED
    BY <2>1, <2>2, <1>1 DEF PurchaseStaged, Staged, profiles, purchases
<1>4. job[v].phase = "staged" /\ job[v].event.kind # "paid" =>
        ProfileStaged(v)'
  <2> SUFFICES ASSUME job[v].phase = "staged", job[v].event.kind # "paid"
               PROVE  ProfileStaged(v)'
    OBVIOUS
  <2>1. ProfileStaged(v)
    BY DEF AccountInv, RequestsSound
  <2>2. ASSUME NEW u \in Worker, job'[u].phase = "staged",
               Subject(job'[u].event) = job[v].event.of
        PROVE  u = v
    <3>1. u # w
      BY <2>2
    <3> QED
      BY <2>1, <2>2, <3>1 DEF ProfileStaged
  <2> QED
    BY <2>1, <2>2, <1>1 DEF ProfileStaged, profiles
<1> QED
  BY <1>1, <1>2, <1>3, <1>4

\* The requests staged about a Clerk id are the holders of its row.
LEMMA HoldersAre ==
  ASSUME AccountInv, NEW v \in Worker, job[v].phase = "staged"
  PROVE  v \in Holders(Subject(job[v].event))
  BY Handling, EventShape DEF Holders, Staged

LEMMA HandlePaidKeeps ==
  ASSUME AccountInv, NEW w \in Worker, HandlePaid(w)
  PROVE  AccountInv'
<1> DEFINE c == job[w].event.of
<1>1. /\ job[w].phase = "handle" /\ job[w].event.kind = "paid"
      /\ c \in Checkout /\ Subject(job[w].event) = Buyer[c] /\ paid[c] # 0
  BY Handling, EventShape DEF HandlePaid
<1>2. CASE Answered(w) /\ UNCHANGED <<swallowed, failures>>
  BY <1>2, AnsweredKeeps DEF AccountInv, AccountTypeOK
<1>3. CASE /\ failures < MaxFailures /\ failures' = failures + 1
           /\ swallowed' = swallowed \cup {c} /\ Answered(w)
  BY <1>1, <1>3, AnsweredKeeps, AccountAssumption
  DEF AccountInv, AccountTypeOK
<1>4. CASE /\ row[Buyer[c]] = paid[c] /\ ~PackExists(c) /\ ~PackStaged(c)
           /\ \A v \in Holders(Buyer[c]) : job[v].event.kind = "paid"
           /\ Stages(w, paid[c])
  <2>1. paid[c] \in Nat
    BY <1>1 DEF AccountInv, AccountTypeOK
  <2>2. /\ AccountTypeOK' /\ EventsSound' /\ Committed'
        /\ UNCHANGED <<profiles, purchases, paid>>
        /\ job'[w].phase = "staged" /\ job'[w].event = job[w].event
        /\ job'[w].user = paid[c]
        /\ \A v \in Worker : v # w => job'[v] = job[v]
    BY <1>1, <1>4, <2>1, StagesFrame
  <2>3. ASSUME NEW v \in Worker, v # w, job[v].phase = "staged"
        PROVE  IF job[v].event.kind = "paid"
               THEN ~(job[w].event.kind = "paid"
                        /\ job[w].event.of = job[v].event.of)
               ELSE Subject(job[w].event) # job[v].event.of
    <3>1. CASE job[v].event.kind = "paid"
      BY <1>4, <2>3, <3>1 DEF PackStaged, Staged
    <3>2. CASE job[v].event.kind # "paid"
      <4>1. Subject(job[v].event) = job[v].event.of
        BY <2>3, <3>2, Handling, EventShape
      <4> QED
        BY <1>1, <1>4, <2>3, <3>2, <4>1, HoldersAre
    <3> QED
      BY <3>1, <3>2
  <2>4. RequestSound(w)' /\ PurchaseStaged(w)'
    <3>1. RequestSound(w)'
      BY <1>1, <2>2, Handling DEF RequestSound
    <3>2. \A v \in Staged({"paid"})' : job'[v].event.of = c => v = w
      BY <1>4, <2>2 DEF Staged, PackStaged
    <3> QED
      BY <1>4, <2>2, <3>1, <3>2
      DEF PurchaseStaged, PackExists, profiles, purchases
  <2>5. RequestsSound'
    <3>1. ASSUME NEW v \in Worker, v # w
          PROVE  /\ job'[v].phase # "idle" => RequestSound(v)'
                 /\ job'[v].phase = "staged" /\ job'[v].event.kind = "paid" =>
                      PurchaseStaged(v)'
                 /\ job'[v].phase = "staged" /\ job'[v].event.kind # "paid" =>
                      ProfileStaged(v)'
      BY <2>2, <2>3, <3>1, OthersSound
    <3> QED
      BY <1>1, <2>2, <2>4, <3>1 DEF RequestsSound
  <2> QED
    BY <2>2, <2>5 DEF AccountInv
<1> QED
  BY <1>2, <1>3, <1>4 DEF HandlePaid

LEMMA HandleProfileKeeps ==
  ASSUME AccountInv, NEW w \in Worker, HandleProfile(w)
  PROVE  AccountInv'
<1> DEFINE e == job[w].event
           i == e.of
<1>1. /\ job[w].phase = "handle" /\ e.kind # "paid" /\ e \in Event \cup SignIn
      /\ i \in Identity /\ Subject(e) = i
  <2>1. job[w].phase = "handle" /\ e \in Clerk \cup SignIn
    BY DEF HandleProfile
  <2> QED
    BY <2>1, EventShape DEF Event, Clerk, SignIn
<1>2. CASE Answered(w) /\ UNCHANGED <<swallowed, failures>>
  BY <1>2, AnsweredKeeps DEF AccountInv, AccountTypeOK
<1>3. CASE /\ failures < MaxFailures /\ failures' = failures + 1
           /\ UNCHANGED swallowed /\ Answered(w)
  BY <1>1, <1>3, AnsweredKeeps, AccountAssumption
  DEF AccountInv, AccountTypeOK
<1>4. CASE /\ RowFree(i) /\ Stages(w, row[i])
           /\ row[i] = 0 => e.kind # "deleted" /\ rows[i] < MaxRows
  <2>1. row[i] \in Nat
    BY <1>1 DEF AccountInv, AccountTypeOK
  <2>2. /\ AccountTypeOK' /\ EventsSound' /\ Committed'
        /\ UNCHANGED <<profiles, purchases, paid>>
        /\ job'[w].phase = "staged" /\ job'[w].event = job[w].event
        /\ job'[w].user = row[i]
        /\ \A v \in Worker : v # w => job'[v] = job[v]
    BY <1>1, <1>4, <2>1, StagesFrame
  <2>3. ASSUME NEW v \in Worker, job[v].phase = "staged"
        PROVE  Subject(job[v].event) # i
    BY <1>4, <2>3, HoldersAre DEF RowFree
  <2>4. ASSUME NEW v \in Worker, v # w, job[v].phase = "staged"
        PROVE  IF job[v].event.kind = "paid"
               THEN ~(job[w].event.kind = "paid"
                        /\ job[w].event.of = job[v].event.of)
               ELSE Subject(job[w].event) # job[v].event.of
    BY <1>1, <2>3, <2>4, Handling, EventShape
  <2>5. RequestSound(w)' /\ ProfileStaged(w)'
    <3>1. RequestSound(w)'
      BY <1>1, <2>2 DEF RequestSound
    <3>2. \A v \in Worker :
            job'[v].phase = "staged" /\ Subject(job'[v].event) = i => v = w
      BY <2>2, <2>3
    <3> QED
      BY <1>4, <2>2, <3>1, <3>2 DEF ProfileStaged, profiles
  <2>6. RequestsSound'
    <3>1. ASSUME NEW v \in Worker, v # w
          PROVE  /\ job'[v].phase # "idle" => RequestSound(v)'
                 /\ job'[v].phase = "staged" /\ job'[v].event.kind = "paid" =>
                      PurchaseStaged(v)'
                 /\ job'[v].phase = "staged" /\ job'[v].event.kind # "paid" =>
                      ProfileStaged(v)'
      BY <2>2, <2>4, <3>1, OthersSound
    <3> QED
      BY <1>1, <2>2, <2>5, <3>1 DEF RequestsSound
  <2> QED
    BY <2>2, <2>6 DEF AccountInv
<1> QED
  BY <1>2, <1>3, <1>4 DEF HandleProfile


-----------------------------------------------------------------------------
(* The commits.                                                            *)

\* After a commit of w the other requests are as they were, and w is idle.
LEMMA CommitFrame ==
  ASSUME AccountTypeOK, NEW w \in Worker, Acknowledges(w)
  PROVE  /\ UNCHANGED <<paid, swallowed, failures>>
         /\ job' \in [Worker -> Job] /\ job'[w].phase = "idle"
         /\ \A v \in Worker : v # w => job'[v] = job[v]
         /\ unanswered' \subseteq unanswered
  BY NoJobIsOne DEF AccountTypeOK, Acknowledges

\* The other requests are sound after a commit of w if what their own
\* invariant speaks of is as it was.
LEMMA OthersAfterCommit ==
  ASSUME AccountInv, NEW w \in Worker, Acknowledges(w),
         \A v \in Worker : v # w /\ job[v].phase = "staged" =>
           IF job[v].event.kind = "paid"
           THEN LET c == job[v].event.of
                IN row'[Buyer[c]] = row[Buyer[c]] /\ pack'[c] = pack[c]
           ELSE LET i == job[v].event.of
                IN row'[i] = row[i] /\ rows'[i] = rows[i]
  PROVE  RequestsSound'
<1>1. /\ UNCHANGED paid /\ job'[w].phase = "idle"
      /\ \A v \in Worker : v # w => job'[v] = job[v]
  BY CommitFrame DEF AccountInv
<1> SUFFICES ASSUME NEW v \in Worker, v # w
             PROVE  /\ job[v].phase # "idle" => RequestSound(v)'
                    /\ job[v].phase = "staged" /\ job[v].event.kind = "paid"
                         => PurchaseStaged(v)'
                    /\ job[v].phase = "staged" /\ job[v].event.kind # "paid"
                         => ProfileStaged(v)'
  BY <1>1 DEF RequestsSound
<1>2. /\ job'[v] = job[v]
      /\ \A u \in Worker : job'[u].phase = "staged" =>
                             job[u].phase = "staged" /\ job'[u] = job[u]
  BY <1>1
<1>3. job[v].phase # "idle" => RequestSound(v)'
  BY <1>1, <1>2 DEF AccountInv, RequestsSound, RequestSound
<1>4. job[v].phase = "staged" /\ job[v].event.kind = "paid" =>
        PurchaseStaged(v)'
  BY <1>1, <1>2 DEF AccountInv, RequestsSound, PurchaseStaged, Staged
<1>5. job[v].phase = "staged" /\ job[v].event.kind # "paid" =>
        ProfileStaged(v)'
  BY <1>1, <1>2 DEF AccountInv, RequestsSound, ProfileStaged
<1> QED
  BY <1>3, <1>4, <1>5

LEMMA CommitPaidKeeps ==
  ASSUME AccountInv, NEW w \in Worker, CommitPaid(w)
  PROVE  AccountInv'
<1> DEFINE e == job[w].event
           c == e.of
<1>1. /\ job[w].phase = "staged" /\ e.kind = "paid"
      /\ e \in Event /\ c \in Checkout
  BY Handling, EventShape DEF CommitPaid
<1>2. /\ PurchaseStaged(w) /\ job[w].user = paid[c] /\ paid[c] # 0
      /\ row[Buyer[c]] = paid[c] /\ pack[c] = 0 /\ job[w].user \in Nat
  BY <1>1, Handling, JobShape DEF AccountInv, RequestsSound, PurchaseStaged
<1>3. /\ pack' = [pack EXCEPT ![c] = job[w].user]
      /\ credits' = [credits EXCEPT ![c] = @ + Quantity[c]]
      /\ marker' = [marker EXCEPT ![e] = job[w].user]
      /\ Acknowledges(w) /\ UNCHANGED profiles
  BY DEF CommitPaid
<1>4. credits[c] = 0
  BY <1>1, <1>2 DEF AccountInv, Committed, PackIssuedOnce
<1>5. /\ UNCHANGED <<paid, swallowed, failures>>
      /\ job' \in [Worker -> Job] /\ unanswered' \subseteq unanswered
  BY <1>3, CommitFrame DEF AccountInv
<1>6. AccountTypeOK'
  <2>1. /\ pack' \in [Checkout -> Nat] /\ credits' \in [Checkout -> Nat]
        /\ marker' \in [Event -> Nat]
    <3>1. Quantity[c] \in Nat /\ credits[c] + Quantity[c] \in Nat
      BY <1>1, <1>4, AccountAssumption
    <3>2. credits' \in [Checkout -> Nat]
      BY <1>1, <1>3, <3>1 DEF AccountInv, AccountTypeOK
    <3>3. pack' \in [Checkout -> Nat]
      BY <1>1, <1>2, <1>3 DEF AccountInv, AccountTypeOK
    <3>4. marker' \in [Event -> Nat]
      BY <1>1, <1>2, <1>3 DEF AccountInv, AccountTypeOK
    <3> QED
      BY <3>2, <3>3, <3>4
  <2> QED
    BY <1>3, <1>5, <2>1 DEF AccountInv, AccountTypeOK, profiles
<1>7. EventsSound'
  BY <1>5 DEF AccountInv, EventsSound
<1>8. PackIssuedOnce'
  <2> SUFFICES ASSUME NEW d \in Checkout
               PROVE  IF pack'[d] = 0 THEN credits'[d] = 0
                      ELSE /\ credits'[d] = Quantity[d]
                           /\ pack'[d] = paid'[d] /\ pack'[d] = row'[Buyer[d]]
    BY DEF PackIssuedOnce
  <2>1. CASE d = c
    <3>1. pack'[c] = job[w].user /\ credits'[c] = 0 + Quantity[c]
      BY <1>1, <1>3, <1>4 DEF AccountInv, AccountTypeOK
    <3> QED
      BY <1>1, <1>2, <1>3, <1>5, <2>1, <3>1, AccountAssumption DEF profiles
  <2>2. CASE d # c
    <3>1. pack'[d] = pack[d] /\ credits'[d] = credits[d]
      BY <1>3, <2>2 DEF AccountInv, AccountTypeOK
    <3> QED
      BY <1>3, <1>5, <3>1 DEF AccountInv, Committed, PackIssuedOnce, profiles
  <2> QED
    BY <2>1, <2>2
<1>9. (GrantsBoundedByErasures /\ FlagsSound)'
  BY <1>3 DEF AccountInv, Committed, GrantsBoundedByErasures, FlagsSound,
              profiles
<1>10. RequestsSound'
  <2>1. ASSUME NEW v \in Worker, v # w, job[v].phase = "staged",
               job[v].event.kind = "paid"
        PROVE  /\ row'[Buyer[job[v].event.of]] = row[Buyer[job[v].event.of]]
               /\ pack'[job[v].event.of] = pack[job[v].event.of]
    <3>1. job[v].event.of # c /\ job[v].event.of \in Checkout
      BY <1>2, <2>1, Handling, EventShape DEF PurchaseStaged, Staged
    <3> QED
      BY <1>3, <3>1 DEF AccountInv, AccountTypeOK, profiles
  <2>2. ASSUME NEW v \in Worker, v # w, job[v].phase = "staged",
               job[v].event.kind # "paid"
        PROVE  /\ row'[job[v].event.of] = row[job[v].event.of]
               /\ rows'[job[v].event.of] = rows[job[v].event.of]
    BY <1>3 DEF profiles
  <2> QED
    BY <1>3, <2>1, <2>2, OthersAfterCommit
<1> QED
  BY <1>6, <1>7, <1>8, <1>9, <1>10 DEF AccountInv, Committed

\* What a staged profile request knows: its row, and that it is alone.
LEMMA ProfileFacts ==
  ASSUME AccountInv, NEW w \in Worker, job[w].phase = "staged",
         job[w].event.kind # "paid"
  PROVE  LET i == job[w].event.of
         IN /\ i \in Identity /\ job[w].event \in Event \cup SignIn
            /\ job[w].user = row[i]
            /\ row[i] = 0 => job[w].event.kind # "deleted" /\ rows[i] < MaxRows
            /\ \A v \in Worker : v # w /\ job[v].phase = "staged" =>
                 /\ job[v].event \in Event \cup SignIn
                 /\ Subject(job[v].event) # i
  BY Handling, EventShape DEF AccountInv, RequestsSound, ProfileStaged

\* The others are sound after such a commit, which touches nothing but the
\* row of its Clerk id and what belongs to it.
LEMMA OthersAfterProfile ==
  ASSUME AccountInv, NEW w \in Worker, job[w].phase = "staged",
         job[w].event.kind # "paid", Acknowledges(w),
         \A k \in Identity : k # job[w].event.of =>
           row'[k] = row[k] /\ rows'[k] = rows[k],
         \A c \in Checkout : Buyer[c] # job[w].event.of => pack'[c] = pack[c]
  PROVE  RequestsSound'
<1>1. ASSUME NEW v \in Worker, v # w, job[v].phase = "staged",
             job[v].event.kind = "paid"
      PROVE  /\ row'[Buyer[job[v].event.of]] = row[Buyer[job[v].event.of]]
             /\ pack'[job[v].event.of] = pack[job[v].event.of]
  BY <1>1, ProfileFacts, EventShape
<1>2. ASSUME NEW v \in Worker, v # w, job[v].phase = "staged",
             job[v].event.kind # "paid"
      PROVE  /\ row'[job[v].event.of] = row[job[v].event.of]
             /\ rows'[job[v].event.of] = rows[job[v].event.of]
  BY <1>2, ProfileFacts, EventShape
<1> QED
  BY <1>1, <1>2, OthersAfterCommit

LEMMA CommitProfileKeeps ==
  ASSUME AccountInv, NEW w \in Worker, CommitProfile(w)
  PROVE  AccountInv'
<1> DEFINE e == job[w].event
           i == e.of
           new == job[w].user = 0
<1>1. /\ job[w].phase = "staged" /\ e.kind \in {"created", "signin"}
      /\ row' = [row EXCEPT ![i] = IF new THEN rows[i] + 1 ELSE @]
      /\ rows' = [rows EXCEPT ![i] = IF new THEN @ + 1 ELSE @]
      /\ Acknowledges(w) /\ UNCHANGED <<erased, purchases>>
  BY DEF CommitProfile
<1>2. /\ i \in Identity /\ e \in Event \cup SignIn /\ job[w].user = row[i]
      /\ row[i] = 0 => rows[i] < MaxRows
  BY <1>1, ProfileFacts
<1>3. \/ /\ e.kind = "signin"
         /\ granted' = [granted EXCEPT ![i] =
                          IF i \in flagged THEN @ ELSE @ + 1]
         /\ flagged' = flagged \cup {i}
         /\ redeemed' = [redeemed EXCEPT ![i] =
                          IF new /\ i \in Invited THEN @ + 1 ELSE @]
         /\ entered' = entered \cup {i}
         /\ UNCHANGED marker
      \/ /\ e.kind = "created"
         /\ marker' = [marker EXCEPT ![e] = row'[i]]
         /\ UNCHANGED <<granted, flagged, redeemed, entered>>
  BY DEF CommitProfile
<1>4. /\ UNCHANGED <<paid, swallowed, failures>>
      /\ job' \in [Worker -> Job] /\ unanswered' \subseteq unanswered
  BY <1>1, CommitFrame DEF AccountInv
<1>5. /\ row[i] = 0 => row'[i] = rows[i] + 1 /\ rows'[i] = rows[i] + 1
      /\ row[i] # 0 => row'[i] = row[i] /\ rows'[i] = rows[i]
      /\ \A k \in Identity : k # i => row'[k] = row[k] /\ rows'[k] = rows[k]
      /\ rows[i] \in Nat /\ row[i] \in Nat
  BY <1>1, <1>2, AccountAssumption DEF AccountInv, AccountTypeOK
<1>6. AccountTypeOK'
  <2>1. row' \in [Identity -> Nat] /\ rows' \in [Identity -> 0..MaxRows]
    <3>1. row'[i] \in Nat /\ rows'[i] \in 0..MaxRows
      BY <1>2, <1>5, AccountAssumption DEF AccountInv, AccountTypeOK
    <3>2. \A k \in Identity : row'[k] \in Nat /\ rows'[k] \in 0..MaxRows
      BY <1>5, <3>1 DEF AccountInv, AccountTypeOK
    <3>3. /\ row' = [k \in Identity |-> row'[k]]
          /\ rows' = [k \in Identity |-> rows'[k]]
      BY <1>1 DEF AccountInv, AccountTypeOK
    <3> QED
      BY <3>2, <3>3
  <2>2. /\ granted' \in [Identity -> Nat] /\ redeemed' \in [Identity -> Nat]
        /\ flagged' \subseteq Identity /\ entered' \subseteq Identity
    BY <1>2, <1>3 DEF AccountInv, AccountTypeOK
  <2>3. marker' \in [Event -> Nat]
    BY <1>2, <1>3, <2>1 DEF AccountInv, AccountTypeOK
  <2> QED
    BY <1>1, <1>4, <2>1, <2>2, <2>3
    DEF AccountInv, AccountTypeOK, purchases
<1>7. EventsSound'
  BY <1>4 DEF AccountInv, EventsSound
<1>8. PackIssuedOnce'
  <2> SUFFICES ASSUME NEW d \in Checkout
               PROVE  IF pack'[d] = 0 THEN credits'[d] = 0
                      ELSE /\ credits'[d] = Quantity[d]
                           /\ pack'[d] = paid'[d] /\ pack'[d] = row'[Buyer[d]]
    BY DEF PackIssuedOnce
  <2>1. pack'[d] = pack[d] /\ credits'[d] = credits[d] /\ paid'[d] = paid[d]
    BY <1>1, <1>4 DEF purchases
  <2>2. pack[d] # 0 => row[Buyer[d]] # 0
    BY DEF AccountInv, Committed, PackIssuedOnce
  <2>3. pack[d] # 0 => row'[Buyer[d]] = row[Buyer[d]]
    BY <1>5, <2>2, AccountAssumption
  <2> QED
    BY <2>1, <2>3 DEF AccountInv, Committed, PackIssuedOnce
<1>9. (GrantsBoundedByErasures /\ FlagsSound)'
  <2> SUFFICES ASSUME NEW k \in Identity
               PROVE  /\ rows'[k] = erased'[k] + (IF row'[k] = 0 THEN 0 ELSE 1)
                      /\ row'[k] \in {0, rows'[k]}
                      /\ granted'[k] <= rows'[k] /\ redeemed'[k] <= rows'[k]
                      /\ row'[k] = 0 => k \notin flagged'
                      /\ row'[k] # 0 /\ k \notin flagged' =>
                           granted'[k] < rows'[k]
    BY DEF GrantsBoundedByErasures, FlagsSound
  <2>1. /\ rows[k] = erased[k] + (IF row[k] = 0 THEN 0 ELSE 1)
        /\ row[k] \in {0, rows[k]}
        /\ granted[k] <= rows[k] /\ redeemed[k] <= rows[k]
        /\ row[k] = 0 => k \notin flagged
        /\ row[k] # 0 /\ k \notin flagged => granted[k] < rows[k]
        /\ erased'[k] = erased[k]
    BY <1>1 DEF AccountInv, Committed, GrantsBoundedByErasures, FlagsSound
  <2>2. /\ rows[k] \in Nat /\ erased[k] \in Nat /\ granted[k] \in Nat
        /\ redeemed[k] \in Nat /\ row[k] \in Nat
    BY AccountAssumption DEF AccountInv, AccountTypeOK
  <2>3. CASE k # i
    <3>1. /\ granted'[k] = granted[k] /\ redeemed'[k] = redeemed[k]
          /\ k \in flagged' <=> k \in flagged
      BY <1>3, <2>3 DEF AccountInv, AccountTypeOK
    <3> QED
      BY <1>5, <2>1, <2>3, <3>1
  <2>4. CASE k = i
    <3>1. \/ /\ granted'[i] = IF i \in flagged THEN granted[i]
                              ELSE granted[i] + 1
             /\ redeemed'[i] \in {redeemed[i],
                                  IF row[i] = 0 THEN redeemed[i] + 1
                                                ELSE redeemed[i]}
             /\ i \in flagged'
          \/ /\ granted'[i] = granted[i] /\ redeemed'[i] = redeemed[i]
             /\ i \in flagged' <=> i \in flagged
      BY <1>2, <1>3 DEF AccountInv, AccountTypeOK
    <3>2. CASE row[i] = 0
      <4>1. /\ i \notin flagged
            /\ granted'[i] \in {granted[i], granted[i] + 1}
            /\ redeemed'[i] \in {redeemed[i], redeemed[i] + 1}
            /\ i \notin flagged' => granted'[i] = granted[i]
        BY <2>1, <2>4, <3>1, <3>2
      <4> QED
        BY <1>5, <2>1, <2>2, <2>4, <3>2, <4>1
    <3>3. CASE row[i] # 0
      <4>1. redeemed'[i] = redeemed[i]
        BY <3>1, <3>3
      <4> QED
        BY <1>5, <2>1, <2>2, <2>4, <3>1, <3>3, <4>1
    <3> QED
      BY <3>2, <3>3
  <2> QED
    BY <2>3, <2>4
<1>10. RequestsSound'
  BY <1>1, <1>5, OthersAfterProfile DEF purchases
<1> QED
  BY <1>6, <1>7, <1>8, <1>9, <1>10 DEF AccountInv, Committed

LEMMA CommitErasureKeeps ==
  ASSUME AccountInv, NEW w \in Worker, CommitErasure(w)
  PROVE  AccountInv'
<1> DEFINE i == job[w].event.of
<1>1. /\ job[w].phase = "staged" /\ job[w].event.kind = "deleted"
      /\ row' = [row EXCEPT ![i] = 0]
      /\ erased' = [erased EXCEPT ![i] = @ + 1]
      /\ flagged' = flagged \ {i}
      /\ pack' = [c \in Checkout |-> IF Buyer[c] = i THEN 0 ELSE pack[c]]
      /\ credits' = [c \in Checkout |-> IF Buyer[c] = i THEN 0
                                                        ELSE credits[c]]
      /\ marker' = [f \in Event |-> IF Subject(f) = i THEN 0 ELSE marker[f]]
      /\ Acknowledges(w)
      /\ UNCHANGED <<rows, granted, redeemed, entered>>
  BY DEF CommitErasure
<1>2. i \in Identity /\ row[i] # 0
  BY <1>1, ProfileFacts
<1>3. /\ UNCHANGED <<paid, swallowed, failures>>
      /\ job' \in [Worker -> Job] /\ unanswered' \subseteq unanswered
  BY <1>1, CommitFrame DEF AccountInv
<1>4. /\ row'[i] = 0 /\ \A k \in Identity : k # i => row'[k] = row[k]
      /\ erased'[i] = erased[i] + 1
      /\ \A k \in Identity : k # i => erased'[k] = erased[k]
  BY <1>1, <1>2 DEF AccountInv, AccountTypeOK
<1>5. AccountTypeOK'
  <2>1. row' \in [Identity -> Nat] /\ erased' \in [Identity -> Nat]
    BY <1>1, <1>2 DEF AccountInv, AccountTypeOK
  <2>2. /\ pack' \in [Checkout -> Nat] /\ credits' \in [Checkout -> Nat]
        /\ marker' \in [Event -> Nat]
    BY <1>1 DEF AccountInv, AccountTypeOK
  <2> QED
    BY <1>1, <1>3, <2>1, <2>2 DEF AccountInv, AccountTypeOK
<1>6. EventsSound'
  BY <1>3 DEF AccountInv, EventsSound
<1>7. PackIssuedOnce'
  BY <1>1, <1>3, <1>4, AccountAssumption
  DEF AccountInv, Committed, PackIssuedOnce
<1>8. (GrantsBoundedByErasures /\ FlagsSound)'
  <2> SUFFICES ASSUME NEW k \in Identity
               PROVE  /\ rows'[k] = erased'[k] + (IF row'[k] = 0 THEN 0 ELSE 1)
                      /\ row'[k] \in {0, rows'[k]}
                      /\ granted'[k] <= rows'[k] /\ redeemed'[k] <= rows'[k]
                      /\ row'[k] = 0 => k \notin flagged'
                      /\ row'[k] # 0 /\ k \notin flagged' =>
                           granted'[k] < rows'[k]
    BY DEF GrantsBoundedByErasures, FlagsSound
  <2>1. /\ rows[k] = erased[k] + (IF row[k] = 0 THEN 0 ELSE 1)
        /\ row[k] \in {0, rows[k]}
        /\ granted[k] <= rows[k] /\ redeemed[k] <= rows[k]
        /\ row[k] = 0 => k \notin flagged
        /\ row[k] # 0 /\ k \notin flagged => granted[k] < rows[k]
    BY DEF AccountInv, Committed, GrantsBoundedByErasures, FlagsSound
  <2>2. rows[k] \in Nat /\ erased[k] \in Nat
    BY AccountAssumption DEF AccountInv, AccountTypeOK
  <2>3. CASE k = i
    BY <1>1, <1>2, <1>4, <2>1, <2>2, <2>3
  <2>4. CASE k # i
    BY <1>1, <1>4, <2>1, <2>4
  <2> QED
    BY <2>3, <2>4
<1>9. RequestsSound'
  BY <1>1, <1>4, OthersAfterProfile
<1> QED
  BY <1>5, <1>6, <1>7, <1>8, <1>9 DEF AccountInv, Committed

-----------------------------------------------------------------------------
LEMMA AccountStep == AccountInv /\ [AccountNext]_accountVars => AccountInv'
<1> SUFFICES ASSUME AccountInv, [AccountNext]_accountVars PROVE AccountInv'
  OBVIOUS
<1>1. ASSUME NEW e \in Event, ClerkSends(e) \/ StripeResends(e)
      PROVE  AccountInv'
  BY <1>1, SendingKeeps
<1>2. ASSUME NEW c \in Checkout, Pay(c) PROVE AccountInv'
  BY <1>2, PayKeeps
<1>3. ASSUME NEW e \in Event \cup SignIn, Delivered(e) PROVE AccountInv'
  BY <1>3, ReceiveKeeps, DuplicateKeeps DEF Delivered
<1>4. ASSUME NEW w \in Worker, Handle(w) \/ Fails(w) PROVE AccountInv'
  BY <1>4, HandlePaidKeeps, HandleProfileKeeps, CommitPaidKeeps,
     CommitProfileKeeps, CommitErasureKeeps, FailsKeeps DEF Handle
<1>5. CASE UNCHANGED accountVars
  BY <1>5 DEF accountVars, AccountInv, AccountTypeOK, RequestsSound,
              RequestSound, PurchaseStaged, ProfileStaged, Staged, EventsSound,
              Committed, PackIssuedOnce, GrantsBoundedByErasures, FlagsSound
<1> QED
  BY <1>1, <1>2, <1>3, <1>4, <1>5 DEF AccountNext

LEMMA AccountStart == AccountInit => AccountInv
<1> SUFFICES ASSUME AccountInit PROVE AccountInv
  OBVIOUS
<1>1. AccountTypeOK
  BY NoJobIsOne, AccountAssumption DEF AccountInit, AccountTypeOK
<1>2. RequestsSound
  BY NoJobIsOne DEF AccountInit, RequestsSound
<1>3. EventsSound
  BY DEF AccountInit, EventsSound
<1>4. Committed
  BY DEF AccountInit, Committed, PackIssuedOnce, GrantsBoundedByErasures,
         FlagsSound
<1> QED
  BY <1>1, <1>2, <1>3, <1>4 DEF AccountInv

\* The requests in flight and the rows committed stay related as AccountInv
\* says, whatever is delivered, redelivered, reordered or lost.
THEOREM AccountInvariance == AccountSpec => []AccountInv
  BY AccountStart, AccountStep, PTL DEF AccountSpec

\* The rows, purchases, markers and requests keep their types, and no Clerk id
\* has more rows than its bound.
THEOREM AccountTypeCorrect == AccountSpec => []AccountTypeOK
<1>1. AccountInv => AccountTypeOK
  BY DEF AccountInv
<1> QED
  BY <1>1, AccountInvariance, PTL

\* However often, in whatever order and to however many workers the events of
\* a checkout come, and whatever the dedupe of _is_duplicate_event misses, it
\* has one purchase with exactly its credits or none, of the row that paid.
THEOREM PacksIssuedOnce == AccountSpec => []PackIssuedOnce
<1>1. AccountInv => PackIssuedOnce
  BY DEF AccountInv, Committed
<1> QED
  BY <1>1, AccountInvariance, PTL

\* A Clerk id has one row more than were erased at most, and each row brought
\* one signup grant and one redemption at most, whichever of the webhook and
\* the sign-in creates it.
THEOREM GrantsBounded == AccountSpec => []GrantsBoundedByErasures
<1>1. AccountInv => GrantsBoundedByErasures
  BY DEF AccountInv, Committed
<1> QED
  BY <1>1, AccountInvariance, PTL

-----------------------------------------------------------------------------
(* Invites.  That an invited person can sign in without the invite's       *)
(* credits is a run's counterexample; here is the one way it comes about.  *)

\* The webhook, and not the sign-in, creates a row.
WebhookInserts ==
    \E w \in Worker : /\ CommitProfile(w)
                      /\ job[w].event.kind = "created" /\ job[w].user = 0

\* Every row of an invited person was created by a sign-in, which redeemed.
RowsRedeemed ==
    \A i \in Invited : /\ redeemed[i] = rows[i]
                       /\ i \in entered => rows[i] > 0

\* A sign-in that creates no row found one, and one that creates it redeems.
LEMMA SignInRedeems ==
  ASSUME AccountInv, RowsRedeemed, NEW w \in Worker, CommitProfile(w),
         ~WebhookInserts
  PROVE  RowsRedeemed'
<1> DEFINE e == job[w].event
           i == e.of
<1>1. /\ job[w].phase = "staged" /\ e.kind \in {"created", "signin"}
      /\ i \in Identity /\ job[w].user = row[i]
  BY ProfileFacts DEF CommitProfile
<1>2. /\ rows \in [Identity -> 0..MaxRows] /\ redeemed \in [Identity -> Nat]
      /\ rows[i] \in Nat /\ row[i] \in {0, rows[i]}
  BY <1>1, AccountAssumption
  DEF AccountInv, AccountTypeOK, Committed, GrantsBoundedByErasures
<1>3. \A k \in Identity : k # i => rows'[k] = rows[k]
  BY <1>2 DEF CommitProfile
<1>4. CASE e.kind = "created"
  <2>1. job[w].user # 0
    BY <1>4 DEF WebhookInserts
  <2>2. rows'[i] = rows[i] /\ UNCHANGED <<redeemed, entered>>
    BY <1>1, <1>2, <1>4, <2>1 DEF CommitProfile
  <2> QED
    BY <1>3, <2>2, AccountAssumption DEF RowsRedeemed
<1>5. CASE e.kind = "signin"
  <2>1. /\ redeemed' = [redeemed EXCEPT ![i] =
                          IF row[i] = 0 /\ i \in Invited THEN @ + 1 ELSE @]
        /\ entered' = entered \cup {i}
        /\ rows'[i] = IF row[i] = 0 THEN rows[i] + 1 ELSE rows[i]
    BY <1>1, <1>2, <1>5 DEF CommitProfile
  <2>2. rows'[i] > 0
    BY <1>2, <2>1
  <2>3. ASSUME NEW k \in Invited
        PROVE  redeemed'[k] = rows'[k] /\ (k \in entered' => rows'[k] > 0)
    <3>1. CASE k = i
      <4>1. redeemed[i] = rows[i]
        BY <3>1 DEF RowsRedeemed
      <4>2. redeemed'[i] = IF row[i] = 0 THEN redeemed[i] + 1 ELSE redeemed[i]
        BY <1>1, <1>2, <2>1, <3>1
      <4> QED
        BY <2>1, <2>2, <3>1, <4>1, <4>2
    <3>2. CASE k # i
      BY <1>2, <1>3, <2>1, <3>2, AccountAssumption DEF RowsRedeemed
    <3> QED
      BY <3>1, <3>2
  <2> QED
    BY <2>3 DEF RowsRedeemed
<1> QED
  BY <1>1, <1>4, <1>5

LEMMA RedeemedStep ==
  AccountInv /\ RowsRedeemed /\ [AccountNext]_accountVars
    /\ [~WebhookInserts]_accountVars => RowsRedeemed'
<1> SUFFICES ASSUME AccountInv, RowsRedeemed, [AccountNext]_accountVars,
                    [~WebhookInserts]_accountVars
             PROVE  RowsRedeemed'
  OBVIOUS
<1>1. CASE UNCHANGED <<rows, redeemed, entered>>
  BY <1>1 DEF RowsRedeemed
<1>2. ASSUME NEW w \in Worker, Handle(w) \/ Fails(w), ~WebhookInserts
      PROVE  RowsRedeemed'
  <2>1. CASE CommitProfile(w)
    BY <1>2, <2>1, SignInRedeems
  <2>2. CASE \/ HandlePaid(w) \/ HandleProfile(w) \/ CommitPaid(w)
             \/ CommitErasure(w) \/ Fails(w)
    BY <1>1, <2>2
    DEF HandlePaid, HandleProfile, CommitPaid, CommitErasure, Fails, Answered,
        Stages, profiles
  <2> QED
    BY <1>2, <2>1, <2>2 DEF Handle
<1>3. ASSUME \/ \E e \in Event : ClerkSends(e) \/ StripeResends(e)
             \/ \E c \in Checkout : Pay(c)
             \/ \E e \in Event \cup SignIn : Delivered(e)
      PROVE  UNCHANGED <<rows, redeemed, entered>>
  BY <1>3 DEF ClerkSends, StripeResends, Pay, Delivered, Receive, Duplicate,
              profiles
<1>4. CASE UNCHANGED accountVars
  BY <1>1, <1>4 DEF accountVars
<1>5. CASE AccountNext /\ ~WebhookInserts
  BY <1>1, <1>2, <1>3, <1>5 DEF AccountNext
<1> QED
  BY <1>4, <1>5

\* When no row is created by Clerk's user.created webhook, an invited person who
\* has signed in has the credits of the invite, whatever is erased, repeated or
\* lost: the order of webhook and sign-in is all that InviteHonoured fails for.
THEOREM InvitesHonouredBySignIn ==
  AccountSpec /\ [][~WebhookInserts]_accountVars => []InviteHonoured
<1>1. AccountInit => RowsRedeemed
  BY AccountAssumption DEF AccountInit, RowsRedeemed
<1>2. AccountInv /\ RowsRedeemed => InviteHonoured
  <2> SUFFICES ASSUME AccountInv, RowsRedeemed, NEW i \in Invited \cap entered
               PROVE  redeemed[i] > 0
    BY DEF InviteHonoured
  <2> QED
    BY DEF RowsRedeemed
<1> QED
  BY <1>1, <1>2, AccountInvariance, RedeemedStep, PTL DEF AccountSpec


=============================================================================
