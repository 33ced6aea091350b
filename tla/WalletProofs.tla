---------------------------- MODULE WalletProofs ----------------------------
(***************************************************************************)
(* Proofs about Wallet, for any number of users, requests and checkouts.   *)
(*                                                                         *)
(* Only Commit changes rows and ledgers; every other step replaces the     *)
(* state of one request.  The inductive invariant therefore says of each   *)
(* request what must hold for its writes to be safe to commit, and that    *)
(* two requests never hold writes for one user.                            *)
(*                                                                         *)
(* Three results rest on it with an argument of their own: the bound on    *)
(* an overdraft, by counting the chats that passed the floor and have not  *)
(* burnt yet (OverdrawInv); the refinement of TokenAccount, in which a     *)
(* commit is one entry of the abstract account and every other step a      *)
(* stutter; and the bound on repeated starter grants, by counting the      *)
(* requests that read the row before the flag was committed (StarterInv).  *)
(***************************************************************************)
EXTENDS Wallet, FiniteSetTheorems, TLAPS

HasSignup(u) == EntriesOf(u, "signup") # {}

\* The user exists and what this request has loaded of it is no newer than the
\* ledger: a token flag it saw is backed by a grant.
LoadedOK(q) ==
    /\ q.user \in User
    /\ q.pc = "auth" /\ q.mine.token /\ SignupTokens > 0 => HasSignup(q.user)
    /\ q.pc = "clerk" => q.mine = NoRow
    /\ q.pc \in {"refill", "topup", "streaming"} => row[q.user].exists
    /\ q.pc = "refill" => q.user \notin Unlimited
    /\ q.pc = "topup" => q.key \in Checkout /\ Topup[q.key].user = q.user

\* The staged row is the committed one moved by the staged entry, if any.
BalanceStaged(q) ==
    /\ q.mine.exists
    /\ q.entry = NoEntry => q.mine.balance = row[q.user].balance
    /\ q.entry # NoEntry =>
        /\ q.entry.after = row[q.user].balance + q.entry.amount
        /\ q.mine.balance = q.entry.after

\* The staged flag agrees with the ledger as it will be after the commit.
SignupStaged(q) ==
    /\ q.entry.kind = "signup" =>
        ~HasSignup(q.user) /\ q.mine.token /\ q.entry.amount = SignupTokens
    /\ HasSignup(q.user) => q.mine.token
    /\ q.mine.token /\ SignupTokens > 0 =>
        HasSignup(q.user) \/ q.entry.kind = "signup"

TopupStaged(q) ==
    /\ q.entry.key # NoCheckout <=> q.entry.kind = "topup"
    /\ q.entry.key # NoCheckout =>
        /\ Topup[q.entry.key].user = q.user
        /\ Topup[q.entry.key].tokens = q.entry.amount
        /\ ~CheckoutIndexRefuses(q.entry.key)

RefillStaged(q) ==
    q.entry.kind = "refill" =>
        /\ q.user \notin Unlimited
        /\ q.entry.amount = RefillTokens
        /\ Cardinality(EntriesOf(q.user, "refill")) < MaxRefills
        /\ \A i \in EntriesOf(q.user, "refill") :
            ledger[q.user][i].at + Cooldown <= q.entry.at

BurnStaged(q) ==
    /\ q.entry.kind = "burn" => q.user \notin Unlimited /\ -q.entry.amount \in 1..MaxBurn
    /\ q.entry.kind = "gift" => q.entry.amount \in Gifts

Staged(q) ==
    /\ q.user \in User
    /\ BalanceStaged(q) /\ SignupStaged(q) /\ TopupStaged(q)
    /\ RefillStaged(q) /\ BurnStaged(q)

RequestOK(q) ==
    /\ q \in RequestState
    /\ q.pc = "idle" => q = Idle
    /\ q.pc \notin {"idle", "written"} => LoadedOK(q)
    /\ q.pc = "written" => Staged(q)

\* One request at a time holds writes for a user.
LockExclusive ==
    \A r, s \in Request :
        req[r].pc = "written" /\ req[s].pc = "written" /\ req[r].user = req[s].user
            => r = s

\* A user who does not exist has nothing.
AbsentEmpty ==
    \A u \in User : ~row[u].exists => row[u] = NoRow /\ ledger[u] = <<>>

\* A checkout's entry stands in its buyer's ledger.
KeysPlaced ==
    \A u \in User : \A i \in DOMAIN ledger[u] :
        ledger[u][i].key # NoCheckout => Topup[ledger[u][i].key].user = u

LedgerInv ==
    /\ LedgerRunningBalance /\ SignupGrantedOnce /\ GrantFlagAgrees
    /\ TopupCreditedOnce /\ RefillPolicyHolds /\ AbsentEmpty /\ KeysPlaced

\* The inductive invariant.
IInv ==
    /\ TypeOK
    /\ \A r \in Request : RequestOK(req[r])
    /\ LockExclusive
    /\ LedgerInv

-----------------------------------------------------------------------------
(* Ledgers and the entries of one kind in them.                            *)

\* The entries of a kind are finitely many positions of the ledger.
LEMMA EntriesFinite ==
    ASSUME TypeOK, NEW u \in User, NEW k
    PROVE  /\ EntriesOf(u, k) \subseteq 1..Len(ledger[u])
           /\ IsFiniteSet(EntriesOf(u, k))
           /\ Cardinality(EntriesOf(u, k)) \in Nat
<1>1. Len(ledger[u]) \in Nat /\ EntriesOf(u, k) \subseteq 1..Len(ledger[u])
  BY DEF TypeOK, EntriesOf
<1>2. IsFiniteSet(1..Len(ledger[u]))
  BY <1>1, FS_Interval
<1>3. IsFiniteSet(EntriesOf(u, k))
  BY <1>1, <1>2, FS_Subset
<1> QED BY <1>1, <1>3, FS_CardinalityType

\* What appending one row does to a ledger.
LEMMA LedgerAppend ==
    ASSUME TypeOK, NEW u \in User, NEW e \in Entry, NEW n \in Nat,
           n = Len(ledger[u]),
           ledger' = [ledger EXCEPT ![u] = Append(@, e)]
    PROVE  /\ DOMAIN ledger[u] = 1..n /\ Len(ledger'[u]) = n + 1
           /\ DOMAIN ledger'[u] = 1..n \cup {n + 1}
           /\ \A i \in 1..n : ledger'[u][i] = ledger[u][i]
           /\ ledger'[u][n + 1] = e
<1>1. ledger[u] \in Seq(Entry) /\ ledger'[u] = Append(ledger[u], e)
  BY DEF TypeOK
<1>2. 1..(n + 1) = 1..n \cup {n + 1}
  OBVIOUS
<1> QED BY <1>1, <1>2

-----------------------------------------------------------------------------
(* Steps that change one request and nothing that is committed.            *)

\* What a request must satisfy depends on the committed state only.
LEMMA RequestOKStable ==
    ASSUME UNCHANGED <<row, ledger>>, NEW q, RequestOK(q)
    PROVE  RequestOK(q)'
<1>1. \A u, k : EntriesOf(u, k)' = EntriesOf(u, k)
  BY DEF EntriesOf
<1>2. \A u : HasSignup(u)' = HasSignup(u)
  BY <1>1 DEF HasSignup
<1>3. \A c : CheckoutIndexRefuses(c)' = CheckoutIndexRefuses(c)
  BY DEF CheckoutIndexRefuses
<1>4. LoadedOK(q) => LoadedOK(q)'
  BY <1>2 DEF LoadedOK
<1>5. Staged(q) => Staged(q)'
  BY <1>1, <1>2, <1>3 DEF Staged, BalanceStaged, SignupStaged, TopupStaged,
                          RefillStaged, BurnStaged
<1> QED BY <1>4, <1>5 DEF RequestOK

\* Nor does what the ledgers and rows satisfy change without them.
LEMMA LedgerInvStable ==
    ASSUME LedgerInv, UNCHANGED <<row, ledger>>
    PROVE  LedgerInv'
<1>1. \A u, k : EntriesOf(u, k)' = EntriesOf(u, k)
  BY DEF EntriesOf
<1>2. LedgerRunningBalance'
  BY DEF LedgerInv, LedgerRunningBalance, BalanceAfter
<1>3. SignupGrantedOnce' /\ GrantFlagAgrees'
  BY <1>1 DEF LedgerInv, SignupGrantedOnce, GrantFlagAgrees
<1>4. TopupCreditedOnce' /\ AbsentEmpty' /\ KeysPlaced'
  BY DEF LedgerInv, TopupCreditedOnce, AbsentEmpty, KeysPlaced
<1>5. RefillPolicyHolds'
  BY <1>1 DEF LedgerInv, RefillPolicyHolds
<1> QED BY <1>2, <1>3, <1>4, <1>5 DEF LedgerInv

\* A request may move to any state that is safe to commit, provided it takes
\* no lock another request holds.
LEMMA RequestStep ==
    ASSUME IInv, NEW r \in Request, NEW q,
           UNCHANGED <<row, ledger, starts, clock>>,
           req' = [req EXCEPT ![r] = q],
           RequestOK(q),
           q.pc = "written" => ~RowLocked(q.user)
    PROVE  IInv'
<1>1. req \in [Request -> RequestState] /\ q \in RequestState
  BY DEF IInv, TypeOK, RequestOK
<1>2. \A s \in Request : req'[s] = IF s = r THEN q ELSE req[s]
  BY <1>1
<1>3. TypeOK'
  BY <1>1 DEF IInv, TypeOK
<1>4. ASSUME NEW s \in Request PROVE RequestOK(req'[s])
  BY <1>2 DEF IInv
<1>5. ASSUME NEW s \in Request PROVE RequestOK(req[s])'
  BY <1>4, RequestOKStable DEF IInv
<1>6. LockExclusive'
  BY <1>2 DEF IInv, LockExclusive, RowLocked
<1>7. LedgerInv'
  BY LedgerInvStable DEF IInv
<1> QED BY <1>3, <1>5, <1>6, <1>7 DEF IInv

\* Facts about the small values the requests are made of.
LEMMA Values ==
    /\ NoRow \in Row /\ Idle \in RequestState /\ RequestOK(Idle)
    /\ NoEntry \notin Entry /\ NoEntry.kind = "none" /\ NoEntry.key = NoCheckout
    /\ \A e \in Entry : e # NoEntry /\ e.kind \in Kinds /\ e.amount \in Int
<1>1. NoRow \in Row /\ Idle \in RequestState
  BY DEF NoRow, Row, Idle, RequestState, Phase
<1>2. NoEntry.kind = "none" /\ NoEntry.key = NoCheckout
  BY DEF NoEntry
<1>3. \A e \in Entry : e.kind \in Kinds /\ e.amount \in Int
  BY DEF Entry
<1>4. RequestOK(Idle)
  BY <1>1 DEF RequestOK, Idle
<1> QED BY <1>1, <1>2, <1>3, <1>4 DEF Kinds

\* Ending, aborting or giving up a request.
LEMMA EndStep ==
    ASSUME IInv, NEW r \in Request, End(r) PROVE IInv'
BY RequestStep, Values DEF End, Idle

\* Loading a user into a session.
LEMMA LoadStep ==
    ASSUME IInv, NEW r \in Request, NEW u \in User,
           NEW p \in {"auth", "clerk", "refill", "topup", "streaming"},
           NEW c \in Checkout \cup {NoCheckout}, Load(r, u, p, c),
           p = "clerk" => ~row[u].exists,
           p \in {"refill", "topup", "streaming"} => row[u].exists,
           p = "refill" => u \notin Unlimited,
           p = "topup" => c \in Checkout /\ Topup[c].user = u
    PROVE  IInv'
<1> DEFINE q == [Idle EXCEPT !.pc = p, !.user = u, !.mine = row[u], !.key = c]
<1>1. /\ q.pc = p /\ q.user = u /\ q.mine = row[u] /\ q.key = c
      /\ q.entry = NoEntry /\ q.starts = FALSE
  BY DEF Idle
<1>2. q \in RequestState
  BY Values DEF IInv, TypeOK, RequestState, Idle, Phase
<1>3. LoadedOK(q)
  BY <1>1 DEF LoadedOK, IInv, LedgerInv, GrantFlagAgrees, HasSignup, AbsentEmpty
<1>4. RequestOK(q)
  BY <1>1, <1>2, <1>3 DEF RequestOK
<1>5. req' = [req EXCEPT ![r] = q] /\ UNCHANGED <<row, ledger, starts, clock>>
  BY DEF Load
<1> HIDE DEF q
<1> QED BY <1>1, <1>4, <1>5, RequestStep

\* Staging writes under the row lock.
LEMMA StageStep ==
    ASSUME IInv, NEW r \in Request, req[r].pc # "idle", ~RowLocked(req[r].user),
           NEW mine \in Row, NEW entry \in Entry \cup {NoEntry},
           NEW issued \in BOOLEAN, Stage(r, mine, entry, issued),
           \A q : q.user = req[r].user /\ q.mine = mine /\ q.entry = entry
                    => Staged(q)
    PROVE  IInv'
<1> DEFINE q == [req[r] EXCEPT !.pc = "written", !.mine = mine,
                               !.entry = entry, !.starts = issued]
<1>1. req[r] \in RequestState
  BY DEF IInv, TypeOK
<1>2. /\ q.pc = "written" /\ q.user = req[r].user /\ q.mine = mine
      /\ q.entry = entry
  BY <1>1 DEF RequestState
<1>3. q \in RequestState
  BY <1>1 DEF RequestState, Phase
<1>4. Staged(q)
  BY <1>2
<1>5. RequestOK(q)
  BY <1>2, <1>3, <1>4 DEF RequestOK
<1>6. req' = [req EXCEPT ![r] = q] /\ UNCHANGED <<row, ledger, starts, clock>>
  BY <1>1 DEF Stage, RequestState
<1> HIDE DEF q
<1> QED BY <1>2, <1>5, <1>6, RequestStep

\* What _apply_entry stages for an existing user, given what its caller checked,
\* is safe to commit.
LEMMA EntryStaged ==
    ASSUME IInv, NEW u \in User, row[u].exists,
           NEW kind \in Kinds \ {"signup"}, NEW amount \in Int,
           NEW c \in Checkout \cup {NoCheckout},
           kind = "burn" <=> amount < 0,
           kind = "topup" <=> c # NoCheckout,
           kind = "topup" =>
                /\ Topup[c].user = u /\ Topup[c].tokens = amount
                /\ ~CheckoutIndexRefuses(c),
           kind = "refill" =>
                RefillAvailable(u) /\ u \notin Unlimited /\ amount = RefillTokens,
           kind = "burn" => u \notin Unlimited /\ -amount \in 1..MaxBurn,
           kind = "gift" => amount \in Gifts
    PROVE  /\ Credited(row[u], amount) \in Row
           /\ LedgerRow(row[u], kind, amount, c) \in Entry
           /\ \A q : /\ q.user = u
                     /\ q.mine = Credited(row[u], amount)
                     /\ q.entry = LedgerRow(row[u], kind, amount, c)
                     => Staged(q)
<1> DEFINE m == Credited(row[u], amount)
           e == LedgerRow(row[u], kind, amount, c)
<1>1. row[u] \in Row /\ clock \in Nat
  BY DEF IInv, TypeOK
<1>2. /\ m \in Row /\ m.exists /\ m.token = row[u].token
      /\ m.balance = row[u].balance + amount
  BY <1>1 DEF Credited, Row
<1>3. /\ e.kind = kind /\ e.amount = amount /\ e.key = c /\ e.at = clock
      /\ e.after = row[u].balance + amount
  BY DEF LedgerRow
<1>4. e \in Entry
  BY <1>1 DEF LedgerRow, Entry, Row
<1>5. e # NoEntry /\ kind # "signup"
  BY <1>4, Values
<1> HIDE DEF m, e
<1>6. ASSUME NEW q, q.user = u, q.mine = m, q.entry = e PROVE Staged(q)
  <2>1. BalanceStaged(q)
    BY <1>2, <1>3, <1>5, <1>6 DEF BalanceStaged
  <2>2. SignupStaged(q)
    BY <1>2, <1>3, <1>5, <1>6
       DEF SignupStaged, IInv, LedgerInv, GrantFlagAgrees, HasSignup
  <2>3. TopupStaged(q)
    BY <1>3, <1>6 DEF TopupStaged
  <2>4. RefillStaged(q)
    BY <1>3, <1>6 DEF RefillStaged, RefillAvailable
  <2>5. BurnStaged(q)
    BY <1>3, <1>6 DEF BurnStaged
  <2> QED BY <1>6, <2>1, <2>2, <2>3, <2>4, <2>5 DEF Staged
<1> QED BY <1>2, <1>4, <1>6 DEF m, e

\* The three handlers that go through _apply_entry after loading the user.
LEMMA ApplyStep ==
    ASSUME IInv, NEW r \in Request,
           \/ RefillClaim(r) \/ TopupCredit(r)
           \/ \E spent \in 1..MaxBurn : ChatBurn(r, spent)
    PROVE  IInv'
<1> DEFINE u == req[r].user
<1>1. /\ RequestOK(req[r]) /\ clock \in Nat /\ NoCheckout \notin Checkout
      /\ RefillTokens \in Nat
      /\ \A c \in Checkout : Topup[c].tokens \in Nat
      /\ MaxBurn \in Nat
  BY WalletAssumption DEF IInv, TypeOK
<1>2. ASSUME req[r].pc \in {"refill", "topup", "streaming"}
      PROVE  /\ u \in User /\ row[u].exists /\ req[r].pc # "idle"
             /\ req[r].pc = "refill" => u \notin Unlimited
             /\ req[r].pc = "topup" =>
                    req[r].key \in Checkout /\ Topup[req[r].key].user = u
  BY <1>1, <1>2 DEF RequestOK, LoadedOK
<1>3. CASE RefillClaim(r)
  <2>1. CASE End(r) BY <2>1, EndStep
  <2>2. CASE /\ RefillAvailable(u)
             /\ ApplyEntry(r, "refill", RefillTokens, NoCheckout)
    <3>1. /\ req[r].pc = "refill" /\ ~RowLocked(u)
      BY <1>3 DEF RefillClaim
    <3>2. /\ Credited(row[u], RefillTokens) \in Row
          /\ LedgerRow(row[u], "refill", RefillTokens, NoCheckout) \in Entry
          /\ \A q : /\ q.user = u
                    /\ q.mine = Credited(row[u], RefillTokens)
                    /\ q.entry = LedgerRow(row[u], "refill", RefillTokens, NoCheckout)
                    => Staged(q)
      BY <1>1, <1>2, <2>2, <3>1, EntryStaged DEF Kinds
    <3> QED BY <1>2, <2>2, <3>1, <3>2, StageStep DEF ApplyEntry, LockedRow
  <2> QED BY <1>3, <2>1, <2>2 DEF RefillClaim
<1>4. CASE TopupCredit(r)
  <2> DEFINE c == req[r].key
             n == Topup[req[r].key].tokens
  <2>1. CASE End(r) BY <2>1, EndStep
  <2>2. CASE ~CheckoutIndexRefuses(c) /\ ApplyEntry(r, "topup", n, c)
    <3>1. /\ req[r].pc = "topup" /\ ~RowLocked(u)
      BY <1>4 DEF TopupCredit
    <3>2. /\ u \in User /\ row[u].exists /\ c \in Checkout /\ Topup[c].user = u
          /\ n \in Nat /\ c # NoCheckout /\ req[r].pc # "idle"
      BY <1>1, <1>2, <3>1
    <3>3. /\ Credited(row[u], n) \in Row
          /\ LedgerRow(row[u], "topup", n, c) \in Entry
          /\ \A q : /\ q.user = u /\ q.mine = Credited(row[u], n)
                    /\ q.entry = LedgerRow(row[u], "topup", n, c)
                    => Staged(q)
      BY <2>2, <3>2, EntryStaged DEF Kinds
    <3> QED BY <2>2, <3>1, <3>2, <3>3, StageStep DEF ApplyEntry, LockedRow
  <2> QED BY <1>4, <2>1, <2>2 DEF TopupCredit
<1>5. ASSUME NEW spent \in 1..MaxBurn, ChatBurn(r, spent) PROVE IInv'
  <2>1. PICK n \in Int : n = -spent /\ n < 0 /\ -n \in 1..MaxBurn
    BY <1>1
  <2>2. /\ req[r].pc = "streaming" /\ ~RowLocked(u) /\ u \notin Unlimited
        /\ ApplyEntry(r, "burn", n, NoCheckout)
    BY <1>5, <2>1 DEF ChatBurn
  <2>3. u \in User /\ row[u].exists /\ req[r].pc # "idle"
    BY <1>2, <2>2
  <2>4. /\ Credited(row[u], n) \in Row
        /\ LedgerRow(row[u], "burn", n, NoCheckout) \in Entry
        /\ \A q : /\ q.user = u /\ q.mine = Credited(row[u], n)
                  /\ q.entry = LedgerRow(row[u], "burn", n, NoCheckout)
                  => Staged(q)
    BY <2>1, <2>2, <2>3, EntryStaged DEF Kinds
  <2> QED BY <2>2, <2>3, <2>4, StageStep DEF ApplyEntry, LockedRow
<1> QED BY <1>3, <1>4, <1>5

\* An operator's grant loads, locks and stages in one step.
LEMMA GiftStep ==
    ASSUME IInv, NEW r \in Request, NEW u \in User, NEW n \in Gifts,
           GrantTokens(r, u, n)
    PROVE  IInv'
<1> DEFINE m == Credited(row[u], n)
           e == LedgerRow(row[u], "gift", n, NoCheckout)
           q == [Idle EXCEPT !.pc = "written", !.user = u, !.mine = m, !.entry = e]
<1>1. /\ row[u].exists /\ ~RowLocked(u) /\ n \in Int /\ ~(n < 0)
      /\ req' = [req EXCEPT ![r] = q] /\ UNCHANGED <<row, ledger, starts, clock>>
  BY WalletAssumption DEF GrantTokens
<1>2. /\ m \in Row /\ e \in Entry
      /\ \A x : x.user = u /\ x.mine = m /\ x.entry = e => Staged(x)
  BY <1>1, EntryStaged DEF Kinds
<1> HIDE DEF m, e
<1>3. q.pc = "written" /\ q.user = u /\ q.mine = m /\ q.entry = e
  BY DEF Idle
<1>4. q \in RequestState
  BY <1>2, Values DEF RequestState, Phase
<1>5. RequestOK(q)
  BY <1>2, <1>3, <1>4 DEF RequestOK
<1> HIDE DEF q
<1> QED BY <1>1, <1>3, <1>5, RequestStep

\* A staged grant decision of sign-in is safe to commit, whatever stale flags it
\* was taken on: the unique index decides.
LEMMA SignupGrantStep ==
    ASSUME IInv, NEW r \in Request, req[r].pc = "auth", ~RowLocked(req[r].user),
           NEW base \in Row, base.exists, base.balance = row[req[r].user].balance,
           base.token /\ SignupTokens > 0 => HasSignup(req[r].user),
           NEW issued \in BOOLEAN, SignupGrant(r, base, issued)
    PROVE  IInv'
<1> DEFINE u == req[r].user
           flagged == [base EXCEPT !.token = TRUE]
           m == Credited(flagged, SignupTokens)
           e == LedgerRow(base, "signup", SignupTokens, NoCheckout)
<1>1. u \in User /\ clock \in Nat /\ SignupTokens \in Nat
  BY WalletAssumption DEF IInv, TypeOK, RequestOK, LoadedOK
<1>2. HasSignup(u) <=> SignupIndexRefuses(u)
  BY DEF HasSignup, SignupIndexRefuses
<1>3. /\ flagged \in Row /\ flagged.exists /\ flagged.token
      /\ flagged.balance = base.balance
  BY DEF Row
<1> HIDE DEF flagged
<1>4. ASSUME NEW x \in Row, x.exists, x.balance = base.balance,
             Stage(r, x, NoEntry, issued),
             HasSignup(u) => x.token,
             x.token /\ SignupTokens > 0 => HasSignup(u)
      PROVE  IInv'
  <2>1. ASSUME NEW q, q.user = u, q.mine = x, q.entry = NoEntry
        PROVE  Staged(q)
    <3>1. BalanceStaged(q) BY <1>4, <2>1, Values DEF BalanceStaged
    <3>2. SignupStaged(q) BY <1>4, <2>1, Values DEF SignupStaged
    <3>3. TopupStaged(q) /\ RefillStaged(q) /\ BurnStaged(q)
      BY <2>1, Values DEF TopupStaged, RefillStaged, BurnStaged
    <3> QED BY <1>1, <2>1, <3>1, <3>2, <3>3 DEF Staged
  <2> QED BY <1>4, <2>1, StageStep
<1>5. CASE base.token
  <2>1. Stage(r, base, NoEntry, issued)
    BY <1>5 DEF SignupGrant
  <2> QED BY <1>4, <1>5, <2>1
<1>6. CASE ~base.token /\ (SignupTokens = 0 \/ SignupIndexRefuses(u))
  <2>1. Stage(r, flagged, NoEntry, issued)
    BY <1>6 DEF SignupGrant, flagged
  <2> QED BY <1>1, <1>2, <1>3, <1>4, <1>6, <2>1
<1>7. CASE ~base.token /\ ~(SignupTokens = 0 \/ SignupIndexRefuses(u))
  <2>1. Stage(r, m, e, issued)
    BY <1>7 DEF SignupGrant, flagged
  <2>2. m \in Row /\ m.exists /\ m.token /\ m.balance = base.balance + SignupTokens
    BY <1>1, <1>3 DEF Credited, Row
  <2>3. /\ e \in Entry /\ e.kind = "signup" /\ e.amount = SignupTokens
        /\ e.key = NoCheckout /\ e.after = base.balance + SignupTokens
    BY <1>1 DEF LedgerRow, Entry, Kinds, Row
  <2>4. e # NoEntry
    BY <2>3, Values
  <2> HIDE DEF m, e
  <2>5. ASSUME NEW q, q.user = u, q.mine = m, q.entry = e PROVE Staged(q)
    <3>1. BalanceStaged(q) BY <2>2, <2>3, <2>4, <2>5 DEF BalanceStaged
    <3>2. SignupStaged(q) BY <1>2, <1>7, <2>2, <2>3, <2>5 DEF SignupStaged
    <3>3. TopupStaged(q) /\ RefillStaged(q) /\ BurnStaged(q)
      BY <2>3, <2>5 DEF TopupStaged, RefillStaged, BurnStaged
    <3> QED BY <1>1, <2>5, <3>1, <3>2, <3>3 DEF Staged
  <2> QED BY <2>1, <2>2, <2>3, <2>5, StageStep
<1> QED BY <1>5, <1>6, <1>7

\* Sign-in and Clerk's webhook, with the lost update of the starter grant.
LEMMA AuthStep ==
    ASSUME IInv, NEW r \in Request, AuthGrants(r) \/ ClerkCreate(r)
    PROVE  IInv'
<1> DEFINE u == req[r].user
           base == StarterFlushed(r)
<1>1. CASE End(r) BY <1>1, EndStep
<1>2. /\ RequestOK(req[r]) /\ req[r] \in RequestState
      /\ req[r].mine \in Row /\ req[r].mine.starter \in BOOLEAN
  BY DEF IInv, TypeOK, RequestOK, RequestState, Row
<1>3. ASSUME req[r].pc \in {"auth", "clerk"}
      PROVE  u \in User /\ row[u] \in Row /\ LoadedOK(req[r])
  BY <1>2, <1>3 DEF RequestOK, LoadedOK, IInv, TypeOK
<1>4. ASSUME req[r].pc \in {"auth", "clerk"}
      PROVE  /\ base \in Row /\ base.exists /\ base.balance = row[u].balance
             /\ base.token => row[u].token \/ req[r].mine.token
  BY <1>2, <1>3, <1>4 DEF StarterFlushed, LockedRow, Row
<1>5. CASE AuthGrants(r) /\ ~InsertRefused(r)
  <2>1. req[r].pc = "auth" /\ ~RowLocked(u)
        /\ SignupGrant(r, base, ~req[r].mine.starter)
    BY <1>5 DEF AuthGrants
  <2>2. base.token /\ SignupTokens > 0 => HasSignup(u)
    BY <1>3, <1>4, <2>1
       DEF LoadedOK, IInv, LedgerInv, GrantFlagAgrees, HasSignup
  <2> HIDE DEF base
  <2> QED BY <1>2, <1>4, <2>1, <2>2, SignupGrantStep
<1>6. CASE ClerkCreate(r) /\ ~LockedRow(r).exists
  <2>1. /\ req[r].pc = "clerk" /\ ~RowLocked(u) /\ ~row[u].exists
        /\ Stage(r, base, NoEntry, TRUE)
    BY <1>6 DEF ClerkCreate, LockedRow
  <2>2. req[r].mine = NoRow /\ row[u] = NoRow /\ ledger[u] = <<>>
    BY <1>3, <2>1 DEF LoadedOK, IInv, LedgerInv, AbsentEmpty
  <2>3. ~HasSignup(u) /\ ~base.token
    BY <1>4, <2>1, <2>2 DEF HasSignup, EntriesOf, NoRow
  <2> HIDE DEF base
  <2>4. ASSUME NEW q, q.user = u, q.mine = base, q.entry = NoEntry
        PROVE  Staged(q)
    <3>1. BalanceStaged(q) BY <1>4, <2>1, <2>4, Values DEF BalanceStaged
    <3>2. SignupStaged(q) BY <2>3, <2>4, Values DEF SignupStaged
    <3>3. TopupStaged(q) /\ RefillStaged(q) /\ BurnStaged(q)
      BY <2>4, Values DEF TopupStaged, RefillStaged, BurnStaged
    <3> QED BY <1>3, <2>1, <2>4, <3>1, <3>2, <3>3 DEF Staged
  <2> QED BY <1>4, <2>1, <2>4, StageStep
<1> QED BY <1>1, <1>5, <1>6 DEF AuthGrants, ClerkCreate

-----------------------------------------------------------------------------
(* Commit: the one step that changes rows and ledgers.                     *)

\* What the committing request has staged, and what its commit leaves alone.
LEMMA CommitFrame ==
    ASSUME IInv, NEW r \in Request, Commit(r)
    PROVE  /\ req[r].user \in User /\ Staged(req[r]) /\ req[r].mine \in Row
           /\ req[r].mine.exists
           /\ row' = [row EXCEPT ![req[r].user] = req[r].mine]
           /\ \A v \in User \ {req[r].user} :
                /\ row'[v] = row[v] /\ ledger'[v] = ledger[v]
                /\ \A k : EntriesOf(v, k)' = EntriesOf(v, k)
           /\ row'[req[r].user] = req[r].mine
           /\ \/ req[r].entry = NoEntry /\ UNCHANGED ledger
              \/ /\ req[r].entry \in Entry
                 /\ ledger' = [ledger EXCEPT
                                 ![req[r].user] = Append(@, req[r].entry)]
           /\ req' = [req EXCEPT ![r] = Idle] /\ clock' = clock
<1>1. /\ req[r] \in RequestState /\ req[r].pc = "written" /\ RequestOK(req[r])
      /\ row \in [User -> Row] /\ ledger \in [User -> Seq(Entry)]
  BY DEF IInv, TypeOK, Commit
<1>2. /\ req[r].mine \in Row /\ req[r].entry \in Entry \cup {NoEntry}
  BY <1>1 DEF RequestState
<1>3. req[r].user \in User /\ Staged(req[r]) /\ req[r].mine.exists
  BY <1>1 DEF RequestOK, Staged, BalanceStaged
<1>4. /\ row' = [row EXCEPT ![req[r].user] = req[r].mine]
      /\ ledger' = IF req[r].entry = NoEntry THEN ledger
                   ELSE [ledger EXCEPT ![req[r].user] = Append(@, req[r].entry)]
      /\ req' = [req EXCEPT ![r] = Idle] /\ clock' = clock
  BY DEF Commit
<1>5. \A v \in User \ {req[r].user} : row'[v] = row[v] /\ ledger'[v] = ledger[v]
  BY <1>1, <1>4
<1>6. \A v \in User \ {req[r].user} : \A k : EntriesOf(v, k)' = EntriesOf(v, k)
  BY <1>5 DEF EntriesOf
<1> QED BY <1>1, <1>2, <1>3, <1>4, <1>5, <1>6

\* The running total, the signup flag and the refill policy, which are about one
\* user each.
LEMMA CommitUserInv ==
    ASSUME IInv, NEW r \in Request, Commit(r)
    PROVE  /\ LedgerRunningBalance' /\ SignupGrantedOnce' /\ GrantFlagAgrees'
           /\ RefillPolicyHolds' /\ AbsentEmpty' /\ KeysPlaced'
<1>u. PICK u \in User : u = req[r].user
  BY CommitFrame
<1>e. PICK e \in Entry \cup {NoEntry} : e = req[r].entry
  BY CommitFrame
<1>n. PICK n \in Nat : n = Len(ledger[u])
  BY EntriesFinite, <1>u DEF IInv, TypeOK
<1>1. /\ Staged(req[r])
      /\ row'[u] = req[r].mine /\ row'[u].exists
      /\ \A v \in User \ {u} : /\ row'[v] = row[v] /\ ledger'[v] = ledger[v]
                               /\ \A k : EntriesOf(v, k)' = EntriesOf(v, k)
  BY <1>u, CommitFrame
<1>2. /\ BalanceStaged(req[r]) /\ SignupStaged(req[r]) /\ TopupStaged(req[r])
      /\ RefillStaged(req[r])
  BY <1>1 DEF Staged
<1>3. /\ LedgerRunningBalance /\ SignupGrantedOnce /\ GrantFlagAgrees
      /\ RefillPolicyHolds /\ AbsentEmpty /\ KeysPlaced /\ TypeOK
  BY DEF IInv, LedgerInv
<1>4. AbsentEmpty'
  BY <1>1, <1>3 DEF AbsentEmpty
<1>5. CASE e = NoEntry /\ UNCHANGED ledger
  <2>1. \A v, k : EntriesOf(v, k)' = EntriesOf(v, k)
    BY <1>5 DEF EntriesOf
  <2>2. LedgerRunningBalance'
    BY <1>u, <1>e, <1>1, <1>2, <1>3, <1>5 DEF LedgerRunningBalance, BalanceAfter, BalanceStaged
  <2>3. SignupGrantedOnce' /\ RefillPolicyHolds' /\ KeysPlaced'
    BY <1>3, <1>5, <2>1 DEF SignupGrantedOnce, RefillPolicyHolds, KeysPlaced
  <2>4. GrantFlagAgrees'
    BY <1>u, <1>e, <1>1, <1>2, <1>3, <1>5, <2>1, Values
       DEF GrantFlagAgrees, SignupStaged, HasSignup
  <2> QED BY <1>4, <2>2, <2>3, <2>4
<1>6. CASE e \in Entry /\ ledger' = [ledger EXCEPT ![u] = Append(@, e)]
  <2>1. /\ DOMAIN ledger[u] = 1..n /\ Len(ledger'[u]) = n + 1
        /\ DOMAIN ledger'[u] = 1..n \cup {n + 1}
        /\ \A i \in 1..n : ledger'[u][i] = ledger[u][i]
        /\ ledger'[u][n + 1] = e
        /\ \A k : EntriesOf(u, k)' = IF e.kind = k THEN EntriesOf(u, k) \cup {n + 1}
                                     ELSE EntriesOf(u, k)
    <3>1. TypeOK /\ e \in Entry
      BY <1>3, <1>6
    <3>2. /\ DOMAIN ledger[u] = 1..n /\ Len(ledger'[u]) = n + 1
          /\ DOMAIN ledger'[u] = 1..n \cup {n + 1}
          /\ \A i \in 1..n : ledger'[u][i] = ledger[u][i]
          /\ ledger'[u][n + 1] = e
      BY <1>n, <1>6, <3>1, LedgerAppend
    <3>3. ASSUME NEW k
          PROVE  EntriesOf(u, k)' = IF e.kind = k THEN EntriesOf(u, k) \cup {n + 1}
                                    ELSE EntriesOf(u, k)
      BY <3>2 DEF EntriesOf
    <3> QED BY <3>2, <3>3
  <2>2. /\ e # NoEntry /\ e.after = row[u].balance + e.amount
        /\ req[r].mine.balance = e.after
    BY <1>u, <1>e, <1>2, <1>6, Values DEF BalanceStaged
  <2>3. /\ \A k : EntriesOf(u, k) \subseteq 1..n
        /\ \A k : Cardinality(EntriesOf(u, k)) \in Nat
        /\ \A k : IsFiniteSet(EntriesOf(u, k))
        /\ n + 1 \notin 1..n
    BY <1>n, <1>3, <2>1, EntriesFinite
  <2>4. LedgerRunningBalance'
    <3>1. ASSUME NEW i \in DOMAIN ledger'[u]
          PROVE  ledger'[u][i].after
                    = (IF i - 1 = 0 THEN 0 ELSE ledger'[u][i - 1].after)
                        + ledger'[u][i].amount
      <4>1. CASE i \in 1..n
        <5>1. i - 1 = 0 \/ i - 1 \in 1..n
          BY <2>1, <4>1
        <5>2. ledger[u][i].after = (IF i - 1 = 0 THEN 0 ELSE ledger[u][i - 1].after)
                                        + ledger[u][i].amount
          BY <1>1, <1>3, <2>1, <4>1 DEF LedgerRunningBalance, BalanceAfter
        <5> QED BY <2>1, <4>1, <5>1, <5>2
      <4>2. CASE i = n + 1
        <5>1. i - 1 = n /\ (n = 0 \/ n \in 1..n)
          BY <2>1, <4>2
        <5>2. row[u].balance = IF n = 0 THEN 0 ELSE ledger[u][n].after
          BY <1>n, <1>3 DEF LedgerRunningBalance, BalanceAfter
        <5> QED BY <2>1, <2>2, <4>2, <5>1, <5>2
      <4> QED BY <2>1, <4>1, <4>2
    <3>2. row'[u].balance = ledger'[u][Len(ledger'[u])].after /\ Len(ledger'[u]) # 0
      BY <1>1, <2>1, <2>2
    <3> QED BY <1>1, <1>3, <3>1, <3>2 DEF LedgerRunningBalance, BalanceAfter
  <2>5. SignupGrantedOnce'
    <3>1. e.kind = "signup" => EntriesOf(u, "signup") = {}
      BY <1>u, <1>e, <1>2 DEF SignupStaged, HasSignup
    <3>2. EntriesOf(u, "signup")' = IF e.kind = "signup" THEN {n + 1}
                                    ELSE EntriesOf(u, "signup")
      BY <2>1, <3>1
    <3> QED BY <1>1, <1>3, <3>2 DEF SignupGrantedOnce
  <2>6. GrantFlagAgrees'
    <3>1. /\ EntriesOf(u, "signup") # {} => row'[u].token
          /\ e.kind = "signup" => row'[u].token
          /\ row'[u].token /\ SignupTokens > 0 =>
                EntriesOf(u, "signup") # {} \/ e.kind = "signup"
      BY <1>u, <1>e, <1>1, <1>2 DEF SignupStaged, HasSignup
    <3>2. EntriesOf(u, "signup")' # {}
            <=> EntriesOf(u, "signup") # {} \/ e.kind = "signup"
      BY <2>1
    <3> QED BY <1>1, <1>3, <3>1, <3>2 DEF GrantFlagAgrees
  <2>7. KeysPlaced'
    <3>1. e.key # NoCheckout => Topup[e.key].user = u
      BY <1>u, <1>e, <1>2 DEF TopupStaged
    <3>2. ASSUME NEW i \in DOMAIN ledger'[u], ledger'[u][i].key # NoCheckout
          PROVE  Topup[ledger'[u][i].key].user = u
      <4>1. CASE i \in 1..n
        BY <1>3, <2>1, <3>2, <4>1 DEF KeysPlaced
      <4>2. CASE i = n + 1
        BY <2>1, <3>1, <3>2, <4>2
      <4> QED BY <2>1, <4>1, <4>2
    <3> QED BY <1>1, <1>3, <3>2 DEF KeysPlaced
  <2>8. RefillPolicyHolds'
    <3>1. ASSUME e.kind # "refill" PROVE EntriesOf(u, "refill")' = EntriesOf(u, "refill")
      BY <2>1, <3>1
    <3>2. ASSUME e.kind = "refill"
          PROVE  Cardinality(EntriesOf(u, "refill")') <= MaxRefills
      <4>1. n + 1 \notin EntriesOf(u, "refill")
        BY <2>3
      <4>2. Cardinality(EntriesOf(u, "refill") \cup {n + 1})
              = Cardinality(EntriesOf(u, "refill")) + 1
        BY <2>3, <4>1, FS_AddElement
      <4>3. Cardinality(EntriesOf(u, "refill")) < MaxRefills /\ MaxRefills \in Nat
        BY <1>u, <1>e, <1>2, <3>2, WalletAssumption DEF RefillStaged
      <4>4. EntriesOf(u, "refill")' = EntriesOf(u, "refill") \cup {n + 1}
        BY <2>1, <3>2
      <4>5. Cardinality(EntriesOf(u, "refill")')
              = Cardinality(EntriesOf(u, "refill")) + 1
        BY <4>2, <4>4, Zenon
      <4>6. Cardinality(EntriesOf(u, "refill")) \in Nat
        BY <2>3
      <4> QED BY <4>3, <4>5, <4>6
    <3>3. ASSUME NEW i \in EntriesOf(u, "refill")', NEW j \in EntriesOf(u, "refill")',
                 i < j
          PROVE  ledger'[u][i].at + Cooldown <= ledger'[u][j].at
      <4>1. CASE i \in EntriesOf(u, "refill") /\ j \in EntriesOf(u, "refill")
        BY <1>1, <1>3, <2>1, <2>3, <3>3, <4>1 DEF RefillPolicyHolds
      <4>2. CASE i \in EntriesOf(u, "refill") /\ j = n + 1 /\ e.kind = "refill"
        BY <1>u, <1>e, <1>2, <2>1, <2>3, <4>2 DEF RefillStaged
      <4>3. i # n + 1
        BY <2>1, <2>3, <3>3
      <4> QED BY <2>1, <4>1, <4>2, <4>3
    <3>4. Cardinality(EntriesOf(u, "refill")') <= MaxRefills
      BY <1>1, <1>3, <3>1, <3>2 DEF RefillPolicyHolds
    <3> QED BY <1>1, <1>3, <3>3, <3>4 DEF RefillPolicyHolds
  <2> QED BY <1>4, <2>4, <2>5, <2>6, <2>7, <2>8
<1> QED BY <1>u, <1>e, <1>5, <1>6, CommitFrame

\* Every key in the ledgers after a commit was there before, or is the one key of
\* the committed entry, in the ledger of the buyer.
LEMMA CommitKeys ==
    ASSUME IInv, NEW r \in Request, Commit(r)
    PROVE  /\ TopupCreditedOnce'
           /\ \A c \in Checkout : CheckoutIndexRefuses(c)' =>
                CheckoutIndexRefuses(c) \/ Topup[c].user = req[r].user
<1>u. PICK u \in User : u = req[r].user
  BY CommitFrame
<1>e. PICK e \in Entry \cup {NoEntry} : e = req[r].entry
  BY CommitFrame
<1>n. PICK n \in Nat : n = Len(ledger[u])
  BY EntriesFinite DEF IInv, TypeOK
<1>1. /\ \A v \in User \ {u} : ledger'[v] = ledger[v]
      /\ TypeOK /\ TopupCreditedOnce /\ KeysPlaced
  BY <1>u, CommitFrame DEF IInv, LedgerInv
<1>2. e.key # NoCheckout =>
        Topup[e.key].user = u /\ ~CheckoutIndexRefuses(e.key)
  BY <1>u, <1>e, CommitFrame DEF Staged, TopupStaged
<1>3. NoCheckout \notin Checkout
  BY WalletAssumption
<1>4. CASE UNCHANGED ledger
  BY <1>1, <1>4 DEF TopupCreditedOnce, CheckoutIndexRefuses
<1>5. CASE e \in Entry /\ ledger' = [ledger EXCEPT ![u] = Append(@, e)]
  <2>1. TypeOK /\ e \in Entry
    BY <1>1, <1>5
  <2>2. /\ DOMAIN ledger[u] = 1..n /\ Len(ledger'[u]) = n + 1
        /\ DOMAIN ledger'[u] = 1..n \cup {n + 1}
        /\ \A i \in 1..n : ledger'[u][i] = ledger[u][i]
        /\ ledger'[u][n + 1] = e
    BY <1>n, <1>5, <2>1, LedgerAppend
  <2>3. ASSUME NEW v \in User, NEW i \in DOMAIN ledger'[v]
        PROVE  \/ i \in DOMAIN ledger[v] /\ ledger'[v][i] = ledger[v][i]
               \/ v = u /\ i = n + 1 /\ ledger'[v][i] = e
    BY <1>1, <2>2
  <2>4. ASSUME NEW v \in User, NEW i \in DOMAIN ledger[v],
               ledger[v][i].key = e.key
        PROVE  e.key = NoCheckout
    BY <1>2, <2>1, <2>4 DEF CheckoutIndexRefuses, Entry
  <2>5. TopupCreditedOnce'
    <3> SUFFICES ASSUME NEW v \in User, NEW w \in User,
                        NEW i \in DOMAIN ledger'[v], NEW j \in DOMAIN ledger'[w],
                        ledger'[v][i].key = ledger'[w][j].key,
                        ledger'[v][i].key # NoCheckout
                 PROVE  v = w /\ i = j
      BY DEF TopupCreditedOnce
    <3>1. CASE /\ i \in DOMAIN ledger[v] /\ ledger'[v][i] = ledger[v][i]
               /\ j \in DOMAIN ledger[w] /\ ledger'[w][j] = ledger[w][j]
      BY <1>1, <3>1 DEF TopupCreditedOnce
    <3> QED BY <2>3, <2>4, <3>1
  <2>6. ASSUME NEW c \in Checkout, CheckoutIndexRefuses(c)'
        PROVE  CheckoutIndexRefuses(c) \/ Topup[c].user = u
    <3>1. PICK v \in User : \E i \in DOMAIN ledger'[v] : ledger'[v][i].key = c
      BY <2>6 DEF CheckoutIndexRefuses
    <3> QED BY <1>2, <1>3, <2>3, <3>1 DEF CheckoutIndexRefuses
  <2> QED BY <1>u, <2>5, <2>6
<1> QED BY <1>u, <1>e, <1>4, <1>5, CommitFrame

\* A commit leaves every other request's staged writes and loaded facts valid.
LEMMA CommitOthers ==
    ASSUME IInv, NEW r \in Request, Commit(r),
           NEW s \in Request \ {r}, NEW q, q = req[s]
    PROVE  RequestOK(q)'
<1>u. PICK u \in User : u = req[r].user
  BY CommitFrame
<1>1. /\ req[r].pc = "written" /\ TypeOK /\ LockExclusive
      /\ RequestOK(q) /\ q \in RequestState
  BY DEF IInv, TypeOK, Commit
<1>2. /\ row'[u].exists
      /\ \A v \in User \ {u} : /\ row'[v] = row[v] /\ ledger'[v] = ledger[v]
                               /\ \A k : EntriesOf(v, k)' = EntriesOf(v, k)
  BY <1>u, CommitFrame
<1>3. CASE q.pc = "written"
  <2>1. Staged(q) /\ q.user \in User \ {u}
    BY <1>u, <1>1, <1>3 DEF LockExclusive, RequestOK, Staged
  <2>2. PICK w \in User \ {u} : w = q.user
    BY <2>1
  <2>3. /\ row'[w] = row[w] /\ ledger'[w] = ledger[w]
        /\ HasSignup(w)' = HasSignup(w)
        /\ EntriesOf(w, "refill")' = EntriesOf(w, "refill")
    BY <1>2 DEF HasSignup
  <2>4. BalanceStaged(q)'
    BY <2>1, <2>2, <2>3 DEF Staged, BalanceStaged
  <2>5. SignupStaged(q)'
    BY <2>1, <2>2, <2>3 DEF Staged, SignupStaged
  <2>6. TopupStaged(q)'
    <3>1. PICK c : c = q.entry.key
      OBVIOUS
    <3>2. c # NoCheckout => c \in Checkout /\ Topup[c].user # u
      BY <1>1, <2>1, <2>2, <3>1, Values DEF Staged, TopupStaged, RequestState, Entry
    <3>3. c # NoCheckout => ~CheckoutIndexRefuses(c)'
      BY <1>u, <2>1, <3>1, <3>2, CommitKeys DEF Staged, TopupStaged
    <3> QED BY <2>1, <2>2, <3>1, <3>3 DEF Staged, TopupStaged
  <2>7. RefillStaged(q)'
    BY <2>1, <2>2, <2>3 DEF Staged, RefillStaged
  <2>8. BurnStaged(q)'
    BY <2>1 DEF Staged, BurnStaged
  <2> QED BY <1>1, <1>3, <2>1, <2>4, <2>5, <2>6, <2>7, <2>8 DEF RequestOK, Staged
<1>4. CASE q.pc # "written"
  <2>1. ASSUME NEW v \in User PROVE row[v].exists => row'[v].exists
    BY <1>2
  <2>2. ASSUME NEW v \in User PROVE HasSignup(v) => HasSignup(v)'
    <3>1. CASE v # u
      BY <1>2, <3>1 DEF HasSignup
    <3>2. CASE v = u /\ UNCHANGED ledger
      BY <3>2 DEF HasSignup, EntriesOf
    <3>3. CASE /\ v = u
               /\ req[r].entry \in Entry
               /\ ledger' = [ledger EXCEPT ![u] = Append(@, req[r].entry)]
      <4>1. PICK n \in Nat : n = Len(ledger[u])
        BY <1>1 DEF TypeOK
      <4>2. PICK e \in Entry : ledger' = [ledger EXCEPT ![u] = Append(@, e)]
        BY <3>3
      <4>3. /\ DOMAIN ledger[u] = 1..n /\ Len(ledger'[u]) = n + 1
            /\ DOMAIN ledger'[u] = 1..n \cup {n + 1}
            /\ \A i \in 1..n : ledger'[u][i] = ledger[u][i]
            /\ ledger'[u][n + 1] = e
        <5>1. TypeOK
          BY <1>1
        <5> QED BY <4>1, <4>2, <5>1, LedgerAppend
      <4> QED BY <3>3, <4>3 DEF HasSignup, EntriesOf
    <3> QED BY <1>u, <3>1, <3>2, <3>3, CommitFrame
  <2>3. ASSUME q.pc # "idle" PROVE LoadedOK(q)'
    BY <1>1, <1>4, <2>1, <2>2, <2>3 DEF RequestOK, LoadedOK
  <2> QED BY <1>1, <1>4, <2>3 DEF RequestOK
<1> QED BY <1>3, <1>4

LEMMA CommitStep ==
    ASSUME IInv, NEW r \in Request, Commit(r)
    PROVE  IInv'
<1>u. PICK u \in User : u = req[r].user
  BY CommitFrame
<1>1. /\ row' = [row EXCEPT ![u] = req[r].mine] /\ req[r].mine \in Row
      /\ req' = [req EXCEPT ![r] = Idle] /\ clock' = clock
  BY <1>u, CommitFrame
<1>2. TypeOK /\ LockExclusive
  BY DEF IInv
<1>3. \A s \in Request : req'[s] = IF s = r THEN Idle ELSE req[s]
  BY <1>1, <1>2 DEF TypeOK
<1>4. TypeOK'
  <2>1. ledger' \in [User -> Seq(Entry)]
    <3>1. CASE UNCHANGED ledger
      BY <1>2, <3>1 DEF TypeOK
    <3>2. ASSUME NEW e \in Entry, ledger' = [ledger EXCEPT ![u] = Append(@, e)]
          PROVE  ledger' \in [User -> Seq(Entry)]
      <4>1. Append(ledger[u], e) \in Seq(Entry) /\ ledger \in [User -> Seq(Entry)]
        BY <1>2 DEF TypeOK
      <4> QED BY <3>2, <4>1
    <3> QED BY <1>u, <3>1, <3>2, CommitFrame
  <2>2. starts' \in [User -> Nat]
    <3>1. starts \in [User -> Nat] /\ starts[u] + 1 \in Nat
      BY <1>2 DEF TypeOK
    <3>2. UNCHANGED starts \/ starts' = [starts EXCEPT ![u] = @ + 1]
      BY <1>u DEF Commit
    <3> QED BY <3>1, <3>2
  <2>3. row' \in [User -> Row]
    BY <1>1, <1>2 DEF TypeOK
  <2> QED BY <1>1, <1>2, <2>1, <2>2, <2>3, Values DEF TypeOK
<1>5. LockExclusive'
  BY <1>2, <1>3 DEF LockExclusive, Idle
<1>6. LedgerInv'
  BY CommitUserInv, CommitKeys DEF LedgerInv
<1>7. RequestOK(Idle)'
  BY Values DEF RequestOK, Idle
<1>8. ASSUME NEW s \in Request PROVE RequestOK(req[s])'
  <2>1. CASE s = r
    BY <1>3, <1>7, <2>1
  <2>2. CASE s # r
    <3>1. PICK q : q = req[s] /\ q = req'[s]
      BY <1>3, <2>2
    <3>2. RequestOK(q)'
      BY <2>2, <3>1, CommitOthers
    <3> QED BY <3>1, <3>2
  <2> QED BY <2>1, <2>2
<1> QED BY <1>4, <1>5, <1>6, <1>8 DEF IInv

-----------------------------------------------------------------------------
(* The theorems.                                                           *)

\* Empty ledgers and idle requests satisfy the invariant.
LEMMA InitInv == Init => IInv
<1> SUFFICES ASSUME Init PROVE IInv
  OBVIOUS
<1>1. /\ \A u \in User : ledger[u] = <<>>
      /\ \A r \in Request : req[r] = Idle
      /\ ledger \in [User -> Seq(Entry)] /\ req \in [Request -> RequestState]
      /\ clock \in Nat
  BY Values DEF Init
<1>a. ASSUME NEW u \in User
      PROVE  /\ row[u] \in Row /\ row[u].balance = 0 /\ row[u].token = FALSE
             /\ ~row[u].exists => row[u] = NoRow
             /\ starts[u] \in Nat
  <2>1. \/ row[u] = NoRow
        \/ row[u] \in [exists : {TRUE}, balance : {0}, starter : BOOLEAN, token : {FALSE}]
    BY DEF Init
  <2>2. starts[u] \in Nat
    BY DEF Init
  <2>3. CASE row[u] = NoRow
    BY <2>2, <2>3 DEF NoRow, Row
  <2>4. CASE row[u] \in [exists : {TRUE}, balance : {0}, starter : BOOLEAN, token : {FALSE}]
    <3>1. PICK x \in BOOLEAN :
            row[u] = [exists |-> TRUE, balance |-> 0, starter |-> x, token |-> FALSE]
      BY <2>4
    <3> QED BY <2>2, <3>1 DEF Row
  <2> QED BY <2>1, <2>3, <2>4
<1>2. TypeOK
  <2>1. row = [u \in User |-> row[u]]
    BY DEF Init
  <2>2. starts = [u \in User |-> starts[u]]
    BY DEF Init
  <2>3. row \in [User -> Row] /\ starts \in [User -> Nat]
    BY <1>a, <2>1, <2>2
  <2> QED BY <1>1, <2>3 DEF TypeOK
<1>3. \A u \in User : \A k : EntriesOf(u, k) = {}
  BY <1>1 DEF EntriesOf
<1>4. SignupGrantedOnce /\ GrantFlagAgrees
  BY <1>a, <1>3 DEF SignupGrantedOnce, GrantFlagAgrees
<1>5. \A u \in User : Len(ledger[u]) = 0 /\ DOMAIN ledger[u] = {}
  BY <1>1
<1>6. LedgerRunningBalance
  BY <1>a, <1>5 DEF LedgerRunningBalance, BalanceAfter
<1>7. TopupCreditedOnce /\ KeysPlaced
  BY <1>5 DEF TopupCreditedOnce, KeysPlaced
<1>8. AbsentEmpty
  BY <1>1, <1>a DEF AbsentEmpty
<1>9. RefillPolicyHolds
  BY <1>3, FS_EmptySet, WalletAssumption DEF RefillPolicyHolds
<1>10. LockExclusive
  BY <1>1 DEF LockExclusive, Idle
<1>11. ASSUME NEW r \in Request PROVE RequestOK(req[r])
  BY <1>1, Values
<1> QED BY <1>2, <1>4, <1>6, <1>7, <1>8, <1>9, <1>10, <1>11 DEF IInv, LedgerInv

\* Every step keeps the invariant, one step of the proof per action.
LEMMA NextInv == IInv /\ [Next]_vars => IInv'
<1> SUFFICES ASSUME IInv, [Next]_vars PROVE IInv'
  OBVIOUS
<1>2. CASE Tick \/ UNCHANGED vars
  <2>1. UNCHANGED <<row, ledger, starts, req>> /\ clock' \in Nat
    BY <1>2 DEF Tick, vars, IInv, TypeOK
  <2>2. LedgerInv' /\ TypeOK' /\ LockExclusive'
    BY <2>1, LedgerInvStable DEF IInv, TypeOK, LockExclusive
  <2>3. ASSUME NEW r \in Request PROVE RequestOK(req[r])'
    <3>1. PICK q : q = req[r] /\ q = req'[r]
      BY <2>1
    <3>2. RequestOK(q)'
      BY <2>1, <3>1, RequestOKStable DEF IInv
    <3> QED BY <3>1, <3>2
  <2> QED BY <2>2, <2>3 DEF IInv
<1>3. ASSUME NEW r \in Request, Locking(r) PROVE IInv'
  BY <1>3, ApplyStep, AuthStep DEF Locking
<1>4. ASSUME NEW r \in Request, Commit(r) PROVE IInv'
  BY <1>4, CommitStep
<1>5. ASSUME NEW r \in Request, Rollback(r) \/ ChatEnd(r) PROVE IInv'
  BY <1>5, EndStep DEF Rollback, ChatEnd
<1>6. ASSUME NEW r \in Request, NEW spent \in 1..MaxBurn, ChatBurn(r, spent)
      PROVE  IInv'
  BY <1>6, ApplyStep
<1>7. ASSUME NEW r \in Request, NEW c \in Checkout, TopupLoad(r, c) PROVE IInv'
  <2>1. /\ Topup[c].user \in User /\ row[Topup[c].user].exists
        /\ Load(r, Topup[c].user, "topup", c)
    BY <1>7, WalletAssumption DEF TopupLoad
  <2> QED BY <2>1, LoadStep
<1>8. ASSUME NEW r \in Request, NEW u \in User,
             AuthLoad(r, u) \/ ClerkLoad(r, u) \/ RefillLoad(r, u) \/ ChatPreflight(r, u)
      PROVE  IInv'
  <2>1. CASE AuthLoad(r, u)
    BY <2>1, LoadStep DEF AuthLoad
  <2>2. CASE ClerkLoad(r, u)
    BY <2>2, LoadStep DEF ClerkLoad
  <2>3. CASE RefillLoad(r, u)
    BY <2>3, LoadStep DEF RefillLoad
  <2>4. CASE ChatPreflight(r, u)
    BY <2>4, LoadStep DEF ChatPreflight
  <2> QED BY <1>8, <2>1, <2>2, <2>3, <2>4
<1>9. ASSUME NEW r \in Request, NEW u \in User, NEW n \in Gifts, GrantTokens(r, u, n)
      PROVE  IInv'
  BY <1>9, GiftStep
<1> QED BY <1>2, <1>3, <1>4, <1>5, <1>6, <1>7, <1>8, <1>9 DEF Next

\* However requests interleave and abort, the invariant the proofs rest on holds.
THEOREM Invariance == Spec => []IInv
<1> QED BY InitInv, NextInv, PTL DEF Spec

\* Every variable keeps its shape, with any number of users and requests.
THEOREM TypeCorrect == Spec => []TypeOK
<1>1. IInv => TypeOK BY DEF IInv
<1> QED BY <1>1, Invariance, PTL

\* Each ledger row is a true running total and the last is the stored balance.
THEOREM BalanceIsLedgerSum == Spec => []LedgerRunningBalance
<1>1. IInv => LedgerRunningBalance BY DEF IInv, LedgerInv
<1> QED BY <1>1, Invariance, PTL

\* The signup grant is issued once, in spite of the lost update of its flag, and
\* the flag and the ledger agree.
THEOREM SignupExactlyOnce == Spec => [](SignupGrantedOnce /\ GrantFlagAgrees)
<1>1. IInv => SignupGrantedOnce /\ GrantFlagAgrees BY DEF IInv, LedgerInv
<1> QED BY <1>1, Invariance, PTL

\* A user with entries has the grant's flag, and without the flag none: the
\* savepoint that the unique index undoes takes nothing with it.
THEOREM FlagFollowsLedger == Spec => []GrantFlagAgrees
<1>1. IInv => GrantFlagAgrees BY DEF IInv, LedgerInv
<1> QED BY <1>1, Invariance, PTL

\* A paid checkout is credited once, however often and wherever it is delivered.
THEOREM TopupExactlyOnce == Spec => []TopupCreditedOnce
<1>1. IInv => TopupCreditedOnce BY DEF IInv, LedgerInv
<1> QED BY <1>1, Invariance, PTL

\* Racing refill claims keep the lifetime cap and the cooldown.
THEOREM RefillsRationed == Spec => []RefillPolicyHolds
<1>1. IInv => RefillPolicyHolds BY DEF IInv, LedgerInv
<1> QED BY <1>1, Invariance, PTL

-----------------------------------------------------------------------------
(* How far a wallet can be overdrawn.  The floor is read once, before the  *)
(* turn, so the bound is about the turns that run at one time: each was    *)
(* admitted above the floor, and each takes one burn at most.              *)

\* A request that was admitted to a turn and whose burn may still reach u.
Owes(q, u) ==
    /\ q.user = u
    /\ q.pc = "streaming" \/ (q.pc = "written" /\ q.entry.kind = "burn")

Pending(u) == {r \in Request : Owes(req[r], u)}

\* While turns are pending, and after them while the balance is negative, every
\* request that is not pending may have taken one burn off a balance that was
\* above the floor.
OverdrawInv ==
    \A u \in User :
        IF u \in Unlimited THEN row[u].balance >= 0
        ELSE Pending(u) # {} \/ row[u].balance < 0 =>
                row[u].balance >
                    Floor - MaxBurn * (Cardinality(Request) - Cardinality(Pending(u)))

LEMMA TimesMonotone ==
    ASSUME NEW m \in Nat, NEW a \in Nat, NEW b \in Nat, a <= b
    PROVE  m * a \in Nat /\ m * a <= m * b
<1>1. PICK d \in Nat : b = a + d
  <2>1. b - a \in Nat /\ b = a + (b - a)
    OBVIOUS
  <2> QED BY <2>1
<1>2. m * (a + d) = m * a + m * d /\ m * a \in Nat /\ m * d \in Nat
  OBVIOUS
<1> QED BY <1>1, <1>2

\* How many requests are not pending is a number, and no more than all of them.
LEMMA PendingFinite ==
    ASSUME NEW u
    PROVE  /\ Cardinality(Request) \in Nat /\ Cardinality(Pending(u)) \in Nat
           /\ IsFiniteSet(Pending(u))
           /\ Cardinality(Request) - Cardinality(Pending(u)) \in Nat
<1>1. IsFiniteSet(Request) /\ Pending(u) \subseteq Request
  BY WalletAssumption DEF Pending
<1>2. /\ IsFiniteSet(Pending(u))
      /\ Cardinality(Pending(u)) <= Cardinality(Request)
  BY <1>1, FS_Subset
<1> QED BY <1>1, <1>2, FS_CardinalityType

\* A step of one request changes whether that request is pending, no other.
LEMMA PendingMoves ==
    ASSUME TypeOK, NEW r \in Request, NEW q, req' = [req EXCEPT ![r] = q], NEW u
    PROVE  Pending(u)' = (Pending(u) \ {r}) \cup (IF Owes(q, u) THEN {r} ELSE {})
<1>1. \A s \in Request : req'[s] = IF s = r THEN q ELSE req[s]
  BY DEF TypeOK
<1>2. Pending(u)' = {s \in Request : Owes(req'[s], u)}
  BY DEF Pending, Owes
<1> QED BY <1>1, <1>2 DEF Pending

\* A turn that is over without a burn only takes away from what is bounded.
LEMMA OverdrawKept ==
    ASSUME TypeOK, NEW u \in User, UNCHANGED row,
           IsFiniteSet(Pending(u)), Pending(u)' \subseteq Pending(u),
           row[u].balance > Floor
                - MaxBurn * (Cardinality(Request) - Cardinality(Pending(u)))
    PROVE  row'[u].balance > Floor
                - MaxBurn * (Cardinality(Request) - Cardinality(Pending(u)'))
<1>1. PICK n \in Nat : n = Cardinality(Request)
  BY PendingFinite
<1>2. PICK k \in Nat : k = Cardinality(Pending(u))
  BY PendingFinite
<1>3. IsFiniteSet(Pending(u)') /\ Cardinality(Pending(u)') <= Cardinality(Pending(u))
  BY FS_Subset
<1>4. PICK j \in Nat : j = Cardinality(Pending(u)')
  BY <1>3, FS_CardinalityType
<1>5. n - k \in Nat
  BY <1>1, <1>2, PendingFinite
<1>6. n - j \in Nat /\ n - k <= n - j
  BY <1>2, <1>3, <1>4, <1>5
<1>7. MaxBurn * (n - k) <= MaxBurn * (n - j) /\ MaxBurn * (n - k) \in Nat
      /\ MaxBurn * (n - j) \in Nat
  BY <1>5, <1>6, TimesMonotone, WalletAssumption
<1>8. row[u].balance \in Int /\ Floor \in Nat
  BY WalletAssumption DEF TypeOK, Row
<1>9. row[u].balance > Floor - MaxBurn * (n - k)
  BY <1>1, <1>2
<1>10. row[u].balance > Floor - MaxBurn * (n - j)
  BY <1>7, <1>8, <1>9
<1> QED BY <1>1, <1>4, <1>10

\* Every step that changes no row and admits no turn.
LEMMA OverdrawQuiet ==
    ASSUME IInv, OverdrawInv, UNCHANGED row,
           \A u \in User : Pending(u)' \subseteq Pending(u)
    PROVE  OverdrawInv'
<1> SUFFICES ASSUME NEW u \in User
             PROVE  IF u \in Unlimited THEN row'[u].balance >= 0
                    ELSE Pending(u)' # {} \/ row'[u].balance < 0 =>
                            row'[u].balance > Floor
                                - MaxBurn * (Cardinality(Request) - Cardinality(Pending(u)'))
  BY DEF OverdrawInv
<1>1. CASE u \in Unlimited
  BY <1>1 DEF OverdrawInv
<1>2. CASE u \notin Unlimited /\ (Pending(u)' # {} \/ row'[u].balance < 0)
  <2>1. row[u].balance > Floor
            - MaxBurn * (Cardinality(Request) - Cardinality(Pending(u)))
    BY <1>2 DEF OverdrawInv
  <2> QED BY <1>2, <2>1, OverdrawKept, PendingFinite DEF IInv
<1> QED BY <1>1, <1>2

LEMMA OverdrawRequestQuiet ==
    ASSUME IInv, OverdrawInv, NEW r \in Request, NEW q,
           req' = [req EXCEPT ![r] = q], UNCHANGED row,
           \A u \in User : Owes(q, u) => Owes(req[r], u)
    PROVE  OverdrawInv'
<1>1. ASSUME NEW u \in User PROVE Pending(u)' \subseteq Pending(u)
  <2>1. Pending(u)' = (Pending(u) \ {r}) \cup (IF Owes(q, u) THEN {r} ELSE {})
    BY PendingMoves DEF IInv
  <2> QED BY <2>1 DEF Pending
<1> QED BY <1>1, OverdrawQuiet

\* Staging a credit, or the burn of an admitted turn.
LEMMA OverdrawStage ==
    ASSUME IInv, OverdrawInv, NEW r \in Request, NEW mine, NEW entry, NEW issued,
           Stage(r, mine, entry, issued),
           entry.kind = "burn" => req[r].pc = "streaming"
    PROVE  OverdrawInv'
<1> DEFINE q == [req[r] EXCEPT !.pc = "written", !.mine = mine,
                               !.entry = entry, !.starts = issued]
<1>1. req[r] \in RequestState /\ req \in [Request -> RequestState]
  BY DEF IInv, TypeOK
<1>2. q.pc = "written" /\ q.user = req[r].user /\ q.entry = entry
  BY <1>1 DEF RequestState
<1>3. req' = [req EXCEPT ![r] = q] /\ UNCHANGED row
  BY <1>1 DEF Stage, RequestState
<1> HIDE DEF q
<1>4. \A u \in User : Owes(q, u) => Owes(req[r], u)
  BY <1>2 DEF Owes
<1> QED BY <1>3, <1>4, OverdrawRequestQuiet

LEMMA OverdrawEnd ==
    ASSUME IInv, OverdrawInv, NEW r \in Request, End(r)
    PROVE  OverdrawInv'
<1>1. req' = [req EXCEPT ![r] = Idle] /\ UNCHANGED row /\ Idle.pc = "idle"
  BY DEF End, Idle
<1>2. \A u \in User : ~Owes(Idle, u)
  BY <1>1 DEF Owes
<1> QED BY <1>1, <1>2, OverdrawRequestQuiet

LEMMA OverdrawLoad ==
    ASSUME IInv, OverdrawInv, NEW r \in Request, NEW u \in User,
           NEW p \in {"auth", "clerk", "refill", "topup"}, NEW c, Load(r, u, p, c)
    PROVE  OverdrawInv'
<1> DEFINE q == [Idle EXCEPT !.pc = p, !.user = u, !.mine = row[u], !.key = c]
<1>1. q.pc = p
  BY DEF Idle
<1>2. req' = [req EXCEPT ![r] = q] /\ UNCHANGED row
  BY DEF Load
<1> HIDE DEF q
<1> QED BY <1>1, <1>2, OverdrawRequestQuiet DEF Owes

\* Every step of a request before its commit, the admission of a turn apart.
LEMMA OverdrawLocking ==
    ASSUME IInv, OverdrawInv, NEW r \in Request, Locking(r)
    PROVE  OverdrawInv'
<1>1. \A base, kind, n, c : LedgerRow(base, kind, n, c).kind = kind
  BY DEF LedgerRow
<1>2. NoEntry.kind # "burn"
  BY Values
<1>3. CASE AuthGrants(r)
  <2>1. ASSUME NEW base, NEW issued, SignupGrant(r, base, issued) PROVE OverdrawInv'
    BY <1>1, <1>2, <2>1, OverdrawStage DEF SignupGrant
  <2> QED BY <1>3, <2>1, OverdrawEnd DEF AuthGrants
<1>4. CASE ClerkCreate(r)
  BY <1>2, <1>4, OverdrawEnd, OverdrawStage DEF ClerkCreate
<1>5. CASE RefillClaim(r)
  BY <1>1, <1>5, OverdrawEnd, OverdrawStage DEF RefillClaim, ApplyEntry
<1>6. CASE TopupCredit(r)
  BY <1>1, <1>6, OverdrawEnd, OverdrawStage DEF TopupCredit, ApplyEntry
<1> QED BY <1>3, <1>4, <1>5, <1>6 DEF Locking

\* The floor is read here, by a request that was not pending.
LEMMA OverdrawPreflight ==
    ASSUME IInv, OverdrawInv, NEW r \in Request, NEW u \in User, ChatPreflight(r, u)
    PROVE  OverdrawInv'
<1> DEFINE q == [Idle EXCEPT !.pc = "streaming", !.user = u, !.mine = row[u],
                             !.key = NoCheckout]
<1>1. /\ q.pc = "streaming" /\ q.user = u /\ req[r].pc = "idle" /\ MayChat(u)
      /\ req' = [req EXCEPT ![r] = q] /\ UNCHANGED row
  BY DEF ChatPreflight, Load, Idle
<1>2. TypeOK
  BY DEF IInv
<1> HIDE DEF q
<1>3. ASSUME NEW v \in User \ {u} PROVE Pending(v)' \subseteq Pending(v)
  <2>1. Pending(v)' = (Pending(v) \ {r}) \cup (IF Owes(q, v) THEN {r} ELSE {})
    BY <1>1, <1>2, PendingMoves
  <2> QED BY <1>1, <2>1 DEF Owes
<1>4. Pending(u)' = Pending(u) \cup {r} /\ Pending(u)' \subseteq Request
  <2>1. Pending(u)' = (Pending(u) \ {r}) \cup (IF Owes(q, u) THEN {r} ELSE {})
    BY <1>1, <1>2, PendingMoves
  <2> QED BY <1>1, <2>1 DEF Owes, Pending
<1>5. ASSUME u \notin Unlimited
      PROVE  row[u].balance > Floor
                - MaxBurn * (Cardinality(Request) - Cardinality(Pending(u)'))
  <2>1. row[u].balance > Floor /\ row[u].balance \in Int /\ Floor \in Nat
        /\ MaxBurn \in Nat /\ IsFiniteSet(Request)
    BY <1>1, <1>2, <1>5, WalletAssumption DEF MayChat, TypeOK, Row
  <2>2. /\ IsFiniteSet(Pending(u)')
        /\ Cardinality(Pending(u)') <= Cardinality(Request)
    BY <1>4, <2>1, FS_Subset
  <2>3. Cardinality(Pending(u)') \in Nat /\ Cardinality(Request) \in Nat
    BY <2>1, <2>2, FS_CardinalityType
  <2>4. PICK n \in Nat : n = Cardinality(Request) - Cardinality(Pending(u)')
    BY <2>2, <2>3
  <2>5. MaxBurn * n \in Nat
    BY <2>1, <2>4, TimesMonotone
  <2> QED BY <2>1, <2>4, <2>5
<1>6. ASSUME NEW v \in User
      PROVE  IF v \in Unlimited THEN row'[v].balance >= 0
             ELSE Pending(v)' # {} \/ row'[v].balance < 0 =>
                     row'[v].balance > Floor
                         - MaxBurn * (Cardinality(Request) - Cardinality(Pending(v)'))
  <2>1. CASE v \in Unlimited
    BY <1>1, <2>1 DEF OverdrawInv
  <2>2. CASE v \notin Unlimited /\ v = u
    BY <1>1, <1>5, <2>2
  <2>3. CASE v \notin Unlimited /\ v # u /\ (Pending(v)' # {} \/ row'[v].balance < 0)
    <3>1. row[v].balance > Floor
            - MaxBurn * (Cardinality(Request) - Cardinality(Pending(v)))
      BY <1>1, <1>3, <2>3 DEF OverdrawInv
    <3> QED BY <1>1, <1>2, <1>3, <2>3, <3>1, OverdrawKept, PendingFinite
  <2> QED BY <2>1, <2>2, <2>3
<1> QED BY <1>6 DEF OverdrawInv

\* A committed burn takes one turn's tokens and one pending turn.
LEMMA OverdrawCommit ==
    ASSUME IInv, OverdrawInv, NEW r \in Request, Commit(r)
    PROVE  OverdrawInv'
<1>u. PICK u \in User : u = req[r].user
  BY CommitFrame
<1>e. PICK e \in Entry \cup {NoEntry} : e = req[r].entry
  BY CommitFrame
<1>1. /\ BalanceStaged(req[r]) /\ BurnStaged(req[r]) /\ req[r].pc = "written"
      /\ row'[u] = req[r].mine /\ req' = [req EXCEPT ![r] = Idle]
      /\ \A v \in User \ {u} : row'[v] = row[v]
  BY <1>u, CommitFrame DEF Staged, Commit
<1>2. TypeOK
  BY DEF IInv
<1>3. ASSUME NEW v \in User PROVE Pending(v)' = Pending(v) \ {r}
  <2>1. Pending(v)' = (Pending(v) \ {r}) \cup (IF Owes(Idle, v) THEN {r} ELSE {})
    BY <1>1, <1>2, PendingMoves
  <2>2. ~Owes(Idle, v)
    BY DEF Owes, Idle
  <2> QED BY <2>1, <2>2
<1>4. /\ row[u].balance \in Int /\ Floor \in Nat /\ MaxBurn \in Nat
  BY <1>2, WalletAssumption DEF TypeOK, Row
<1>5. ASSUME IF u \in Unlimited THEN row'[u].balance >= 0
             ELSE Pending(u)' # {} \/ row'[u].balance < 0 =>
                     row'[u].balance > Floor
                         - MaxBurn * (Cardinality(Request) - Cardinality(Pending(u)'))
      PROVE  OverdrawInv'
  <2> SUFFICES ASSUME NEW v \in User
               PROVE  IF v \in Unlimited THEN row'[v].balance >= 0
                      ELSE Pending(v)' # {} \/ row'[v].balance < 0 =>
                              row'[v].balance > Floor
                                  - MaxBurn * (Cardinality(Request) - Cardinality(Pending(v)'))
    BY DEF OverdrawInv
  <2>1. CASE v = u
    BY <1>5, <2>1
  <2>2. CASE v # u /\ v \in Unlimited
    BY <1>1, <2>2 DEF OverdrawInv
  <2>3. CASE v # u /\ v \notin Unlimited
    <3>1. Pending(v)' = Pending(v)
      BY <1>u, <1>3, <2>3 DEF Pending, Owes
    <3> QED BY <1>1, <2>3, <3>1 DEF OverdrawInv
  <2> QED BY <2>1, <2>2, <2>3
<1>6. CASE e.kind = "burn"
  <2>1. PICK s \in 1..MaxBurn : s = -e.amount
    BY <1>u, <1>e, <1>1, <1>6 DEF BurnStaged
  <2>2. e # NoEntry /\ e.amount \in Int /\ u \notin Unlimited
    BY <1>u, <1>e, <1>1, <1>6, Values DEF BurnStaged
  <2>3. row'[u].balance = row[u].balance - s
    BY <1>u, <1>e, <1>1, <1>4, <2>1, <2>2 DEF BalanceStaged
  <2>4. r \in Pending(u)
    BY <1>u, <1>e, <1>1, <1>6 DEF Pending, Owes
  <2>5. PICK n \in Nat : n = Cardinality(Request) - Cardinality(Pending(u))
    BY PendingFinite
  <2>6. Cardinality(Request) - Cardinality(Pending(u)') = n + 1
    <3>1. Cardinality(Pending(u) \ {r}) = Cardinality(Pending(u)) - 1
      BY <2>4, PendingFinite, FS_RemoveElement
    <3>2. Cardinality(Pending(u)') = Cardinality(Pending(u)) - 1
      BY <1>3, <3>1
    <3> QED BY <2>5, <3>2, PendingFinite
  <2>7. row[u].balance > Floor - MaxBurn * n
    BY <2>2, <2>4, <2>5 DEF OverdrawInv
  <2>8. MaxBurn * (n + 1) = MaxBurn * n + MaxBurn /\ MaxBurn * n \in Nat
    BY <1>4
  <2>9. row'[u].balance > Floor - MaxBurn * (n + 1)
    BY <1>4, <2>1, <2>3, <2>7, <2>8
  <2> QED BY <1>5, <2>2, <2>6, <2>9
<1>7. CASE e.kind # "burn"
  <2>1. row'[u].balance >= row[u].balance /\ row'[u].balance \in Int
    <3>1. CASE e = NoEntry
      BY <1>u, <1>e, <1>1, <1>4, <3>1 DEF BalanceStaged
    <3>2. CASE e \in Entry
      <4>1. e # NoEntry /\ e.amount \in Int /\ ~(e.amount < 0)
        BY <1>7, <3>2, Values DEF Entry
      <4>2. row'[u].balance = row[u].balance + e.amount
        BY <1>u, <1>e, <1>1, <4>1 DEF BalanceStaged
      <4> QED BY <1>4, <4>1, <4>2
    <3> QED BY <3>1, <3>2
  <2>2. Pending(u)' = Pending(u)
    <3>1. r \notin Pending(u)
      BY <1>e, <1>1, <1>7 DEF Pending, Owes
    <3> QED BY <1>3, <3>1
  <2>3. CASE u \in Unlimited
    <3>1. row[u].balance >= 0
      BY <2>3 DEF OverdrawInv
    <3> QED BY <1>4, <1>5, <2>1, <2>3, <3>1
  <2>4. CASE u \notin Unlimited /\ (Pending(u)' # {} \/ row'[u].balance < 0)
    <3>1. Pending(u) # {} \/ row[u].balance < 0
      BY <1>4, <2>1, <2>2, <2>4
    <3>2. PICK n \in Nat : n = Cardinality(Request) - Cardinality(Pending(u))
      BY PendingFinite
    <3>3. row[u].balance > Floor - MaxBurn * n /\ MaxBurn * n \in Nat
      BY <1>4, <2>4, <3>1, <3>2 DEF OverdrawInv
    <3>4. row'[u].balance > Floor - MaxBurn * n
      BY <1>4, <2>1, <3>3
    <3> QED BY <1>5, <2>2, <2>4, <3>2, <3>4
  <2> QED BY <1>5, <2>3, <2>4
<1> QED BY <1>6, <1>7

\* No step overdraws a wallet further than the turns that were admitted.
LEMMA OverdrawNext == IInv /\ OverdrawInv /\ [Next]_vars => OverdrawInv'
<1> SUFFICES ASSUME IInv, OverdrawInv, [Next]_vars PROVE OverdrawInv'
  OBVIOUS
<1>1. CASE Tick \/ UNCHANGED vars
  <2>1. UNCHANGED <<row, req>>
    BY <1>1 DEF Tick, vars
  <2> QED BY <2>1, OverdrawQuiet DEF Pending, Owes
<1>2. ASSUME NEW r \in Request, Locking(r) PROVE OverdrawInv'
  BY <1>2, OverdrawLocking
<1>3. ASSUME NEW r \in Request, Commit(r) PROVE OverdrawInv'
  BY <1>3, OverdrawCommit
<1>4. ASSUME NEW r \in Request, Rollback(r) \/ ChatEnd(r) PROVE OverdrawInv'
  BY <1>4, OverdrawEnd DEF Rollback, ChatEnd
<1>5. ASSUME NEW r \in Request, NEW spent \in 1..MaxBurn, ChatBurn(r, spent)
      PROVE  OverdrawInv'
  BY <1>5, OverdrawStage DEF ChatBurn, ApplyEntry
<1>6. ASSUME NEW r \in Request, NEW c \in Checkout, TopupLoad(r, c)
      PROVE  OverdrawInv'
  <2>1. Topup[c].user \in User /\ Load(r, Topup[c].user, "topup", c)
    BY <1>6, WalletAssumption DEF TopupLoad
  <2> QED BY <2>1, OverdrawLoad
<1>7. ASSUME NEW r \in Request, NEW u \in User,
             AuthLoad(r, u) \/ ClerkLoad(r, u) \/ RefillLoad(r, u)
      PROVE  OverdrawInv'
  BY <1>7, OverdrawLoad DEF AuthLoad, ClerkLoad, RefillLoad
<1>8. ASSUME NEW r \in Request, NEW u \in User, ChatPreflight(r, u)
      PROVE  OverdrawInv'
  BY <1>8, OverdrawPreflight
<1>9. ASSUME NEW r \in Request, NEW u \in User, NEW n \in Gifts, GrantTokens(r, u, n)
      PROVE  OverdrawInv'
  <2> DEFINE q == [Idle EXCEPT !.pc = "written", !.user = u,
                             !.mine = Credited(row[u], n),
                             !.entry = LedgerRow(row[u], "gift", n, NoCheckout)]
  <2>1. q.pc = "written" /\ q.entry.kind = "gift"
    BY DEF Idle, LedgerRow
  <2>2. req' = [req EXCEPT ![r] = q] /\ UNCHANGED row
    BY <1>9 DEF GrantTokens
  <2> HIDE DEF q
  <2> QED BY <2>1, <2>2, OverdrawRequestQuiet DEF Owes
<1> QED BY <1>1, <1>2, <1>3, <1>4, <1>5, <1>6, <1>7, <1>8, <1>9 DEF Next

\* The bound on one wallet follows from the invariant: there cannot be fewer than
\* no pending turns.
LEMMA OverdrawImplied == TypeOK /\ OverdrawInv => OverdrawBounded
<1> SUFFICES ASSUME TypeOK, OverdrawInv, NEW u \in User, row[u].balance < 0
             PROVE  row[u].balance > Floor - MaxBurn * Cardinality(Request)
  BY DEF OverdrawBounded
<1>1. PICK n \in Nat : n = Cardinality(Request)
  BY PendingFinite
<1>2. PICK k \in Nat : k = Cardinality(Pending(u)) /\ n - k \in Nat
  BY <1>1, PendingFinite
<1>3. row[u].balance \in Int /\ Floor \in Nat /\ MaxBurn \in Nat
  BY WalletAssumption DEF TypeOK, Row
<1>4. row[u].balance > Floor - MaxBurn * (n - k)
  BY <1>1, <1>2, <1>3 DEF OverdrawInv
<1>5. MaxBurn * (n - k) <= MaxBurn * n /\ MaxBurn * (n - k) \in Nat
      /\ MaxBurn * n \in Nat
  BY <1>1, <1>2, <1>3, TimesMonotone
<1> QED BY <1>1, <1>3, <1>4, <1>5

\* The floor is checked before a turn and never when it is paid, yet a wallet is
\* overdrawn by less than one full turn per request that can run at once.
THEOREM OverdrawLimited == Spec => []OverdrawBounded
<1>1. Init => OverdrawInv
  <2> SUFFICES ASSUME Init, NEW u \in User
               PROVE  row[u].balance = 0 /\ Pending(u) = {}
    BY DEF OverdrawInv
  <2>1. row[u].balance = 0
    <3>1. \/ row[u] = NoRow
          \/ row[u] \in [exists : {TRUE}, balance : {0}, starter : BOOLEAN, token : {FALSE}]
      BY DEF Init
    <3>2. CASE row[u] = NoRow
      BY <3>2 DEF NoRow
    <3>3. CASE row[u] \in [exists : {TRUE}, balance : {0}, starter : BOOLEAN, token : {FALSE}]
      BY <3>3
    <3> QED BY <3>1, <3>2, <3>3
  <2>2. Pending(u) = {}
    BY DEF Init, Pending, Owes, Idle
  <2> QED BY <2>1, <2>2
<1>2. IInv => TypeOK
  BY DEF IInv
<1> QED BY <1>1, <1>2, Invariance, OverdrawNext, OverdrawImplied, PTL DEF Spec

-----------------------------------------------------------------------------
(* The refinement: rows, locks and indexes implement TokenAccount.  Every  *)
(* step but Commit leaves the committed state alone, and so stutters; a    *)
(* commit is the one step of the account that its entry's kind names.      *)

\* The account as the rows and ledgers show it.
Balances == [u \in User |-> row[u].balance]
Granted == {u \in User : EntriesOf(u, "signup") # {}}
Paid == {c \in Checkout : CheckoutIndexRefuses(c)}
Refills == [u \in User |-> Cardinality(EntriesOf(u, "refill"))]

LEMMA AccountFrame ==
    ASSUME UNCHANGED <<row, ledger>>
    PROVE  UNCHANGED <<Balances, Granted, Paid, Refills>>
<1>1. \A u, k : EntriesOf(u, k)' = EntriesOf(u, k)
  BY DEF EntriesOf
<1>2. \A c : CheckoutIndexRefuses(c)' = CheckoutIndexRefuses(c)
  BY DEF CheckoutIndexRefuses
<1> QED BY <1>1, <1>2 DEF Balances, Granted, Paid, Refills

\* What one committed entry does to the account.
LEMMA CommitEntry ==
    ASSUME IInv, NEW r \in Request, Commit(r), req[r].entry \in Entry,
           NEW u \in User, u = req[r].user, NEW e \in Entry, e = req[r].entry
    PROVE  /\ Balances' = [Balances EXCEPT ![u] = @ + e.amount]
           /\ Granted' = IF e.kind = "signup" THEN Granted \cup {u} ELSE Granted
           /\ Paid' = IF e.key \in Checkout THEN Paid \cup {e.key} ELSE Paid
           /\ Refills' = IF e.kind = "refill" THEN [Refills EXCEPT ![u] = @ + 1]
                         ELSE Refills
<1>n. PICK n \in Nat : n = Len(ledger[u])
  BY DEF IInv, TypeOK
<1>1. /\ TypeOK /\ BalanceStaged(req[r]) /\ e # NoEntry
      /\ row'[u] = req[r].mine
      /\ \A v \in User \ {u} : /\ row'[v] = row[v] /\ ledger'[v] = ledger[v]
                               /\ \A k : EntriesOf(v, k)' = EntriesOf(v, k)
      /\ ledger' = [ledger EXCEPT ![u] = Append(@, e)]
  BY CommitFrame, Values DEF IInv, Staged
<1>2. /\ DOMAIN ledger[u] = 1..n /\ Len(ledger'[u]) = n + 1
      /\ DOMAIN ledger'[u] = 1..n \cup {n + 1}
      /\ \A i \in 1..n : ledger'[u][i] = ledger[u][i]
      /\ ledger'[u][n + 1] = e
  <2>1. TypeOK /\ e \in Entry /\ ledger' = [ledger EXCEPT ![u] = Append(@, e)]
    BY <1>1
  <2> QED BY ONLY <1>n, <2>1, LedgerAppend
<1>3. ASSUME NEW k
      PROVE  EntriesOf(u, k)' = IF e.kind = k THEN EntriesOf(u, k) \cup {n + 1}
                                ELSE EntriesOf(u, k)
  BY <1>2 DEF EntriesOf
<1>4. Balances' = [Balances EXCEPT ![u] = @ + e.amount]
  <2>1. row'[u].balance = row[u].balance + e.amount
    BY <1>1 DEF BalanceStaged
  <2>2. \A v \in User : row'[v].balance
                = IF v = u THEN row[u].balance + e.amount ELSE row[v].balance
    BY <1>1, <2>1
  <2> QED BY <2>2 DEF Balances
<1>5. Granted' = IF e.kind = "signup" THEN Granted \cup {u} ELSE Granted
  <2>1. (EntriesOf(u, "signup")' # {})
            <=> EntriesOf(u, "signup") # {} \/ e.kind = "signup"
    BY <1>3
  <2>2. \A v \in User \ {u} : EntriesOf(v, "signup")' = EntriesOf(v, "signup")
    BY <1>1
  <2> QED BY <2>1, <2>2 DEF Granted
<1>6. Refills' = IF e.kind = "refill" THEN [Refills EXCEPT ![u] = @ + 1] ELSE Refills
  <2> DEFINE S == EntriesOf(u, "refill")
  <2>1. IsFiniteSet(S) /\ n + 1 \notin S
    <3>1. IsFiniteSet(S) /\ S \subseteq 1..n
      BY <1>n, <1>1, EntriesFinite
    <3> QED BY <3>1
  <2>2. Cardinality(S \cup {n + 1}) = Cardinality(S) + 1
    BY <2>1, FS_AddElement
  <2>3. Cardinality(S') = IF e.kind = "refill" THEN Cardinality(S) + 1 ELSE Cardinality(S)
    BY <1>3, <2>2
  <2>4. \A v \in User \ {u} : Cardinality(EntriesOf(v, "refill")')
                                = Cardinality(EntriesOf(v, "refill"))
    BY <1>1
  <2> HIDE DEF S
  <2>5. \A v \in User : Cardinality(EntriesOf(v, "refill")')
            = IF v = u /\ e.kind = "refill" THEN Cardinality(EntriesOf(v, "refill")) + 1
              ELSE Cardinality(EntriesOf(v, "refill"))
    BY <2>3, <2>4 DEF S
  <2> QED BY <2>5 DEF Refills
<1>7. Paid' = IF e.key \in Checkout THEN Paid \cup {e.key} ELSE Paid
  <2>1. \A v \in User \ {u} : ledger'[v] = ledger[v]
    BY <1>1
  <2>2. ASSUME NEW c \in Checkout
        PROVE  CheckoutIndexRefuses(c)' <=> CheckoutIndexRefuses(c) \/ c = e.key
    <3>1. (\E i \in DOMAIN ledger'[u] : ledger'[u][i].key = c)
            <=> (\E i \in DOMAIN ledger[u] : ledger[u][i].key = c) \/ c = e.key
      BY <1>2
    <3> QED BY <2>1, <3>1 DEF CheckoutIndexRefuses
  <2> QED BY <2>2 DEF Paid
<1> QED BY <1>4, <1>5, <1>6, <1>7

\* A commit is a step of the account, or leaves it alone.
LEMMA CommitRefines ==
    ASSUME IInv, NEW r \in Request, Commit(r)
    PROVE  Account!Next \/ UNCHANGED Account!account
<1>u. PICK u \in User : u = req[r].user
  BY CommitFrame
<1>1. /\ Staged(req[r]) /\ BalanceStaged(req[r]) /\ SignupStaged(req[r])
      /\ TopupStaged(req[r]) /\ RefillStaged(req[r]) /\ BurnStaged(req[r])
      /\ TypeOK /\ row[u] \in Row
  BY <1>u, CommitFrame DEF Staged, IInv, TypeOK
<1>2. CASE req[r].entry = NoEntry
  <2>1. /\ UNCHANGED ledger
        /\ \A v \in User : row'[v].balance = row[v].balance
    BY <1>u, <1>1, <1>2, CommitFrame, Values DEF BalanceStaged
  <2>2. \A v, k : EntriesOf(v, k)' = EntriesOf(v, k)
    BY <2>1 DEF EntriesOf
  <2>3. \A c : CheckoutIndexRefuses(c)' = CheckoutIndexRefuses(c)
    BY <2>1 DEF CheckoutIndexRefuses
  <2> QED BY <2>1, <2>2, <2>3 DEF Account!account
<1>3. CASE req[r].entry \in Entry
  <2>e. PICK e \in Entry : e = req[r].entry
    BY <1>3
  <2>1. /\ Balances' = [Balances EXCEPT ![u] = @ + e.amount]
        /\ Granted' = IF e.kind = "signup" THEN Granted \cup {u} ELSE Granted
        /\ Paid' = IF e.key \in Checkout THEN Paid \cup {e.key} ELSE Paid
        /\ Refills' = IF e.kind = "refill" THEN [Refills EXCEPT ![u] = @ + 1]
                      ELSE Refills
    BY <1>u, <1>3, <2>e, CommitEntry
  <2>2. e.kind \in Kinds /\ e.key \in Checkout \cup {NoCheckout} /\ e.amount \in Int
    BY DEF Entry
  <2>3. NoCheckout \notin Checkout
    BY WalletAssumption
  <2>4. e.key \in Checkout <=> e.kind = "topup"
    BY <1>1, <2>e, <2>2, <2>3 DEF TopupStaged
  <2>5. CASE e.kind = "signup"
    <3>1. u \notin Granted /\ e.amount = SignupTokens
      BY <1>u, <1>1, <2>e, <2>5 DEF SignupStaged, HasSignup, Granted
    <3>2. Account!Signup(u)
      BY <2>1, <2>4, <2>5, <3>1
         DEF Account!Signup, Account!Move, Balances, Granted, Paid, Refills
    <3> QED BY <3>2 DEF Account!Next
  <2>6. CASE e.kind = "refill"
    <3>1. Refills[u] < MaxRefills /\ u \notin Unlimited /\ e.amount = RefillTokens
      BY <1>u, <1>1, <2>e, <2>6 DEF RefillStaged, Refills
    <3>2. Account!Refill(u)
      BY <2>1, <2>4, <2>6, <3>1
         DEF Account!Refill, Account!Move, Balances, Granted, Paid, Refills
    <3> QED BY <3>2 DEF Account!Next
  <2>7. CASE e.kind = "topup"
    <3>1. PICK c \in Checkout : c = e.key
      BY <2>4, <2>7
    <3>2. Topup[c].user = u /\ Topup[c].tokens = e.amount /\ c \notin Paid
      BY <1>u, <1>1, <2>3, <2>e, <3>1 DEF TopupStaged, Paid
    <3>3. Account!BuyTopup(c)
      BY <2>1, <2>7, <3>1, <3>2
         DEF Account!BuyTopup, Account!Move, Balances, Granted, Paid, Refills
    <3> QED BY <3>3 DEF Account!Next
  <2>8. CASE e.kind = "burn"
    <3>1. u \notin Unlimited /\ -e.amount \in 1..MaxBurn /\ e.amount = -(-e.amount)
      BY <1>u, <1>1, <2>2, <2>e, <2>8 DEF BurnStaged
    <3>2. PICK s \in 1..MaxBurn : e.amount = -s
      BY <3>1
    <3>3. Account!Burn(u, s)
      BY <2>1, <2>4, <2>8, <3>1, <3>2
         DEF Account!Burn, Account!Move, Balances, Granted, Paid, Refills
    <3> QED BY <3>3 DEF Account!Next
  <2>9. CASE e.kind = "gift"
    <3>1. e.amount \in Gifts
      BY <1>u, <1>1, <2>e, <2>9 DEF BurnStaged
    <3>2. Account!Gift(u, e.amount)
      BY <2>1, <2>4, <2>9
         DEF Account!Gift, Account!Move, Balances, Granted, Paid, Refills
    <3> QED BY <3>1, <3>2 DEF Account!Next
  <2> QED BY <2>2, <2>5, <2>6, <2>7, <2>8, <2>9 DEF Kinds
<1> QED BY <1>2, <1>3, CommitFrame

\* Every step of the wallet is a step of the account or none.
LEMMA NextRefines == IInv /\ [Next]_vars => [Account!Next]_(Account!account)
<1> SUFFICES ASSUME IInv, [Next]_vars, ~(UNCHANGED Account!account)
             PROVE  Account!Next
  OBVIOUS
<1>1. ~UNCHANGED <<row, ledger>>
  BY AccountFrame DEF Account!account, Balances, Granted, Paid, Refills
<1>2. ASSUME NEW r \in Request, Commit(r) PROVE Account!Next
  BY <1>2, CommitRefines
<1>3. CASE Tick \/ UNCHANGED vars
  BY <1>1, <1>3 DEF Tick, vars
<1>4. ASSUME NEW r \in Request, Locking(r) PROVE FALSE
  BY <1>1, <1>4 DEF Locking, AuthGrants, SignupGrant, ClerkCreate, RefillClaim,
                    TopupCredit, ApplyEntry, Stage, End
<1>5. ASSUME NEW r \in Request, Rollback(r) \/ ChatEnd(r) PROVE FALSE
  BY <1>1, <1>5 DEF Rollback, ChatEnd, End
<1>6. ASSUME NEW r \in Request, NEW spent \in 1..MaxBurn, ChatBurn(r, spent)
      PROVE  FALSE
  BY <1>1, <1>6 DEF ChatBurn, ApplyEntry, Stage
<1>7. ASSUME NEW r \in Request, NEW c \in Checkout, TopupLoad(r, c) PROVE FALSE
  BY <1>1, <1>7 DEF TopupLoad, Load
<1>8. ASSUME NEW r \in Request, NEW u \in User,
             AuthLoad(r, u) \/ ClerkLoad(r, u) \/ RefillLoad(r, u) \/ ChatPreflight(r, u)
      PROVE  FALSE
  BY <1>1, <1>8 DEF AuthLoad, ClerkLoad, RefillLoad, ChatPreflight, Load
<1>9. ASSUME NEW r \in Request, NEW u \in User, NEW n \in Gifts, GrantTokens(r, u, n)
      PROVE  FALSE
  BY <1>1, <1>9 DEF GrantTokens
<1> QED BY <1>2, <1>3, <1>4, <1>5, <1>6, <1>7, <1>8, <1>9 DEF Next

LEMMA InitRefines == Init => Account!Init
<1> SUFFICES ASSUME Init PROVE Account!Init
  OBVIOUS
<1>1. ASSUME NEW u \in User PROVE row[u].balance = 0 /\ ledger[u] = <<>>
  <2>1. \/ row[u] = NoRow
        \/ row[u] \in [exists : {TRUE}, balance : {0}, starter : BOOLEAN, token : {FALSE}]
    BY DEF Init
  <2>2. CASE row[u] = NoRow
    BY <2>2 DEF NoRow, Init
  <2>3. CASE row[u] \in [exists : {TRUE}, balance : {0}, starter : BOOLEAN, token : {FALSE}]
    BY <2>3 DEF Init
  <2> QED BY <2>1, <2>2, <2>3
<1>2. \A u \in User : \A k : EntriesOf(u, k) = {}
  BY <1>1 DEF EntriesOf
<1>3. \A c : ~CheckoutIndexRefuses(c)
  BY <1>1 DEF CheckoutIndexRefuses
<1>4. \A u \in User : Cardinality(EntriesOf(u, "refill")) = 0
  BY <1>2, FS_EmptySet
<1> QED BY <1>1, <1>2, <1>3, <1>4 DEF Account!Init

\* Racing, replayed and aborted requests on rows, locks and indexes amount to the
\* abstract account, whose signup grant, top-ups and refills each happen once.
THEOREM Refinement == Spec => ImplementsAccount
<1> QED BY InitRefines, NextRefines, Invariance, PTL
     DEF Spec, ImplementsAccount, Account!Spec

-----------------------------------------------------------------------------
(* How often a starter grant can be repeated.  It is decided on a copy     *)
(* read without a lock, so racing sign-ins may each issue it; the flag,    *)
(* once committed, is never taken back, so only requests that read it      *)
(* before the first commit can.                                            *)

\* A request that may still commit a starter grant for u.
MayStart(q, u) ==
    /\ q.user = u
    /\ \/ q.pc = "auth" /\ ~q.mine.starter
       \/ q.pc = "clerk"
       \/ q.pc = "written" /\ q.starts

Starters(u) == {r \in Request : MayStart(req[r], u)}

\* What a request commits neither loses the committed flag nor issues the grant
\* without it.
FlagStaged(q) ==
    q.pc = "written" /\ (row[q.user].starter \/ q.starts) => q.mine.starter

\* Each grant was issued by a request that cannot issue another, and none can
\* begin to once the flag is committed.
StarterInv ==
    /\ \A u \in User :
        /\ starts[u] > 0 => row[u].starter
        /\ starts[u] + Cardinality(Starters(u)) <= Cardinality(Request)
    /\ \A r \in Request : FlagStaged(req[r])

LEMMA StartersFinite ==
    ASSUME NEW u
    PROVE  /\ IsFiniteSet(Starters(u)) /\ Cardinality(Starters(u)) \in Nat
           /\ Cardinality(Request) \in Nat
           /\ Cardinality(Starters(u)) <= Cardinality(Request)
<1>1. IsFiniteSet(Request) /\ Starters(u) \subseteq Request
  BY WalletAssumption DEF Starters
<1>2. /\ IsFiniteSet(Starters(u))
      /\ Cardinality(Starters(u)) <= Cardinality(Request)
  BY <1>1, FS_Subset
<1> QED BY <1>1, <1>2, FS_CardinalityType

\* A step of one request that commits nothing: only a user without a grant gains
\* a request that may issue it.
LEMMA StarterRequest ==
    ASSUME IInv, StarterInv, NEW r \in Request, NEW q,
           req' = [req EXCEPT ![r] = q], UNCHANGED <<row, starts>>, FlagStaged(q),
           \A u \in User : MayStart(q, u) => MayStart(req[r], u) \/ starts[u] = 0
    PROVE  StarterInv'
<1>1. \A s \in Request : req'[s] = IF s = r THEN q ELSE req[s]
  BY DEF IInv, TypeOK
<1>2. ASSUME NEW s \in Request PROVE FlagStaged(req[s])'
  BY <1>1 DEF FlagStaged, StarterInv
<1>3. ASSUME NEW u \in User
      PROVE  starts[u] + Cardinality(Starters(u)') <= Cardinality(Request)
  <2>1. PICK n \in Nat : n = starts[u]
    BY DEF IInv, TypeOK
  <2>2. Starters(u)' = {s \in Request : MayStart(req'[s], u)}
    BY DEF Starters, MayStart
  <2>3. /\ Starters(u)' \subseteq Request
        /\ n # 0 => Starters(u)' \subseteq Starters(u)
    BY <1>1, <2>1, <2>2 DEF Starters
  <2>4. IsFiniteSet(Request)
    BY WalletAssumption
  <2>5. /\ IsFiniteSet(Starters(u)')
        /\ Cardinality(Starters(u)') <= Cardinality(Request)
        /\ n # 0 => Cardinality(Starters(u)') <= Cardinality(Starters(u))
    BY <2>3, <2>4, FS_Subset, StartersFinite
  <2>6. PICK j \in Nat : j = Cardinality(Starters(u)')
    BY <2>5, FS_CardinalityType
  <2>7. PICK k \in Nat : k = Cardinality(Starters(u))
    BY StartersFinite
  <2>8. n + k <= Cardinality(Request) /\ Cardinality(Request) \in Nat
    BY <2>1, <2>7, StartersFinite DEF StarterInv
  <2>9. n + j <= Cardinality(Request)
    BY <2>5, <2>6, <2>7, <2>8
  <2> QED BY <2>1, <2>6, <2>9
<1> QED BY <1>2, <1>3 DEF StarterInv

LEMMA StarterEnd ==
    ASSUME IInv, StarterInv, NEW r \in Request, End(r)
    PROVE  StarterInv'
<1>1. req' = [req EXCEPT ![r] = Idle] /\ UNCHANGED <<row, starts>> /\ Idle.pc = "idle"
  BY DEF End, Idle
<1> QED BY <1>1, StarterRequest DEF MayStart, FlagStaged

\* A copy that lacks the flag, or a user who does not exist, means no grant yet.
LEMMA StarterLoad ==
    ASSUME IInv, StarterInv, NEW r \in Request, NEW u \in User,
           NEW p \in {"auth", "clerk", "refill", "topup", "streaming"}, NEW c,
           Load(r, u, p, c), p = "clerk" => ~row[u].exists
    PROVE  StarterInv'
<1> DEFINE q == [Idle EXCEPT !.pc = p, !.user = u, !.mine = row[u], !.key = c]
<1>1. q.pc = p /\ q.user = u /\ q.mine = row[u]
  BY DEF Idle
<1>2. req' = [req EXCEPT ![r] = q] /\ UNCHANGED <<row, starts>>
  BY DEF Load
<1> HIDE DEF q
<1>3. FlagStaged(q)
  BY <1>1 DEF FlagStaged
<1>4. p = "clerk" => ~row[u].starter
  BY DEF IInv, LedgerInv, AbsentEmpty, NoRow
<1>5. starts[u] \in Nat
  BY DEF IInv, TypeOK
<1>6. ~row[u].starter => starts[u] = 0
  BY <1>5 DEF StarterInv
<1>7. \A v \in User : MayStart(q, v) => starts[v] = 0
  BY <1>1, <1>4, <1>6 DEF MayStart
<1>8. \A v \in User : MayStart(q, v) => MayStart(req[r], v) \/ starts[v] = 0
  BY <1>7
<1> QED BY <1>2, <1>3, <1>8, StarterRequest

\* Staging keeps the committed flag, and stages the grant only with it.
LEMMA StarterStage ==
    ASSUME IInv, StarterInv, NEW r \in Request, NEW mine, NEW entry, NEW issued,
           Stage(r, mine, entry, issued),
           LockedRow(r).starter \/ issued => mine.starter,
           issued => req[r].pc = "clerk" \/ (req[r].pc = "auth" /\ ~req[r].mine.starter)
    PROVE  StarterInv'
<1> DEFINE q == [req[r] EXCEPT !.pc = "written", !.mine = mine,
                               !.entry = entry, !.starts = issued]
<1>1. req[r] \in RequestState /\ req \in [Request -> RequestState]
  BY DEF IInv, TypeOK
<1>2. q.pc = "written" /\ q.user = req[r].user /\ q.mine = mine /\ q.starts = issued
  BY <1>1 DEF RequestState
<1>3. req' = [req EXCEPT ![r] = q] /\ UNCHANGED <<row, starts>>
  BY <1>1 DEF Stage, RequestState
<1> HIDE DEF q
<1>4. FlagStaged(q)
  BY <1>2 DEF FlagStaged, LockedRow
<1>5. \A u \in User : MayStart(q, u) => MayStart(req[r], u)
  BY <1>2 DEF MayStart
<1> QED BY <1>3, <1>4, <1>5, StarterRequest

LEMMA StarterApply ==
    ASSUME IInv, StarterInv, NEW r \in Request, req[r].user \in User,
           NEW kind, NEW n, NEW c, ApplyEntry(r, kind, n, c)
    PROVE  StarterInv'
<1>1. Credited(LockedRow(r), n).starter = LockedRow(r).starter
  BY DEF Credited, LockedRow, IInv, TypeOK, Row
<1> QED BY <1>1, StarterStage DEF ApplyEntry

\* The flush that follows a grant sets the flag; the one that follows none keeps
\* the committed row.
LEMMA StarterFlush ==
    ASSUME IInv, NEW r \in Request, req[r].user \in User
    PROVE  /\ StarterFlushed(r) \in Row
           /\ LockedRow(r).starter \/ ~req[r].mine.starter
                => StarterFlushed(r).starter
<1>1. LockedRow(r) \in Row /\ req[r].mine \in Row
  BY DEF LockedRow, IInv, TypeOK, RequestState
<1> QED BY <1>1 DEF StarterFlushed, Row

LEMMA StarterSignup ==
    ASSUME IInv, StarterInv, NEW r \in Request, NEW base \in Row, NEW issued,
           SignupGrant(r, base, issued),
           LockedRow(r).starter \/ issued => base.starter,
           issued => req[r].pc = "auth" /\ ~req[r].mine.starter
    PROVE  StarterInv'
<1> DEFINE flagged == [base EXCEPT !.token = TRUE]
<1>1. /\ flagged.starter = base.starter
      /\ Credited(flagged, SignupTokens).starter = base.starter
  BY DEF Credited, Row
<1>2. CASE Stage(r, base, NoEntry, issued)
  BY <1>2, StarterStage
<1>3. CASE Stage(r, flagged, NoEntry, issued)
  BY <1>1, <1>3, StarterStage
<1>4. CASE Stage(r, Credited(flagged, SignupTokens),
                 LedgerRow(base, "signup", SignupTokens, NoCheckout), issued)
  BY <1>1, <1>4, StarterStage
<1> QED BY <1>2, <1>3, <1>4 DEF SignupGrant

LEMMA StarterLocking ==
    ASSUME IInv, StarterInv, NEW r \in Request, Locking(r)
    PROVE  StarterInv'
<1>1. LoadedOK(req[r]) /\ req[r].user \in User
  BY DEF Locking, AuthGrants, ClerkCreate, RefillClaim, TopupCredit, IInv,
         RequestOK, LoadedOK
<1>2. CASE AuthGrants(r)
  <2>1. CASE End(r)
    BY <2>1, StarterEnd
  <2>2. CASE SignupGrant(r, StarterFlushed(r), ~req[r].mine.starter)
    BY <1>1, <1>2, <2>2, StarterFlush, StarterSignup DEF AuthGrants
  <2> QED BY <1>2, <2>1, <2>2 DEF AuthGrants
<1>3. CASE ClerkCreate(r)
  <2>1. req[r].pc = "clerk" /\ ~req[r].mine.starter
    BY <1>1, <1>3 DEF ClerkCreate, LoadedOK, NoRow
  <2>2. CASE End(r)
    BY <2>2, StarterEnd
  <2>3. CASE Stage(r, StarterFlushed(r), NoEntry, TRUE)
    BY <1>1, <2>1, <2>3, StarterFlush, StarterStage
  <2> QED BY <1>3, <2>2, <2>3 DEF ClerkCreate
<1>4. CASE RefillClaim(r) \/ TopupCredit(r)
  BY <1>1, <1>4, StarterApply, StarterEnd DEF RefillClaim, TopupCredit
<1> QED BY <1>2, <1>3, <1>4 DEF Locking

\* A committed grant was staged with the flag, and its request may not repeat it.
LEMMA StarterCommit ==
    ASSUME IInv, StarterInv, NEW r \in Request, Commit(r)
    PROVE  StarterInv'
<1>u. PICK u \in User : u = req[r].user
  BY CommitFrame
<1>1. /\ req[r].pc = "written" /\ FlagStaged(req[r]) /\ req[r].starts \in BOOLEAN
      /\ row'[u] = req[r].mine /\ \A v \in User \ {u} : row'[v] = row[v]
      /\ req' = [req EXCEPT ![r] = Idle]
      /\ starts' = IF req[r].starts THEN [starts EXCEPT ![u] = @ + 1] ELSE starts
      /\ starts \in [User -> Nat]
  BY <1>u, CommitFrame DEF Commit, StarterInv, IInv, TypeOK, RequestState
<1>2. /\ \A s \in Request : req'[s] = IF s = r THEN Idle ELSE req[s]
      /\ Idle.pc = "idle"
  BY <1>1 DEF IInv, TypeOK, Idle
<1>3. ASSUME NEW v \in User PROVE starts'[v] > 0 => row'[v].starter
  <2>1. CASE v = u
    BY <1>u, <1>1, <2>1 DEF FlagStaged, StarterInv
  <2>2. CASE v # u
    BY <1>1, <2>2 DEF StarterInv
  <2> QED BY <2>1, <2>2
<1>4. ASSUME NEW s \in Request PROVE FlagStaged(req[s])'
  <2>1. CASE s = r
    BY <1>2, <2>1 DEF FlagStaged
  <2>2. CASE s # r /\ req[s].pc = "written"
    <3>1. req[s].user \in User /\ req[s].user # u
      BY <1>u, <1>1, <2>2 DEF IInv, LockExclusive, RequestOK, Staged
    <3>2. row'[req[s].user] = row[req[s].user] /\ req'[s] = req[s]
      BY <1>1, <1>2, <2>2, <3>1
    <3> QED BY <3>2 DEF FlagStaged, StarterInv
  <2>3. CASE s # r /\ req[s].pc # "written"
    BY <1>2, <2>3 DEF FlagStaged
  <2> QED BY <2>1, <2>2, <2>3
<1>5. ASSUME NEW v \in User
      PROVE  starts'[v] + Cardinality(Starters(v)') <= Cardinality(Request)
  <2>1. Starters(v)' = {s \in Request : MayStart(req'[s], v)}
    BY DEF Starters, MayStart
  <2>2. Starters(v)' = Starters(v) \ {r}
    BY <1>2, <2>1 DEF Starters, MayStart
  <2>3. PICK n \in Nat : n = starts[v]
    BY <1>1
  <2>4. PICK k \in Nat : k = Cardinality(Starters(v))
    BY StartersFinite
  <2>5. PICK m \in Nat : m = Cardinality(Request)
    BY StartersFinite
  <2>6. n + k <= m
    BY <2>3, <2>4, <2>5 DEF StarterInv
  <2>7. CASE v = u /\ req[r].starts
    <3>1. r \in Starters(v)
      BY <1>u, <1>1, <2>7 DEF Starters, MayStart
    <3>2. Cardinality(Starters(v) \ {r}) = k - 1
      BY <2>4, <3>1, StartersFinite, FS_RemoveElement
    <3>3. starts'[v] = n + 1
      BY <1>1, <2>3, <2>7
    <3>4. n + 1 + (k - 1) <= m
      BY <2>6
    <3> QED BY <2>2, <2>5, <3>2, <3>3, <3>4
  <2>8. CASE ~(v = u /\ req[r].starts)
    <3>1. starts'[v] = n
      BY <1>1, <2>3, <2>8
    <3>2. Cardinality(Starters(v) \ {r}) <= Cardinality(Starters(v))
      BY StartersFinite, FS_Subset
    <3>3. PICK j \in Nat : j = Cardinality(Starters(v) \ {r})
      BY StartersFinite, FS_Subset, FS_CardinalityType
    <3>4. n + j <= m
      BY <2>4, <2>6, <3>2, <3>3
    <3> QED BY <2>2, <2>5, <3>1, <3>3, <3>4
  <2> QED BY <2>7, <2>8
<1> QED BY <1>3, <1>4, <1>5 DEF StarterInv

LEMMA StarterNext == IInv /\ StarterInv /\ [Next]_vars => StarterInv'
<1> SUFFICES ASSUME IInv, StarterInv, [Next]_vars PROVE StarterInv'
  OBVIOUS
<1>1. CASE Tick \/ UNCHANGED vars
  <2>1. UNCHANGED <<row, starts, req>>
    BY <1>1 DEF Tick, vars
  <2> QED BY <2>1 DEF StarterInv, Starters, MayStart, FlagStaged
<1>2. ASSUME NEW r \in Request, Locking(r) PROVE StarterInv'
  BY <1>2, StarterLocking
<1>3. ASSUME NEW r \in Request, Commit(r) PROVE StarterInv'
  BY <1>3, StarterCommit
<1>4. ASSUME NEW r \in Request, Rollback(r) \/ ChatEnd(r) PROVE StarterInv'
  BY <1>4, StarterEnd DEF Rollback, ChatEnd
<1>5. ASSUME NEW r \in Request, NEW spent \in 1..MaxBurn, ChatBurn(r, spent)
      PROVE  StarterInv'
  <2>1. req[r].user \in User
    BY <1>5 DEF ChatBurn, IInv, RequestOK, LoadedOK
  <2> QED BY <1>5, <2>1, StarterApply DEF ChatBurn
<1>6. ASSUME NEW r \in Request, NEW c \in Checkout, TopupLoad(r, c)
      PROVE  StarterInv'
  <2>1. Topup[c].user \in User /\ Load(r, Topup[c].user, "topup", c)
    BY <1>6, WalletAssumption DEF TopupLoad
  <2> QED BY <2>1, StarterLoad
<1>7. ASSUME NEW r \in Request, NEW u \in User,
             AuthLoad(r, u) \/ ClerkLoad(r, u) \/ RefillLoad(r, u) \/ ChatPreflight(r, u)
      PROVE  StarterInv'
  BY <1>7, StarterLoad DEF AuthLoad, ClerkLoad, RefillLoad, ChatPreflight
<1>8. ASSUME NEW r \in Request, NEW u \in User, NEW n \in Gifts, GrantTokens(r, u, n)
      PROVE  StarterInv'
  <2> DEFINE q == [Idle EXCEPT !.pc = "written", !.user = u,
                             !.mine = Credited(row[u], n),
                             !.entry = LedgerRow(row[u], "gift", n, NoCheckout)]
  <2>1. q.user = u /\ q.starts = FALSE /\ q.pc = "written"
        /\ q.mine = Credited(row[u], n)
    BY DEF Idle
  <2>2. req' = [req EXCEPT ![r] = q] /\ UNCHANGED <<row, starts>>
    BY <1>8 DEF GrantTokens
  <2> HIDE DEF q
  <2>3. Credited(row[u], n).starter = row[u].starter
    BY DEF Credited, IInv, TypeOK, Row
  <2>4. FlagStaged(q) /\ \A v \in User : ~MayStart(q, v)
    BY <2>1, <2>3 DEF FlagStaged, MayStart
  <2> QED BY <2>2, <2>4, StarterRequest
<1> QED BY <1>1, <1>2, <1>3, <1>4, <1>5, <1>6, <1>7, <1>8 DEF Next

\* However sign-ins and the Clerk webhook race, the starter grant reaches a user
\* no more often than requests can run at once: a grant decided without the row
\* lock is repeated only by requests that read the row before the first commit.
THEOREM StarterRepeatsBounded ==
    Spec => [](\A u \in User : starts[u] <= Cardinality(Request))
<1>1. Init => StarterInv
  <2> SUFFICES ASSUME Init PROVE StarterInv
    OBVIOUS
  <2>1. ASSUME NEW r \in Request PROVE FlagStaged(req[r])
    BY DEF Init, Idle, FlagStaged
  <2>2. ASSUME NEW u \in User
        PROVE  /\ starts[u] > 0 => row[u].starter
               /\ starts[u] + Cardinality(Starters(u)) <= Cardinality(Request)
    <3>1. Starters(u) = {}
      BY DEF Init, Starters, MayStart, Idle
    <3>2. starts[u] = IF row[u].starter THEN 1 ELSE 0
      BY DEF Init
    <3>3. IsFiniteSet(Request) /\ Request # {}
      BY WalletAssumption
    <3>4. Cardinality(Request) \in Nat \ {0}
      BY <3>3, FS_CardinalityType, FS_EmptySet
    <3>5. Cardinality(Starters(u)) = 0
      BY <3>1, FS_EmptySet
    <3> QED BY <3>2, <3>4, <3>5
  <2> QED BY <2>1, <2>2 DEF StarterInv
<1>2. IInv /\ StarterInv => \A u \in User : starts[u] <= Cardinality(Request)
  <2> SUFFICES ASSUME IInv, StarterInv, NEW u \in User
               PROVE  starts[u] <= Cardinality(Request)
    OBVIOUS
  <2>1. /\ starts[u] \in Nat /\ Cardinality(Starters(u)) \in Nat
        /\ Cardinality(Request) \in Nat
        /\ starts[u] + Cardinality(Starters(u)) <= Cardinality(Request)
    BY StartersFinite DEF IInv, TypeOK, StarterInv
  <2> QED BY <2>1
<1> QED BY <1>1, <1>2, Invariance, StarterNext, PTL DEF Spec

\* Without concurrent requests the starter grant is issued once, aborts and
\* retries included: what repeats it is the unlocked decision alone.
THEOREM StarterOnceUnraced ==
    ASSUME Cardinality(Request) = 1
    PROVE  Spec => []StarterGrantedOnce
<1>1. (\A u \in User : starts[u] <= Cardinality(Request)) => StarterGrantedOnce
  BY DEF StarterGrantedOnce
<1> QED BY <1>1, StarterRepeatsBounded, PTL

=============================================================================
