------------------------- MODULE SessionStoreProofs -------------------------
(***************************************************************************)
(* What SessionStore guarantees for any number of turns, processes and     *)
(* tool rounds: no gap in the stored sequence numbers, no stored message   *)
(* changed, and no turn stored in part unless another overlapped it.  The  *)
(* rows amount to one log that only grows (ChatLog), and if no two turns   *)
(* run at once every delivered turn is stored.                             *)
(*                                                                         *)
(* The argument: the stored numbers are 0 .. n-1 and no process believes   *)
(* more than n-1 of them persisted, so an insert the unique index accepts  *)
(* starts at n; and every running turn loaded the first rows of the table, *)
(* so what it inserts past them is its own.                                *)
(***************************************************************************)
EXTENDS SessionStore, FiniteSetTheorems, SequenceTheorems, TLAPS

Size == Cardinality(DOMAIN table)

\* A running turn holds the first rows of the table, as they still are.
LoadedPrefix ==
    \A t \in Running :
        /\ turn[t].process \in Process
        /\ \A i \in 1 .. Len(turn[t].messages) :
              i - 1 \in DOMAIN table /\ table[i - 1] = turn[t].messages[i]

\* A running turn that nobody overlapped holds the whole table, and its
\* process's number is the last of it.
LoneLoaded ==
    \A t \in Running : turn[t].alone =>
        /\ Running = {t}
        /\ Len(turn[t].messages) = Size
        /\ last[turn[t].process] = Size - 1

IInv ==
    /\ TypeOK
    /\ Size \in Nat
    /\ SequencesContiguous
    /\ TurnsWhole
    /\ LoadedPrefix
    /\ LoneLoaded

-----------------------------------------------------------------------------
(* Lemmas about the operators                                              *)

\* The number of rows of a table numbered 0 .. n-1.
LEMMA IntervalSize ==
    ASSUME NEW n \in Nat
    PROVE  Cardinality(0 .. n - 1) = n
BY FS_Interval

\* A load records the number of the last row.
LEMMA LastStoredIsLast ==
    ASSUME Size \in Nat, SequencesContiguous
    PROVE  LastStored = Size - 1
<1> DEFINE n == Size
<1>1. n \in Nat /\ DOMAIN table = 0 .. n - 1
  BY DEF SequencesContiguous, Size
<1>2. CASE n = 0
  BY <1>1, <1>2 DEF LastStored
<1>3. CASE n # 0
  <2>1. n - 1 \in 0 .. n - 1 /\ \A y \in 0 .. n - 1 : n - 1 >= y
    BY <1>1, <1>3
  <2>2. \A x \in 0 .. n - 1 : (\A y \in 0 .. n - 1 : x >= y) => x = n - 1
    BY <1>1, <2>1
  <2>3. Max(0 .. n - 1) = n - 1
    BY <2>1, <2>2 DEF Max
  <2> QED BY <1>1, <2>1, <2>3 DEF LastStored
<1> QED BY <1>2, <1>3

\* A load returns the rows in order.
LEMMA HistoryIsTable ==
    ASSUME Size \in Nat, SequencesContiguous,
           \A s \in DOMAIN table : table[s] \in Message
    PROVE  /\ History \in Seq(Message)
           /\ Len(History) = Size
           /\ \A i \in 1 .. Size : i - 1 \in DOMAIN table /\ History[i] = table[i - 1]
<1> DEFINE n == Size
           below(s) == {q \in DOMAIN table : q < s}
<1>1. n \in Nat /\ DOMAIN table = 0 .. n - 1
  BY DEF SequencesContiguous, Size
<1>2. \A s \in 0 .. n - 1 : Cardinality(below(s)) = s
  <2> SUFFICES ASSUME NEW s \in 0 .. n - 1 PROVE Cardinality(below(s)) = s
    OBVIOUS
  <2>1. s \in Nat /\ below(s) = 0 .. s - 1
    BY <1>1
  <2> HIDE DEF below
  <2> QED BY <2>1, IntervalSize
<1>3. \A i \in 1 .. n :
         (CHOOSE s \in DOMAIN table : Cardinality(below(s)) = i - 1) = i - 1
  <2> SUFFICES ASSUME NEW i \in 1 .. n
               PROVE (CHOOSE s \in DOMAIN table : Cardinality(below(s)) = i - 1) = i - 1
    OBVIOUS
  <2>1. i - 1 \in DOMAIN table
    BY <1>1
  <2> HIDE DEF below
  <2> QED BY <1>1, <1>2, <2>1
<1>4. History = [i \in 1 .. n |-> table[i - 1]]
  <2> DEFINE place(i) == CHOOSE s \in DOMAIN table : Cardinality(below(s)) = i - 1
  <2>1. History = [i \in 1 .. n |-> table[place(i)]]
    BY Zenon DEF History, Size
  <2>2. \A i \in 1 .. n : place(i) = i - 1
    BY <1>3
  <2> HIDE DEF place
  <2> QED BY <2>1, <2>2
<1>5. \A i \in 1 .. n : i - 1 \in DOMAIN table
  BY <1>1
<1> HIDE DEF n
<1> QED BY <1>1, <1>4, <1>5 DEF n

\* What a turn adds is its own.
LEMMA OwnIsOwn ==
    ASSUME NEW t \in Turn, NEW rounds \in Nat
    PROVE  /\ Own(t, rounds) \in Seq(Message)
           /\ Len(Own(t, rounds)) = 2 * rounds + 2
           /\ \A i \in 1 .. 2 * rounds + 2 : Own(t, rounds)[i].turn = t
<1> DEFINE m == 2 * rounds + 2
           part(i) == CASE i = 1 -> "user"
                        [] i = m -> "answer"
                        [] i % 2 = 0 /\ i < m -> "use"
                        [] i % 2 = 1 /\ i > 1 -> "result"
<1>1. m \in Nat
  OBVIOUS
<1>2. \A i \in 1 .. m : part(i) \in Part
  <2> SUFFICES ASSUME NEW i \in 1 .. m PROVE part(i) \in Part
    OBVIOUS
  <2>1. i = 1 \/ i = m \/ (i % 2 = 0 /\ i < m) \/ (i % 2 = 1 /\ i > 1)
    BY <1>1
  <2>2. m # 1
    OBVIOUS
  <2> QED BY <2>1, <2>2 DEF Part
<1>3. Own(t, rounds) = [i \in 1 .. m |-> [turn |-> t, part |-> part(i)]]
  BY DEF Own
<1> HIDE DEF m, part
<1> QED BY <1>1, <1>2, <1>3 DEF Message, m

-----------------------------------------------------------------------------
(* Lemmas about the steps                                                  *)

\* A step that stores nothing, and at most ends turns without delivering them
\* or sets numbers to a value a load or a restart gives them.
LEMMA NothingStored ==
    ASSUME IInv, table' = table,
           last' \in [Process -> Int],
           \A p \in Process : last'[p] \in {last[p], Size - 1, -1},
           turn' \in [Turn -> TurnState],
           \A t \in Turn : turn'[t] = turn[t] \/
               (t \in Running /\ turn'[t] = [turn[t] EXCEPT !.pc = "failed"]),
           \A t \in Running' : turn[t].alone => last'[turn[t].process] = Size - 1
    PROVE  IInv'
<1>1. Size' = Size /\ Size \in Nat
  BY DEF IInv, Size
<1>2. \A t \in Turn : turn[t] \in TurnState
  BY DEF IInv, TypeOK
<1>3. \A t \in Turn : turn'[t] = turn[t] \/
         (turn[t].pc = "running" /\ turn'[t].pc = "failed")
  BY <1>2 DEF Running, TurnState
<1>4. \A t \in Running' : t \in Running /\ turn'[t] = turn[t]
  BY <1>3 DEF Running
<1>5. TypeOK'
  <2>1. \A p \in Process : -1 <= last'[p] /\ last'[p] < Size
    BY <1>1 DEF IInv, TypeOK, Size
  <2> QED BY <1>1, <2>1 DEF IInv, TypeOK, Size
<1>6. SequencesContiguous'
  BY DEF IInv, SequencesContiguous
<1>7. TurnsWhole'
  BY <1>3 DEF IInv, TurnsWhole
<1>8. LoadedPrefix'
  BY <1>4 DEF IInv, LoadedPrefix
<1>9. LoneLoaded'
  <2> SUFFICES ASSUME NEW t \in Running', turn'[t].alone
               PROVE  /\ Running' = {t}
                      /\ Len(turn'[t].messages) = Size'
                      /\ last'[turn'[t].process] = Size' - 1
    BY DEF LoneLoaded
  <2>1. t \in Running /\ turn'[t] = turn[t]
    BY <1>4
  <2>2. Running = {t} /\ Len(turn[t].messages) = Size
    BY <2>1 DEF IInv, LoneLoaded
  <2>3. Running' = {t}
    BY <1>4, <2>2
  <2> QED BY <1>1, <2>1, <2>2, <2>3
<1> QED BY <1>1, <1>5, <1>6, <1>7, <1>8, <1>9 DEF IInv

\* A turn that fails leaves everything else as it was.
LEMMA EndsKeep ==
    ASSUME IInv, NEW t \in Running, turn' = [turn EXCEPT ![t].pc = "failed"],
           table' = table, last' = last
    PROVE  IInv' /\ table' = table
<1>1. /\ turn \in [Turn -> TurnState] /\ last \in [Process -> Int] /\ t \in Turn
      /\ \A r \in Running : turn[r].alone => last[turn[r].process] = Size - 1
  BY DEF IInv, TypeOK, LoneLoaded, Running
<1>2. turn[t] \in TurnState /\ turn'[t] = [turn[t] EXCEPT !.pc = "failed"]
  BY <1>1
<1>3. turn'[t] \in TurnState /\ turn'[t].pc = "failed"
  BY <1>2 DEF TurnState, Pc
<1>4. \A r \in Turn \ {t} : turn'[r] = turn[r]
  BY <1>1
<1>5. turn' \in [Turn -> TurnState]
  <2>1. turn' = [r \in Turn |-> turn'[r]]
    BY <1>1
  <2>2. \A r \in Turn : turn'[r] \in TurnState
    BY <1>1, <1>3, <1>4
  <2> QED BY <2>1, <2>2
<1>6. \A r \in Running' : r \in Running
  BY <1>3, <1>4 DEF Running
<1>7. \A r \in Turn : turn'[r] = turn[r] \/
         (r \in Running /\ turn'[r] = [turn[r] EXCEPT !.pc = "failed"])
  BY <1>2, <1>4
<1>8. \A p \in Process : last'[p] \in {last[p], Size - 1, -1}
  OBVIOUS
<1>9. \A r \in Running' : turn[r].alone => last'[turn[r].process] = Size - 1
  BY <1>1, <1>6
<1> QED BY <1>1, <1>5, <1>7, <1>8, <1>9, NothingStored

\* A turn that starts loads the whole table and marks every turn it overlaps.
LEMMA PostKeeps ==
    ASSUME IInv, NEW t \in Turn, NEW p \in Process, Post(t, p)
    PROVE  IInv'
<1>1. /\ Size \in Nat /\ SequencesContiguous
      /\ \A s \in DOMAIN table : table[s] \in Message
      /\ table' = table /\ Size' = Size
  BY DEF IInv, TypeOK, Post, Size
<1>2. LastStored = Size - 1
  BY <1>1, LastStoredIsLast
<1>3. /\ History \in Seq(Message)
      /\ Len(History) = Size
      /\ \A i \in 1 .. Size : i - 1 \in DOMAIN table /\ History[i] = table[i - 1]
  BY <1>1, HistoryIsTable
<1>4. last' \in [Process -> Int] /\ last'[p] = Size - 1
      /\ \A q \in Process : q # p => last'[q] = last[q]
  BY <1>1, <1>2 DEF Post, IInv, TypeOK
<1>5. \A r \in Turn : turn[r] \in TurnState
  BY DEF IInv, TypeOK
<1>6. turn'[t] = [pc |-> "running", process |-> p,
                  messages |-> History, alone |-> Running = {}]
  BY DEF Post
<1>7. \A r \in Turn \ {t} : turn'[r] = [turn[r] EXCEPT !.alone = @ /\ r \notin Running]
  BY DEF Post
<1>8. \A r \in Turn \ {t} : /\ turn'[r] \in TurnState
                            /\ turn'[r].pc = turn[r].pc
                            /\ turn'[r].process = turn[r].process
                            /\ turn'[r].messages = turn[r].messages
                            /\ turn'[r].alone => turn[r].alone /\ r \notin Running
  <2> SUFFICES ASSUME NEW r \in Turn \ {t}
               PROVE  /\ turn'[r] \in TurnState
                      /\ turn'[r].pc = turn[r].pc
                      /\ turn'[r].process = turn[r].process
                      /\ turn'[r].messages = turn[r].messages
                      /\ turn'[r].alone => turn[r].alone /\ r \notin Running
    OBVIOUS
  <2>1. turn[r] \in TurnState /\ (turn[r].alone /\ r \notin Running) \in BOOLEAN
    BY <1>5 DEF TurnState
  <2>2. turn'[r] = [turn[r] EXCEPT !.alone = (turn[r].alone /\ r \notin Running)]
    BY <1>7
  <2>3. turn'[r].alone = (turn[r].alone /\ r \notin Running)
    BY <2>1, <2>2 DEF TurnState
  <2> QED BY <2>1, <2>2, <2>3 DEF TurnState
<1>9. turn'[t] \in TurnState
  BY <1>3, <1>6 DEF Pc, TurnState
<1>10. turn' \in [Turn -> TurnState]
  <2>1. turn' = [r \in Turn |-> turn'[r]]
    BY DEF Post
  <2> QED BY <1>8, <1>9, <2>1
<1>11. TypeOK'
  <2>1. \A q \in Process : -1 <= last'[q] /\ last'[q] < Size
    BY <1>1, <1>4 DEF IInv, TypeOK, Size
  <2> QED BY <1>1, <1>4, <1>10, <2>1 DEF IInv, TypeOK, Size
<1>12. turn[t].pc = "idle" /\ turn'[t].pc = "running"
  BY <1>6 DEF Post
<1>13. SequencesContiguous'
  BY <1>1 DEF SequencesContiguous
<1>14. TurnsWhole'
  BY <1>1, <1>8, <1>12 DEF IInv, TurnsWhole
<1>15. \A r \in Running' : r = t \/ (r \in Running /\ r \in Turn \ {t})
  BY <1>8 DEF Running
<1>16. LoadedPrefix'
  <2> SUFFICES ASSUME NEW r \in Running'
               PROVE  /\ turn'[r].process \in Process
                      /\ \A i \in 1 .. Len(turn'[r].messages) :
                            i - 1 \in DOMAIN table /\ table[i - 1] = turn'[r].messages[i]
    BY <1>1 DEF LoadedPrefix
  <2>1. CASE r = t
    BY <1>3, <1>6, <2>1
  <2>2. CASE r \in Running /\ r \in Turn \ {t}
    BY <1>8, <2>2 DEF IInv, LoadedPrefix
  <2> QED BY <1>15, <2>1, <2>2
<1>17. LoneLoaded'
  <2> SUFFICES ASSUME NEW r \in Running', turn'[r].alone
               PROVE  /\ Running' = {r}
                      /\ Len(turn'[r].messages) = Size'
                      /\ last'[turn'[r].process] = Size' - 1
    BY DEF LoneLoaded
  <2>1. r = t
    BY <1>8, <1>15
  <2>2. turn'[t].alone = (Running = {})
    BY <1>6
  <2>3. Running = {}
    BY <2>1, <2>2, Zenon
  <2>4. Running' = {t}
    BY <1>15, <2>1, <2>3
  <2> QED BY <1>1, <1>3, <1>4, <1>6, <2>1, <2>4
<1> QED BY <1>1, <1>11, <1>13, <1>14, <1>16, <1>17 DEF IInv

\* The conversation a turn ends with: the first rows of the table, then its own.
LEMMA EndsWithOwn ==
    ASSUME IInv, NEW t \in Running, NEW rounds \in Nat
    PROVE  LET loaded == turn[t].messages
               messages == loaded \o Own(t, rounds)
           IN  /\ messages \in Seq(Message)
               /\ Len(messages) = Len(loaded) + 2 * rounds + 2
               /\ Len(loaded) \in 0 .. Size
               /\ \A i \in 1 .. Len(loaded) :
                     i - 1 \in DOMAIN table /\ messages[i] = table[i - 1]
               /\ \A i \in Len(loaded) + 1 .. Len(messages) :
                     /\ messages[i].turn = t /\ messages[i] \in Message
                     /\ messages[i] = Own(t, rounds)[i - Len(loaded)]
<1> DEFINE loaded == turn[t].messages
           own == Own(t, rounds)
           messages == loaded \o own
<1>1. t \in Turn /\ turn[t].pc = "running" /\ loaded \in Seq(Message)
  BY DEF IInv, TypeOK, TurnState, Running
<1>2. /\ own \in Seq(Message) /\ Len(own) = 2 * rounds + 2
      /\ \A i \in 1 .. Len(own) : own[i].turn = t
  BY <1>1, OwnIsOwn
<1>3. \A i \in 1 .. Len(loaded) : i - 1 \in DOMAIN table /\ table[i - 1] = loaded[i]
  BY DEF IInv, LoadedPrefix
<1> HIDE DEF loaded, own
<1>4. Len(loaded) \in Nat /\ Len(own) \in Nat
  BY <1>1, <1>2
<1>5. /\ messages \in Seq(Message) /\ Len(messages) = Len(loaded) + Len(own)
      /\ \A i \in 1 .. Len(loaded) : messages[i] = loaded[i]
      /\ \A i \in Len(loaded) + 1 .. Len(messages) :
            messages[i] = own[i - Len(loaded)] /\ i - Len(loaded) \in 1 .. Len(own)
  BY <1>1, <1>2, <1>4
<1>6. Len(loaded) \in 0 .. Size
  <2>1. Size \in Nat /\ DOMAIN table = 0 .. Size - 1
    BY DEF IInv, SequencesContiguous, Size
  <2>2. Len(loaded) > 0 => Len(loaded) - 1 \in 0 .. Size - 1
    BY <1>3, <1>4, <2>1
  <2> QED BY <1>4, <2>1, <2>2
<1> HIDE DEF messages
<1>7. \A i \in Len(loaded) + 1 .. Len(messages) :
         messages[i].turn = t /\ messages[i] \in Message
  BY <1>2, <1>4, <1>5
<1>8. \A i \in 1 .. Len(loaded) : i - 1 \in DOMAIN table /\ messages[i] = table[i - 1]
  BY <1>3, <1>5
<1>9. Len(messages) = Len(loaded) + 2 * rounds + 2
  BY <1>2, <1>4, <1>5
<1>10. \A i \in Len(loaded) + 1 .. Len(messages) : messages[i] = own[i - Len(loaded)]
  BY <1>5
<1> QED BY <1>5, <1>6, <1>7, <1>8, <1>9, <1>10 DEF messages, loaded, own

\* Turn t ends delivered with these messages and no other turn changes.
ReplyDelivered(t, messages) ==
    /\ turn' \in [Turn -> TurnState]
    /\ turn'[t].pc = "done"
    /\ turn'[t].messages = messages
    /\ turn'[t].alone = turn[t].alone
    /\ \A r \in Turn \ {t} : turn'[r] = turn[r]

LEMMA EndIsDelivered ==
    ASSUME turn \in [Turn -> TurnState], NEW t \in Turn, NEW messages \in Seq(Message),
           turn' = [turn EXCEPT ![t].pc = "done", ![t].messages = messages]
    PROVE  ReplyDelivered(t, messages)
<1>1. turn[t] \in TurnState
  OBVIOUS
<1>2. turn'[t] = [turn[t] EXCEPT !.pc = "done", !.messages = messages]
  OBVIOUS
<1>3. /\ turn'[t] \in TurnState /\ turn'[t].pc = "done"
      /\ turn'[t].messages = messages /\ turn'[t].alone = turn[t].alone
  BY <1>1, <1>2 DEF TurnState, Pc
<1>4. \A r \in Turn \ {t} : turn'[r] = turn[r]
  OBVIOUS
<1>5. turn' \in [Turn -> TurnState]
  <2>1. turn' = [r \in Turn |-> turn'[r]]
    OBVIOUS
  <2> QED BY <1>3, <1>4, <2>1
<1> QED BY <1>3, <1>4, <1>5 DEF ReplyDelivered

\* Only a turn that another overlapped can end with nothing to insert.
LEMMA LoneInserts ==
    ASSUME IInv, NEW t \in Running, NEW rounds \in Nat,
           DOMAIN NewRows(t, turn[t].messages \o Own(t, rounds)) = {}
    PROVE  ~turn[t].alone
<1> DEFINE messages == turn[t].messages \o Own(t, rounds)
<1>1. /\ messages \in Seq(Message)
      /\ Len(messages) = Len(turn[t].messages) + 2 * rounds + 2
  BY EndsWithOwn
<1>2. DOMAIN NewRows(t, messages) = last[turn[t].process] + 1 .. Len(messages) - 1
  BY DEF NewRows
<1> SUFFICES ASSUME turn[t].alone PROVE FALSE
  OBVIOUS
<1>3. /\ Len(turn[t].messages) = Size /\ last[turn[t].process] = Size - 1
      /\ Size \in Nat
  BY DEF IInv, LoneLoaded
<1>4. DOMAIN NewRows(t, messages) = {}
  OBVIOUS
<1> HIDE DEF messages
<1>5. Size \in last[turn[t].process] + 1 .. Len(messages) - 1
  BY <1>1, <1>3
<1> QED BY <1>2, <1>4, <1>5

\* Delivering a turn that inserts nothing.
LEMMA SilentEndKeeps ==
    ASSUME IInv, NEW t \in Running, NEW rounds \in Nat,
           DOMAIN NewRows(t, turn[t].messages \o Own(t, rounds)) = {},
           ReplyDelivered(t, turn[t].messages \o Own(t, rounds)),
           table' = table, last' = last
    PROVE  IInv'
<1>1. t \in Turn /\ turn[t].pc = "running"
  BY DEF Running
<1>2. ~turn[t].alone
  BY LoneInserts
<1>5. /\ turn'[t].pc = "done" /\ turn'[t].alone = turn[t].alone
      /\ \A r \in Turn \ {t} : turn'[r] = turn[r]
  BY DEF ReplyDelivered
<1>6. Running' = Running \ {t}
  BY <1>5 DEF Running
<1>7. TypeOK' /\ Size' = Size /\ SequencesContiguous'
  BY DEF IInv, TypeOK, Size, SequencesContiguous, ReplyDelivered
<1>8. TurnsWhole'
  <2>1. ~turn'[t].alone
    BY <1>2, <1>5, Zenon
  <2> QED BY <1>5, <2>1 DEF IInv, TurnsWhole
<1>9. LoadedPrefix'
  BY <1>1, <1>5, <1>6 DEF IInv, LoadedPrefix, Running
<1>10. LoneLoaded'
  <2> SUFFICES ASSUME NEW r \in Running', turn'[r].alone PROVE FALSE
    BY DEF LoneLoaded
  <2>1. r \in Running /\ r # t /\ turn'[r] = turn[r]
    BY <1>5, <1>6 DEF Running
  <2> QED BY <2>1 DEF IInv, LoneLoaded
<1> QED BY <1>7, <1>8, <1>9, <1>10 DEF IInv

\* Rows the index accepts start where the table ends: below it they are
\* refused, and no number is past it.
LEMMA RowsContinue ==
    ASSUME IInv, NEW t \in Running, NEW messages \in Seq(Message),
           DOMAIN NewRows(t, messages) # {}, Accepts(NewRows(t, messages))
    PROVE  /\ DOMAIN NewRows(t, messages) = Size .. Len(messages) - 1
           /\ Size < Len(messages)
           /\ DOMAIN With(NewRows(t, messages)) = 0 .. Len(messages) - 1
<1> DEFINE k == last[turn[t].process]
           n == Size
           m == Len(messages)
<1>1. /\ n \in Nat /\ DOMAIN table = 0 .. n - 1 /\ m \in Nat
      /\ k \in Int /\ -1 <= k /\ k < n
  <2>1. turn[t].process \in Process
    BY DEF IInv, LoadedPrefix
  <2> QED BY <2>1 DEF IInv, TypeOK, SequencesContiguous, Size
<1>2. DOMAIN NewRows(t, messages) = k + 1 .. m - 1
  BY DEF NewRows
<1>3. (k + 1 .. m - 1) # {} /\ (k + 1 .. m - 1) \cap (0 .. n - 1) = {}
  BY <1>1, <1>2 DEF Accepts
<1> HIDE DEF k, m, n
<1>4. k + 1 <= m - 1
  BY <1>1, <1>3
<1>5. k + 1 = n
  <2> SUFFICES ASSUME k + 1 # n PROVE FALSE
    OBVIOUS
  <2>1. k + 1 \in 0 .. n - 1 /\ k + 1 \in k + 1 .. m - 1
    BY <1>1, <1>4
  <2> QED BY <1>3, <2>1
<1>6. (0 .. n - 1) \cup (n .. m - 1) = 0 .. m - 1
  BY <1>1, <1>4, <1>5
<1>7. DOMAIN With(NewRows(t, messages)) = DOMAIN table \cup DOMAIN NewRows(t, messages)
  BY DEF With
<1>8. n < m
  BY <1>1, <1>4, <1>5
<1> QED BY <1>1, <1>2, <1>5, <1>6, <1>7, <1>8 DEF n, m

\* Delivering a turn whose rows are inserted: they follow the table and, since
\* the turn loaded no more than it holds, they are the turn's own.
LEMMA StoredEndKeeps ==
    ASSUME IInv, NEW t \in Running, NEW rounds \in Nat,
           DOMAIN NewRows(t, turn[t].messages \o Own(t, rounds)) # {},
           Accepts(NewRows(t, turn[t].messages \o Own(t, rounds))),
           ReplyDelivered(t, turn[t].messages \o Own(t, rounds)),
           table' = With(NewRows(t, turn[t].messages \o Own(t, rounds))),
           last' = [last EXCEPT ![turn[t].process] =
                       Persisted(turn[t].messages \o Own(t, rounds))]
    PROVE  /\ IInv'
           /\ \A s \in DOMAIN table : s \in DOMAIN table' /\ table'[s] = table[s]
           /\ Size < Size' /\ Size' = Len(turn[t].messages \o Own(t, rounds))
           /\ \A s \in Size .. Size' - 1 :
                table'[s] = (turn[t].messages \o Own(t, rounds))[s + 1]
           /\ \A s \in Size .. Size' - 1 : table'[s].turn = t
<1> DEFINE loaded == turn[t].messages
           messages == loaded \o Own(t, rounds)
           rows == NewRows(t, messages)
           n == Size
           m == Len(messages)
<1>1. t \in Turn /\ turn[t].pc = "running" /\ turn[t].process \in Process
  BY DEF Running, IInv, LoadedPrefix
<1>2. /\ messages \in Seq(Message) /\ m \in Nat
      /\ Len(loaded) \in 0 .. n
      /\ \A i \in 1 .. Len(loaded) : i - 1 \in DOMAIN table /\ messages[i] = table[i - 1]
      /\ \A i \in Len(loaded) + 1 .. m : messages[i].turn = t /\ messages[i] \in Message
  <2>1. /\ messages \in Seq(Message)
        /\ Len(loaded) \in 0 .. n
        /\ \A i \in 1 .. Len(loaded) : i - 1 \in DOMAIN table /\ messages[i] = table[i - 1]
        /\ \A i \in Len(loaded) + 1 .. m : messages[i].turn = t /\ messages[i] \in Message
    BY EndsWithOwn
  <2> HIDE DEF messages
  <2> QED BY <2>1
<1>3. n \in Nat /\ DOMAIN table = 0 .. n - 1
  BY DEF IInv, SequencesContiguous, Size
<1>4. DOMAIN rows = n .. m - 1 /\ n < m /\ DOMAIN With(rows) = 0 .. m - 1
  BY <1>2, RowsContinue
<1>5. \A s \in DOMAIN rows : rows[s] = messages[s + 1]
  BY DEF NewRows
<1>6. /\ turn' \in [Turn -> TurnState]
      /\ turn'[t].pc = "done" /\ turn'[t].messages = messages
      /\ turn'[t].alone = turn[t].alone
      /\ \A r \in Turn \ {t} : turn'[r] = turn[r]
  BY DEF ReplyDelivered
<1>7. table' = With(rows) /\ last' = [last EXCEPT ![turn[t].process] = Persisted(messages)]
  OBVIOUS
<1> HIDE DEF messages, rows
<1>8. \A s \in 0 .. n - 1 : s \in DOMAIN table' /\ table'[s] = table[s]
  <2> SUFFICES ASSUME NEW s \in 0 .. n - 1
               PROVE s \in DOMAIN table' /\ table'[s] = table[s]
    OBVIOUS
  <2>1. s \in DOMAIN table /\ s \notin DOMAIN rows
    BY <1>3, <1>4
  <2> QED BY <1>7, <2>1 DEF With
<1>9. \A s \in n .. m - 1 : table'[s] = messages[s + 1]
  BY <1>4, <1>5, <1>7 DEF With
<1>10. DOMAIN table' = 0 .. m - 1 /\ Size' = m
  <2>1. DOMAIN table' = 0 .. m - 1
    BY <1>4, <1>7
  <2>2. Cardinality(0 .. m - 1) = m
    BY <1>2, IntervalSize
  <2> QED BY <2>1, <2>2 DEF Size
<1>11. \A s \in n .. m - 1 : table'[s].turn = t /\ table'[s] \in Message
  <2> SUFFICES ASSUME NEW s \in n .. m - 1
               PROVE table'[s].turn = t /\ table'[s] \in Message
    OBVIOUS
  <2>1. s + 1 \in Len(loaded) + 1 .. m
    BY <1>2, <1>3
  <2> QED BY <1>2, <1>9, <2>1
<1>12. Running' = Running \ {t}
  BY <1>6 DEF Running
<1>13. \A s \in 0 .. m - 1 : s \in 0 .. n - 1 \/ s \in n .. m - 1
  BY <1>2, <1>3
<1>14. TypeOK'
  <2>1. \A s \in DOMAIN table' : s \in Nat /\ table'[s] \in Message
    BY <1>3, <1>8, <1>10, <1>11, <1>13 DEF IInv, TypeOK
  <2>2. last \in [Process -> Int] /\ \A p \in Process : -1 <= last[p] /\ last[p] < n
    BY DEF IInv, TypeOK, Size
  <2>3. last' \in [Process -> Int] /\ \A p \in Process : -1 <= last'[p] /\ last'[p] < m
    BY <1>1, <1>2, <1>3, <1>4, <1>7, <2>2 DEF Persisted
  <2> HIDE DEF n, m
  <2> QED BY <1>6, <1>10, <2>1, <2>3 DEF TypeOK, Size
<1>15. SequencesContiguous'
  BY <1>10 DEF SequencesContiguous, Size
<1>16. TurnsWhole'
  <2> SUFFICES ASSUME NEW r \in Turn
        PROVE  /\ turn'[r].pc # "done" => \A s \in DOMAIN table' : table'[s].turn # r
               /\ turn'[r].pc = "done" /\ turn'[r].alone =>
                     \A i \in 1 .. Len(turn'[r].messages) :
                        i - 1 \in DOMAIN table' /\ table'[i - 1] = turn'[r].messages[i]
    BY DEF TurnsWhole
  <2>1. CASE r = t
    <3> SUFFICES ASSUME turn[t].alone, NEW i \in 1 .. m
                 PROVE  i - 1 \in DOMAIN table' /\ table'[i - 1] = messages[i]
      BY <1>6, <2>1
    <3>1. Len(loaded) = n
      BY DEF IInv, LoneLoaded
    <3>2. CASE i \in 1 .. n
      BY <1>2, <1>3, <1>8, <3>1, <3>2
    <3>3. CASE i \in n + 1 .. m
      <4>1. i - 1 \in n .. m - 1 /\ (i - 1) + 1 = i /\ i - 1 \in 0 .. m - 1
        BY <1>2, <1>3, <3>3
      <4> QED BY <1>9, <1>10, <4>1
    <3> QED BY <1>2, <1>3, <3>2, <3>3
  <2>2. CASE r # t
    <3>1. turn'[r] = turn[r]
      BY <1>6, <2>2
    <3>2. turn[r].pc # "done" => \A s \in DOMAIN table' : table'[s].turn # r
      BY <1>3, <1>8, <1>10, <1>11, <1>13, <2>2 DEF IInv, TurnsWhole
    <3>3. ASSUME turn[r].pc = "done", turn[r].alone, NEW i \in 1 .. Len(turn[r].messages)
          PROVE  i - 1 \in DOMAIN table' /\ table'[i - 1] = turn[r].messages[i]
      <4>1. i - 1 \in DOMAIN table /\ table[i - 1] = turn[r].messages[i]
        BY <3>3 DEF IInv, TurnsWhole
      <4> QED BY <1>3, <1>8, <4>1
    <3> QED BY <3>1, <3>2, <3>3
  <2> QED BY <2>1, <2>2
<1>17. LoadedPrefix'
  <2> SUFFICES ASSUME NEW r \in Running'
        PROVE  /\ turn'[r].process \in Process
               /\ \A i \in 1 .. Len(turn'[r].messages) :
                     i - 1 \in DOMAIN table' /\ table'[i - 1] = turn'[r].messages[i]
    BY DEF LoadedPrefix
  <2>1. r \in Running /\ turn'[r] = turn[r]
    BY <1>6, <1>12 DEF Running
  <2>2. /\ turn[r].process \in Process
        /\ \A i \in 1 .. Len(turn[r].messages) :
              i - 1 \in DOMAIN table /\ table[i - 1] = turn[r].messages[i]
    BY <2>1 DEF IInv, LoadedPrefix
  <2> QED BY <1>3, <1>8, <2>1, <2>2
<1>18. LoneLoaded'
  <2> SUFFICES ASSUME NEW r \in Running', turn'[r].alone PROVE FALSE
    BY DEF LoneLoaded
  <2>1. r \in Running /\ r # t /\ turn'[r] = turn[r]
    BY <1>6, <1>12 DEF Running
  <2> QED BY <2>1 DEF IInv, LoneLoaded
<1>19. Size' \in Nat
  BY <1>2, <1>10
<1>20. IInv'
  BY <1>14, <1>15, <1>16, <1>17, <1>18, <1>19 DEF IInv
<1>21. /\ n < Size' /\ Size' = Len(messages)
       /\ \A s \in n .. Size' - 1 : table'[s] = messages[s + 1]
       /\ \A s \in n .. Size' - 1 : table'[s].turn = t
  BY <1>4, <1>9, <1>10, <1>11
<1> QED BY <1>3, <1>8, <1>20, <1>21 DEF messages

-----------------------------------------------------------------------------
(* Theorems                                                                *)

\* The empty session satisfies the invariant.
LEMMA InitInv == Init => IInv
<1> SUFFICES ASSUME Init PROVE IInv
  OBVIOUS
<1>1. DOMAIN table = {}
  BY DEF Init
<1>2. Size = 0
  BY <1>1, FS_EmptySet DEF Size
<1>3. \A t \in Turn : turn[t].pc = "idle" /\ turn[t] \in TurnState
  BY DEF Init, TurnState, Pc
<1>4. Running = {}
  BY <1>3 DEF Running
<1>5. TypeOK
  <2>1. turn \in [Turn -> TurnState]
    <3>1. turn = [t \in Turn |-> turn[t]]
      BY DEF Init
    <3> QED BY <1>3, <3>1
  <2>2. last \in [Process -> Int] /\ \A p \in Process : last[p] = -1
    BY DEF Init
  <2> QED BY <1>1, <1>2, <2>1, <2>2 DEF TypeOK, Size
<1>6. SequencesContiguous
  BY <1>1, <1>2 DEF SequencesContiguous, Size
<1>7. TurnsWhole
  BY <1>1, <1>3 DEF TurnsWhole
<1> QED BY <1>2, <1>4, <1>5, <1>6, <1>7 DEF IInv, LoadedPrefix, LoneLoaded

\* Every step keeps the invariant and the stored messages.
LEMMA NextInv ==
    IInv /\ [Next]_vars =>
        /\ IInv'
        /\ \A s \in DOMAIN table : s \in DOMAIN table' /\ table'[s] = table[s]
<1> SUFFICES ASSUME IInv, [Next]_vars
             PROVE  /\ IInv'
                    /\ \A s \in DOMAIN table : s \in DOMAIN table' /\ table'[s] = table[s]
  OBVIOUS
<1>1. /\ turn \in [Turn -> TurnState] /\ last \in [Process -> Int]
      /\ \A t \in Running : turn[t].alone => last[turn[t].process] = Size - 1
  BY DEF IInv, TypeOK, LoneLoaded
<1>2. Size \in Nat /\ SequencesContiguous
  BY DEF IInv
<1>3. ASSUME NEW t \in Turn, NEW p \in Process, Post(t, p)
      PROVE  IInv' /\ table' = table
  BY <1>3, PostKeeps DEF Post
<1>4. ASSUME NEW t \in Turn, NEW rounds \in 0 .. MaxRounds, TurnEnds(t, rounds)
      PROVE  /\ IInv'
             /\ \A s \in DOMAIN table : s \in DOMAIN table' /\ table'[s] = table[s]
  <2> DEFINE messages == turn[t].messages \o Own(t, rounds)
             rows == NewRows(t, messages)
  <2>1. t \in Running /\ rounds \in Nat
    BY <1>4, MaxRoundsAssumption DEF TurnEnds, Running
  <2>2. messages \in Seq(Message)
    BY <2>1, EndsWithOwn
  <2>3. CASE DOMAIN rows = {} /\ table' = table /\ last' = last
              /\ turn' = [turn EXCEPT ![t].pc = "done", ![t].messages = messages]
    <3>1. ReplyDelivered(t, messages)
      BY <1>1, <2>2, <2>3, EndIsDelivered
    <3> QED BY <2>1, <2>3, <3>1, SilentEndKeeps
  <2>4. CASE /\ DOMAIN rows # {} /\ Accepts(rows) /\ table' = With(rows)
             /\ last' = [last EXCEPT ![turn[t].process] = Persisted(messages)]
             /\ turn' = [turn EXCEPT ![t].pc = "done", ![t].messages = messages]
    <3>1. ReplyDelivered(t, messages)
      BY <1>1, <2>2, <2>4, EndIsDelivered
    <3> QED BY <2>1, <2>4, <3>1, StoredEndKeeps
  <2>5. CASE turn' = [turn EXCEPT ![t].pc = "failed"] /\ table' = table /\ last' = last
    BY <1>1, <2>1, <2>5, EndsKeep
  <2> QED BY <1>4, <2>3, <2>4, <2>5 DEF TurnEnds
<1>5. ASSUME NEW t \in Turn, TurnFails(t)
      PROVE  IInv' /\ table' = table
  <2>1. t \in Running
    BY <1>5 DEF TurnFails, Running
  <2> QED BY <1>5, <2>1, EndsKeep DEF TurnFails
<1>6. ASSUME NEW p \in Process, ReadSession(p)
      PROVE  IInv' /\ table' = table
  <2>1. LastStored = Size - 1
    BY <1>2, LastStoredIsLast
  <2>2. /\ last' \in [Process -> Int]
        /\ \A q \in Process : last'[q] = last[q] \/ last'[q] = Size - 1
    BY <1>1, <1>2, <1>6, <2>1 DEF ReadSession
  <2>3. /\ Running' = Running /\ turn' = turn /\ table' = table
        /\ \A t \in Running : turn[t].process \in Process
    BY <1>6 DEF ReadSession, Running, IInv, LoadedPrefix
  <2>4. \A t \in Running' : turn[t].alone => last'[turn[t].process] = Size - 1
    BY <1>1, <2>2, <2>3
  <2> QED BY <1>1, <2>2, <2>3, <2>4, NothingStored
<1>7. ASSUME NEW p \in Process, Restart(p)
      PROVE  IInv' /\ table' = table
  <2>1. /\ last' \in [Process -> Int] /\ table' = table
        /\ \A q \in Process : last'[q] = last[q] \/ last'[q] = -1
        /\ \A q \in Process : q # p => last'[q] = last[q]
    BY <1>1, <1>7 DEF Restart
  <2>2. \A t \in Turn : /\ turn'[t] = IF t \in Running /\ turn[t].process = p
                                      THEN [turn[t] EXCEPT !.pc = "failed"] ELSE turn[t]
                        /\ turn'[t] \in TurnState
    BY <1>1, <1>7 DEF Restart, TurnState, Pc
  <2>3. turn' \in [Turn -> TurnState]
    <3>1. turn' = [t \in Turn |-> turn'[t]]
      BY <1>7 DEF Restart
    <3> QED BY <2>2, <3>1
  <2>4. \A t \in Running' : t \in Running /\ turn[t].process # p
    BY <1>1, <2>2 DEF Running, TurnState
  <2>5. \A t \in Running : turn[t].process \in Process
    BY DEF IInv, LoadedPrefix
  <2>6. \A t \in Running' : turn[t].alone => last'[turn[t].process] = Size - 1
    BY <1>1, <2>1, <2>4, <2>5
  <2>7. \A t \in Turn : turn'[t] = turn[t] \/
            (t \in Running /\ turn'[t] = [turn[t] EXCEPT !.pc = "failed"])
    BY <2>2
  <2> QED BY <2>1, <2>3, <2>6, <2>7, NothingStored
<1>8. CASE UNCHANGED vars
  <2>1. table' = table /\ last' = last /\ turn' = turn /\ Running' = Running
    BY <1>8 DEF vars, Running
  <2> QED BY <1>1, <2>1, NothingStored
<1> QED BY <1>3, <1>4, <1>5, <1>6, <1>7, <1>8 DEF Next

\* Every reachable state satisfies the inductive invariant.
THEOREM Invariance == Spec => []IInv
<1>1. IInv /\ [Next]_vars => IInv'
  BY NextInv
<1> QED BY InitInv, <1>1, PTL DEF Spec

\* State and numbers have their types, and no process believes a message
\* persisted that is not.
THEOREM TypeCorrect == Spec => []TypeOK
<1>1. IInv => TypeOK
  BY DEF IInv
<1> QED BY Invariance, <1>1, PTL

\* The stored sequence numbers never have a gap, however turns of any number
\* of processes overlap and restart.
THEOREM NoGap == Spec => []SequencesContiguous
<1>1. IInv => SequencesContiguous
  BY DEF IInv
<1> QED BY Invariance, <1>1, PTL

\* A failed turn leaves nothing and a turn nobody overlapped is stored whole.
THEOREM WholeOrNothing == Spec => []TurnsWhole
<1>1. IInv => TurnsWhole
  BY DEF IInv
<1> QED BY Invariance, <1>1, PTL

\* No step replaces or deletes a stored message.
THEOREM StoredStays == Spec => StoredIsFinal
<1> DEFINE Kept == \A s \in DOMAIN table : s \in DOMAIN table' /\ table'[s] = table[s]
<1>1. IInv /\ [Next]_vars => [Kept]_vars
  BY NextInv
<1> QED BY Invariance, <1>1, PTL DEF Spec, StoredIsFinal

-----------------------------------------------------------------------------
(* The refinement: every step of the store is one of the log, or none.     *)

\* The log and the phases of the turns, as the rows and requests show them.
Messages == [i \in 1 .. Cardinality(DOMAIN table) |-> table[i - 1]]
PhaseOf(q) == IF q.pc # "running" THEN q.pc
              ELSE IF q.alone THEN "lone" ELSE "shared"
Phases == [t \in Turn |-> PhaseOf(turn[t])]
AtWork == {t \in Turn : Phases[t] \in {"lone", "shared"}}

LEMMA PhasesAre ==
    ASSUME TypeOK
    PROVE  /\ AtWork = Running
           /\ \A t \in Running : (Phases[t] = "lone") <=> turn[t].alone
<1>1. \A t \in Turn : turn[t].pc \in Pc
  BY DEF TypeOK, TurnState
<1> QED BY <1>1 DEF AtWork, Phases, PhaseOf, Running, Pc

\* A sequence that continues another with the last elements of a third.
Continues(new, old, own, passed) ==
    /\ passed \in 0 .. Len(own)
    /\ Len(new) = Len(old) + Len(own) - passed
    /\ \A i \in 1 .. Len(old) : new[i] = old[i]
    /\ \A j \in 1 .. Len(own) - passed : new[Len(old) + j] = own[passed + j]

LEMMA SuffixAppended ==
    ASSUME NEW new \in Seq(Message), NEW old \in Seq(Message),
           NEW own \in Seq(Message), NEW passed, Continues(new, old, own, passed)
    PROVE  new = old \o SubSeq(own, passed + 1, Len(own))
<1> DEFINE tail == SubSeq(own, passed + 1, Len(own))
<1>0. /\ passed \in 0 .. Len(own)
      /\ Len(new) = Len(old) + Len(own) - passed
      /\ \A i \in 1 .. Len(old) : new[i] = old[i]
      /\ \A j \in 1 .. Len(own) - passed : new[Len(old) + j] = own[passed + j]
  BY DEF Continues
<1>1. passed \in Nat /\ Len(own) \in Nat /\ passed <= Len(own) /\ Len(old) \in Nat
  BY <1>0
<1>2. \A i \in passed + 1 .. Len(own) : own[i] \in Message
  BY <1>0, <1>1
<1>3. /\ tail \in Seq(Message)
      /\ Len(tail) = IF passed + 1 <= Len(own) THEN Len(own) - (passed + 1) + 1 ELSE 0
      /\ \A j \in 1 .. Len(own) - (passed + 1) + 1 : tail[j] = own[passed + 1 + j - 1]
  BY <1>0, <1>1, <1>2, SubSeqProperties
<1>4. Len(tail) = Len(own) - passed
  BY <1>0, <1>1, <1>3
<1>5. \A j \in 1 .. Len(own) - passed : tail[j] = own[passed + j]
  <2> SUFFICES ASSUME NEW j \in 1 .. Len(own) - passed PROVE tail[j] = own[passed + j]
    OBVIOUS
  <2>1. Len(own) - (passed + 1) + 1 = Len(own) - passed /\ passed + 1 + j - 1 = passed + j
    BY <1>0, <1>1
  <2> QED BY <1>3, <2>1
<1> HIDE DEF tail
<1>6. old \o tail \in Seq(Message) /\ Len(old \o tail) = Len(new)
  <2>1. tail \in Seq(Message)
    BY <1>3
  <2>2. old \o tail \in Seq(Message) /\ Len(old \o tail) = Len(old) + Len(tail)
    BY <2>1, ConcatProperties
  <2>3. Len(new) = Len(old) + Len(tail)
    BY <1>0, <1>1, <1>4
  <2> QED BY <2>2, <2>3
<1>7. ASSUME NEW i \in 1 .. Len(new) PROVE new[i] = (old \o tail)[i]
  <2>1. CASE i <= Len(old)
    BY <1>0, <1>1, <1>3, <2>1
  <2>2. CASE i > Len(old)
    <3>1. PICK j \in 1 .. Len(own) - passed : i = Len(old) + j
      <4>1. i - Len(old) \in 1 .. Len(own) - passed /\ i = Len(old) + (i - Len(old))
        BY <1>0, <1>1, <2>2
      <4> QED BY <4>1
    <3>2. (old \o tail)[Len(old) + j] = tail[j]
      BY <1>0, <1>1, <1>3, <1>4, <3>1
    <3> QED BY <1>0, <1>5, <3>1, <3>2
  <2>3. i <= Len(old) \/ i > Len(old)
    BY <1>0, <1>1
  <2> QED BY <2>1, <2>2, <2>3, Zenon
<1> QED BY <1>6, <1>7, SeqEqual DEF tail

\* Rows numbered from 0 without a gap, in order, are a sequence of messages.
LEMMA RowsInOrder ==
    ASSUME NEW rows, NEW n \in Nat, n = Cardinality(DOMAIN rows),
           DOMAIN rows = 0 .. n - 1, \A s \in DOMAIN rows : rows[s] \in Message
    PROVE  /\ [i \in 1 .. Cardinality(DOMAIN rows) |-> rows[i - 1]] \in Seq(Message)
           /\ Len([i \in 1 .. Cardinality(DOMAIN rows) |-> rows[i - 1]]) = n
<1>1. \A i \in 1 .. n : rows[i - 1] \in Message
  <2>1. \A i \in 1 .. n : i - 1 \in 0 .. n - 1
    OBVIOUS
  <2> QED BY <2>1
<1>2. /\ [i \in 1 .. n |-> rows[i - 1]] \in Seq(Message)
      /\ Len([i \in 1 .. n |-> rows[i - 1]]) = n
  BY <1>1
<1> QED BY <1>2

\* A turn that begins is alone if nobody runs, and else shares with all who do.
LEMMA PostBegins ==
    ASSUME TypeOK, NEW t \in Turn, NEW p \in Process, Post(t, p)
    PROVE  /\ Phases[t] = "idle" /\ Messages' = Messages
           /\ Phases' = IF AtWork = {} THEN [Phases EXCEPT ![t] = "lone"]
                        ELSE [u \in Turn |-> IF u \in AtWork \cup {t} THEN "shared"
                                             ELSE Phases[u]]
<1>1. /\ turn[t].pc = "idle" /\ Messages' = Messages
      /\ turn' = [r \in Turn |->
                    IF r = t THEN [pc |-> "running", process |-> p,
                                   messages |-> History, alone |-> Running = {}]
                    ELSE [turn[r] EXCEPT !.alone = @ /\ r \notin Running]]
  BY DEF Post, Messages
<1>2. PhaseOf(turn'[t]) = IF Running = {} THEN "lone" ELSE "shared"
  BY <1>1 DEF PhaseOf
<1>3. ASSUME NEW r \in Turn \ {t}
      PROVE  PhaseOf(turn'[r]) = IF r \in Running THEN "shared" ELSE PhaseOf(turn[r])
  <2>1. turn'[r] = [turn[r] EXCEPT !.alone = turn[r].alone /\ r \notin Running]
    BY <1>1
  <2>2. turn[r] \in TurnState
    BY DEF TypeOK
  <2>3. turn'[r].pc = turn[r].pc /\ turn'[r].alone = (turn[r].alone /\ r \notin Running)
    BY <2>1, <2>2 DEF TurnState
  <2>4. CASE r \in Running
    BY <2>3, <2>4 DEF PhaseOf, Running
  <2>5. CASE r \notin Running
    BY <2>3, <2>5 DEF PhaseOf, Running
  <2> QED BY <2>4, <2>5
<1>4. Phases' = [r \in Turn |-> PhaseOf(turn'[r])]
  BY DEF Phases, PhaseOf
<1>5. AtWork = Running
  BY PhasesAre
<1>6. CASE Running = {}
  <2>1. \A r \in Turn : PhaseOf(turn'[r]) = IF r = t THEN "lone" ELSE PhaseOf(turn[r])
    BY <1>2, <1>3, <1>6
  <2>2. Phases' = [Phases EXCEPT ![t] = "lone"]
    BY <1>4, <2>1 DEF Phases
  <2> QED BY <1>1, <1>5, <1>6, <2>2 DEF Phases, PhaseOf
<1>7. CASE Running # {}
  <2>1. \A r \in Turn : PhaseOf(turn'[r]) = IF r \in Running \cup {t} THEN "shared"
                                            ELSE PhaseOf(turn[r])
    BY <1>2, <1>3, <1>7
  <2>2. Phases' = [r \in Turn |-> IF r \in Running \cup {t} THEN "shared" ELSE Phases[r]]
    BY <1>4, <2>1 DEF Phases
  <2> QED BY <1>1, <1>5, <1>7, <2>2 DEF Phases, PhaseOf
<1> QED BY <1>6, <1>7

\* Turns that end without being delivered are lost, and leave the log.
LEMMA FailureLoses ==
    ASSUME TypeOK, NEW lost \in SUBSET Running, table' = table,
           turn' = [t \in Turn |-> IF t \in lost THEN [turn[t] EXCEPT !.pc = "failed"]
                                   ELSE turn[t]]
    PROVE  /\ Messages' = Messages /\ lost \subseteq AtWork
           /\ Phases' = [t \in Turn |-> IF t \in lost THEN "failed" ELSE Phases[t]]
           /\ lost = {} => Phases' = Phases
<1>1. Messages' = Messages /\ AtWork = Running
  BY PhasesAre DEF Messages
<1>2. ASSUME NEW t \in Turn
      PROVE  PhaseOf(turn'[t]) = IF t \in lost THEN "failed" ELSE PhaseOf(turn[t])
  <2>1. turn[t] \in TurnState
    BY DEF TypeOK
  <2>2. t \in lost => turn'[t].pc = "failed"
    BY <2>1 DEF TurnState
  <2> QED BY <2>2 DEF PhaseOf
<1>3. Phases' = [t \in Turn |-> PhaseOf(turn'[t])]
  BY DEF Phases, PhaseOf
<1>4. Phases' = [t \in Turn |-> IF t \in lost THEN "failed" ELSE Phases[t]]
  BY <1>2, <1>3 DEF Phases
<1>5. lost = {} => Phases' = Phases
  BY <1>4 DEF Phases
<1> QED BY <1>1, <1>4, <1>5

\* A turn that stores its rows adds to the log what is left of its own messages
\* past the length the log had already.
LEMMA StoredEndAppends ==
    ASSUME IInv, IInv', NEW t \in Running, NEW rounds \in Nat,
           \A s \in DOMAIN table : table'[s] = table[s],
           Size < Size', Size' = Len(turn[t].messages \o Own(t, rounds)),
           \A s \in Size .. Size' - 1 :
                table'[s] = (turn[t].messages \o Own(t, rounds))[s + 1]
    PROVE  \E passed \in 0 .. Len(Own(t, rounds)) :
                /\ turn[t].alone => passed = 0
                /\ Messages' = Messages \o SubSeq(Own(t, rounds), passed + 1,
                                                  Len(Own(t, rounds)))
<1>1. PICK k \in 0 .. Size : k = Len(turn[t].messages)
  BY EndsWithOwn
<1>2. PICK own \in Seq(Message) : own = Own(t, rounds)
  BY OwnIsOwn DEF Running
<1>3. PICK m \in Nat : m = Len(own)
  BY <1>2
<1>4. PICK n \in Nat : n = Size
  BY DEF IInv
<1>5. PICK l \in Nat : l = Size'
  BY DEF IInv
<1>6. /\ l = k + m
      /\ \A i \in k + 1 .. l : (turn[t].messages \o own)[i] = own[i - k]
  <2>1. Len(own) = 2 * rounds + 2
    BY <1>2, OwnIsOwn DEF Running
  <2>2. Len(turn[t].messages \o own) = k + 2 * rounds + 2
    BY <1>1, <1>2, EndsWithOwn
  <2>3. \A i \in k + 1 .. Len(turn[t].messages \o own) :
            (turn[t].messages \o own)[i] = own[i - k]
    BY <1>1, <1>2, EndsWithOwn
  <2>4. Len(turn[t].messages \o own) = k + m
    <3>1. k \in Int /\ m = 2 * rounds + 2
      BY <1>1, <1>3, <2>1
    <3> QED BY <2>2, <3>1
  <2>5. l = Len(turn[t].messages \o own)
    BY <1>2, <1>5
  <2> QED BY <2>3, <2>4, <2>5
<1>7. PICK passed \in 0 .. m : passed = n - k
  <2>1. n < k + m /\ n - k \in 0 .. m
    BY <1>1, <1>3, <1>4, <1>5, <1>6
  <2> QED BY <2>1
<1>8. turn[t].alone => passed = 0
  BY <1>1, <1>4, <1>7 DEF IInv, LoneLoaded
<1>9. PICK old \in Seq(Message) :
          /\ old = Messages /\ Len(old) = n
          /\ old = [i \in 1 .. n |-> table[i - 1]] /\ DOMAIN table = 0 .. n - 1
  <2>1. n = Cardinality(DOMAIN table) /\ DOMAIN table = 0 .. n - 1
    BY <1>4 DEF IInv, SequencesContiguous, Size
  <2>2. \A s \in DOMAIN table : table[s] \in Message
    BY DEF IInv, TypeOK
  <2> QED BY <2>1, <2>2, RowsInOrder DEF Messages
<1>10. PICK new \in Seq(Message) :
          /\ new = Messages' /\ Len(new) = l
          /\ new = [i \in 1 .. l |-> table'[i - 1]]
  <2>1. l = Cardinality(DOMAIN table') /\ DOMAIN table' = 0 .. l - 1
    BY <1>5 DEF IInv, SequencesContiguous, Size
  <2>2. \A s \in DOMAIN table' : table'[s] \in Message
    BY DEF IInv, TypeOK
  <2>3. Messages' = [i \in 1 .. Cardinality(DOMAIN table') |-> table'[i - 1]]
    BY DEF Messages
  <2> QED BY <2>1, <2>2, <2>3, RowsInOrder
<1>11. l = n + m - passed
  BY <1>1, <1>3, <1>6, <1>7
<1>12. \A i \in 1 .. n : new[i] = old[i]
  BY <1>7, <1>9, <1>10, <1>11
<1>13. \A j \in 1 .. m - passed : new[n + j] = own[passed + j]
  <2> SUFFICES ASSUME NEW j \in 1 .. m - passed PROVE new[n + j] = own[passed + j]
    OBVIOUS
  <2>1. n + j \in k + 1 .. l /\ n + j \in 1 .. l /\ (n + j) - k = passed + j
    BY <1>1, <1>7, <1>11
  <2>2. table'[n + j - 1] = (turn[t].messages \o own)[n + j]
    <3>1. \A s \in n .. l - 1 : table'[s] = (turn[t].messages \o own)[s + 1]
      <4>1. Size .. Size' - 1 = n .. l - 1
        BY <1>4, <1>5
      <4> QED BY <1>2, <4>1, Zenon
    <3>2. n + j - 1 \in n .. l - 1 /\ (n + j - 1) + 1 = n + j
      BY <1>11, <1>7
    <3> QED BY <3>1, <3>2
  <2>3. new[n + j] = table'[n + j - 1]
    BY <1>10, <2>1
  <2>4. (turn[t].messages \o own)[n + j] = own[(n + j) - k]
    BY <1>6, <2>1
  <2> QED BY <2>1, <2>2, <2>3, <2>4
<1>14. new = old \o SubSeq(own, passed + 1, m)
  <2>1. Len(new) = Len(old) + Len(own) - passed /\ passed \in 0 .. Len(own)
    BY <1>3, <1>9, <1>10, <1>11
  <2>2. \A i \in 1 .. Len(old) : new[i] = old[i]
    BY <1>9, <1>12
  <2>3. \A j \in 1 .. Len(own) - passed : new[Len(old) + j] = own[passed + j]
    BY <1>3, <1>9, <1>13
  <2>4. new = old \o SubSeq(own, passed + 1, Len(own))
    <3>1. Continues(new, old, own, passed)
      BY <2>1, <2>2, <2>3 DEF Continues
    <3> QED BY <3>1, SuffixAppended
  <2> QED BY <1>3, <2>4
<1>15. passed \in 0 .. Len(Own(t, rounds)) /\ own = Own(t, rounds) /\ m = Len(own)
  BY <1>2, <1>3, <1>7
<1> QED BY <1>8, <1>9, <1>10, <1>14, <1>15

\* A delivered turn is one delivery of the log.
LEMMA EndDelivers ==
    ASSUME IInv, IInv', NEW t \in Turn, NEW rounds \in 0 .. MaxRounds,
           TurnEnds(t, rounds), turn'[t].pc = "done"
    PROVE  /\ t \in AtWork /\ Phases' = [Phases EXCEPT ![t] = "done"]
           /\ \E passed \in 0 .. Len(Own(t, rounds)) :
                /\ Phases[t] = "lone" => passed = 0
                /\ Messages' = Messages \o SubSeq(Own(t, rounds), passed + 1,
                                                  Len(Own(t, rounds)))
<1> DEFINE messages == turn[t].messages \o Own(t, rounds)
           rows == NewRows(t, messages)
<1>1. t \in Running /\ rounds \in Nat /\ turn \in [Turn -> TurnState] /\ TypeOK
  BY MaxRoundsAssumption DEF TurnEnds, Running, IInv, TypeOK
<1>2. messages \in Seq(Message)
  BY <1>1, EndsWithOwn
<1>3. \/ DOMAIN rows = {} /\ UNCHANGED <<table, last>>
      \/ /\ DOMAIN rows # {} /\ Accepts(rows) /\ table' = With(rows)
         /\ last' = [last EXCEPT ![turn[t].process] = Persisted(messages)]
  <2>1. turn' = [turn EXCEPT ![t].pc = "failed"] => turn'[t].pc = "failed"
    BY <1>1 DEF TurnState
  <2> QED BY <2>1 DEF TurnEnds
<1>4. turn' = [turn EXCEPT ![t].pc = "done", ![t].messages = messages]
  <2>1. turn' = [turn EXCEPT ![t].pc = "failed"] => turn'[t].pc = "failed"
    BY <1>1 DEF TurnState
  <2> QED BY <2>1 DEF TurnEnds
<1>5. ReplyDelivered(t, messages)
  BY <1>1, <1>2, <1>4, EndIsDelivered
<1>6. AtWork = Running /\ (Phases[t] = "lone" <=> turn[t].alone)
  BY <1>1, PhasesAre
<1>7. Phases' = [Phases EXCEPT ![t] = "done"]
  <2>1. Phases' = [r \in Turn |-> PhaseOf(turn'[r])]
    BY DEF Phases, PhaseOf
  <2>2. \A r \in Turn : PhaseOf(turn'[r]) = IF r = t THEN "done" ELSE PhaseOf(turn[r])
    BY <1>5 DEF ReplyDelivered, PhaseOf
  <2> QED BY <2>1, <2>2 DEF Phases
<1>8. CASE DOMAIN rows = {} /\ UNCHANGED <<table, last>>
  <2>1. ~turn[t].alone /\ Messages' = Messages
    BY <1>1, <1>8, LoneInserts DEF Messages
  <2>2. PICK own \in Seq(Message) : own = Own(t, rounds)
    BY <1>1, OwnIsOwn
  <2>3. PICK m \in Nat : m = Len(own)
    BY <2>2
  <2>4. SubSeq(own, m + 1, m) = <<>>
    BY <2>2, <2>3
  <2>5. PICK old \in Seq(Message) : old = Messages
    BY RowsInOrder DEF IInv, TypeOK, SequencesContiguous, Size, Messages
  <2>6. old \o <<>> = old
    BY <2>5
  <2>7. /\ m \in 0 .. Len(Own(t, rounds))
        /\ Messages' = Messages \o SubSeq(Own(t, rounds), m + 1, Len(Own(t, rounds)))
    BY <2>1, <2>2, <2>3, <2>4, <2>5, <2>6
  <2> QED BY <1>1, <1>6, <1>7, <2>1, <2>7
<1>9. CASE /\ DOMAIN rows # {} /\ Accepts(rows) /\ table' = With(rows)
           /\ last' = [last EXCEPT ![turn[t].process] = Persisted(messages)]
  <2>1. /\ \A s \in DOMAIN table : s \in DOMAIN table' /\ table'[s] = table[s]
        /\ Size < Size' /\ Size' = Len(messages)
        /\ \A s \in Size .. Size' - 1 : table'[s] = messages[s + 1]
    BY <1>1, <1>5, <1>9, StoredEndKeeps
  <2>2. \E passed \in 0 .. Len(Own(t, rounds)) :
            /\ turn[t].alone => passed = 0
            /\ Messages' = Messages \o SubSeq(Own(t, rounds), passed + 1,
                                              Len(Own(t, rounds)))
    BY <1>1, <2>1, StoredEndAppends
  <2> QED BY <1>1, <1>6, <1>7, <2>2
<1> QED BY <1>3, <1>8, <1>9


\* The instance of the log is at these messages and phases.
LEMMA LogIsAt ==
    /\ Log!chat = <<Messages, Phases>> /\ Log!Running = AtWork
    /\ Log!chat' = <<Messages', Phases'>>
BY DEF Log!chat, Log!Running, Messages, Phases, PhaseOf, AtWork

\* A turn that ends without being delivered, by itself or with its process.
LEMMA LostIsLose ==
    ASSUME TypeOK, NEW lost \in SUBSET Running, table' = table,
           turn' = [t \in Turn |-> IF t \in lost THEN [turn[t] EXCEPT !.pc = "failed"]
                                   ELSE turn[t]]
    PROVE  [Log!Next]_(Log!chat)
<1>1. /\ Messages' = Messages /\ lost \subseteq AtWork
      /\ Phases' = [t \in Turn |-> IF t \in lost THEN "failed" ELSE Phases[t]]
      /\ lost = {} => Phases' = Phases
  BY FailureLoses
<1>2. CASE lost = {}
  BY <1>1, <1>2, LogIsAt
<1>3. CASE lost # {}
  <2>1. Log!Lose(lost)
    BY <1>1, <1>3, LogIsAt DEF Log!Lose, Messages, Phases, PhaseOf
  <2> QED BY <1>1, <2>1, LogIsAt DEF Log!Next
<1> QED BY <1>2, <1>3

\* The empty session is an empty log.
LEMMA LogInit == Init => Log!Init
<1> SUFFICES ASSUME Init PROVE Log!Init
  OBVIOUS
<1>1. DOMAIN table = {} /\ Cardinality(DOMAIN table) = 0
  BY FS_EmptySet DEF Init
<1>2. Messages = <<>>
  BY <1>1 DEF Messages
<1>3. Phases = [t \in Turn |-> "idle"]
  BY DEF Init, Phases, PhaseOf
<1> QED BY <1>2, <1>3 DEF Log!Init, Messages, Phases, PhaseOf

\* Every step of the store is one of the log, or none.
LEMMA LogNext == IInv /\ IInv' /\ [Next]_vars => [Log!Next]_(Log!chat)
<1> SUFFICES ASSUME IInv, IInv', [Next]_vars PROVE [Log!Next]_(Log!chat)
  OBVIOUS
<1>1. TypeOK /\ TypeOK' /\ turn \in [Turn -> TurnState]
  BY DEF IInv, TypeOK
<1>2. ASSUME NEW t \in Turn, NEW p \in Process, Post(t, p) PROVE Log!Next
  <2>1. Log!Begin(t)
    BY <1>1, <1>2, PostBegins, LogIsAt DEF Log!Begin, Messages, Phases, PhaseOf
  <2> QED BY <2>1 DEF Log!Next
<1>3. ASSUME NEW t \in Turn, NEW rounds \in 0 .. MaxRounds, TurnEnds(t, rounds)
      PROVE [Log!Next]_(Log!chat)
  <2>1. CASE turn'[t].pc = "done"
    <3>1. /\ t \in AtWork /\ Phases' = [Phases EXCEPT ![t] = "done"]
          /\ \E passed \in 0 .. Len(Own(t, rounds)) :
                /\ Phases[t] = "lone" => passed = 0
                /\ Messages' = Messages \o SubSeq(Own(t, rounds), passed + 1,
                                                  Len(Own(t, rounds)))
      BY <1>3, <2>1, EndDelivers
    <3>2. Log!Deliver(t, Own(t, rounds))
      BY <3>1, LogIsAt DEF Log!Deliver, Messages, Phases, PhaseOf
    <3> QED BY <3>2 DEF Log!Next
  <2>2. CASE turn'[t].pc # "done"
    <3>1. turn' = [turn EXCEPT ![t].pc = "failed"] /\ table' = table /\ t \in Running
      BY <1>1, <1>3, <2>2 DEF TurnEnds, TurnState, Running
    <3>2. turn' = [r \in Turn |-> IF r \in {t} THEN [turn[r] EXCEPT !.pc = "failed"]
                                  ELSE turn[r]]
      BY <1>1, <3>1
    <3> QED BY <1>1, <3>1, <3>2, LostIsLose
  <2> QED BY <2>1, <2>2
<1>4. ASSUME NEW t \in Turn, TurnFails(t) PROVE [Log!Next]_(Log!chat)
  <2>1. turn' = [turn EXCEPT ![t].pc = "failed"] /\ table' = table /\ t \in Running
    BY <1>4 DEF TurnFails, Running
  <2>2. turn' = [r \in Turn |-> IF r \in {t} THEN [turn[r] EXCEPT !.pc = "failed"]
                                ELSE turn[r]]
    BY <1>1, <2>1
  <2> QED BY <1>1, <2>1, <2>2, LostIsLose
<1>5. ASSUME NEW p \in Process, Restart(p) PROVE [Log!Next]_(Log!chat)
  <2> DEFINE lost == {t \in Running : turn[t].process = p}
  <2>1. turn' = [t \in Turn |-> IF t \in lost THEN [turn[t] EXCEPT !.pc = "failed"]
                                ELSE turn[t]]
    BY <1>5 DEF Restart
  <2>2. lost \in SUBSET Running /\ table' = table
    BY <1>5 DEF Restart
  <2> HIDE DEF lost
  <2> QED BY <1>1, <2>1, <2>2, LostIsLose
<1>6. CASE table' = table /\ turn' = turn
  BY <1>6, LogIsAt DEF Messages, Phases, PhaseOf
<1>7. (\E p \in Process : ReadSession(p)) \/ UNCHANGED vars => table' = table /\ turn' = turn
  BY DEF ReadSession, vars
<1> QED BY <1>2, <1>3, <1>4, <1>5, <1>6, <1>7 DEF Next

\* However turns of however many processes overlap, fail and restart, the
\* stored session is one log that grows at its end by what each delivered turn
\* produced, by all of it unless another turn ran during it.
THEOREM LogRefined == Spec => ImplementsLog
<1>1. IInv /\ IInv' /\ [Next]_vars => [Log!Next]_(Log!chat)
  BY LogNext
<1> QED BY <1>1, LogInit, Invariance, PTL DEF Spec, ImplementsLog, Log!Spec


-----------------------------------------------------------------------------
(* Delivered turns: when no two turns of the session run at once, what the *)
(* code says of its post-turn hook is true.                                *)

\* No two turns of the session are running.
TurnsApart == \A s, t \in Running : s = t

AllAlone == \A t \in Turn : turn[t].alone

\* Of a turn nobody overlapped no row is stored past its conversation.
RowsOwn ==
    \A t \in Turn : turn[t].pc = "done" /\ turn[t].alone =>
        \A s \in DOMAIN table : table[s].turn = t => s < Len(turn[t].messages)

\* Turns that do not meet stay alone.
LEMMA AloneStays ==
    ASSUME IInv, AllAlone, TurnsApart', [Next]_vars
    PROVE  AllAlone'
<1>1. turn \in [Turn -> TurnState] /\ \A t \in Turn : turn[t] \in TurnState
  BY DEF IInv, TypeOK
<1>2. ASSUME NEW t \in Turn, NEW p \in Process, Post(t, p) PROVE AllAlone'
  <2>1. /\ turn[t].pc = "idle"
        /\ turn'[t] = [pc |-> "running", process |-> p,
                       messages |-> History, alone |-> Running = {}]
        /\ \A r \in Turn \ {t} :
              turn'[r] = [turn[r] EXCEPT !.alone = turn[r].alone /\ r \notin Running]
    BY <1>2 DEF Post
  <2>2. \A r \in Turn \ {t} : /\ turn'[r].pc = turn[r].pc
                              /\ turn'[r].alone = (turn[r].alone /\ r \notin Running)
    BY <1>1, <2>1 DEF TurnState
  <2>3. t \in Running' /\ t \notin Running
    BY <2>1 DEF Running
  <2>4. \A r \in Running : r \in Running'
    BY <2>2, <2>3 DEF Running
  <2>5. Running = {}
    BY <2>3, <2>4 DEF TurnsApart
  <2>6. turn'[t].alone
    <3>1. turn'[t].alone = (Running = {})
      BY <2>1
    <3> QED BY <2>5, <3>1, Zenon
  <2>7. \A r \in Turn \ {t} : turn'[r].alone
    BY <2>2, <2>5 DEF AllAlone
  <2> QED BY <2>6, <2>7 DEF AllAlone
<1>3. ASSUME \A t \in Turn : turn'[t].alone = turn[t].alone PROVE AllAlone'
  BY <1>3 DEF AllAlone
<1>4. ASSUME NEW t \in Turn, NEW rounds \in 0 .. MaxRounds, TurnEnds(t, rounds)
      PROVE \A r \in Turn : turn'[r].alone = turn[r].alone
  <2>1. PICK messages : \/ turn' = [turn EXCEPT ![t].pc = "done", ![t].messages = messages]
                        \/ turn' = [turn EXCEPT ![t].pc = "failed"]
    BY <1>4 DEF TurnEnds
  <2>2. \A r \in Turn \ {t} : turn'[r] = turn[r]
    BY <1>1, <2>1
  <2>3. turn'[t] \in {[turn[t] EXCEPT !.pc = "done", !.messages = messages],
                      [turn[t] EXCEPT !.pc = "failed"]}
    BY <1>1, <2>1
  <2>4. turn'[t].alone = turn[t].alone
    BY <1>1, <2>3 DEF TurnState
  <2> QED BY <2>2, <2>4
<1>5. ASSUME \A r \in Turn : turn'[r] \in {turn[r], [turn[r] EXCEPT !.pc = "failed"]}
      PROVE \A r \in Turn : turn'[r].alone = turn[r].alone
  BY <1>1, <1>5 DEF TurnState
<1>6. ASSUME NEW t \in Turn, TurnFails(t)
      PROVE \A r \in Turn : turn'[r] \in {turn[r], [turn[r] EXCEPT !.pc = "failed"]}
  BY <1>1, <1>6 DEF TurnFails
<1>7. ASSUME NEW p \in Process, ReadSession(p)
      PROVE \A r \in Turn : turn'[r] \in {turn[r], [turn[r] EXCEPT !.pc = "failed"]}
  BY <1>7 DEF ReadSession
<1>8. ASSUME NEW p \in Process, Restart(p)
      PROVE \A r \in Turn : turn'[r] \in {turn[r], [turn[r] EXCEPT !.pc = "failed"]}
  BY <1>8 DEF Restart
<1>9. ASSUME UNCHANGED vars
      PROVE \A r \in Turn : turn'[r] \in {turn[r], [turn[r] EXCEPT !.pc = "failed"]}
  BY <1>9 DEF vars
<1> QED BY <1>2, <1>3, <1>4, <1>5, <1>6, <1>7, <1>8, <1>9 DEF Next

\* Every step keeps rows and conversations so.
LEMMA RowsOwnStays ==
    ASSUME IInv, RowsOwn, [Next]_vars
    PROVE  RowsOwn'
<1>1. turn \in [Turn -> TurnState] /\ \A t \in Turn : turn[t] \in TurnState
  BY DEF IInv, TypeOK
<1>2. ASSUME table' = table,
             \A t \in Turn : turn'[t].pc = "done" /\ turn'[t].alone =>
                /\ turn[t].pc = "done" /\ turn[t].alone
                /\ turn'[t].messages = turn[t].messages
      PROVE  RowsOwn'
  BY <1>2 DEF RowsOwn
<1>3. ASSUME NEW t \in Turn, NEW p \in Process, Post(t, p) PROVE RowsOwn'
  <2>1. /\ turn'[t].pc = "running" /\ table' = table
        /\ \A r \in Turn \ {t} :
              turn'[r] = [turn[r] EXCEPT !.alone = turn[r].alone /\ r \notin Running]
    BY <1>3 DEF Post
  <2>2. \A r \in Turn \ {t} : /\ turn'[r].pc = turn[r].pc
                              /\ turn'[r].messages = turn[r].messages
                              /\ turn'[r].alone = (turn[r].alone /\ r \notin Running)
    BY <1>1, <2>1 DEF TurnState
  <2> QED BY <1>2, <2>1, <2>2
<1>4. ASSUME NEW t \in Turn, NEW rounds \in 0 .. MaxRounds, TurnEnds(t, rounds)
      PROVE RowsOwn'
  <2> DEFINE messages == turn[t].messages \o Own(t, rounds)
             rows == NewRows(t, messages)
  <2>1. t \in Running /\ rounds \in Nat
    BY <1>4, MaxRoundsAssumption DEF TurnEnds, Running
  <2>2. messages \in Seq(Message)
    BY <2>1, EndsWithOwn
  <2>3. CASE DOMAIN rows = {} /\ table' = table /\ last' = last
              /\ turn' = [turn EXCEPT ![t].pc = "done", ![t].messages = messages]
    <3>1. ReplyDelivered(t, messages)
      BY <1>1, <2>2, <2>3, EndIsDelivered
    <3>2. ~turn'[t].alone
      <4>1. ~turn[t].alone
        BY <2>1, <2>3, LoneInserts
      <4>2. turn'[t].alone = turn[t].alone
        BY <3>1 DEF ReplyDelivered
      <4> QED BY <4>1, <4>2, Zenon
    <3>3. \A r \in Turn \ {t} : turn'[r] = turn[r]
      BY <3>1 DEF ReplyDelivered
    <3> QED BY <1>2, <2>3, <3>2, <3>3
  <2>4. CASE /\ DOMAIN rows # {} /\ Accepts(rows) /\ table' = With(rows)
             /\ last' = [last EXCEPT ![turn[t].process] = Persisted(messages)]
             /\ turn' = [turn EXCEPT ![t].pc = "done", ![t].messages = messages]
    <3>1. ReplyDelivered(t, messages)
      BY <1>1, <2>2, <2>4, EndIsDelivered
    <3>2. /\ IInv'
          /\ \A s \in DOMAIN table : table'[s] = table[s]
          /\ Size' = Len(messages)
          /\ \A s \in Size .. Size' - 1 : table'[s].turn = t
      BY <2>1, <2>4, <3>1, StoredEndKeeps
    <3>3. /\ Size \in Nat /\ DOMAIN table = 0 .. Size - 1
          /\ Size' \in Nat /\ DOMAIN table' = 0 .. Size' - 1
      BY <3>2 DEF IInv, SequencesContiguous, Size
    <3>4. /\ turn'[t].messages = messages
          /\ \A r \in Turn \ {t} : turn'[r] = turn[r]
      BY <3>1 DEF ReplyDelivered
    <3> HIDE DEF messages
    <3> SUFFICES ASSUME NEW r \in Turn, turn'[r].pc = "done", turn'[r].alone,
                        NEW s \in DOMAIN table', table'[s].turn = r
                 PROVE  s < Len(turn'[r].messages)
      BY DEF RowsOwn
    <3>5. CASE r = t
      BY <3>2, <3>3, <3>4, <3>5
    <3>6. CASE r # t
      <4>1. s \in DOMAIN table /\ table[s].turn = r
        BY <3>2, <3>3, <3>6
      <4> QED BY <3>4, <3>6, <4>1 DEF RowsOwn
    <3> QED BY <3>5, <3>6
  <2>5. CASE turn' = [turn EXCEPT ![t].pc = "failed"] /\ table' = table /\ last' = last
    <3>1. turn'[t].pc = "failed" /\ \A r \in Turn \ {t} : turn'[r] = turn[r]
      BY <1>1, <2>5 DEF TurnState
    <3> QED BY <1>2, <2>5, <3>1
  <2> QED BY <1>4, <2>3, <2>4, <2>5 DEF TurnEnds
<1>5. ASSUME table' = table,
             \A r \in Turn : turn'[r] \in {turn[r], [turn[r] EXCEPT !.pc = "failed"]}
      PROVE  RowsOwn'
  <2>1. \A r \in Turn : turn'[r].pc = "done" => turn'[r] = turn[r]
    BY <1>1, <1>5 DEF TurnState
  <2> QED BY <1>2, <1>5, <2>1
<1>6. ASSUME NEW t \in Turn, TurnFails(t) PROVE RowsOwn'
  BY <1>1, <1>5, <1>6 DEF TurnFails
<1>7. ASSUME NEW p \in Process, ReadSession(p) PROVE RowsOwn'
  BY <1>5, <1>7 DEF ReadSession
<1>8. ASSUME NEW p \in Process, Restart(p) PROVE RowsOwn'
  BY <1>5, <1>8 DEF Restart
<1>9. CASE UNCHANGED vars
  BY <1>5, <1>9 DEF vars
<1> QED BY <1>3, <1>4, <1>6, <1>7, <1>8, <1>9 DEF Next

\* Row s is message s + 1 of the conversation, so the turn has as many rows as
\* messages.
LEMMA AloneIsStored == IInv /\ RowsOwn /\ AllAlone => DeliveredTurnStored
<1> SUFFICES ASSUME IInv, RowsOwn, AllAlone, NEW t \in Turn, turn[t].pc = "done"
             PROVE  Cardinality({s \in DOMAIN table : table[s].turn = t})
                      = Cardinality({i \in 1 .. Len(turn[t].messages) :
                                        turn[t].messages[i].turn = t})
  BY DEF DeliveredTurnStored
<1>1. PICK messages \in Seq(Message) : messages = turn[t].messages
  BY DEF IInv, TypeOK, TurnState
<1> DEFINE stored == {s \in DOMAIN table : table[s].turn = t}
           own == {i \in 1 .. Len(messages) : messages[i].turn = t}
<1>2. turn[t].alone
  BY DEF AllAlone
<1>3. \A i \in 1 .. Len(messages) : i - 1 \in DOMAIN table /\ table[i - 1] = messages[i]
  BY <1>1, <1>2 DEF IInv, TurnsWhole
<1>4. /\ \A s \in stored : s < Len(messages)
      /\ DOMAIN table \subseteq Nat
  BY <1>1, <1>2 DEF RowsOwn, IInv, TypeOK
<1>5. IsFiniteSet(own)
  <2>1. Len(messages) \in Int /\ own \subseteq 1 .. Len(messages)
    OBVIOUS
  <2>2. IsFiniteSet(1 .. Len(messages))
    BY <2>1, FS_Interval
  <2> QED BY <2>1, <2>2, FS_Subset
<1>6. ExistsBijection(own, stored)
  <2> DEFINE row == [i \in own |-> i - 1]
  <2>1. row \in [own -> stored]
    BY <1>3
  <2>2. \A i, j \in own : row[i] = row[j] => i = j
    OBVIOUS
  <2>3. \A s \in stored : \E i \in own : row[i] = s
    <3> SUFFICES ASSUME NEW s \in stored PROVE \E i \in own : row[i] = s
      OBVIOUS
    <3>1. s + 1 \in 1 .. Len(messages) /\ (s + 1) - 1 = s
      BY <1>4
    <3>2. s + 1 \in own
      BY <1>3, <3>1
    <3>3. row[s + 1] = s
      BY <3>1, <3>2
    <3> QED BY <3>2, <3>3
  <2> HIDE DEF row, own, stored
  <2>4. row \in Bijection(own, stored)
    BY <2>1, <2>2, <2>3 DEF Bijection, Injection, Surjection, IsInjective
  <2> QED BY <2>4 DEF ExistsBijection
<1> QED BY <1>1, <1>5, <1>6, FS_Bijection

\* If no two turns of the session ever run at once, the messages of every
\* delivered turn are stored, in however many processes and with whatever
\* failures and restarts.
THEOREM DeliveredUnoverlapped == Spec /\ []TurnsApart => []DeliveredTurnStored
<1>1. Init => AllAlone /\ RowsOwn
  BY DEF Init, AllAlone, RowsOwn
<1>2. IInv /\ AllAlone /\ RowsOwn /\ TurnsApart' /\ [Next]_vars => AllAlone' /\ RowsOwn'
  BY AloneStays, RowsOwnStays
<1> QED BY <1>1, <1>2, Invariance, AloneIsStored, PTL DEF Spec


=============================================================================
