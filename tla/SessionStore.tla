--------------------------- MODULE SessionStore ---------------------------
(* The messages of one chat session (advisor/api/db_session_store.py and   *)
(* advisor/chat/session.py).                                               *)
(*                                                                         *)
(* A turn loads the stored conversation into an object of its own, awaits  *)
(* the model for minutes, then appends what it produced and inserts the    *)
(* rows past the process's "last persisted sequence".  That number is      *)
(* shared by every turn of the session in the process and every load of    *)
(* the session resets it, so turns that overlap read each other's value.   *)
(* Loading and storing run on the event loop with no await inside, so each *)
(* is one step; the unique (session_id, sequence) index is what stands     *)
(* between two processes (a deployment's old and new container).           *)
EXTENDS Integers, FiniteSets, Sequences, FiniteSetsExt

CONSTANTS
    Turn,       \* POST /v1/chat requests for this session
    Process,    \* server processes
    NoProcess,  \* "not handled yet"
    MaxRounds   \* bound on the tool rounds of a turn (ADVISOR_CHAT_MAX_ITERATIONS)

ASSUME MaxRoundsAssumption == MaxRounds \in Nat
ASSUME NoProcessAssumption == NoProcess \notin Process

VARIABLES
    table,  \* advisor_chat_message: sequence number -> message
    last,   \* _last_persisted_sequence of each process
    turn    \* [pc, process, messages, alone] of each request; alone: no other
            \* turn of the session was running at any moment of this one

vars == <<table, last, turn>>

Part == {"user", "use", "result", "answer"}
Message == [turn : Turn, part : Part]
Pc == {"idle", "running", "done", "failed"}
TurnState == [pc : Pc, process : Process \cup {NoProcess},
              messages : Seq(Message), alone : BOOLEAN]

-----------------------------------------------------------------------------
(* The conversation and its rows                                           *)

\* What turn t adds: its question, a tool_use and a tool_result message per
\* round, and the answer.
Own(t, rounds) ==
    [i \in 1 .. 2 * rounds + 2 |->
        [turn |-> t,
         part |-> CASE i = 1              -> "user"
                    [] i = 2 * rounds + 2 -> "answer"
                    [] i % 2 = 0 /\ i < 2 * rounds + 2 -> "use"
                    [] i % 2 = 1 /\ i > 1 -> "result"]]

\* The stored messages in the order of their sequence numbers.
History ==
    [i \in 1 .. Cardinality(DOMAIN table) |->
        table[CHOOSE s \in DOMAIN table :
                  Cardinality({q \in DOMAIN table : q < s}) = i - 1]]

\* A mutation of LastStored: the number of rows, not the last of them.
RowCount == IF DOMAIN table = {} THEN -1 ELSE Cardinality(DOMAIN table)

\* What a load records as the last persisted sequence.
LastStored == IF DOMAIN table = {} THEN -1 ELSE Max(DOMAIN table)

Running == {t \in Turn : turn[t].pc = "running"}

\* The rows turn t would insert when it ends with these messages: those past
\* its process's last persisted sequence.  Message i has sequence i - 1.
NewRows(t, messages) ==
    LET new == last[turn[t].process] + 1 .. Len(messages) - 1
    IN  [s \in new |-> messages[s + 1]]

\* The table with these rows in it.
With(rows) ==
    [s \in DOMAIN table \cup DOMAIN rows |->
        IF s \in DOMAIN rows THEN rows[s] ELSE table[s]]

\* A mutation of Accepts: rows are merged into the table, not inserted.
AcceptsAny(rows) == TRUE

\* The unique (session_id, sequence) index.
Accepts(rows) == DOMAIN rows \cap DOMAIN table = {}

-----------------------------------------------------------------------------
Init ==
    /\ table = <<>>
    /\ last = [p \in Process |-> -1]
    /\ turn = [t \in Turn |-> [pc |-> "idle", process |-> NoProcess,
                               messages |-> <<>>, alone |-> TRUE]]

\* A mutation of Post: the question is stored when it arrives.
PostStored(t, p) ==
    /\ turn[t].pc = "idle"
    /\ table' = With([s \in {LastStored + 1} |-> [turn |-> t, part |-> "user"]])
    /\ last' = [last EXCEPT ![p] = LastStored]
    /\ turn' = [r \in Turn |->
                  IF r = t THEN [pc |-> "running", process |-> p,
                                 messages |-> History, alone |-> Running = {}]
                  ELSE [turn[r] EXCEPT !.alone = @ /\ r \notin Running]]

\* post_chat resolves the session: store.get loads its messages and resets
\* the process's last persisted sequence; the stream then awaits the model.
Post(t, p) ==
    /\ turn[t].pc = "idle"
    /\ last' = [last EXCEPT ![p] = LastStored]
    /\ turn' = [r \in Turn |->
                  IF r = t THEN [pc |-> "running", process |-> p,
                                 messages |-> History, alone |-> Running = {}]
                  ELSE [turn[r] EXCEPT !.alone = @ /\ r \notin Running]]
    /\ UNCHANGED table

\* GET /v1/chat/sessions/{id}: the same load, kept by nobody.
ReadSession(p) ==
    /\ last' = [last EXCEPT ![p] = LastStored]
    /\ UNCHANGED <<table, turn>>

\* The last persisted sequence after these messages were stored.
Persisted(messages) == Len(messages) - 1

\* The tool loop returns and on_turn_complete stores what is new.  With
\* nothing past the last persisted sequence the hook returns silently and the
\* turn is delivered; a row the index refuses rolls the insert back and the
\* exception fails the turn.
TurnEnds(t, rounds) ==
    /\ turn[t].pc = "running"
    /\ LET messages == turn[t].messages \o Own(t, rounds)
           rows     == NewRows(t, messages)
       IN  \/ /\ DOMAIN rows = {}
              /\ turn' = [turn EXCEPT ![t].pc = "done", ![t].messages = messages]
              /\ UNCHANGED <<table, last>>
           \/ /\ DOMAIN rows # {}
              /\ Accepts(rows)
              /\ table' = With(rows)
              /\ last' = [last EXCEPT ![turn[t].process] = Persisted(messages)]
              /\ turn' = [turn EXCEPT ![t].pc = "done", ![t].messages = messages]
           \/ /\ ~ Accepts(rows)
              /\ turn' = [turn EXCEPT ![t].pc = "failed"]
              /\ UNCHANGED <<table, last>>

\* The gateway or a handler raises, or the client goes away and its stream is
\* cancelled: the conversation object is dropped and the hook never runs.
TurnFails(t) ==
    /\ turn[t].pc = "running"
    /\ turn' = [turn EXCEPT ![t].pc = "failed"]
    /\ UNCHANGED <<table, last>>

\* A process restarts: its streams end and its numbers are gone.  A lookup of
\* an absent number answers -1.
Restart(p) ==
    /\ last' = [last EXCEPT ![p] = -1]
    /\ turn' = [t \in Turn |->
                  IF t \in Running /\ turn[t].process = p
                  THEN [turn[t] EXCEPT !.pc = "failed"] ELSE turn[t]]
    /\ UNCHANGED table

Next ==
    \/ \E t \in Turn, p \in Process : Post(t, p)
    \/ \E t \in Turn, rounds \in 0 .. MaxRounds : TurnEnds(t, rounds)
    \/ \E t \in Turn : TurnFails(t)
    \/ \E p \in Process : ReadSession(p)
    \/ \E p \in Process : Restart(p)

Spec == Init /\ [][Next]_vars

-----------------------------------------------------------------------------
(* Properties                                                              *)

\* Rows, numbers and turns have their types, and no process believes a row
\* persisted that is not: a number past the last row would make the next turn
\* skip messages.
TypeOK ==
    /\ DOMAIN table \subseteq Nat
    /\ \A s \in DOMAIN table : table[s] \in Message
    /\ last \in [Process -> Int]
    /\ \A p \in Process : -1 <= last[p] /\ last[p] < Cardinality(DOMAIN table)
    /\ turn \in [Turn -> TurnState]

\* The stored sequence numbers have no gap: whatever turns overlap, in one
\* process or several, and whatever restarts, an insert continues the table
\* exactly where it ends or is refused.
SequencesContiguous ==
    DOMAIN table = 0 .. Cardinality(DOMAIN table) - 1

\* A stored message is never replaced or deleted ("we INSERT only the new
\* messages, never wipe-and-rewrite").
StoredIsFinal ==
    [][\A s \in DOMAIN table : s \in DOMAIN table' /\ table'[s] = table[s]]_vars

\* A turn is stored whole or not at all.  Until it ends, and when it fails, no
\* row is its own; when no other turn overlapped it and it is delivered, the
\* table begins with the very conversation the turn ended with, the tool
\* rounds and the answer included, and keeps it.
TurnsWhole ==
    \A t \in Turn :
        /\ turn[t].pc # "done" => \A s \in DOMAIN table : table[s].turn # t
        /\ turn[t].pc = "done" /\ turn[t].alone =>
              \A i \in 1 .. Len(turn[t].messages) :
                  i - 1 \in DOMAIN table /\ table[i - 1] = turn[t].messages[i]

\* What the code says of its post-turn hook ("a persistence failure should
\* fail the chat turn loudly rather than silently drop a message"): the
\* messages of every delivered turn are stored.  Two turns of one session that
\* overlap violate it.
DeliveredTurnStored ==
    \A t \in Turn : turn[t].pc = "done" =>
        LET own == {i \in 1 .. Len(turn[t].messages) :
                        turn[t].messages[i].turn = t}
        IN  Cardinality({s \in DOMAIN table : table[s].turn = t})
              = Cardinality(own)

Log == INSTANCE ChatLog WITH
    Exchange <- [t \in Turn |-> {Own(t, rounds) : rounds \in 0 .. MaxRounds}],
    log <- [i \in 1 .. Cardinality(DOMAIN table) |-> table[i - 1]],
    phase <- [t \in Turn |-> IF turn[t].pc # "running" THEN turn[t].pc
                            ELSE IF turn[t].alone THEN "lone" ELSE "shared"]

\* Stored rows, in-memory numbers and the unique index of however many processes
\* amount to one log that grows at its end by what each delivered turn produced.
ImplementsLog == Log!Spec

=============================================================================
