------------------------------- MODULE ChatLog -------------------------------
(***************************************************************************)
(* What a chat session promises of its messages, with no sequence numbers, *)
(* processes or indexes: one log that only grows, at its end.  A delivered *)
(* turn adds the messages it produced, all of them if no other turn of the *)
(* session ran during it, and otherwise what is left of them once their    *)
(* first few are passed over; a turn that fails adds nothing.              *)
(***************************************************************************)
EXTENDS Integers, Sequences

CONSTANTS
    Turn,
    Exchange   \* Exchange[t]: what turn t may produce, question to answer

VARIABLES
    log,       \* the messages of the session
    phase      \* of each turn: idle, lone or shared while it runs, done, failed

chat == <<log, phase>>

Init == log = <<>> /\ phase = [t \in Turn |-> "idle"]

Running == {t \in Turn : phase[t] \in {"lone", "shared"}}

\* A turn that begins during others shares the session with them.
Begin(t) ==
    /\ phase[t] = "idle"
    /\ phase' = IF Running = {} THEN [phase EXCEPT ![t] = "lone"]
                ELSE [u \in Turn |-> IF u \in Running \cup {t} THEN "shared"
                                     ELSE phase[u]]
    /\ UNCHANGED log

Deliver(t, produced) ==
    /\ t \in Running
    /\ phase' = [phase EXCEPT ![t] = "done"]
    /\ \E passed \in 0 .. Len(produced) :
        /\ phase[t] = "lone" => passed = 0
        /\ log' = log \o SubSeq(produced, passed + 1, Len(produced))

\* Several turns at once: those of a process that restarts.
Lose(lost) ==
    /\ lost # {} /\ lost \subseteq Running
    /\ phase' = [t \in Turn |-> IF t \in lost THEN "failed" ELSE phase[t]]
    /\ UNCHANGED log

Next ==
    \/ \E t \in Turn : Begin(t) \/ \E produced \in Exchange[t] : Deliver(t, produced)
    \/ \E lost \in SUBSET Running : Lose(lost)

Spec == Init /\ [][Next]_chat

=============================================================================
