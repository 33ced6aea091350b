------------------------------ MODULE ToolLoop ------------------------------
(***************************************************************************)
(* One chat turn as a loop of gateway requests and tool calls              *)
(* (advisor/llm/tool_loop.py), under its three cost breakers               *)
(* (advisor/llm/budget.py), inside the session that submits a compacted    *)
(* history and splices the loop's messages back onto the full one          *)
(* (advisor/chat/session.py, advisor/chat/history_compaction.py).          *)
(*                                                                         *)
(* Text is abstracted to its size in estimated tokens; what the provider   *)
(* then measures is unrelated to the estimate, as budget.py says of JSON.  *)
(***************************************************************************)
EXTENDS Integers, Sequences, FiniteSets, FiniteSetsExt

CONSTANTS
    MaxIterations,      \* cap on the rounds of a turn (chat tier or env)
    RequestBudget,      \* token_budget: one request's estimate
    CumulativeBudget,   \* cumulative_token_budget: the turn's estimates
    WalletCeiling,      \* wallet_token_ceiling; 0 disables that breaker
    MaxRequest,         \* most tokens one request is measured at
    KeepRecent,         \* compact_keep_recent
    Sizes,              \* sizes of a prompt, an answer, a tool result
    MaxUses,            \* bound on the tool_use blocks of one response
    MaxTurns            \* bound on the turns of the session

ASSUME LoopAssumption ==
    /\ MaxIterations \in Nat \ {0} /\ RequestBudget \in Nat
    /\ CumulativeBudget \in Nat /\ WalletCeiling \in Nat
    /\ MaxRequest \in Nat /\ KeepRecent \in Nat \ {0}
    /\ Sizes \subseteq Nat /\ MaxUses \in Nat /\ MaxTurns \in Nat

VARIABLES
    history,        \* the stored messages of the session
    messages,       \* ChatSession.messages while a turn runs
    conversation,   \* run_tool_loop's list: compacted, then appended to
    loop,           \* the loop's position and counters
    turnsBegun      \* bound only

loopVars == <<history, messages, conversation, loop, turnsBegun>>

-----------------------------------------------------------------------------
(* Messages.                                                               *)

\* A block is known by its tool_use_id: the place of the response that asked
\* for it and its place there.
BlockId == Nat \X Nat

\* prompt: the content is a plain string, as only what the user typed is.
LoopMessage == [role : {"user", "assistant"}, prompt : BOOLEAN,
            uses : SUBSET BlockId, results : SUBSET BlockId, size : Nat]

Prompt(n) == [role |-> "user", prompt |-> TRUE, uses |-> {}, results |-> {},
              size |-> n]

Answer(blocks, n) == [role |-> "assistant", prompt |-> FALSE, uses |-> blocks,
                      results |-> {}, size |-> n]

Results(blocks, n) == [role |-> "user", prompt |-> FALSE, uses |-> {},
                       results |-> blocks, size |-> n]

\* The system prompt and the tools add a constant, taken off the budgets here.
Estimated(c) == MapThenSumSet(LAMBDA i : c[i].size, DOMAIN c)

\* The user prompts of c, and the one from which c is kept as it is.
Boundaries(c) == {i \in DOMAIN c : c[i].role = "user" /\ c[i].prompt}

Cutoff(c) == CHOOSE i \in Boundaries(c) :
                Cardinality({j \in Boundaries(c) : j >= i}) = KeepRecent

\* Mutant of Summarised: the summary replaces the blocks too.
DroppedResults(m) == IF m.results = {} THEN m
                     ELSE [m EXCEPT !.size = 0, !.results = {}]

\* A tool result before the cutoff keeps its block and loses its payload.
Summarised(m) == IF m.results = {} THEN m ELSE [m EXCEPT !.size = 0]

Compacted(c) ==
    IF Cardinality(Boundaries(c)) <= KeepRecent THEN c
    ELSE [i \in DOMAIN c |-> IF i < Cutoff(c) THEN Summarised(c[i]) ELSE c[i]]

-----------------------------------------------------------------------------
(* The loop.                                                               *)

\* "check": before a round.  "sent": a request is with the gateway.
\* "tools": handlers run, one after the other.  "synthesis": the tools-
\* stripped request is with the gateway.
LoopPhase == {"idle", "check", "sent", "tools", "synthesis"}

Reason == {"none", "end_turn", "wallet_cap_trip", "cost_circuit_trip",
           "cumulative_cost_trip", "iteration_cap"}

\* estimated: cumulative_estimated.  measured: input + output tokens of
\* total_usage; a response without usage adds nothing.  rounds: the iteration
\* number of each entry of per_iteration.  pending, done: the tool_use blocks
\* of this round still to run, and the result blocks built so far.
LoopState == [phase : LoopPhase, iteration : Nat, prefix : Nat,
              estimated : Nat, measured : Nat, rounds : Seq(Nat),
              reason : Reason, pending : Seq(BlockId), done : SUBSET BlockId]

NoTurn == [phase |-> "idle", iteration |-> 0, prefix |-> 0, estimated |-> 0,
           measured |-> 0, rounds |-> <<>>, reason |-> "none",
           pending |-> <<>>, done |-> {}]

LoopInit ==
    /\ history = <<>> /\ messages = <<>> /\ conversation = <<>>
    /\ loop = NoTurn
    /\ turnsBegun = 0

StartTurn ==
    /\ loop.phase = "idle"
    /\ turnsBegun < MaxTurns
    /\ \E n \in Sizes :
         /\ messages' = Append(history, Prompt(n))
         /\ conversation' = Compacted(messages')
    /\ loop' = [NoTurn EXCEPT !.phase = "check", !.iteration = 1,
                              !.prefix = Len(messages')]
    /\ turnsBegun' = turnsBegun + 1
    /\ UNCHANGED history

\* The breakers, in the order they are checked.
CapReached == loop.iteration > MaxIterations

\* Mutant of WalletTrips: the wallet is compared with the estimate.
WalletTripsOnEstimate == WalletCeiling > 0 /\ loop.estimated >= WalletCeiling

WalletTrips == WalletCeiling > 0 /\ loop.measured >= WalletCeiling

RequestTrips == Estimated(conversation) > RequestBudget

CumulativeTrips ==
    loop.estimated + Estimated(conversation) > CumulativeBudget

\* The nudge is added to a last message of the user.
Nudged(c) ==
    IF c[Len(c)].role = "user"
    THEN [c EXCEPT ![Len(c)] = [c[Len(c)] EXCEPT !.prompt = FALSE]]
    ELSE c

\* _force_synthesis sends one more request, which no breaker checks.
ForceSynthesis(why, rounds) ==
    /\ conversation' = Nudged(conversation)
    /\ loop' = [loop EXCEPT !.phase = "synthesis", !.reason = why,
                            !.iteration = rounds]
    /\ UNCHANGED <<history, messages, turnsBegun>>

Check ==
    /\ loop.phase = "check"
    /\ \/ CapReached /\ ForceSynthesis("iteration_cap", MaxIterations)
       \/ /\ ~CapReached
          /\ \/ /\ WalletTrips
                /\ ForceSynthesis("wallet_cap_trip", loop.iteration - 1)
             \/ /\ ~WalletTrips /\ RequestTrips
                /\ ForceSynthesis("cost_circuit_trip", loop.iteration - 1)
             \/ /\ ~WalletTrips /\ ~RequestTrips /\ CumulativeTrips
                /\ ForceSynthesis("cumulative_cost_trip", loop.iteration - 1)

Ship ==
    /\ loop.phase = "check"
    /\ ~CapReached /\ ~WalletTrips /\ ~RequestTrips /\ ~CumulativeTrips
    /\ loop' = [loop EXCEPT !.phase = "sent",
                            !.estimated = @ + Estimated(conversation)]
    /\ UNCHANGED <<history, messages, conversation, turnsBegun>>

\* The turn returned: the session splices what the loop appended onto its
\* full messages, and on_turn_complete stores them.
Spliced(c) == messages \o SubSeq(c, loop.prefix + 1, Len(c))

Return(c) ==
    /\ messages' = Spliced(c)
    /\ history' = messages'

Respond ==
    /\ loop.phase = "sent"
    /\ \E k \in 0..MaxUses, n \in Sizes, usage \in 0..MaxRequest :
         LET at == Len(conversation) + 1
             asked == [j \in 1..k |-> <<at, j>>]
             c == Append(conversation, Answer({asked[j] : j \in 1..k}, n))
         IN /\ conversation' = c
            /\ loop' = [loop EXCEPT
                 !.phase = IF k = 0 THEN "idle" ELSE "tools",
                 !.measured = @ + usage,
                 !.rounds = Append(@, loop.iteration),
                 !.reason = IF k = 0 THEN "end_turn" ELSE @,
                 !.pending = asked, !.done = {}]
            /\ IF k = 0 THEN Return(c) ELSE UNCHANGED <<history, messages>>
    /\ UNCHANGED turnsBegun

\* A handler that returns, one that raises and a name no handler is
\* registered for all leave one result block for the tool_use.
ResultBlock(id) == {id}

\* Mutant of RunOneHandler: a handler that failed is run again.
RetryHandler ==
    loop.phase = "tools" /\ loop.pending # <<>> /\ UNCHANGED loopVars

RunOneHandler ==
    /\ loop.phase = "tools" /\ loop.pending # <<>>
    /\ loop' = [loop EXCEPT !.pending = Tail(@),
                            !.done = @ \cup ResultBlock(Head(loop.pending))]
    /\ UNCHANGED <<history, messages, conversation, turnsBegun>>

AppendResults ==
    /\ loop.phase = "tools" /\ loop.pending = <<>>
    /\ \E n \in Sizes :
         conversation' = Append(conversation, Results(loop.done, n))
    /\ loop' = [loop EXCEPT !.phase = "check", !.iteration = @ + 1]
    /\ UNCHANGED <<history, messages, turnsBegun>>

\* The answer to a request without tools asks for none.
Synthesised ==
    /\ loop.phase = "synthesis"
    /\ \E n \in Sizes, usage \in 0..MaxRequest :
         LET c == Append(conversation, Answer({}, n))
         IN /\ conversation' = c
            /\ loop' = [loop EXCEPT !.phase = "idle", !.measured = @ + usage,
                                    !.rounds = Append(@, loop.iteration + 1)]
            /\ Return(c)
    /\ UNCHANGED turnsBegun

\* The gateway raises or the client is gone at an await: nothing is stored,
\* and the next turn reads the session from the database again.
TurnRaises ==
    /\ loop.phase \in {"sent", "tools", "synthesis"}
    /\ loop' = [loop EXCEPT !.phase = "idle", !.pending = <<>>, !.done = {}]
    /\ messages' = history /\ conversation' = history
    /\ UNCHANGED <<history, turnsBegun>>

TurnStep == Check \/ Ship \/ Respond \/ RunOneHandler \/ AppendResults
            \/ Synthesised

LoopNext == StartTurn \/ TurnStep \/ TurnRaises

LoopSpec == LoopInit /\ [][LoopNext]_loopVars

-----------------------------------------------------------------------------
LoopTypeOK ==
    /\ history \in Seq(LoopMessage) /\ messages \in Seq(LoopMessage)
    /\ conversation \in Seq(LoopMessage)
    /\ loop \in LoopState
    /\ turnsBegun \in 0..MaxTurns

Consecutive(s) == \A i \in DOMAIN s : s[i] = i

\* The wallet breaker compares what was measured before a round, so a turn
\* can burn the ceiling less one, and then one request of the loop and the
\* synthesis: two requests past the ceiling, of at most MaxIterations + 1.
\* Every one of them is in per_iteration, numbered without a gap.
TurnCostBounded ==
    /\ Consecutive(loop.rounds)
    /\ Len(loop.rounds) <= MaxIterations + 1
    /\ loop.measured <= MaxRequest * Len(loop.rounds)
    /\ WalletCeiling > 0 => loop.measured < WalletCeiling + 2 * MaxRequest

\* Roles alternate from a user's prompt on, and every tool_use block is
\* answered by exactly its results in the message that follows.
Paired(c) ==
    /\ c # <<>> => c[1].role = "user" /\ c[1].results = {}
    /\ \A i \in 1..Len(c) - 1 : /\ c[i + 1].role # c[i].role
                                /\ c[i + 1].results = c[i].uses

\* What the provider rejects is never sent, however tools fail, breakers trip
\* and history is compacted; and the stored history, which later turns are
\* built from, is paired too and ends with an answer that asks for nothing.
ToolBlocksPaired ==
    /\ loop.phase \in {"check", "sent", "synthesis"} =>
         /\ Paired(conversation)
         /\ conversation[Len(conversation)].role = "user"
         /\ \A i \in 1..loop.prefix :
              conversation[i].results = messages[i].results
    /\ Paired(history)
    /\ history # <<>> => /\ history[Len(history)].role = "assistant"
                         /\ history[Len(history)].uses = {}

\* A turn ends, by an answer, by a breaker's synthesis or by an exception, as
\* long as the gateway and the handlers return.
TurnReturns == loop.phase # "idle" ~> loop.phase = "idle"

=============================================================================
