--------------------------- MODULE ToolLoopProofs ---------------------------
(* Proofs about ToolLoop, for any limits.  The invariant says in which phase *)
(* how much can have been measured, which round each request was, and that   *)
(* compaction, the nudge and the splice keep the roles and the blocks of     *)
(* every message.  It leaves the field estimated as it is: that an estimate, *)
(* a fold over the messages, is a number is proved apart, at the end, by     *)
(* induction on the places of the conversation.                              *)
EXTENDS ToolLoop, FiniteSetTheorems, WellFoundedInduction, TLAPS

LoopRecord(e) ==
    [phase : LoopPhase, iteration : Nat, prefix : Nat, estimated : {e},
     measured : Nat, rounds : Seq(Nat), reason : Reason,
     pending : Seq(BlockId), done : SUBSET BlockId]

LoopShape ==
    /\ history \in Seq(LoopMessage) /\ messages \in Seq(LoopMessage)
    /\ conversation \in Seq(LoopMessage)
    /\ loop \in LoopRecord(loop.estimated)

\* What the breakers leave possible in each phase.
RoundsSound ==
    /\ Consecutive(loop.rounds)
    /\ Len(loop.rounds) <= MaxIterations + 1
    /\ loop.phase \in {"check", "sent"} => Len(loop.rounds) = loop.iteration - 1
    /\ loop.phase \in {"tools", "synthesis"} => Len(loop.rounds) = loop.iteration
    /\ loop.phase = "check" => loop.iteration <= MaxIterations + 1
    /\ loop.phase \in {"sent", "tools", "synthesis"} =>
           loop.iteration <= MaxIterations

CostSound ==
    /\ loop.measured <= MaxRequest * Len(loop.rounds)
    /\ WalletCeiling > 0 =>
        /\ loop.measured < WalletCeiling + 2 * MaxRequest
        /\ loop.phase \in {"check", "tools", "synthesis"} =>
              loop.measured < WalletCeiling + MaxRequest
        /\ loop.phase = "sent" => loop.measured < WalletCeiling

\* c and d agree on what the provider pairs, up to message n.
Alike(c, d, n) ==
    \A i \in 1 .. n : /\ c[i].role = d[i].role /\ c[i].uses = d[i].uses
                      /\ c[i].results = d[i].results

Asks(c, blocks) == /\ c[Len(c)].role = "assistant" /\ c[Len(c)].uses = blocks

\* c can be sent: it ends with the user's word.
Sendable(c) == /\ c # <<>> /\ Paired(c)
               /\ c[Len(c)].role = "user" /\ c[Len(c)].uses = {}

BlocksSound ==
    /\ Paired(history) /\ (history # <<>> => Asks(history, {}))
    /\ loop.phase # "idle" =>
        /\ loop.prefix = Len(messages) /\ loop.prefix <= Len(conversation)
        /\ Alike(conversation, messages, loop.prefix)
    /\ loop.phase \in {"check", "sent", "synthesis"} => Sendable(conversation)
    /\ loop.phase = "tools" =>
        /\ conversation # <<>> /\ Paired(conversation)
        /\ Asks(conversation,
                loop.done \cup {loop.pending[j] : j \in DOMAIN loop.pending})

LoopInv == LoopShape /\ RoundsSound /\ CostSound /\ BlocksSound

-----------------------------------------------------------------------------
(* Operators on messages.                                                  *)

LEMMA CompactedAlike ==
  ASSUME NEW c \in Seq(LoopMessage)
  PROVE  /\ Compacted(c) \in Seq(LoopMessage) /\ Len(Compacted(c)) = Len(c)
         /\ Alike(Compacted(c), c, Len(c))
<1>1. \A i \in DOMAIN c : c[i] \in LoopMessage
  OBVIOUS
<1>2. ASSUME NEW m \in LoopMessage
      PROVE  /\ Summarised(m) \in LoopMessage
             /\ Summarised(m).role = m.role /\ Summarised(m).uses = m.uses
             /\ Summarised(m).results = m.results
  BY DEF Summarised, LoopMessage
<1>3. CASE Cardinality(Boundaries(c)) <= KeepRecent
  BY <1>3 DEF Compacted, Alike
<1>4. CASE ~(Cardinality(Boundaries(c)) <= KeepRecent)
  <2> DEFINE cut == Cutoff(c)
             d == [i \in DOMAIN c |-> IF i < cut THEN Summarised(c[i]) ELSE c[i]]
  <2>1. Compacted(c) = d
    BY <1>4 DEF Compacted
  <2>2. \A i \in DOMAIN c : d[i] \in LoopMessage
    BY <1>1, <1>2
  <2>3. DOMAIN c = 1 .. Len(c)
    OBVIOUS
  <2>4. d \in Seq(LoopMessage) /\ Len(d) = Len(c)
    <3> HIDE DEF d
    <3>1. d \in [1 .. Len(c) -> LoopMessage]
      BY <2>2, <2>3 DEF d
    <3> QED
      BY <3>1
  <2>5. \A i \in 1 .. Len(c) : d[i] \in {Summarised(c[i]), c[i]}
    BY <2>3
  <2>6. Alike(d, c, Len(c))
    <3> HIDE DEF d
    <3> QED
      BY <1>1, <1>2, <2>3, <2>5 DEF Alike
  <2> QED
    BY <2>1, <2>4, <2>6
<1> QED
  BY <1>3, <1>4

LEMMA NudgedAlike ==
  ASSUME NEW c \in Seq(LoopMessage), c # <<>>
  PROVE  /\ Nudged(c) \in Seq(LoopMessage) /\ Len(Nudged(c)) = Len(c)
         /\ Alike(Nudged(c), c, Len(c))
<1> DEFINE last == [c[Len(c)] EXCEPT !.prompt = FALSE]
<1>1. c[Len(c)] \in LoopMessage /\ Len(c) \in DOMAIN c
  OBVIOUS
<1>2. /\ last \in LoopMessage /\ last.role = c[Len(c)].role
      /\ last.uses = c[Len(c)].uses /\ last.results = c[Len(c)].results
  BY <1>1 DEF LoopMessage
<1>3. CASE c[Len(c)].role = "user"
  <2>1. Nudged(c) = [c EXCEPT ![Len(c)] = last]
    BY <1>3 DEF Nudged
  <2> HIDE DEF last
  <2>2. Nudged(c) \in Seq(LoopMessage) /\ Len(Nudged(c)) = Len(c)
    BY <1>1, <1>2, <2>1
  <2>3. \A i \in 1 .. Len(c) : Nudged(c)[i] = IF i = Len(c) THEN last ELSE c[i]
    BY <2>1
  <2> QED
    BY <1>2, <2>2, <2>3 DEF Alike
<1>4. CASE c[Len(c)].role # "user"
  BY <1>4 DEF Nudged, Alike
<1> QED
  BY <1>3, <1>4

\* Pairing depends on roles and blocks only.
LEMMA PairedAlike ==
  ASSUME NEW c \in Seq(LoopMessage), NEW d \in Seq(LoopMessage),
         Len(c) = Len(d), Alike(c, d, Len(d)), Paired(d)
  PROVE  Paired(c)
<1>1. \A i \in 1 .. Len(d) - 1 : i \in 1 .. Len(d) /\ i + 1 \in 1 .. Len(d)
  OBVIOUS
<1>2. c # <<>> => 1 \in 1 .. Len(d) /\ d # <<>>
  OBVIOUS
<1> QED
  BY <1>1, <1>2 DEF Paired, Alike

\* A message of the other role, with the results of the last, extends a paired
\* conversation.
LEMMA PairedAppend ==
  ASSUME NEW c \in Seq(LoopMessage), NEW m \in LoopMessage, Paired(c),
         c = <<>> => m.role = "user" /\ m.results = {},
         c # <<>> => m.role # c[Len(c)].role /\ m.results = c[Len(c)].uses
  PROVE  /\ Append(c, m) \in Seq(LoopMessage) /\ Append(c, m) # <<>>
         /\ Len(Append(c, m)) = Len(c) + 1 /\ Append(c, m)[Len(c) + 1] = m
         /\ \A i \in 1 .. Len(c) : Append(c, m)[i] = c[i]
         /\ Paired(Append(c, m))
<1> DEFINE d == Append(c, m)
<1>1. /\ d \in Seq(LoopMessage) /\ Len(d) = Len(c) + 1 /\ d[Len(c) + 1] = m
      /\ \A i \in 1 .. Len(c) : d[i] = c[i]
      /\ d # <<>>
  <2>1. /\ d \in Seq(LoopMessage) /\ Len(d) = Len(c) + 1
        /\ d[Len(c) + 1] = m /\ \A i \in 1 .. Len(c) : d[i] = c[i]
    OBVIOUS
  <2>2. d # <<>>
    <3> HIDE DEF d
    <3>1. Len(d) # 0
      BY <2>1
    <3> QED
      BY <3>1
  <2> QED
    BY <2>1, <2>2
<1>2. d[1].role = "user" /\ d[1].results = {}
  <2>1. CASE c = <<>>
    BY <1>1, <2>1
  <2>2. CASE c # <<>>
    <3>1. 1 \in 1 .. Len(c)
      BY <2>2
    <3> QED
      BY <1>1, <2>2, <3>1 DEF Paired
  <2> QED
    BY <2>1, <2>2
<1>3. ASSUME NEW i \in 1 .. Len(d) - 1
      PROVE  d[i + 1].role # d[i].role /\ d[i + 1].results = d[i].uses
  <2> HIDE DEF d
  <2>1. i \in 1 .. Len(c) /\ c # <<>>
    BY <1>1
  <2>2. CASE i = Len(c)
    BY <1>1, <2>1, <2>2
  <2>3. CASE i # Len(c)
    <3>1. i \in 1 .. Len(c) - 1 /\ i + 1 \in 1 .. Len(c)
      BY <2>1, <2>3
    <3> QED
      BY <1>1, <3>1 DEF Paired
  <2> QED
    BY <2>2, <2>3
<1> QED
  BY <1>1, <1>2, <1>3 DEF Paired

\* What the session stores after the turn is alike to what the loop ended with.
LEMMA SplicedAlike ==
  ASSUME LoopShape, NEW c \in Seq(LoopMessage), loop.prefix = Len(messages),
         loop.prefix <= Len(c), Alike(c, messages, loop.prefix)
  PROVE  /\ Spliced(c) \in Seq(LoopMessage) /\ Len(Spliced(c)) = Len(c)
         /\ Alike(Spliced(c), c, Len(c))
<1>1. messages \in Seq(LoopMessage) /\ loop.prefix \in Nat
  BY DEF LoopShape, LoopRecord
<1> DEFINE p == loop.prefix
           tail == SubSeq(c, p + 1, Len(c))
<1>2. /\ tail \in Seq(LoopMessage) /\ Len(tail) = Len(c) - p
      /\ \A i \in 1 .. Len(c) - p : tail[i] = c[p + i]
  BY <1>1
<1>3. /\ Spliced(c) \in Seq(LoopMessage) /\ Len(Spliced(c)) = Len(c)
      /\ \A i \in 1 .. p : Spliced(c)[i] = messages[i]
      /\ \A i \in 1 .. Len(c) : i > p => Spliced(c)[i] = tail[i - p]
  <2> HIDE DEF tail
  <2>1. Spliced(c) = messages \o tail
    BY DEF Spliced, tail
  <2> QED
    BY <1>1, <1>2, <2>1
<1>4. \A i \in 1 .. Len(c) : i > p => Spliced(c)[i] = c[i]
  <2> SUFFICES ASSUME NEW i \in 1 .. Len(c), i > p PROVE Spliced(c)[i] = c[i]
    OBVIOUS
  <2>1. i - p \in 1 .. Len(c) - p /\ p + (i - p) = i
    BY <1>1
  <2> QED
    BY <1>2, <1>3, <2>1
<1> QED
  BY <1>1, <1>3, <1>4 DEF Alike

-----------------------------------------------------------------------------
(* The steps.                                                              *)

LEMMA ConstantsTyped ==
  /\ MaxIterations \in Nat \ {0} /\ MaxRequest \in Nat /\ WalletCeiling \in Nat
  /\ \A n \in Sizes : n \in Nat
  BY LoopAssumption

LEMMA ShapeTypes ==
  ASSUME LoopShape
  PROVE  /\ history \in Seq(LoopMessage) /\ messages \in Seq(LoopMessage)
         /\ conversation \in Seq(LoopMessage)
         /\ loop.phase \in LoopPhase /\ loop.iteration \in Nat
         /\ loop.prefix \in Nat /\ loop.measured \in Nat
         /\ loop.rounds \in Seq(Nat) /\ loop.reason \in Reason
         /\ loop.pending \in Seq(BlockId) /\ loop.done \in SUBSET BlockId
  BY DEF LoopShape, LoopRecord

LEMMA NewMessages ==
  ASSUME NEW n \in Sizes, NEW B \in SUBSET BlockId
  PROVE  /\ Prompt(n) \in LoopMessage /\ Answer(B, n) \in LoopMessage
         /\ Results(B, n) \in LoopMessage
  BY ConstantsTyped DEF Prompt, Answer, Results, LoopMessage

\* A request is numbered next to the last one.
LEMMA RoundAppended ==
  ASSUME NEW s \in Seq(Nat), Consecutive(s), NEW n \in Nat, n = Len(s) + 1
  PROVE  /\ Append(s, n) \in Seq(Nat) /\ Len(Append(s, n)) = n
         /\ Consecutive(Append(s, n))
  BY DEF Consecutive

\* What one more request adds to the measured tokens.
LEMMA CostAppended ==
  ASSUME NEW m \in Nat, NEW n \in Nat, NEW usage \in 0 .. MaxRequest,
         m <= MaxRequest * n
  PROVE  m + usage <= MaxRequest * (n + 1)
<1>1. MaxRequest * (n + 1) = MaxRequest * n + MaxRequest
  BY ConstantsTyped
<1>2. MaxRequest * n \in Nat
  BY ConstantsTyped
<1> QED
  BY <1>1, <1>2, ConstantsTyped

LEMMA TurnStarted == LoopInv /\ StartTurn => LoopInv'
<1> SUFFICES ASSUME LoopInv, StartTurn PROVE LoopInv'
  OBVIOUS
<1>1. PICK n \in Sizes : /\ messages' = Append(history, Prompt(n))
                         /\ conversation' = Compacted(messages')
  BY DEF StartTurn
<1>2. /\ history \in Seq(LoopMessage) /\ Prompt(n) \in LoopMessage
      /\ history' = history
  BY ShapeTypes, NewMessages DEF LoopInv, StartTurn
<1>3. Paired(history) /\ (history # <<>> => Asks(history, {}))
  BY DEF LoopInv, BlocksSound
<1>4. /\ messages' \in Seq(LoopMessage) /\ messages' # <<>>
      /\ Len(messages') = Len(history) + 1 /\ Paired(messages')
      /\ messages'[Len(messages')] = Prompt(n)
  <2>1. Prompt(n).role = "user" /\ Prompt(n).results = {}
    BY DEF Prompt
  <2>2. history # <<>> => /\ Prompt(n).role # history[Len(history)].role
                          /\ Prompt(n).results = history[Len(history)].uses
    BY <1>3, <2>1 DEF Asks
  <2>3. /\ Append(history, Prompt(n)) \in Seq(LoopMessage)
        /\ Append(history, Prompt(n)) # <<>>
        /\ Len(Append(history, Prompt(n))) = Len(history) + 1
        /\ Append(history, Prompt(n))[Len(history) + 1] = Prompt(n)
        /\ Paired(Append(history, Prompt(n)))
    BY <1>2, <1>3, <2>1, <2>2, PairedAppend
  <2> QED
    BY <1>1, <2>3
<1>5. /\ conversation' \in Seq(LoopMessage)
      /\ Len(conversation') = Len(messages')
      /\ Alike(conversation', messages', Len(messages'))
  BY <1>1, <1>4, CompactedAlike
<1>6. Paired(conversation') /\ conversation' # <<>>
  <2>1. Len(conversation') # 0
    BY <1>4, <1>5
  <2> QED
    BY <1>4, <1>5, <2>1, PairedAlike
<1>7. /\ conversation'[Len(conversation')].role = "user"
      /\ conversation'[Len(conversation')].uses = {}
  <2>1. Len(messages') \in 1 .. Len(messages')
    BY <1>4
  <2> QED
    BY <1>4, <1>5, <2>1 DEF Alike, Prompt
<1>8. loop' = [phase |-> "check", iteration |-> 1, prefix |-> Len(messages'),
               estimated |-> 0, measured |-> 0, rounds |-> <<>>,
               reason |-> "none", pending |-> <<>>, done |-> {}]
  BY DEF StartTurn, NoTurn
<1>9. LoopShape'
  BY <1>2, <1>4, <1>5, <1>8 DEF LoopShape, LoopRecord, LoopPhase, Reason
<1>10. RoundsSound' /\ CostSound'
  BY <1>8, ConstantsTyped DEF RoundsSound, CostSound, Consecutive
<1>11. BlocksSound'
  BY <1>2, <1>3, <1>4, <1>5, <1>6, <1>7, <1>8 DEF BlocksSound, Sendable
<1> QED
  BY <1>9, <1>10, <1>11 DEF LoopInv

\* The nudge keeps a sendable conversation sendable.
LEMMA NudgedSendable ==
  ASSUME LoopInv, loop.phase = "check", conversation' = Nudged(conversation)
  PROVE  /\ conversation' \in Seq(LoopMessage) /\ Sendable(conversation')
         /\ loop.prefix <= Len(conversation')
         /\ Alike(conversation', messages, loop.prefix)
<1>1. /\ conversation \in Seq(LoopMessage) /\ loop.prefix \in Nat
      /\ Sendable(conversation) /\ loop.prefix <= Len(conversation)
      /\ Alike(conversation, messages, loop.prefix)
  BY ShapeTypes DEF LoopInv, BlocksSound
<1>2. /\ conversation' \in Seq(LoopMessage)
      /\ Len(conversation') = Len(conversation)
      /\ Alike(conversation', conversation, Len(conversation))
  BY <1>1, NudgedAlike DEF Sendable
<1>3. conversation' # <<>> /\ Len(conversation) \in 1 .. Len(conversation)
  <2>1. Len(conversation) # 0
    BY <1>1 DEF Sendable
  <2> QED
    BY <1>1, <1>2, <2>1
<1>4. Paired(conversation')
  BY <1>1, <1>2, PairedAlike DEF Sendable
<1>5. Alike(conversation', messages, loop.prefix)
  BY <1>1, <1>2 DEF Alike
<1> QED
  BY <1>1, <1>2, <1>3, <1>4, <1>5 DEF Sendable, Alike

LEMMA SynthesisForced ==
  ASSUME LoopInv, loop.phase = "check", NEW why \in Reason, NEW n \in Nat,
         ForceSynthesis(why, n), n = Len(loop.rounds), n <= MaxIterations
  PROVE  LoopInv'
<1>1. loop' = [loop EXCEPT !.phase = "synthesis", !.reason = why,
                           !.iteration = n]
  BY DEF ForceSynthesis
<1>2. /\ loop'.phase = "synthesis" /\ loop'.iteration = n
      /\ loop'.prefix = loop.prefix /\ loop'.measured = loop.measured
      /\ loop'.rounds = loop.rounds /\ loop'.estimated = loop.estimated
      /\ history' = history /\ messages' = messages
  BY <1>1 DEF ForceSynthesis, LoopInv, LoopShape, LoopRecord
<1>3. /\ conversation' \in Seq(LoopMessage) /\ Sendable(conversation')
      /\ loop.prefix <= Len(conversation')
      /\ Alike(conversation', messages, loop.prefix)
  BY NudgedSendable DEF ForceSynthesis
<1>4. LoopShape'
  <2>1. loop' \in LoopRecord(loop'.estimated)
    BY <1>1, <1>2 DEF LoopInv, LoopShape, LoopRecord, LoopPhase
  <2> QED
    BY <1>2, <1>3, <2>1 DEF LoopInv, LoopShape, LoopRecord
<1>5. RoundsSound' /\ CostSound'
  BY <1>2 DEF LoopInv, RoundsSound, CostSound
<1>6. BlocksSound'
  BY <1>2, <1>3 DEF LoopInv, BlocksSound
<1> QED
  BY <1>4, <1>5, <1>6 DEF LoopInv

LEMMA Checked == LoopInv /\ Check => LoopInv'
<1> SUFFICES ASSUME LoopInv, Check PROVE LoopInv'
  OBVIOUS
<1>1. /\ loop.phase = "check" /\ loop.iteration \in Nat
      /\ loop.rounds \in Seq(Nat)
  BY ShapeTypes DEF LoopInv, Check
<1>2. /\ Len(loop.rounds) = loop.iteration - 1
      /\ loop.iteration <= MaxIterations + 1 /\ Len(loop.rounds) \in Nat
  BY <1>1 DEF LoopInv, RoundsSound
<1>3. CASE CapReached /\ ForceSynthesis("iteration_cap", MaxIterations)
  <2>1. MaxIterations = Len(loop.rounds)
    BY <1>1, <1>2, <1>3, ConstantsTyped DEF CapReached
  <2> QED
    BY <1>1, <1>2, <1>3, <2>1, ConstantsTyped, SynthesisForced DEF Reason
<1>4. CASE /\ ~CapReached
           /\ \E why \in Reason : ForceSynthesis(why, loop.iteration - 1)
  <2>1. loop.iteration - 1 \in Nat /\ loop.iteration - 1 <= MaxIterations
    BY <1>1, <1>2, ConstantsTyped
  <2> QED
    BY <1>1, <1>2, <1>4, <2>1, SynthesisForced
<1> QED
  BY <1>3, <1>4 DEF Check, Reason

LEMMA Shipped == LoopInv /\ Ship => LoopInv'
<1> SUFFICES ASSUME LoopInv, Ship PROVE LoopInv'
  OBVIOUS
<1> DEFINE e == loop.estimated + Estimated(conversation)
<1>1. /\ loop.phase = "check"
      /\ loop' = [loop EXCEPT !.phase = "sent", !.estimated = e]
      /\ UNCHANGED <<history, messages, conversation>>
  BY DEF Ship
<1> HIDE DEF e
<1>2. /\ loop'.phase = "sent" /\ loop'.iteration = loop.iteration
      /\ loop'.prefix = loop.prefix /\ loop'.measured = loop.measured
      /\ loop'.rounds = loop.rounds
  BY <1>1 DEF LoopInv, LoopShape, LoopRecord
<1>3. LoopShape'
  BY <1>1 DEF LoopInv, LoopShape, LoopRecord, LoopPhase
<1>4. RoundsSound'
  <2>1. loop.iteration <= MaxIterations
    BY ShapeTypes, ConstantsTyped DEF Ship, CapReached, LoopInv
  <2> QED
    BY <1>1, <1>2, <2>1 DEF LoopInv, RoundsSound
<1>5. CostSound'
  <2>1. WalletCeiling > 0 => loop.measured < WalletCeiling
    BY ShapeTypes, ConstantsTyped DEF Ship, WalletTrips, LoopInv
  <2> QED
    BY <1>1, <1>2, <2>1 DEF LoopInv, CostSound
<1>6. BlocksSound'
  BY <1>1, <1>2 DEF LoopInv, BlocksSound
<1> QED
  BY <1>3, <1>4, <1>5, <1>6 DEF LoopInv

\* The answer to what was sent is in the conversation.
LEMMA AnswerAppended ==
  ASSUME LoopInv, loop.phase \in {"sent", "synthesis"},
         NEW n \in Sizes, NEW B \in SUBSET BlockId,
         NEW c, c = Append(conversation, Answer(B, n))
  PROVE  /\ c \in Seq(LoopMessage) /\ c # <<>> /\ Paired(c) /\ Asks(c, B)
         /\ loop.prefix <= Len(c) /\ Alike(c, messages, loop.prefix)
<1>1. /\ conversation \in Seq(LoopMessage) /\ loop.prefix \in Nat
      /\ Sendable(conversation) /\ loop.prefix <= Len(conversation)
      /\ Alike(conversation, messages, loop.prefix)
  BY ShapeTypes DEF LoopInv, BlocksSound
<1>2. /\ Answer(B, n) \in LoopMessage /\ Answer(B, n).role = "assistant"
      /\ Answer(B, n).uses = B /\ Answer(B, n).results = {}
  BY NewMessages DEF Answer
<1>3. /\ c \in Seq(LoopMessage) /\ c # <<>> /\ Paired(c)
      /\ Len(c) = Len(conversation) + 1 /\ c[Len(conversation) + 1] = Answer(B, n)
      /\ \A i \in 1 .. Len(conversation) : c[i] = conversation[i]
  <2>1. /\ conversation # <<>> /\ Paired(conversation)
        /\ Answer(B, n).role # conversation[Len(conversation)].role
        /\ Answer(B, n).results = conversation[Len(conversation)].uses
    BY <1>1, <1>2 DEF Sendable
  <2> QED
    BY <1>1, <1>2, <2>1, PairedAppend
<1>4. Asks(c, B)
  BY <1>2, <1>3 DEF Asks
<1>5. Alike(c, messages, loop.prefix)
  BY <1>1, <1>3 DEF Alike
<1> QED
  BY <1>1, <1>3, <1>4, <1>5

\* What a turn stores is paired and asks for nothing.
LEMMA Returned ==
  ASSUME LoopInv, loop.phase # "idle",
         NEW c \in Seq(LoopMessage), c # <<>>, Paired(c), Asks(c, {}),
         loop.prefix <= Len(c), Alike(c, messages, loop.prefix), Return(c)
  PROVE  /\ messages' \in Seq(LoopMessage) /\ history' = messages'
         /\ Paired(history') /\ Asks(history', {})
<1>1. LoopShape /\ loop.prefix = Len(messages)
  BY DEF LoopInv, BlocksSound
<1>2. /\ Spliced(c) \in Seq(LoopMessage) /\ Len(Spliced(c)) = Len(c)
      /\ Alike(Spliced(c), c, Len(c))
  BY <1>1, SplicedAlike
<1>3. Paired(Spliced(c))
  BY <1>2, PairedAlike
<1>4. Len(c) \in 1 .. Len(c)
  <2>1. Len(c) # 0
    OBVIOUS
  <2> QED
    BY <2>1
<1>5. Asks(Spliced(c), {})
  BY <1>2, <1>4 DEF Asks, Alike
<1> QED
  BY <1>2, <1>3, <1>5 DEF Return

\* The counters after one more answer, in the loop or without tools.
LEMMA RequestCounted ==
  ASSUME LoopInv, NEW usage \in 0 .. MaxRequest, NEW n \in Nat,
         n = Len(loop.rounds) + 1, n <= MaxIterations + 1,
         loop.phase \in {"sent", "synthesis"},
         loop'.measured = loop.measured + usage,
         loop'.rounds = Append(loop.rounds, n),
         loop'.phase \in {"idle", "tools"},
         loop'.phase = "tools" => /\ loop'.iteration = n /\ n <= MaxIterations
                                  /\ loop.phase = "sent"
  PROVE  RoundsSound' /\ CostSound'
<1>1. /\ loop.rounds \in Seq(Nat) /\ Consecutive(loop.rounds)
      /\ loop.measured \in Nat /\ Len(loop.rounds) \in Nat
      /\ loop.measured <= MaxRequest * Len(loop.rounds)
  BY ShapeTypes DEF LoopInv, RoundsSound, CostSound
<1>2. /\ Append(loop.rounds, n) \in Seq(Nat)
      /\ Len(Append(loop.rounds, n)) = n
      /\ Consecutive(Append(loop.rounds, n))
  BY <1>1, RoundAppended
<1>3. RoundsSound'
  BY <1>2 DEF RoundsSound
<1>4. loop'.measured <= MaxRequest * Len(loop'.rounds)
  BY <1>1, <1>2, CostAppended
<1>5. WalletCeiling > 0 =>
        /\ loop.phase = "sent" => loop.measured < WalletCeiling
        /\ loop.phase = "synthesis" => loop.measured < WalletCeiling + MaxRequest
  BY DEF LoopInv, CostSound
<1>6. CostSound'
  BY <1>1, <1>4, <1>5, ConstantsTyped DEF CostSound
<1> QED
  BY <1>3, <1>6

LEMMA Responded == LoopInv /\ Respond => LoopInv'
<1> SUFFICES ASSUME LoopInv, Respond PROVE LoopInv'
  OBVIOUS
<1> DEFINE at == Len(conversation) + 1
<1>1. PICK k \in 0 .. MaxUses, n \in Sizes, usage \in 0 .. MaxRequest :
        LET asked == [j \in 1 .. k |-> <<at, j>>]
            c == Append(conversation, Answer({asked[j] : j \in 1 .. k}, n))
        IN /\ conversation' = c
           /\ loop' = [loop EXCEPT
                !.phase = IF k = 0 THEN "idle" ELSE "tools",
                !.measured = @ + usage,
                !.rounds = Append(@, loop.iteration),
                !.reason = IF k = 0 THEN "end_turn" ELSE @,
                !.pending = asked, !.done = {}]
           /\ IF k = 0 THEN Return(c) ELSE UNCHANGED <<history, messages>>
  BY DEF Respond
<1> DEFINE asked == [j \in 1 .. k |-> <<at, j>>]
           B == {asked[j] : j \in 1 .. k}
           c == Append(conversation, Answer(B, n))
<1>2. /\ loop.phase = "sent" /\ loop.iteration \in Nat
      /\ conversation \in Seq(LoopMessage) /\ loop.rounds \in Seq(Nat)
      /\ loop.measured \in Nat /\ loop.phase # "idle"
  BY ShapeTypes DEF LoopInv, Respond
<1>3. k \in Nat /\ asked \in Seq(BlockId) /\ B \in SUBSET BlockId
      /\ DOMAIN asked = 1 .. k /\ usage \in Nat
  <2>1. k \in Nat /\ at \in Nat /\ usage \in Nat
    BY <1>2, LoopAssumption
  <2>2. \A j \in 1 .. k : <<at, j>> \in BlockId
    BY <2>1 DEF BlockId
  <2>3. asked \in [1 .. k -> BlockId]
    BY <2>2
  <2> QED
    BY <2>1, <2>3
<1>4. /\ conversation' = c
      /\ loop' = [loop EXCEPT !.phase = IF k = 0 THEN "idle" ELSE "tools",
                              !.measured = @ + usage,
                              !.rounds = Append(@, loop.iteration),
                              !.reason = IF k = 0 THEN "end_turn" ELSE @,
                              !.pending = asked, !.done = {}]
      /\ IF k = 0 THEN Return(c) ELSE UNCHANGED <<history, messages>>
  BY <1>1
<1> HIDE DEF asked, at
<1>5. /\ c \in Seq(LoopMessage) /\ c # <<>> /\ Paired(c) /\ Asks(c, B)
      /\ loop.prefix <= Len(c) /\ Alike(c, messages, loop.prefix)
  BY <1>2, <1>3, AnswerAppended
<1> HIDE DEF c
<1>6. /\ loop'.phase = IF k = 0 THEN "idle" ELSE "tools"
      /\ loop'.iteration = loop.iteration /\ loop'.prefix = loop.prefix
      /\ loop'.measured = loop.measured + usage
      /\ loop'.rounds = Append(loop.rounds, loop.iteration)
      /\ loop'.pending = asked /\ loop'.done = {}
      /\ loop'.estimated = loop.estimated
  BY <1>4 DEF LoopInv, LoopShape, LoopRecord
<1>7. RoundsSound' /\ CostSound'
  <2>1. loop.iteration = Len(loop.rounds) + 1 /\ loop.iteration <= MaxIterations
    BY <1>2 DEF LoopInv, RoundsSound
  <2> QED
    BY <1>2, <1>6, <2>1, ConstantsTyped, RequestCounted
<1>10. /\ Append(loop.rounds, loop.iteration) \in Seq(Nat)
       /\ loop.measured + usage \in Nat
  BY <1>2, <1>3
<1>8. CASE k = 0
  <2>1. B = {} /\ Return(c)
    BY <1>3, <1>4, <1>8
  <2>2. /\ messages' \in Seq(LoopMessage) /\ history' = messages'
        /\ Paired(history') /\ Asks(history', {})
    BY <1>2, <1>5, <2>1, Returned
  <2>3. LoopShape'
    <3>1. loop' \in LoopRecord(loop.estimated)
      BY <1>2, <1>3, <1>4, <1>8, <1>10
         DEF LoopInv, LoopShape, LoopRecord, LoopPhase, Reason
    <3> QED
      BY <1>4, <1>5, <1>6, <2>2, <3>1 DEF LoopShape
  <2>4. BlocksSound'
    BY <1>6, <1>8, <2>2 DEF BlocksSound
  <2> QED
    BY <1>7, <2>3, <2>4 DEF LoopInv
<1>9. CASE k # 0
  <2>1. UNCHANGED <<history, messages>>
    BY <1>4, <1>9
  <2>2. LoopShape'
    <3>1. loop' \in LoopRecord(loop.estimated)
      BY <1>2, <1>3, <1>4, <1>9, <1>10
         DEF LoopInv, LoopShape, LoopRecord, LoopPhase, Reason
    <3> QED
      BY <1>4, <1>5, <1>6, <2>1, <3>1 DEF LoopInv, LoopShape
  <2>3. B = loop'.done \cup {loop'.pending[j] : j \in DOMAIN loop'.pending}
    BY <1>3, <1>6
  <2>4. loop'.phase = "tools" /\ loop.prefix = Len(messages)
    BY <1>2, <1>6, <1>9 DEF LoopInv, BlocksSound
  <2>5. BlocksSound'
    <3> HIDE DEF B
    <3> QED
      BY <1>4, <1>5, <1>6, <2>1, <2>3, <2>4 DEF LoopInv, BlocksSound
  <2> QED
    BY <1>7, <2>2, <2>5 DEF LoopInv
<1> QED
  BY <1>8, <1>9

LEMMA HandlerRan == LoopInv /\ RunOneHandler => LoopInv'
<1> SUFFICES ASSUME LoopInv, RunOneHandler PROVE LoopInv'
  OBVIOUS
<1>1. /\ loop.phase = "tools" /\ loop.pending # <<>>
      /\ loop' = [loop EXCEPT !.pending = Tail(@),
                              !.done = @ \cup {Head(loop.pending)}]
      /\ UNCHANGED <<history, messages, conversation>>
  BY DEF RunOneHandler, ResultBlock
<1>2. loop.pending \in Seq(BlockId) /\ loop.done \in SUBSET BlockId
  BY ShapeTypes DEF LoopInv
<1>3. /\ Tail(loop.pending) \in Seq(BlockId) /\ Head(loop.pending) \in BlockId
      /\ {loop.pending[j] : j \in DOMAIN loop.pending}
           = {Head(loop.pending)}
             \cup {Tail(loop.pending)[j] : j \in DOMAIN Tail(loop.pending)}
  <2> DEFINE s == loop.pending
  <2>1. /\ s \in Seq(BlockId) /\ Len(s) \in Nat /\ Len(s) >= 1
        /\ Tail(s) \in Seq(BlockId) /\ Len(Tail(s)) = Len(s) - 1
        /\ \A j \in 1 .. Len(s) - 1 : Tail(s)[j] = s[j + 1]
        /\ Head(s) = s[1] /\ s[1] \in BlockId
    BY <1>1, <1>2
  <2>2. DOMAIN s = 1 .. Len(s) /\ DOMAIN Tail(s) = 1 .. Len(s) - 1
    BY <2>1
  <2> HIDE DEF s
  <2>3. ASSUME NEW j \in 1 .. Len(s), j # 1
        PROVE  j - 1 \in 1 .. Len(s) - 1 /\ s[j] = Tail(s)[j - 1]
    <3>1. j - 1 \in 1 .. Len(s) - 1 /\ (j - 1) + 1 = j
      BY <2>1, <2>3
    <3> QED
      BY <2>1, <3>1
  <2>4. {s[j] : j \in 1 .. Len(s)} \subseteq
          {s[1]} \cup {Tail(s)[j] : j \in 1 .. Len(s) - 1}
    BY <2>3
  <2>5. \A j \in 1 .. Len(s) - 1 : j + 1 \in 1 .. Len(s) /\ Tail(s)[j] = s[j + 1]
    BY <2>1
  <2>6. {s[1]} \cup {Tail(s)[j] : j \in 1 .. Len(s) - 1} \subseteq
          {s[j] : j \in 1 .. Len(s)}
    <3>1. 1 \in 1 .. Len(s)
      BY <2>1
    <3> QED
      BY <2>5, <3>1
  <2> QED
    BY <2>1, <2>2, <2>4, <2>6 DEF s
<1>4. /\ loop'.phase = "tools" /\ loop'.iteration = loop.iteration
      /\ loop'.prefix = loop.prefix /\ loop'.measured = loop.measured
      /\ loop'.rounds = loop.rounds /\ loop'.estimated = loop.estimated
      /\ loop'.pending = Tail(loop.pending)
      /\ loop'.done = loop.done \cup {Head(loop.pending)}
  BY <1>1 DEF LoopInv, LoopShape, LoopRecord
<1>5. LoopShape'
  BY <1>1, <1>2, <1>3 DEF LoopInv, LoopShape, LoopRecord
<1>6. RoundsSound' /\ CostSound'
  BY <1>1, <1>4 DEF LoopInv, RoundsSound, CostSound
<1>7. loop'.done \cup {loop'.pending[j] : j \in DOMAIN loop'.pending}
        = loop.done \cup {loop.pending[j] : j \in DOMAIN loop.pending}
  BY <1>3, <1>4
<1>8. BlocksSound'
  BY <1>1, <1>4, <1>7 DEF LoopInv, BlocksSound
<1> QED
  BY <1>5, <1>6, <1>8 DEF LoopInv

LEMMA ResultsAppended == LoopInv /\ AppendResults => LoopInv'
<1> SUFFICES ASSUME LoopInv, AppendResults PROVE LoopInv'
  OBVIOUS
<1>1. PICK n \in Sizes :
        conversation' = Append(conversation, Results(loop.done, n))
  BY DEF AppendResults
<1>2. /\ loop.phase = "tools" /\ loop.pending = <<>>
      /\ loop' = [loop EXCEPT !.phase = "check", !.iteration = @ + 1]
      /\ UNCHANGED <<history, messages>>
  BY DEF AppendResults
<1>3. /\ conversation \in Seq(LoopMessage) /\ loop.done \in SUBSET BlockId
      /\ loop.iteration \in Nat /\ loop.prefix \in Nat
      /\ loop.prefix = Len(messages) /\ loop.prefix <= Len(conversation)
      /\ Alike(conversation, messages, loop.prefix)
      /\ conversation # <<>> /\ Paired(conversation)
      /\ Asks(conversation, loop.done)
  <2>1. {loop.pending[j] : j \in DOMAIN loop.pending} = {}
    BY <1>2
  <2>2. loop.done \cup {loop.pending[j] : j \in DOMAIN loop.pending} = loop.done
    BY <2>1
  <2> QED
    BY <1>2, <2>2, ShapeTypes DEF LoopInv, BlocksSound
<1> DEFINE m == Results(loop.done, n)
<1>4. /\ m \in LoopMessage /\ m.role = "user" /\ m.uses = {}
      /\ m.results = loop.done
  BY <1>3, NewMessages DEF Results
<1> HIDE DEF m
<1>5. /\ conversation' \in Seq(LoopMessage) /\ conversation' # <<>>
      /\ Paired(conversation')
      /\ Len(conversation') = Len(conversation) + 1
      /\ conversation'[Len(conversation) + 1] = m
      /\ \A i \in 1 .. Len(conversation) : conversation'[i] = conversation[i]
  <2>1. m.role # conversation[Len(conversation)].role
        /\ m.results = conversation[Len(conversation)].uses
    BY <1>3, <1>4 DEF Asks
  <2>2. conversation' = Append(conversation, m)
    BY <1>1 DEF m
  <2> QED
    BY <1>3, <1>4, <2>1, <2>2, PairedAppend
<1>6. Sendable(conversation') /\ Alike(conversation', messages, loop.prefix)
  BY <1>3, <1>4, <1>5 DEF Sendable, Alike
<1>7. /\ loop'.phase = "check" /\ loop'.iteration = loop.iteration + 1
      /\ loop'.prefix = loop.prefix /\ loop'.measured = loop.measured
      /\ loop'.rounds = loop.rounds /\ loop'.estimated = loop.estimated
  BY <1>2 DEF LoopInv, LoopShape, LoopRecord
<1>8. LoopShape'
  <2>1. loop' \in LoopRecord(loop.estimated)
    <3>1. loop \in LoopRecord(loop.estimated) /\ loop.iteration + 1 \in Nat
      BY <1>3 DEF LoopInv, LoopShape
    <3>2. "check" \in LoopPhase
      BY DEF LoopPhase
    <3> QED
      BY <1>2, <3>1, <3>2 DEF LoopRecord
  <2> QED
    BY <1>2, <1>5, <1>7, <2>1 DEF LoopInv, LoopShape
<1>9. RoundsSound' /\ CostSound'
  BY <1>2, <1>3, <1>7, ConstantsTyped DEF LoopInv, RoundsSound, CostSound
<1>10. BlocksSound'
  BY <1>2, <1>3, <1>5, <1>6, <1>7 DEF LoopInv, BlocksSound
<1> QED
  BY <1>8, <1>9, <1>10 DEF LoopInv

LEMMA SynthesisDone == LoopInv /\ Synthesised => LoopInv'
<1> SUFFICES ASSUME LoopInv, Synthesised PROVE LoopInv'
  OBVIOUS
<1>1. PICK n \in Sizes, usage \in 0 .. MaxRequest :
        LET c == Append(conversation, Answer({}, n))
        IN /\ conversation' = c
           /\ loop' = [loop EXCEPT !.phase = "idle", !.measured = @ + usage,
                                   !.rounds = Append(@, loop.iteration + 1)]
           /\ Return(c)
  BY DEF Synthesised
<1> DEFINE c == Append(conversation, Answer({}, n))
<1>2. /\ loop.phase = "synthesis" /\ loop.iteration \in Nat
      /\ loop.rounds \in Seq(Nat) /\ loop.measured \in Nat /\ usage \in Nat
  BY ShapeTypes, ConstantsTyped DEF LoopInv, Synthesised
<1>3. /\ conversation' = c
      /\ loop' = [loop EXCEPT !.phase = "idle", !.measured = @ + usage,
                              !.rounds = Append(@, loop.iteration + 1)]
      /\ Return(c)
  BY <1>1
<1>4. /\ c \in Seq(LoopMessage) /\ c # <<>> /\ Paired(c) /\ Asks(c, {})
      /\ loop.prefix <= Len(c) /\ Alike(c, messages, loop.prefix)
  BY <1>2, AnswerAppended
<1> HIDE DEF c
<1>5. /\ messages' \in Seq(LoopMessage) /\ history' = messages'
      /\ Paired(history') /\ Asks(history', {})
  BY <1>2, <1>3, <1>4, Returned
<1>6. /\ loop'.phase = "idle" /\ loop'.measured = loop.measured + usage
      /\ loop'.rounds = Append(loop.rounds, loop.iteration + 1)
      /\ loop'.estimated = loop.estimated
  BY <1>3 DEF LoopInv, LoopShape, LoopRecord
<1>7. LoopShape'
  <2>1. /\ Append(loop.rounds, loop.iteration + 1) \in Seq(Nat)
        /\ loop.measured + usage \in Nat
    BY <1>2
  <2>2. loop' \in LoopRecord(loop.estimated)
    BY <1>2, <1>3, <2>1 DEF LoopInv, LoopShape, LoopRecord, LoopPhase
  <2> QED
    BY <1>3, <1>4, <1>5, <1>6, <2>2 DEF LoopShape
<1>8. RoundsSound' /\ CostSound'
  <2>1. /\ loop.iteration + 1 = Len(loop.rounds) + 1
        /\ loop.iteration + 1 <= MaxIterations + 1
    BY <1>2, ConstantsTyped DEF LoopInv, RoundsSound
  <2> QED
    BY <1>2, <1>6, <2>1, RequestCounted
<1>9. BlocksSound'
  BY <1>5, <1>6 DEF BlocksSound
<1> QED
  BY <1>7, <1>8, <1>9 DEF LoopInv

LEMMA Raised == LoopInv /\ TurnRaises => LoopInv'
<1> SUFFICES ASSUME LoopInv, TurnRaises PROVE LoopInv'
  OBVIOUS
<1>1. /\ loop' = [loop EXCEPT !.phase = "idle", !.pending = <<>>, !.done = {}]
      /\ messages' = history /\ conversation' = history /\ history' = history
  BY DEF TurnRaises
<1>2. /\ loop'.phase = "idle" /\ loop'.measured = loop.measured
      /\ loop'.rounds = loop.rounds /\ loop'.estimated = loop.estimated
  BY <1>1 DEF LoopInv, LoopShape, LoopRecord
<1>3. LoopShape'
  <2>1. loop' \in LoopRecord(loop.estimated)
    <3>1. loop \in LoopRecord(loop.estimated)
      BY DEF LoopInv, LoopShape
    <3>2. "idle" \in LoopPhase /\ <<>> \in Seq(BlockId)
      BY DEF LoopPhase
    <3> QED
      BY <1>1, <3>1, <3>2 DEF LoopRecord
  <2> QED
    BY <1>1, <1>2, <2>1 DEF LoopInv, LoopShape
<1>4. RoundsSound' /\ CostSound'
  BY <1>2 DEF LoopInv, RoundsSound, CostSound
<1>5. BlocksSound'
  BY <1>1, <1>2 DEF LoopInv, BlocksSound
<1> QED
  BY <1>3, <1>4, <1>5 DEF LoopInv

-----------------------------------------------------------------------------
\* The inductive invariant of the loop.
THEOREM LoopInvariance == LoopSpec => []LoopInv
<1>1. LoopInit => LoopInv
  <2> SUFFICES ASSUME LoopInit PROVE LoopInv
    OBVIOUS
  <2>1. LoopShape
    BY DEF LoopInit, NoTurn, LoopShape, LoopRecord, LoopPhase, Reason
  <2>2. RoundsSound /\ CostSound
    BY ConstantsTyped
       DEF LoopInit, NoTurn, RoundsSound, CostSound, Consecutive
  <2>3. BlocksSound
    BY DEF LoopInit, NoTurn, BlocksSound, Paired
  <2> QED
    BY <2>1, <2>2, <2>3 DEF LoopInv
<1>2. LoopInv /\ [LoopNext]_loopVars => LoopInv'
  <2> SUFFICES ASSUME LoopInv, [LoopNext]_loopVars PROVE LoopInv'
    OBVIOUS
  <2>1. CASE UNCHANGED loopVars
    BY <2>1 DEF loopVars, LoopInv, LoopShape, LoopRecord, RoundsSound, CostSound,
       BlocksSound, Alike, Asks, Sendable, Paired, Consecutive
  <2> QED
    BY <2>1, TurnStarted, Checked, Shipped, Responded, HandlerRan,
       ResultsAppended, SynthesisDone, Raised DEF LoopNext, TurnStep
<1> QED
  BY <1>1, <1>2, PTL DEF LoopSpec

\* A turn sends at most one request more than its iterations, each recorded
\* under its number, and burns less than the wallet's ceiling and two requests,
\* for any limits.
THEOREM TurnCost == LoopSpec => []TurnCostBounded
<1>1. LoopInv => TurnCostBounded
  BY DEF LoopInv, RoundsSound, CostSound, TurnCostBounded
<1> QED
  BY <1>1, LoopInvariance, PTL

\* Whatever tools fail, breakers trip and history is compacted, what is sent
\* and what is stored pairs every tool_use with its result.
THEOREM BlocksPaired == LoopSpec => []ToolBlocksPaired
<1>1. LoopInv => ToolBlocksPaired
  BY DEF LoopInv, BlocksSound, Sendable, Alike, Asks, ToolBlocksPaired
<1> QED
  BY <1>1, LoopInvariance, PTL


-----------------------------------------------------------------------------
(* The estimate.                                                             *)

Some(s) == CHOOSE x \in s : TRUE

\* f sums the sizes of every set of places in S, one place after the other.
SumRule(c, f, S) ==
    f = [s \in SUBSET S |-> IF s = {} THEN 0
                            ELSE c[Some(s)].size + f[s \ {Some(s)}]]

LEMMA EstimatedSums ==
  ASSUME NEW c
  PROVE  Estimated(c) = (CHOOSE f : SumRule(c, f, DOMAIN c))[DOMAIN c]
  BY DEF Estimated, MapThenSumSet, MapThenFoldSet, SumRule, Some

\* A property of some set is a property of a smallest one.
LEMMA Smallest ==
  ASSUME NEW S, IsFiniteSet(S), NEW bad \in SUBSET SUBSET S, bad # {}
  PROVE  \E X \in bad : \A Y \in SUBSET X : Y # X => Y \notin bad
<1>1. IsWellFoundedOn(StrictSubsetOrdering(S), SUBSET S)
  BY FS_StrictSubsetOrderingWellFounded, FS_FiniteSubsetsOfFinite
<1>2. PICK X \in bad : \A Y \in bad : <<Y, X>> \notin StrictSubsetOrdering(S)
  BY <1>1, WFMin
<1>3. ASSUME NEW Y \in SUBSET X, Y # X, Y \in bad PROVE FALSE
  <2>1. <<Y, X>> \in StrictSubsetOrdering(S)
    BY <1>3 DEF StrictSubsetOrdering
  <2> QED
    BY <1>2, <1>3, <2>1
<1> QED
  BY <1>3

LEMMA SumUnfolds ==
  ASSUME NEW c, NEW S, NEW f, SumRule(c, f, S)
  PROVE  /\ f[{}] = 0
         /\ \A s \in SUBSET S : s # {} =>
              /\ f[s] = c[Some(s)].size + f[s \ {Some(s)}]
              /\ Some(s) \in s
              /\ s \ {Some(s)} \in SUBSET s /\ s \ {Some(s)} # s
<1>1. \A s \in SUBSET S :
         f[s] = IF s = {} THEN 0 ELSE c[Some(s)].size + f[s \ {Some(s)}]
  <2>1. f = [t \in SUBSET S |-> IF t = {} THEN 0
                                ELSE c[Some(t)].size + f[t \ {Some(t)}]]
    BY DEF SumRule
  <2> QED
    BY <2>1
<1>2. \A s \in SUBSET S : s # {} => Some(s) \in s
  BY DEF Some
<1> QED
  BY <1>1, <1>2

LEMMA SumUnique ==
  ASSUME NEW c, NEW S, IsFiniteSet(S), NEW T \in SUBSET S, NEW f, NEW g,
         SumRule(c, f, S), SumRule(c, g, T), NEW s \in SUBSET T
  PROVE  f[s] = g[s]
<1> DEFINE bad == {t \in SUBSET T : f[t] # g[t]}
<1> SUFFICES ASSUME bad # {} PROVE FALSE
  OBVIOUS
<1>1. IsFiniteSet(T)
  BY FS_Subset
<1>2. PICK X \in bad : \A Y \in SUBSET X : Y # X => Y \notin bad
  <2>1. bad \in SUBSET SUBSET T
    OBVIOUS
  <2> HIDE DEF bad
  <2> QED
    BY <1>1, <2>1, Smallest
<1>3. X \in SUBSET T /\ X \in SUBSET S /\ f[X] # g[X]
  OBVIOUS
<1>4. CASE X = {}
  <2>1. f[X] = 0
    BY <1>3, <1>4, SumUnfolds
  <2>2. g[X] = 0
    BY <1>3, <1>4, SumUnfolds
  <2> QED
    BY <1>3, <2>1, <2>2
<1>5. CASE X # {}
  <2> DEFINE Y == X \ {Some(X)}
  <2>1. /\ f[X] = c[Some(X)].size + f[Y] /\ g[X] = c[Some(X)].size + g[Y]
        /\ Y \in SUBSET X /\ Y # X
    BY <1>3, <1>5, SumUnfolds
  <2>2. Y \notin bad
    BY <1>2, <2>1
  <2>3. f[Y] = g[Y]
    BY <1>3, <2>1, <2>2
  <2> QED
    BY <1>3, <2>1, <2>3
<1> QED
  BY <1>4, <1>5

LEMMA SumExists ==
  ASSUME NEW c, NEW S, IsFiniteSet(S)
  PROVE  \E f : SumRule(c, f, S)
<1> DEFINE Sums(T) == \E f : SumRule(c, f, T)
           bad == {T \in SUBSET S : ~Sums(T)}
<1> SUFFICES ASSUME bad # {} PROVE FALSE
  OBVIOUS
<1>1. PICK T \in bad : \A U \in SUBSET T : U # T => U \notin bad
  <2>1. bad \in SUBSET SUBSET S
    OBVIOUS
  <2> HIDE DEF bad
  <2> QED
    BY <2>1, Smallest
<1> DEFINE H(U) == CHOOSE f : SumRule(c, f, U)
           h(U) == H(U)[U]
           g == [s \in SUBSET T |-> IF s = {} THEN 0
                                    ELSE c[Some(s)].size + h(s \ {Some(s)})]
<1>2. ASSUME NEW U \in SUBSET T, U # T
      PROVE  SumRule(c, H(U), U) /\ IsFiniteSet(U)
  <2>1. U \in SUBSET S /\ U \notin bad
    BY <1>1, <1>2
  <2>2. \E f : SumRule(c, f, U)
    BY <2>1
  <2> QED
    BY <2>1, <2>2, FS_Subset
<1>3. ASSUME NEW U \in SUBSET T, U # T PROVE g[U] = h(U)
  <2>1. SumRule(c, H(U), U) /\ IsFiniteSet(U)
    BY <1>2, <1>3
  <2> HIDE DEF H
  <2>2. CASE U = {}
    <3>1. H(U)[U] = 0
      BY <2>1, <2>2, SumUnfolds
    <3> QED
      BY <2>2, <3>1
  <2>3. CASE U # {}
    <3> DEFINE V == U \ {Some(U)}
    <3>1. H(U)[U] = c[Some(U)].size + H(U)[V] /\ V \in SUBSET U /\ V # U
      BY <2>1, <2>3, SumUnfolds
    <3>2. SumRule(c, H(V), V)
      BY <1>2, <1>3, <3>1
    <3>3. H(U)[V] = H(V)[V]
      BY <2>1, <3>1, <3>2, SumUnique
    <3>4. g[U] = c[Some(U)].size + H(V)[V]
      BY <2>3
    <3> QED
      BY <3>1, <3>3, <3>4
  <2> QED
    BY <2>2, <2>3
<1>4. ASSUME NEW s \in SUBSET T, s # {}
      PROVE  h(s \ {Some(s)}) = g[s \ {Some(s)}]
  <2>1. Some(s) \in s
    BY <1>4 DEF Some
  <2>2. s \ {Some(s)} \in SUBSET T /\ s \ {Some(s)} # T
    BY <2>1
  <2> HIDE DEF g, H, h
  <2> QED
    BY <1>3, <2>2
<1>5. SumRule(c, g, T)
  <2> DEFINE k == [s \in SUBSET T |-> IF s = {} THEN 0
                            ELSE c[Some(s)].size + g[s \ {Some(s)}]]
  <2>1. ASSUME NEW s \in SUBSET T PROVE g[s] = k[s]
    <3>1. g[s] = IF s = {} THEN 0 ELSE c[Some(s)].size + h(s \ {Some(s)})
      OBVIOUS
    <3>2. k[s] = IF s = {} THEN 0 ELSE c[Some(s)].size + g[s \ {Some(s)}]
      OBVIOUS
    <3> HIDE DEF g, h, H, k
    <3> QED
      BY <1>4, <3>1, <3>2
  <2>2. /\ g = [s \in SUBSET T |-> g[s]]
        /\ k = [s \in SUBSET T |-> k[s]]
    OBVIOUS
  <2>3. g = k
    <3> HIDE DEF g, k
    <3> QED
      BY <2>1, <2>2
  <2> HIDE DEF g
  <2> QED
    BY <2>3 DEF SumRule
<1> QED
  <2> HIDE DEF g
  <2> QED
    BY <1>5

\* The estimate of a conversation is a number.
LEMMA EstimatedNat ==
  ASSUME NEW c, IsFiniteSet(DOMAIN c), \A i \in DOMAIN c : c[i].size \in Nat
  PROVE  Estimated(c) \in Nat
<1> DEFINE S == DOMAIN c
           f == CHOOSE f : SumRule(c, f, S)
           bad == {s \in SUBSET S : f[s] \notin Nat}
<1>1. SumRule(c, f, S)
  BY SumExists
<1>2. Estimated(c) = f[S]
  BY EstimatedSums
<1> HIDE DEF f
<1> SUFFICES ASSUME bad # {} PROVE FALSE
  BY <1>2
<1>3. PICK X \in bad : \A Y \in SUBSET X : Y # X => Y \notin bad
  <2>1. bad \in SUBSET SUBSET S
    OBVIOUS
  <2> HIDE DEF bad
  <2> QED
    BY <2>1, Smallest
<1> HIDE DEF S
<1>4. CASE X = {}
  <2>1. f[X] = 0
    BY <1>1, <1>3, <1>4, SumUnfolds
  <2> QED
    BY <1>3, <2>1
<1>5. CASE X # {}
  <2> DEFINE Y == X \ {Some(X)}
  <2>1. /\ f[X] = c[Some(X)].size + f[Y] /\ Some(X) \in S
        /\ Y \in SUBSET X /\ Y # X
    <3>1. X \in SUBSET S
      BY <1>3
    <3> QED
      BY <1>1, <1>5, <3>1, SumUnfolds
  <2>2. f[Y] \in Nat
    BY <1>3, <2>1
  <2> QED
    BY <2>1, <2>2 DEF S
<1> QED
  BY <1>4, <1>5

\* The messages, the loop's position and its counters keep their types, the
\* sum of the estimates among them.
THEOREM LoopTypeCorrect == LoopSpec => []LoopTypeOK
<1> DEFINE Counted == loop.estimated \in Nat /\ turnsBegun \in 0 .. MaxTurns
<1>1. LoopInit => Counted
  BY LoopAssumption DEF LoopInit, NoTurn
<1>2. LoopInv /\ Counted /\ [LoopNext]_loopVars => Counted'
  <2> SUFFICES ASSUME LoopInv, Counted, [LoopNext]_loopVars PROVE Counted'
    OBVIOUS
  <2>1. loop \in LoopRecord(loop.estimated)
    BY DEF LoopInv, LoopShape
  <2>2. CASE StartTurn
    BY <2>2, LoopAssumption DEF StartTurn, NoTurn
  <2>3. CASE Ship
    <3>1. conversation \in Seq(LoopMessage)
      BY DEF LoopInv, LoopShape
    <3>2. DOMAIN conversation = 1 .. Len(conversation)
      BY <3>1
    <3>3. \A i \in DOMAIN conversation : conversation[i].size \in Nat
      <4>1. \A i \in DOMAIN conversation : conversation[i] \in LoopMessage
        BY <3>1
      <4>2. \A m \in LoopMessage : m.size \in Nat
        BY DEF LoopMessage
      <4> QED
        BY <4>1, <4>2
    <3>4. IsFiniteSet(DOMAIN conversation)
      BY <3>1, <3>2, FS_Interval
    <3>5. Estimated(conversation) \in Nat
      BY <3>3, <3>4, EstimatedNat
    <3>6. loop'.estimated = loop.estimated + Estimated(conversation)
      BY <2>1, <2>3 DEF Ship, LoopRecord
    <3> QED
      BY <2>3, <3>5, <3>6 DEF Ship
  <2>4. CASE Check \/ Respond \/ RunOneHandler \/ AppendResults \/ Synthesised
             \/ TurnRaises \/ UNCHANGED loopVars
    <3>1. loop'.estimated = loop.estimated
      <4>1. CASE Check
        BY <2>1, <4>1 DEF Check, ForceSynthesis, LoopRecord
      <4>2. CASE Respond
        BY <2>1, <4>2 DEF Respond, LoopRecord
      <4>3. CASE RunOneHandler
        BY <2>1, <4>3 DEF RunOneHandler, LoopRecord
      <4>4. CASE AppendResults
        BY <2>1, <4>4 DEF AppendResults, LoopRecord
      <4>5. CASE Synthesised
        BY <2>1, <4>5 DEF Synthesised, LoopRecord
      <4>6. CASE TurnRaises
        BY <2>1, <4>6 DEF TurnRaises, LoopRecord
      <4> QED
        BY <2>4, <4>1, <4>2, <4>3, <4>4, <4>5, <4>6 DEF loopVars
    <3>2. turnsBegun' = turnsBegun
      BY <2>4 DEF Check, ForceSynthesis, Respond, RunOneHandler,
                  AppendResults, Synthesised, TurnRaises, loopVars
    <3> QED
      BY <3>1, <3>2
  <2> QED
    BY <2>2, <2>3, <2>4 DEF LoopNext, TurnStep
<1>3. LoopInv /\ Counted => LoopTypeOK
  BY DEF LoopInv, LoopShape, LoopRecord, LoopState, LoopTypeOK
<1> QED
  BY <1>1, <1>2, <1>3, LoopInvariance, PTL DEF LoopSpec

=============================================================================
