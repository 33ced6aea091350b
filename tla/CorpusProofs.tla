---------------------------- MODULE CorpusProofs ----------------------------
(* Proofs about Corpus, for any documents, layers and operators.             *)
(*                                                                           *)
(* Only Commit and IngestDocument change rows.  The inductive invariant says *)
(* of each command what makes its writes safe to commit, that no command     *)
(* links to a document another is deleting, and, of one no other commit came *)
(* between, that its copies are what the rows still hold, that its links are *)
(* whole and, if it publishes, what of its effect is already written.        *)
EXTENDS Corpus, FiniteSetTheorems, WellFoundedInduction, TLAPS

Rest(c) == {c.todo[i] : i \in DOMAIN c.todo}

\* The ids whose siblings have been read.
Read(c) == {d \in c.asked : \/ d \notin Rest(c)
                            \/ c.phase \in {"flush", "relink"} /\ d = c.todo[1]}

Seen(c, l) == IF c.pins[l] # NoLayer THEN c.pins[l] ELSE links[l]

KindSound(c) ==
    /\ c.phase = "next" => c.kind \in {"enable", "link"}
    /\ c.phase = "relink" => c.kind = "enable"
    /\ c.phase = "flush" => c.kind \in {"enable", "disable"}
    /\ c.phase = "prune" => c.kind = "prune"
    /\ c.kind = "enable" /\ c.phase \in {"flush", "relink"} =>
         c.todo # <<>> /\ c.moves = {}
    /\ c.kind = "enable" => /\ Rest(c) \subseteq c.asked /\ c.on \subseteq c.asked
                            /\ c.off \cap c.asked = {} /\ c.phase # "commit"
                            /\ \A m \in c.moves : m.link # NoLayer
    /\ c.moves # {} => c.kind \in {"enable", "link"}
    /\ c.doomed # {} => c.kind = "prune" /\ c.phase = "commit"

\* One move for a layer, and a chosen link is whole and its citation single.
MovesSound(c) ==
    /\ \A m, n \in c.moves : m.layer = n.layer => m = n
    /\ \A m \in c.moves : m.link # NoLayer =>
         /\ Whole(m.link)
         /\ m.link.fragment # None => Matches[m.link.fragment][m.layer] = 1

PinsSound(c) == \A l \in Layer : LinkStored(c.pins[l], l)

\* c links to no document that e deletes, and to no fragment of one.
Apart(c, e) == \A l \in Layer : ~Names(c.pins[l], e.doomed)

\* What is linked to a document that c deletes is written by c.
DoomedCut(c) == \A l \in Layer :
                    Names(links[l], c.doomed) => c.pins[l] # NoLayer

\* What c loaded is still so, and what it wrote is whole.
AloneSound(c) ==
    c.alone =>
        /\ \A m \in c.moves : m.copy = Seen(c, m.layer)
        /\ \A l \in Layer :
             (c.kind = "prune" => Whole(links[l])) => Whole(c.pins[l])

PublishSound(c) ==
    c.kind = "enable" /\ c.alone =>
        /\ c.loaded = c.asked \cap Enabled
        /\ \A d \in Read(c) :
             /\ d \in c.on \cup c.loaded
             /\ c.replace => \A s \in Enabled \ c.asked :
                                Bylaw[s] = Bylaw[d] => s \in c.off
        /\ \A d \in c.asked \ Rest(c), l \in Layer :
             /\ Seen(c, l).document \in Document \ c.asked
             /\ \A m \in c.moves : m.layer # l
             => Bylaw[Seen(c, l).document] # Bylaw[d]
        /\ \A m \in c.moves : m.link.document \in c.asked

CommandSound(c) ==
    /\ KindSound(c) /\ MovesSound(c) /\ PinsSound(c) /\ DoomedCut(c)
    /\ AloneSound(c) /\ PublishSound(c)

CorpusInv ==
    /\ CorpusTypeOK
    /\ \A l \in Layer : LinkStored(links[l], l)
    /\ \A o \in Operator : CommandSound(commands[o])
    /\ \A o, p \in Operator : Apart(commands[o], commands[p])

-----------------------------------------------------------------------------
LEMMA Absent ==
  /\ NoLayer \notin Link /\ NoLayer.document = None /\ NoLayer.fragment = None
  /\ Unlinked \in Link /\ Unlinked # NoLayer
  /\ Unlinked.document = None /\ Unlinked.fragment = None
<1>1. NoLayer \notin Link
  <2>1. "absent" \in DOMAIN NoLayer
    BY DEF NoLayer
  <2>2. \A k \in Link : "absent" \notin DOMAIN k
    BY DEF Link
  <2> QED
    BY <2>1, <2>2
<1>2. Unlinked \in Link
  BY DEF Unlinked, Link
<1> QED
  BY <1>1, <1>2 DEF NoLayer, Unlinked

LEMMA NoCommandSound ==
  /\ NoCommand \in Command /\ CommandSound(NoCommand)
  /\ \A c \in Command : Apart(c, NoCommand)
  /\ \A c \in Command : None \notin c.doomed => Apart(NoCommand, c)
<1>1. NoCommand \in Command
  BY DEF NoCommand, Command, CommandKind, CommandPhase
<1>2. CommandSound(NoCommand)
  BY Absent DEF NoCommand, CommandSound, KindSound, MovesSound, PinsSound,
     DoomedCut, AloneSound, PublishSound, Rest, Names, LinkStored, Whole
<1>3. \A c \in Command : Apart(c, NoCommand)
  BY DEF Apart, NoCommand, Names
<1>4. \A c \in Command : None \notin c.doomed => Apart(NoCommand, c)
  BY Absent DEF Apart, NoCommand, Names
<1> QED
  BY <1>1, <1>2, <1>3, <1>4

LEMMA DocumentsTyped ==
  ASSUME CorpusInv
  PROVE  /\ documents \in [Document -> DocumentRow]
         /\ links \in [Layer -> Link \cup {NoLayer}]
         /\ commands \in [Operator -> Command]
         /\ commandsBegun \in 0 .. MaxCommands
         /\ Present \subseteq Document /\ Enabled \subseteq Present
         /\ None \notin Document
         /\ \A c \in Command : None \notin c.doomed
  BY CorpusAssumption DEF CorpusInv, CorpusTypeOK, Present, Enabled, Command

\* A step of one command that writes no row.
LEMMA CommandChanged ==
  ASSUME CorpusInv, NEW o \in Operator, NEW c \in Command,
         CommandSound(c), Apart(c, c),
         \A p \in Operator : p # o => /\ Apart(c, commands[p])
                                      /\ Apart(commands[p], c),
         commands' = [commands EXCEPT ![o] = c],
         documents' = documents, links' = links,
         commandsBegun' \in 0 .. MaxCommands
  PROVE  CorpusInv'
<1>1. \A p \in Operator : commands'[p] = IF p = o THEN c ELSE commands[p]
  BY DocumentsTyped
<1>2. CorpusTypeOK'
  BY DocumentsTyped DEF CorpusTypeOK
<1>3. Present' = Present /\ Enabled' = Enabled
  BY DEF Present, Enabled
<1>4. \A l \in Layer : LinkStored(links[l], l)'
  BY <1>3 DEF CorpusInv, LinkStored
<1>5. \A p \in Operator : CommandSound(commands[p])'
  <2> SUFFICES ASSUME NEW p \in Operator PROVE CommandSound(commands[p])'
    OBVIOUS
  <2> DEFINE q == commands'[p]
  <2>1. CommandSound(q)
    BY <1>1 DEF CorpusInv
  <2>2. KindSound(commands[p])' /\ MovesSound(commands[p])'
    BY <2>1 DEF CommandSound, KindSound, MovesSound, Rest, Whole
  <2>3. PinsSound(commands[p])'
    BY <2>1, <1>3 DEF CommandSound, PinsSound, LinkStored
  <2>4. DoomedCut(commands[p])'
    BY <2>1 DEF CommandSound, DoomedCut, Names
  <2>5. PublishSound(commands[p])'
    BY <2>1, <1>3 DEF CommandSound, PublishSound, Read, Rest, Seen
  <2>6. AloneSound(commands[p])'
    BY <2>1 DEF CommandSound, AloneSound, Seen, Whole
  <2> QED
    BY <2>2, <2>3, <2>4, <2>5, <2>6 DEF CommandSound
<1>6. \A p, q \in Operator : Apart(commands[p], commands[q])'
  BY <1>1 DEF CorpusInv, Apart, Names
<1> QED
  BY <1>2, <1>4, <1>5, <1>6 DEF CorpusInv

\* The same for one that has linked nothing yet and dooms nothing.
LEMMA CommandBegun ==
  ASSUME CorpusInv, NEW o \in Operator, NEW c \in Command,
         \A l \in Layer : c.pins[l] \in {NoLayer, Unlinked}, c.doomed = {},
         KindSound(c), MovesSound(c), PublishSound(c),
         \A m \in c.moves : m.copy = Seen(c, m.layer),
         Began(o, c)
  PROVE  CorpusInv'
<1>1. \A l \in Layer : c.pins[l].document = None /\ c.pins[l].fragment = None
  BY Absent
<1>2. CommandSound(c)
  BY <1>1 DEF CommandSound, PinsSound, DoomedCut, AloneSound, Names,
     LinkStored, Whole
<1>3. Apart(c, c) /\ \A p \in Operator : /\ Apart(c, commands[p])
                                         /\ Apart(commands[p], c)
  BY <1>1, DocumentsTyped DEF Apart, Names
<1>4. commandsBegun' \in 0 .. MaxCommands
  BY CorpusAssumption, DocumentsTyped DEF Began
<1> QED
  BY <1>2, <1>3, <1>4, CommandChanged DEF Began

LEMMA EnableBegun ==
  ASSUME CorpusInv, NEW o \in Operator, BeginEnable(o)
  PROVE  CorpusInv'
<1>1. PICK D \in Asked, replace \in BOOLEAN :
        \E ids \in [1 .. Cardinality(D) -> D] :
          /\ {ids[i] : i \in DOMAIN ids} = D
          /\ Began(o, [NoCommand EXCEPT
               !.kind = "enable", !.phase = "next", !.replace = replace,
               !.asked = D, !.todo = ids, !.loaded = D \cap Enabled])
  BY DEF BeginEnable
<1>2. PICK ids \in [1 .. Cardinality(D) -> D] :
        /\ {ids[i] : i \in DOMAIN ids} = D
        /\ Began(o, [NoCommand EXCEPT
             !.kind = "enable", !.phase = "next", !.replace = replace,
             !.asked = D, !.todo = ids, !.loaded = D \cap Enabled])
  BY <1>1
<1>3. D \subseteq Document /\ Enabled \subseteq Document
  BY DocumentsTyped DEF Asked
<1>4. ids \in Seq(Document)
  <2>1. IsFiniteSet(D)
    BY <1>3, CorpusAssumption, FS_Subset
  <2>2. Cardinality(D) \in Nat
    BY <2>1, FS_CardinalityType
  <2> QED
    BY <1>3, <2>2
<1> DEFINE c == [NoCommand EXCEPT
                  !.kind = "enable", !.phase = "next", !.replace = replace,
                  !.asked = D, !.todo = ids, !.loaded = D \cap Enabled]
<1>5. c \in Command
  <2>1. D \cap Enabled \in SUBSET Document
    BY <1>3
  <2> QED
    BY <1>3, <1>4, <2>1, NoCommandSound DEF Command, CommandKind, CommandPhase
<1>6. /\ c.kind = "enable" /\ c.phase = "next" /\ c.asked = D
      /\ c.todo = ids /\ c.loaded = D \cap Enabled /\ c.on = {} /\ c.off = {}
      /\ c.doomed = {} /\ c.moves = {} /\ c.pins = NoCommand.pins
  BY DEF NoCommand
<1>7. Began(o, c)
  BY <1>2
<1> HIDE DEF c
<1>8. Rest(c) = D
  BY <1>2, <1>6 DEF Rest
<1>9. KindSound(c) /\ MovesSound(c)
  BY <1>6, <1>8 DEF KindSound, MovesSound
<1>10. PublishSound(c)
  BY <1>6, <1>8 DEF PublishSound, Read
<1>11. \A l \in Layer : c.pins[l] = NoLayer
  BY <1>6 DEF NoCommand
<1> QED
  BY <1>5, <1>6, <1>7, <1>9, <1>10, <1>11, CommandBegun


\* The commands that publish nothing.
LEMMA OtherBegun ==
  ASSUME CorpusInv, NEW o \in Operator,
         BeginDisable(o) \/ BeginPrune(o)
  PROVE  CorpusInv'
<1>1. CASE BeginDisable(o)
  <2>1. PICK D \in Asked :
          Began(o, [NoCommand EXCEPT !.kind = "disable", !.phase = "flush",
                                     !.asked = D, !.off = D \cap Enabled])
    BY <1>1 DEF BeginDisable
  <2> DEFINE c == [NoCommand EXCEPT !.kind = "disable", !.phase = "flush",
                                    !.asked = D, !.off = D \cap Enabled]
  <2>2. D \subseteq Document /\ D \cap Enabled \subseteq Document
    BY DocumentsTyped DEF Asked
  <2>3. c \in Command
    BY <2>2, NoCommandSound DEF Command, CommandKind, CommandPhase
  <2>4. /\ \A l \in Layer : c.pins[l] = NoLayer
        /\ c.doomed = {} /\ KindSound(c) /\ PublishSound(c)
    BY DEF NoCommand, KindSound, PublishSound
  <2>5. c.moves = {} /\ MovesSound(c)
    BY DEF NoCommand, MovesSound
  <2> QED
    BY <2>1, <2>3, <2>4, <2>5, CommandBegun
<1>2. CASE BeginPrune(o)
  <2>1. PICK B \in {{Bylaw[d]} : d \in Document}
                   \cup {{Bylaw[d] : d \in Document}} :
          Began(o, [NoCommand EXCEPT !.kind = "prune", !.phase = "prune",
                                     !.asked = Prunable(B)])
    BY <1>2 DEF BeginPrune
  <2> DEFINE D == Prunable(B)
             c == [NoCommand EXCEPT !.kind = "prune", !.phase = "prune",
                                    !.asked = D]
  <2>2. D \subseteq Document
    BY DocumentsTyped DEF Prunable
  <2> HIDE DEF D
  <2>3. c \in Command
    BY <2>2, NoCommandSound DEF Command, CommandKind, CommandPhase
  <2>4. /\ \A l \in Layer : c.pins[l] = NoLayer
        /\ c.doomed = {} /\ KindSound(c) /\ PublishSound(c)
    BY DEF NoCommand, KindSound, PublishSound
  <2>5. c.moves = {} /\ MovesSound(c)
    BY DEF NoCommand, MovesSound
  <2> QED
    BY <2>1, <2>3, <2>4, <2>5, CommandBegun DEF D
<1> QED
  BY <1>1, <1>2

\* The commands that link: an inserted row is as the session left it, and the
\* rows that relink-datasets loads are the committed ones.
LEMMA LinkBegun ==
  ASSUME CorpusInv, NEW o \in Operator,
         IngestDataset(o) \/ RelinkDatasets(o)
  PROVE  CorpusInv'
<1>1. CASE IngestDataset(o)
  <2>1. PICK l \in Layer :
          Began(o, [NoCommand EXCEPT
            !.kind = "link", !.phase = "next", !.pins[l] = Unlinked,
            !.moves = {[layer |-> l, copy |-> Unlinked, link |-> NoLayer]}])
    BY <1>1 DEF IngestDataset
  <2> DEFINE m == [layer |-> l, copy |-> Unlinked, link |-> NoLayer]
             c == [NoCommand EXCEPT
                     !.kind = "link", !.phase = "next", !.pins[l] = Unlinked,
                     !.moves = {m}]
  <2>2. m \in Move /\ m.layer = l /\ m.copy = Unlinked /\ m.link = NoLayer
    BY Absent DEF Move
  <2>3. Began(o, c)
    BY <2>1
  <2> HIDE DEF m
  <2>4. c \in Command
    BY <2>2, Absent, NoCommandSound DEF Command, CommandKind, CommandPhase
  <2>5. /\ c.kind = "link" /\ c.phase = "next" /\ c.moves = {m}
        /\ c.doomed = {} /\ c.pins = [NoCommand.pins EXCEPT ![l] = Unlinked]
    BY DEF NoCommand
  <2> HIDE DEF c
  <2>6. \A k \in Layer : c.pins[k] = IF k = l THEN Unlinked ELSE NoLayer
    BY <2>5 DEF NoCommand
  <2>7. KindSound(c) /\ MovesSound(c) /\ PublishSound(c)
    BY <2>2, <2>5 DEF KindSound, MovesSound, PublishSound
  <2>8. \A n \in c.moves : n.copy = Seen(c, n.layer)
    BY <2>2, <2>5, <2>6, Absent DEF Seen
  <2> QED
    BY <2>3, <2>4, <2>5, <2>6, <2>7, <2>8, CommandBegun
<1>2. CASE RelinkDatasets(o)
  <2> DEFINE orphans == {l \in Ingested : links[l].fragment = None}
             moves == {[layer |-> l, copy |-> links[l], link |-> NoLayer] :
                         l \in orphans}
             c == [NoCommand EXCEPT !.kind = "link", !.phase = "next",
                                    !.moves = moves]
  <2>1. Began(o, c)
    BY <1>2 DEF RelinkDatasets
  <2>2. \A l \in orphans : l \in Layer /\ links[l] \in Link
    BY DocumentsTyped DEF Ingested
  <2> HIDE DEF orphans
  <2>3. \A m \in moves : /\ m \in Move /\ m.link = NoLayer /\ m.layer \in Layer
                         /\ m.copy = links[m.layer]
                         /\ m = [layer |-> m.layer, copy |-> links[m.layer],
                                 link |-> NoLayer]
    BY <2>2 DEF Move
  <2> HIDE DEF moves
  <2>4. c \in Command
    BY <2>3, NoCommandSound DEF Command, CommandKind, CommandPhase
  <2>5. /\ c.kind = "link" /\ c.phase = "next" /\ c.moves = moves
        /\ c.doomed = {} /\ c.pins = NoCommand.pins
    BY DEF NoCommand
  <2> HIDE DEF c
  <2>6. \A k \in Layer : c.pins[k] = NoLayer
    BY <2>5 DEF NoCommand
  <2>7. KindSound(c) /\ PublishSound(c)
    BY <2>5 DEF KindSound, PublishSound
  <2>8. MovesSound(c)
    BY <2>3, <2>5 DEF MovesSound
  <2>9. \A n \in c.moves : n.copy = Seen(c, n.layer)
    BY <2>3, <2>5, <2>6 DEF Seen
  <2> QED
    BY <2>1, <2>4, <2>5, <2>6, <2>7, <2>8, <2>9, CommandBegun
<1> QED
  BY <1>1, <1>2

-----------------------------------------------------------------------------
LEMMA CommandHeld ==
  ASSUME CorpusInv, NEW o \in Operator
  PROVE  /\ commands[o] \in Command /\ CommandSound(commands[o])
         /\ \A p \in Operator : /\ Apart(commands[o], commands[p])
                                /\ Apart(commands[p], commands[o])
  BY DocumentsTyped DEF CorpusInv

\* A step that leaves the links and the deletions of a command alone.
LEMMA FlagsChanged ==
  ASSUME CorpusInv, NEW o \in Operator, NEW c \in Command,
         c.pins = commands[o].pins, c.doomed = commands[o].doomed,
         c.kind = commands[o].kind, c.alone = commands[o].alone,
         KindSound(c), MovesSound(c), PublishSound(c),
         c.alone => \A m \in c.moves : m.copy = Seen(c, m.layer), Advance(o, c)
  PROVE  CorpusInv'
<1>1. CommandSound(c)
  BY CommandHeld DEF CommandSound, PinsSound, DoomedCut, AloneSound
<1>2. Apart(c, c) /\ \A p \in Operator : /\ Apart(c, commands[p])
                                         /\ Apart(commands[p], c)
  BY CommandHeld DEF Apart
<1> QED
  BY <1>1, <1>2, CommandChanged, DocumentsTyped DEF Advance

LEMMA SiblingsRead ==
  ASSUME CorpusInv, NEW o \in Operator, ReadSiblings(o)
  PROVE  CorpusInv'
<1> DEFINE c == commands[o]
           d == Head(c.todo)
           siblings == {s \in SeenEnabled(o) : Bylaw[s] = Bylaw[d]} \ c.asked
           k == [c EXCEPT !.phase = "flush",
                          !.on = @ \cup ({d} \ c.loaded),
                          !.off = IF c.replace THEN @ \cup siblings ELSE @]
<1>1. c \in Command /\ CommandSound(c)
  BY CommandHeld
<1>2. /\ c.kind = "enable" /\ c.phase = "next" /\ Chosen(c) = {}
      /\ c.todo # <<>> /\ Advance(o, k)
  BY DEF ReadSiblings
<1>3. d = c.todo[1] /\ d \in Document /\ d \in Rest(c)
  BY <1>1, <1>2 DEF Command, Rest
<1>4. d \in c.asked /\ c.moves = {}
  BY <1>1, <1>2, <1>3 DEF CommandSound, KindSound, Chosen
<1>5. siblings \subseteq Document /\ siblings \cap c.asked = {}
  BY <1>1, DocumentsTyped DEF SeenEnabled, Command
<1>6. \A s \in Enabled \ c.asked :
        Bylaw[s] = Bylaw[d] => s \in siblings \/ s \in c.off
  BY DEF SeenEnabled
<1> HIDE DEF siblings, d
<1>7. k \in Command
  BY <1>1, <1>3, <1>5 DEF Command, CommandKind, CommandPhase
<1>8. /\ k.kind = "enable" /\ k.phase = "flush" /\ k.asked = c.asked
      /\ k.todo = c.todo /\ k.loaded = c.loaded /\ k.replace = c.replace
      /\ k.alone = c.alone /\ k.pins = c.pins /\ k.doomed = c.doomed
      /\ k.moves = {}
      /\ k.on = c.on \cup ({d} \ c.loaded)
      /\ k.off = IF c.replace THEN c.off \cup siblings ELSE c.off
  BY <1>1, <1>2, <1>4 DEF Command
<1> HIDE DEF k
<1>9. Rest(k) = Rest(c) /\ Read(k) = Read(c) \cup {d}
  BY <1>2, <1>3, <1>4, <1>8 DEF Rest, Read
<1>10. KindSound(k) /\ MovesSound(k)
  BY <1>1, <1>2, <1>4, <1>5, <1>8, <1>9 DEF CommandSound, KindSound, MovesSound
<1>11. PublishSound(k)
  <2> SUFFICES ASSUME c.alone PROVE PublishSound(k)!2
    BY <1>8 DEF PublishSound
  <2>1. PublishSound(c)!2
    BY <1>1, <1>2 DEF CommandSound, PublishSound
  <2>2. ASSUME NEW e \in Read(k)
        PROVE  /\ e \in k.on \cup k.loaded
               /\ k.replace => \A s \in Enabled \ k.asked :
                                  Bylaw[s] = Bylaw[e] => s \in k.off
    BY <2>1, <1>6, <1>8, <1>9
  <2>3. \A e \in k.asked \ Rest(k), l \in Layer :
           Seen(k, l).document \in Document \ k.asked =>
               Bylaw[Seen(k, l).document] # Bylaw[e]
    BY <2>1, <1>4, <1>8, <1>9 DEF Seen
  <2> QED
    BY <2>1, <2>2, <2>3, <1>8
<1> QED
  BY <1>2, <1>7, <1>8, <1>10, <1>11, FlagsChanged

LEMMA FlagsFlushed ==
  ASSUME CorpusInv, NEW o \in Operator, Flush(o)
  PROVE  CorpusInv'
<1> DEFINE c == commands[o]
           k == [c EXCEPT
                  !.phase = IF c.kind = "disable" THEN "commit" ELSE "relink",
                  !.locked = c.on \cup c.off]
<1>1. c \in Command /\ CommandSound(c)
  BY CommandHeld
<1>2. c.phase = "flush" /\ Advance(o, k)
  BY DEF Flush
<1>3. k \in Command
  BY <1>1 DEF Command, CommandPhase
<1>4. /\ k.kind = c.kind /\ k.asked = c.asked
      /\ k.phase = IF c.kind = "disable" THEN "commit" ELSE "relink"
      /\ k.todo = c.todo /\ k.loaded = c.loaded /\ k.replace = c.replace
      /\ k.alone = c.alone /\ k.pins = c.pins /\ k.doomed = c.doomed
      /\ k.on = c.on /\ k.off = c.off /\ k.moves = c.moves
  BY <1>1 DEF Command
<1> HIDE DEF k
<1>5. KindSound(k) /\ MovesSound(k)
  BY <1>1, <1>2, <1>4 DEF CommandSound, KindSound, MovesSound, Rest
<1>6. PublishSound(k)
  <2>1. c.kind = "enable" => Rest(k) = Rest(c) /\ Read(k) = Read(c)
    BY <1>2, <1>4 DEF Rest, Read
  <2> QED
    BY <1>1, <1>4, <2>1 DEF CommandSound, PublishSound, Seen
<1>7. k.alone => \A m \in k.moves : m.copy = Seen(k, m.layer)
  BY <1>1, <1>4 DEF CommandSound, AloneSound, Seen
<1> QED
  BY <1>2, <1>3, <1>4, <1>5, <1>6, <1>7, FlagsChanged

LEMMA BoundSound ==
  ASSUME NEW l \in Layer, NEW d \in Document
  PROVE  /\ Bound(l, d) \in Link /\ Bound(l, d) # NoLayer
         /\ Bound(l, d).document = d /\ Whole(Bound(l, d))
         /\ Bound(l, d).fragment # None => Matches[Bound(l, d).fragment][l] = 1
  BY Absent DEF Bound, Link, Whole

LEMMA SeenSound ==
  ASSUME CorpusInv, NEW o \in Operator, NEW l \in Layer
  PROVE  /\ SeenLink(o, l) = Seen(commands[o], l)
         /\ Seen(commands[o], l) \in Link \cup {NoLayer}
         /\ LinkStored(Seen(commands[o], l), l)
<1>1. commands[o].pins \in [Layer -> Link \cup {NoLayer}]
  BY DocumentsTyped DEF Command
<1>2. LinkStored(commands[o].pins[l], l) /\ LinkStored(links[l], l)
  BY DEF CorpusInv, CommandSound, PinsSound
<1> QED
  BY <1>1, <1>2, DocumentsTyped DEF SeenLink, Seen

\* The rows that follow d are loaded: nothing is written, and what is not
\* loaded is linked to no other version of its by-law.
LEMMA DatasetsRelinked ==
  ASSUME CorpusInv, NEW o \in Operator, Relink(o)
  PROVE  CorpusInv'
<1> DEFINE c == commands[o]
           d == Head(c.todo)
           moved == Superseded(o, d)
           moves == {[layer |-> l, copy |-> SeenLink(o, l), link |-> Bound(l, d)] :
                       l \in moved}
           k == [c EXCEPT !.phase = "next", !.todo = Tail(@), !.moves = moves]
<1>1. c \in Command /\ CommandSound(c)
  BY CommandHeld
<1>2. c.phase = "relink" /\ Advance(o, k)
  BY DEF Relink
<1>3. c.kind = "enable" /\ c.todo # <<>> /\ c.moves = {}
  BY <1>1, <1>2 DEF CommandSound, KindSound
<1>4. /\ d = c.todo[1] /\ d \in Document /\ d \in c.asked
      /\ Tail(c.todo) \in Seq(Document)
      /\ Rest(c) = {d} \cup {Tail(c.todo)[i] : i \in DOMAIN Tail(c.todo)}
  <2>1. c.todo \in Seq(Document)
    BY <1>1 DEF Command
  <2>2. Len(c.todo) \in Nat \ {0} /\ Len(Tail(c.todo)) = Len(c.todo) - 1
    BY <2>1, <1>3
  <2>3. \A i \in 1 .. Len(c.todo) - 1 : Tail(c.todo)[i] = c.todo[i + 1]
    BY <2>1, <1>3
  <2>4. Rest(c) = {d} \cup {Tail(c.todo)[i] : i \in DOMAIN Tail(c.todo)}
    <3>1. \A i \in 1 .. Len(c.todo) : i = 1 \/ i - 1 \in 1 .. Len(c.todo) - 1
      BY <2>2
    <3>2. \A i \in 1 .. Len(c.todo) - 1 : i + 1 \in 1 .. Len(c.todo)
      BY <2>2
    <3>3. /\ DOMAIN c.todo = 1 .. Len(c.todo) /\ 1 \in 1 .. Len(c.todo)
          /\ DOMAIN Tail(c.todo) = 1 .. Len(c.todo) - 1
      BY <2>1, <2>2, <1>3
    <3>4. \A e \in Rest(c) :
            e \in {d} \cup {Tail(c.todo)[i] : i \in DOMAIN Tail(c.todo)}
      <4> SUFFICES ASSUME NEW i \in DOMAIN c.todo
                   PROVE  c.todo[i] \in {d} \cup
                            {Tail(c.todo)[j] : j \in DOMAIN Tail(c.todo)}
        BY DEF Rest
      <4>1. CASE i = 1
        BY <4>1, <2>1, <1>3
      <4>2. CASE i - 1 \in 1 .. Len(c.todo) - 1
        <5>1. Tail(c.todo)[i - 1] = c.todo[(i - 1) + 1]
          BY <4>2, <2>3
        <5>2. (i - 1) + 1 = i
          BY <3>3, <2>2
        <5> QED
          BY <5>1, <5>2, <4>2, <3>3
      <4> QED
        BY <4>1, <4>2, <3>1, <3>3
    <3>5. \A e \in {d} \cup {Tail(c.todo)[i] : i \in DOMAIN Tail(c.todo)} :
            e \in Rest(c)
      BY <2>1, <2>3, <3>2, <3>3, <1>3 DEF Rest
    <3> QED
      BY <3>4, <3>5
  <2>5. d = c.todo[1] /\ d \in Document /\ Tail(c.todo) \in Seq(Document)
    BY <2>1, <1>3
  <2>6. d \in c.asked
    BY <2>4, <1>1, <1>3 DEF CommandSound, KindSound
  <2> QED
    BY <2>4, <2>5, <2>6
<1>5. \A l \in moved : /\ l \in Layer /\ SeenLink(o, l) \in Link
                       /\ SeenLink(o, l) = Seen(c, l)
  BY SeenSound DEF Superseded
<1>6. \A l \in Layer : /\ l \notin moved
                      /\ Seen(c, l).document \in Document
                      /\ Seen(c, l).document \in Versions(Bylaw[d])
                      => Seen(c, l).document = d
  BY Absent, DocumentsTyped, SeenSound DEF Superseded
<1> HIDE DEF moved, d
<1>7. /\ \A m \in moves : /\ m \in Move /\ m.layer \in Layer
                          /\ m.copy = Seen(c, m.layer)
                          /\ m.link = Bound(m.layer, d)
                          /\ m = [layer |-> m.layer, copy |-> SeenLink(o, m.layer),
                                  link |-> Bound(m.layer, d)]
      /\ \A l \in moved : \E m \in moves : m.layer = l
  <2> DEFINE M(l) == [layer |-> l, copy |-> SeenLink(o, l), link |-> Bound(l, d)]
  <2>1. ASSUME NEW l \in moved
        PROVE  /\ M(l) \in Move /\ M(l).layer = l /\ l \in Layer
               /\ M(l).copy = Seen(c, l) /\ M(l).link = Bound(l, d)
    <3>1. l \in Layer /\ SeenLink(o, l) \in Link /\ SeenLink(o, l) = Seen(c, l)
      BY <1>5
    <3>2. Bound(l, d) \in Link
      BY <3>1, <1>4, BoundSound
    <3> QED
      BY <3>1, <3>2 DEF Move
  <2>2. moves = {M(l) : l \in moved}
    OBVIOUS
  <2>3. \A l : M(l) = [layer |-> l, copy |-> SeenLink(o, l), link |-> Bound(l, d)]
    OBVIOUS
  <2> HIDE DEF M, moves
  <2> QED
    BY <2>1, <2>2, <2>3
<1> HIDE DEF moves
<1>8. k \in Command
  BY <1>1, <1>4, <1>7 DEF Command, CommandKind, CommandPhase
<1>9. /\ k.kind = "enable" /\ k.asked = c.asked /\ k.todo = Tail(c.todo)
      /\ k.phase = "next" /\ k.moves = moves
      /\ k.loaded = c.loaded /\ k.replace = c.replace
      /\ k.alone = c.alone /\ k.pins = c.pins /\ k.doomed = c.doomed
      /\ k.on = c.on /\ k.off = c.off
  BY <1>1, <1>3 DEF Command
<1>10. Rest(c) = {d} \cup Rest(k)
  BY <1>4, <1>9 DEF Rest
<1> HIDE DEF k
<1>11. KindSound(k)
  <2>1. \A m \in moves : m.link # NoLayer
    BY <1>4, <1>7, BoundSound
  <2> QED
    BY <2>1, <1>1, <1>3, <1>9, <1>10 DEF CommandSound, KindSound
<1>12. MovesSound(k)
  BY <1>4, <1>7, <1>9, BoundSound DEF MovesSound
<1>13. PublishSound(k)
  <2> SUFFICES ASSUME c.alone PROVE PublishSound(k)!2
    BY <1>9 DEF PublishSound
  <2>1. PublishSound(c)!2
    BY <1>1, <1>3 DEF CommandSound, PublishSound
  <2>2. Read(k) \subseteq Read(c)
    BY <1>2, <1>4, <1>9, <1>10 DEF Read
  <2>3. ASSUME NEW e \in k.asked \ Rest(k), NEW l \in Layer,
               Seen(k, l).document \in Document \ k.asked,
               \A m \in k.moves : m.layer # l
        PROVE  Bylaw[Seen(k, l).document] # Bylaw[e]
    <3>1. l \notin moved
      BY <2>3, <1>7, <1>9
    <3>2. Seen(k, l) = Seen(c, l)
      BY <1>9 DEF Seen
    <3>3. Seen(c, l).document \in Present
      BY <3>2, <2>3, SeenSound, DocumentsTyped DEF LinkStored
    <3>4. CASE e = d
      BY <3>1, <3>2, <3>3, <3>4, <2>3, <1>4, <1>6, <1>9, DocumentsTyped
         DEF Versions
    <3>5. CASE e # d
      BY <3>2, <3>5, <2>1, <2>3, <1>3, <1>9, <1>10
    <3> QED
      BY <3>4, <3>5
  <2>4. \A m \in k.moves : m.link.document \in k.asked
    BY <1>4, <1>7, <1>9, BoundSound
  <2> QED
    BY <2>1, <2>2, <2>3, <2>4, <1>9
<1>14. \A m \in k.moves : m.copy = Seen(k, m.layer)
  BY <1>7, <1>9 DEF Seen
<1> QED
  BY <1>2, <1>3, <1>8, <1>9, <1>11, <1>12, <1>13, <1>14, FlagsChanged

\* A finite set of numbers that is not empty has a greatest: a smallest set
\* without one would leave one without when an element goes.
LEMMA Greatest ==
  ASSUME NEW S \in SUBSET Nat, IsFiniteSet(S), S # {}
  PROVE  \E m \in S : \A e \in S : e <= m
<1> DEFINE Topped(X) == \E m \in X : \A e \in X : e <= m
           bad == {X \in SUBSET S : X # {} /\ ~Topped(X)}
<1> SUFFICES ASSUME bad # {} PROVE FALSE
  OBVIOUS
<1>1. IsWellFoundedOn(StrictSubsetOrdering(S), SUBSET S)
  BY FS_StrictSubsetOrderingWellFounded, FS_FiniteSubsetsOfFinite
<1>2. PICK X \in bad : \A Y \in bad : <<Y, X>> \notin StrictSubsetOrdering(S)
  <2>1. bad \subseteq SUBSET S
    OBVIOUS
  <2> HIDE DEF bad
  <2> QED
    BY <1>1, <2>1, WFMin
<1>3. PICK x \in X : TRUE
  OBVIOUS
<1>4. X \ {x} \notin bad
  BY <1>2, <1>3 DEF StrictSubsetOrdering
<1>5. CASE X \ {x} = {}
  BY <1>3, <1>5
<1>6. CASE X \ {x} # {}
  <2>1. PICK m \in X \ {x} : \A e \in X \ {x} : e <= m
    BY <1>4, <1>6
  <2>2. x \in Nat /\ m \in Nat /\ X \subseteq Nat
    BY <1>3, <2>1
  <2>3. \E t \in {x, m} : \A e \in X : e <= t
    <3>1. CASE x <= m
      BY <2>1, <2>2, <3>1
    <3>2. CASE m <= x
      BY <2>1, <2>2, <3>2
    <3> QED
      BY <2>2, <3>1, <3>2
  <2> QED
    BY <1>3, <2>1, <2>3
<1> QED
  BY <1>5, <1>6

\* A layer is resolved to nothing or to a stored document, whichever of several
\* versions is the newest.
LEMMA ResolvedSound ==
  ASSUME CorpusInv, NEW l \in Layer
  PROVE  /\ Resolved(l) \in Link /\ Resolved(l) # NoLayer /\ Whole(Resolved(l))
         /\ Resolved(l).fragment # None => Matches[Resolved(l).fragment][l] = 1
<1> DEFINE all == Versions(Declared[l])
           carrying == {d \in all : Matches[d][l] > 0}
           S == IF carrying # {} THEN carrying ELSE all
<1>1. CASE all = {}
  BY <1>1, Absent DEF Resolved, Whole
<1>2. CASE all # {}
  <2>1. all \subseteq Document
    BY DocumentsTyped DEF Versions
  <2>2. S \subseteq Document /\ S # {}
    BY <1>2, <2>1
  <2>3. Resolved(l) = Bound(l, Newest(S))
    BY <1>2 DEF Resolved
  <2> HIDE DEF S
  <2>4. S \in SUBSET Nat /\ IsFiniteSet(S)
    BY <2>2, CorpusAssumption, FS_Subset
  <2>5. \E m \in S : \A e \in S : e <= m
    BY <2>2, <2>4, Greatest
  <2>6. Newest(S) \in Document
    BY <2>2, <2>5 DEF Newest
  <2> QED
    BY <2>3, <2>6, BoundSound
<1> QED
  BY <1>1, <1>2

LEMMA LayerResolved ==
  ASSUME CorpusInv, NEW o \in Operator, Resolve(o)
  PROVE  CorpusInv'
<1> DEFINE c == commands[o]
<1>1. c \in Command /\ CommandSound(c)
  BY CommandHeld
<1>2. c.kind = "link"
  BY DEF Resolve
<1>3. PICK m \in c.moves :
        Advance(o, [c EXCEPT !.moves =
                      (@ \ {m}) \cup {[m EXCEPT !.link = Resolved(m.layer)]}])
  BY DEF Resolve
<1> DEFINE n == [m EXCEPT !.link = Resolved(m.layer)]
           k == [c EXCEPT !.moves = (@ \ {m}) \cup {n}]
<1>4. m \in Move /\ m.layer \in Layer
  BY <1>1, <1>3 DEF Command, Move
<1>5. /\ n \in Move /\ n.layer = m.layer /\ n.copy = m.copy
      /\ n.link = Resolved(m.layer)
  BY <1>4, ResolvedSound DEF Move
<1>6. Advance(o, k)
  BY <1>3
<1> HIDE DEF n
<1>7. k \in Command
  BY <1>1, <1>5 DEF Command
<1>8. /\ k.kind = "link" /\ k.phase = c.phase /\ k.alone = c.alone
      /\ k.pins = c.pins /\ k.doomed = c.doomed
      /\ k.moves = (c.moves \ {m}) \cup {n}
  BY <1>1, <1>2 DEF Command
<1> HIDE DEF k
<1>9. KindSound(k) /\ PublishSound(k)
  BY <1>1, <1>2, <1>8 DEF CommandSound, KindSound, PublishSound
<1>10. MovesSound(k)
  BY <1>1, <1>3, <1>4, <1>5, <1>8, ResolvedSound DEF CommandSound, MovesSound
<1>11. k.alone => \A q \in k.moves : q.copy = Seen(k, q.layer)
  BY <1>1, <1>3, <1>5, <1>8 DEF CommandSound, AloneSound, Seen
<1> QED
  BY <1>2, <1>6, <1>7, <1>8, <1>9, <1>10, <1>11, FlagsChanged

\* What the UPDATE of a layer leaves: each column is the chosen one, which may
\* be referred to, or what the row has.
LEMMA UpdatedSound ==
  ASSUME CorpusInv, NEW o \in Operator, NEW m \in commands[o].moves,
         m.link # NoLayer, LayerFree(o, m.layer),
         NEW row, row = SeenLink(o, m.layer),
         NEW link, link = RowUpdated(row, m.copy, m.link), Linkable(o, row, link)
  PROVE  /\ link \in Link /\ link # NoLayer /\ LinkStored(link, m.layer)
         /\ commands[o].alone => /\ link.document = m.link.document
                                 /\ Whole(link)
         /\ \A p \in Others(o) : ~Names(link, commands[p].doomed)
<1> DEFINE c == commands[o]
           l == m.layer
<1>1. /\ c \in Command /\ CommandSound(c)
      /\ \A p \in Operator : Apart(c, commands[p]) /\ Apart(commands[p], c)
  BY CommandHeld
<1>2. m \in Move /\ l \in Layer /\ m.copy \in Link /\ m.link \in Link
  BY <1>1 DEF Command, Move
<1>3. /\ row = Seen(c, l) /\ row \in Link \cup {NoLayer} /\ LinkStored(row, l)
  BY <1>2, SeenSound
<1>4. /\ link.document = IF m.link.document = m.copy.document THEN row.document
                         ELSE m.link.document
      /\ link.fragment = IF m.link.fragment = m.copy.fragment THEN row.fragment
                         ELSE m.link.fragment
  BY DEF RowUpdated
<1>5. link \in Link /\ link # NoLayer
  <2>1. /\ row.document \in Document \cup {None}
        /\ row.fragment \in Document \cup {None}
    BY <1>3, Absent DEF Link
  <2>2. /\ m.link.document \in Document \cup {None}
        /\ m.link.fragment \in Document \cup {None}
    BY <1>2 DEF Link
  <2>3. link \in Link
    BY <2>1, <2>2 DEF RowUpdated, Link
  <2> QED
    BY <2>3, Absent
<1>6. /\ m.link.fragment # None => Matches[m.link.fragment][l] = 1
      /\ Whole(m.link)
  BY <1>1 DEF CommandSound, MovesSound
<1>7. /\ link.document # row.document => Referable(o, link.document)
      /\ link.fragment # row.fragment => Referable(o, link.fragment)
  BY DEF Linkable
<1>8. LinkStored(link, l)
  BY <1>3, <1>4, <1>6, <1>7 DEF LinkStored, Referable
<1>9. ASSUME c.alone PROVE link.document = m.link.document /\ Whole(link)
  <2>1. m.copy = row
    BY <1>1, <1>3, <1>9 DEF CommandSound, AloneSound
  <2> QED
    BY <2>1, <1>4, <1>6 DEF Whole
<1>10. ASSUME NEW p \in Others(o) PROVE ~Names(link, commands[p].doomed)
  <2>1. p \in Operator /\ None \notin commands[p].doomed
    BY DocumentsTyped DEF Others
  <2>2. ~Names(row, commands[p].doomed)
    <3>1. CASE c.pins[l] # NoLayer
      BY <3>1, <1>1, <1>2, <1>3, <2>1 DEF Apart, Seen
    <3>2. CASE c.pins[l] = NoLayer
      <4>1. row = links[l] /\ commands[p].pins[l] = NoLayer
        BY <3>2, <1>3 DEF Seen, LayerFree
      <4> QED
        BY <4>1, <1>2, <2>1, CommandHeld DEF CommandSound, DoomedCut
    <3> QED
      BY <3>1, <3>2
  <2> QED
    BY <1>7, <2>1, <2>2 DEF Names, Referable
<1> QED
  BY <1>5, <1>8, <1>9, <1>10

LEMMA LinkRecorded ==
  ASSUME CorpusInv, NEW o \in Operator, RecordLink(o)
  PROVE  CorpusInv'
<1> DEFINE c == commands[o]
<1>1. /\ c \in Command /\ CommandSound(c)
      /\ \A p \in Operator : Apart(c, commands[p]) /\ Apart(commands[p], c)
  BY CommandHeld
<1>2. PICK m \in Chosen(c) :
        LET row == SeenLink(o, m.layer)
            link == RowUpdated(row, m.copy, m.link)
        IN /\ LayerFree(o, m.layer) /\ Linkable(o, row, link)
           /\ Advance(o, [c EXCEPT !.moves = @ \ {m}, !.pins[m.layer] = link])
  BY DEF RecordLink
<1> DEFINE l == m.layer
           link == RowUpdated(SeenLink(o, l), m.copy, m.link)
           k == [c EXCEPT !.moves = @ \ {m}, !.pins[l] = link]
<1>3. m \in c.moves /\ m.link # NoLayer /\ l \in Layer
  BY <1>1 DEF Chosen, Command, Move
<1>4. c.kind \in {"enable", "link"} /\ c.doomed = {}
  BY <1>1, <1>3 DEF CommandSound, KindSound
<1>5. /\ link \in Link /\ link # NoLayer /\ LinkStored(link, l)
      /\ c.alone => link.document = m.link.document /\ Whole(link)
      /\ \A p \in Others(o) : ~Names(link, commands[p].doomed)
  BY <1>2, <1>3, UpdatedSound
<1>6. Advance(o, k)
  BY <1>2
<1> HIDE DEF link
<1>7. k \in Command
  BY <1>1, <1>3, <1>5 DEF Command
<1>8. /\ k.kind = c.kind /\ k.phase = c.phase /\ k.asked = c.asked
      /\ k.todo = c.todo /\ k.loaded = c.loaded /\ k.replace = c.replace
      /\ k.alone = c.alone /\ k.doomed = {} /\ k.on = c.on /\ k.off = c.off
      /\ k.moves = c.moves \ {m} /\ k.pins = [c.pins EXCEPT ![l] = link]
  BY <1>1, <1>4 DEF Command
<1>9. \A q \in Layer : k.pins[q] = IF q = l THEN link ELSE c.pins[q]
  BY <1>1, <1>8 DEF Command
<1> HIDE DEF k
<1>10. \A q \in Layer : Seen(k, q) = IF q = l THEN link ELSE Seen(c, q)
  BY <1>5, <1>9 DEF Seen
<1>11. \A n \in k.moves : n \in c.moves /\ n.layer # l /\ n.layer \in Layer
  BY <1>1, <1>3, <1>8 DEF CommandSound, MovesSound, Command, Move
<1>12. KindSound(k)
  <2>1. Rest(k) = Rest(c)
    BY <1>8 DEF Rest
  <2> QED
    BY <2>1, <1>1, <1>4, <1>8 DEF CommandSound, KindSound
<1>13. MovesSound(k)
  BY <1>1, <1>8 DEF CommandSound, MovesSound
<1>14. PinsSound(k)
  BY <1>1, <1>5, <1>9 DEF CommandSound, PinsSound
<1>15. DoomedCut(k)
  BY <1>8 DEF DoomedCut, Names
<1>16. AloneSound(k)
  <2> SUFFICES ASSUME c.alone PROVE AloneSound(k)!2
    BY <1>8 DEF AloneSound
  <2>1. \A n \in k.moves : n.copy = Seen(k, n.layer)
    BY <1>1, <1>10, <1>11 DEF CommandSound, AloneSound
  <2>2. \A q \in Layer : (k.kind = "prune" => Whole(links[q])) => Whole(k.pins[q])
    BY <1>1, <1>4, <1>5, <1>8, <1>9 DEF CommandSound, AloneSound
  <2> QED
    BY <2>1, <2>2
<1>17. PublishSound(k)
  <2> SUFFICES ASSUME c.kind = "enable", c.alone PROVE PublishSound(k)!2
    BY <1>8 DEF PublishSound
  <2>1. PublishSound(c)!2
    BY <1>1 DEF CommandSound, PublishSound
  <2>2. Rest(k) = Rest(c) /\ Read(k) = Read(c)
    BY <1>8 DEF Rest, Read
  <2>3. ASSUME NEW d \in k.asked \ Rest(k), NEW q \in Layer,
               Seen(k, q).document \in Document \ k.asked,
               \A n \in k.moves : n.layer # q
        PROVE  Bylaw[Seen(k, q).document] # Bylaw[d]
    <3>1. q # l
      BY <2>1, <2>3, <1>3, <1>5, <1>8, <1>10
    <3>2. \A n \in c.moves : n.layer # q
      BY <3>1, <2>3, <1>8
    <3> QED
      BY <3>1, <3>2, <2>1, <2>2, <2>3, <1>8, <1>10
  <2>4. \A n \in k.moves : n.link.document \in k.asked
    BY <2>1, <1>8
  <2> QED
    BY <2>1, <2>2, <2>3, <2>4, <1>8
<1>18. Apart(k, k)
  BY <1>8 DEF Apart, Names
<1>19. ASSUME NEW p \in Operator, p # o
       PROVE  Apart(k, commands[p]) /\ Apart(commands[p], k)
  BY <1>19, <1>1, <1>5, <1>8, <1>9 DEF Apart, Others, Names
<1> QED
  BY <1>6, <1>7, <1>12, <1>13, <1>14, <1>15, <1>16, <1>17, <1>18, <1>19,
     CommandChanged, DocumentsTyped DEF Advance, CommandSound

\* What ON DELETE SET NULL leaves of a row.
LEMMA CutSound ==
  ASSUME NEW link \in Link, NEW D \in SUBSET Document, None \notin D
  PROVE  /\ Cut(link, D) \in Link /\ Cut(link, D) # NoLayer
         /\ ~Names(Cut(link, D), D)
         /\ Whole(link) => Whole(Cut(link, D))
         /\ \A l : LinkStored(link, l) => LinkStored(Cut(link, D), l)
         /\ \A E : None \notin E /\ Names(Cut(link, D), E) => Names(link, E)
<1>1. /\ Cut(link, D).document = IF link.document \in D THEN None
                                 ELSE link.document
      /\ Cut(link, D).fragment = IF link.fragment \in D THEN None
                                 ELSE link.fragment
  BY DEF Cut
<1>2. Cut(link, D) \in Link
  BY DEF Cut, Link
<1>3. ~Names(Cut(link, D), D)
  BY <1>1 DEF Names
<1>4. Whole(link) => Whole(Cut(link, D))
  BY <1>1 DEF Whole
<1>5. \A l : LinkStored(link, l) => LinkStored(Cut(link, D), l)
  BY <1>1 DEF LinkStored
<1>6. \A E : None \notin E /\ Names(Cut(link, D), E) => Names(link, E)
  BY <1>1 DEF Names
<1> QED
  BY <1>2, <1>3, <1>4, <1>5, <1>6, Absent

LEMMA RowsDeleted ==
  ASSUME CorpusInv, NEW o \in Operator, DeleteRows(o)
  PROVE  CorpusInv'
<1> DEFINE c == commands[o]
           gone == c.asked \cap Present
           cut == {l \in Ingested : Names(links[l], gone)}
           pins == [l \in Layer |-> IF l \in cut THEN Cut(links[l], gone)
                                    ELSE NoLayer]
           k == [c EXCEPT !.phase = "commit", !.locked = gone,
                          !.doomed = gone, !.pins = pins]
<1>1. /\ c \in Command /\ CommandSound(c)
      /\ \A p \in Operator : Apart(c, commands[p]) /\ Apart(commands[p], c)
  BY CommandHeld
<1>2. /\ c.phase = "prune" /\ Advance(o, k)
      /\ \A p \in Others(o), l \in Layer : ~Names(commands[p].pins[l], gone)
      /\ \A l \in cut : LayerFree(o, l)
  BY DEF DeleteRows
<1>3. c.kind = "prune" /\ c.moves = {} /\ gone \subseteq Document /\ None \notin gone
  BY <1>1, <1>2, DocumentsTyped DEF CommandSound, KindSound
<1>4. /\ \A l \in Layer : Names(links[l], gone) => l \in cut
      /\ \A l \in cut : l \in Layer /\ links[l] \in Link
  BY <1>3, Absent, DocumentsTyped DEF Ingested, Names
<1> HIDE DEF cut, gone
<1>5. /\ pins \in [Layer -> Link \cup {NoLayer}]
      /\ \A l \in Layer : pins[l] = IF l \in cut THEN Cut(links[l], gone)
                                     ELSE NoLayer
  BY <1>3, <1>4, CutSound
<1> HIDE DEF pins
<1>6. k \in Command
  BY <1>1, <1>3, <1>5 DEF Command, CommandPhase
<1>7. /\ k.kind = "prune" /\ k.phase = "commit" /\ k.doomed = gone
      /\ k.pins = pins /\ k.moves = {}
  BY <1>1, <1>3 DEF Command
<1> HIDE DEF k
<1>8. KindSound(k) /\ MovesSound(k) /\ PublishSound(k)
  BY <1>7 DEF KindSound, MovesSound, PublishSound
<1>9. PinsSound(k)
  <2> SUFFICES ASSUME NEW l \in Layer PROVE LinkStored(pins[l], l)
    BY <1>7 DEF PinsSound
  <2>1. LinkStored(links[l], l)
    BY DEF CorpusInv
  <2>2. LinkStored(NoLayer, l)
    BY Absent DEF LinkStored
  <2> QED
    BY <2>1, <2>2, <1>3, <1>4, <1>5, CutSound
<1>10. DoomedCut(k)
  BY <1>3, <1>4, <1>5, <1>7, CutSound DEF DoomedCut
<1>11. AloneSound(k)
  <2>1. Whole(NoLayer)
    BY Absent DEF Whole
  <2>2. \A l \in Layer : Whole(links[l]) => Whole(pins[l])
    BY <2>1, <1>3, <1>4, <1>5, CutSound
  <2> QED
    BY <2>2, <1>7 DEF AloneSound
<1>12. \A D : None \notin D => ~Names(NoLayer, D)
  BY Absent DEF Names
<1>13. Apart(k, k)
  BY <1>3, <1>4, <1>5, <1>7, <1>12, CutSound DEF Apart
<1>14. ASSUME NEW p \in Operator, p # o
       PROVE  Apart(k, commands[p]) /\ Apart(commands[p], k)
  <2>1. p \in Others(o) /\ None \notin commands[p].doomed
    BY <1>14, DocumentsTyped DEF Others
  <2>2. Apart(commands[p], k)
    BY <2>1, <1>2, <1>7 DEF Apart
  <2>3. ASSUME NEW l \in Layer PROVE ~Names(k.pins[l], commands[p].doomed)
    <3>1. CASE l \in cut
      <4>1. commands[p].pins[l] = NoLayer
        BY <3>1, <2>1, <1>2 DEF LayerFree
      <4>2. ~Names(links[l], commands[p].doomed)
        BY <4>1, CommandHeld DEF CommandSound, DoomedCut
      <4> QED
        BY <4>2, <3>1, <2>1, <1>3, <1>4, <1>5, <1>7, CutSound
    <3>2. CASE l \notin cut
      BY <3>2, <2>1, <1>5, <1>7, <1>12
    <3> QED
      BY <3>1, <3>2
  <2> QED
    BY <2>2, <2>3 DEF Apart
<1> QED
  BY <1>2, <1>6, <1>8, <1>9, <1>10, <1>11, <1>13, <1>14, CommandChanged,
     DocumentsTyped DEF Advance, CommandSound

LEMMA CommandAborted ==
  ASSUME CorpusInv, NEW o \in Operator, Abort(o)
  PROVE  CorpusInv'
<1>1. \A p \in Operator : /\ Apart(NoCommand, commands[p])
                          /\ Apart(commands[p], NoCommand)
  BY DocumentsTyped, NoCommandSound
<1>2. Apart(NoCommand, NoCommand)
  BY NoCommandSound
<1> QED
  BY <1>1, <1>2, NoCommandSound, CommandChanged, DocumentsTyped
     DEF Abort, Advance

-----------------------------------------------------------------------------
\* What the other commands are once one commits.
LEMMA NotAlone ==
  ASSUME NEW c \in Command, CommandSound(c)
  PROVE  LET e == [c EXCEPT !.alone = FALSE]
         IN /\ e \in Command /\ KindSound(e) /\ MovesSound(e)
            /\ AloneSound(e) /\ PublishSound(e)
            /\ e.pins = c.pins /\ e.doomed = c.doomed
<1> DEFINE e == [c EXCEPT !.alone = FALSE]
<1>1. /\ e \in Command /\ e.pins = c.pins /\ e.doomed = c.doomed
      /\ e.kind = c.kind /\ e.phase = c.phase /\ e.todo = c.todo
      /\ e.asked = c.asked /\ e.on = c.on /\ e.off = c.off
      /\ e.moves = c.moves /\ e.alone = FALSE
  BY DEF Command
<1> HIDE DEF e
<1>2. KindSound(e)
  BY <1>1 DEF CommandSound, KindSound, Rest
<1>3. MovesSound(e) /\ AloneSound(e) /\ PublishSound(e)
  BY <1>1 DEF CommandSound, MovesSound, AloneSound, PublishSound
<1> QED
  BY <1>1, <1>2, <1>3 DEF e

LEMMA CommandCommitted ==
  ASSUME CorpusInv, NEW o \in Operator, Commit(o)
  PROVE  CorpusInv'
<1> DEFINE c == commands[o]
<1>1. /\ c \in Command /\ CommandSound(c)
      /\ \A p \in Operator : Apart(c, commands[p]) /\ Apart(commands[p], c)
  BY CommandHeld
<1>2. \A d \in Document : documents'[d].present =
                             (documents[d].present /\ d \notin c.doomed)
  BY DocumentsTyped DEF Commit, DocumentRow
<1>3. documents' \in [Document -> DocumentRow]
  BY DocumentsTyped DEF Commit, DocumentRow
<1>4. Present' = Present \ c.doomed
  BY <1>2 DEF Present
<1>5. /\ links' \in [Layer -> Link \cup {NoLayer}]
      /\ \A l \in Layer : links'[l] = IF c.pins[l] # NoLayer THEN c.pins[l]
                                      ELSE links[l]
  BY <1>1, DocumentsTyped DEF Commit, Command
<1>6. \A p \in Operator : commands'[p] =
         IF p = o THEN NoCommand ELSE [commands[p] EXCEPT !.alone = FALSE]
  BY DEF Commit
<1>7. \A p \in Operator :
         /\ commands[p] \in Command /\ CommandSound(commands[p])
         /\ commands'[p] \in Command /\ KindSound(commands'[p])
         /\ MovesSound(commands'[p])
         /\ commands'[p].pins = IF p = o THEN NoCommand.pins ELSE commands[p].pins
         /\ commands'[p].doomed = IF p = o THEN {} ELSE commands[p].doomed
         /\ p = o => commands'[p] = NoCommand
         /\ p # o => ~commands'[p].alone
  <2> SUFFICES ASSUME NEW p \in Operator
               PROVE  <1>7!(p)
    OBVIOUS
  <2>1. commands[p] \in Command /\ CommandSound(commands[p])
    BY CommandHeld
  <2>2. CASE p = o
    <3>1. commands'[p] = NoCommand
      BY <2>2, <1>6
    <3>2. NoCommand.doomed = {}
      BY DEF NoCommand
    <3> QED
      BY <2>1, <2>2, <3>1, <3>2, NoCommandSound DEF CommandSound
  <2>3. CASE p # o
    <3>1. commands'[p] = [commands[p] EXCEPT !.alone = FALSE]
      BY <2>3, <1>6
    <3>2. commands'[p].alone = FALSE
      BY <2>1, <3>1 DEF Command
    <3> QED
      BY <2>1, <2>3, <3>1, <3>2, NotAlone
  <2> QED
    BY <2>2, <2>3
<1>8. CorpusTypeOK'
  <2>1. commands' \in [Operator -> Command]
    BY <1>7 DEF Commit
  <2> QED
    BY <2>1, <1>3, <1>5, DocumentsTyped DEF CorpusTypeOK, Commit
<1>9. \A l \in Layer : LinkStored(links[l], l)'
  <2> SUFFICES ASSUME NEW l \in Layer PROVE LinkStored(links[l], l)'
    OBVIOUS
  <2>1. LinkStored(links'[l], l)
    BY <1>1, <1>5 DEF CorpusInv, CommandSound, PinsSound
  <2>2. ~Names(links'[l], c.doomed)
    <3>1. CASE c.pins[l] # NoLayer
      BY <3>1, <1>1, <1>5 DEF Apart
    <3>2. CASE c.pins[l] = NoLayer
      BY <3>2, <1>1, <1>5 DEF CommandSound, DoomedCut
    <3> QED
      BY <3>1, <3>2
  <2> QED
    BY <2>1, <2>2, <1>4 DEF LinkStored, Names
<1>10. ASSUME NEW p \in Operator PROVE CommandSound(commands[p])'
  <2>1. CASE p = o
    <3>1. commands'[p] = NoCommand
      BY <2>1, <1>7
    <3>2. \A l \in Layer : NoCommand.pins[l] = NoLayer
      BY DEF NoCommand
    <3>3. /\ NoCommand.moves = {} /\ NoCommand.doomed = {}
          /\ NoCommand.kind = "none" /\ NoCommand.phase = "idle"
      BY DEF NoCommand
    <3>4. KindSound(commands[p])' /\ MovesSound(commands[p])'
      BY <1>7 DEF KindSound, MovesSound, Rest, Whole
    <3>5. PinsSound(commands[p])'
      BY <3>1, <3>2, Absent DEF PinsSound, LinkStored
    <3>6. DoomedCut(commands[p])' /\ PublishSound(commands[p])'
      BY <3>1, <3>3 DEF DoomedCut, PublishSound, Names
    <3>7. AloneSound(commands[p])'
      BY <3>1, <3>2, <3>3, Absent DEF AloneSound, Whole
    <3> QED
      BY <3>4, <3>5, <3>6, <3>7 DEF CommandSound
  <2>2. CASE p # o
    <3>1. KindSound(commands[p])' /\ MovesSound(commands[p])'
      BY <1>7 DEF KindSound, MovesSound, Rest, Whole
    <3>2. PinsSound(commands[p])'
      <4> SUFFICES ASSUME NEW l \in Layer
                   PROVE  LinkStored(commands[p].pins[l], l)'
        BY DEF PinsSound
      <4>1. LinkStored(commands[p].pins[l], l)
        BY <1>7 DEF CommandSound, PinsSound
      <4>2. ~Names(commands[p].pins[l], c.doomed)
        BY <1>1 DEF Apart
      <4>3. commands'[p].pins[l] = commands[p].pins[l]
        BY <2>2, <1>7
      <4> QED
        BY <4>1, <4>2, <4>3, <1>4 DEF LinkStored, Names
    <3>3. DoomedCut(commands[p])'
      <4> SUFFICES ASSUME NEW l \in Layer,
                          Names(links'[l], commands'[p].doomed)
                   PROVE  commands'[p].pins[l] # NoLayer
        BY DEF DoomedCut, Names
      <4>1. Names(links'[l], commands[p].doomed)
        BY <2>2, <1>7
      <4>2. links'[l] = links[l]
        BY <4>1, <1>1, <1>5 DEF Apart
      <4> QED
        BY <2>2, <4>1, <4>2, <1>7 DEF CommandSound, DoomedCut
    <3>4. AloneSound(commands[p])' /\ PublishSound(commands[p])'
      BY <2>2, <1>7 DEF AloneSound, PublishSound
    <3> QED
      BY <3>1, <3>2, <3>3, <3>4 DEF CommandSound
  <2> QED
    BY <2>1, <2>2
<1>11. ASSUME NEW p \in Operator, NEW q \in Operator
       PROVE  Apart(commands[p], commands[q])'
  <2>1. Apart(commands[p], commands[q])
    BY DEF CorpusInv
  <2>2. None \notin commands[q].doomed
    BY DocumentsTyped
  <2>3. \A l \in Layer : /\ NoCommand.pins[l].document = None
                         /\ NoCommand.pins[l].fragment = None
    BY Absent DEF NoCommand
  <2> QED
    BY <2>1, <2>2, <2>3, <1>7 DEF Apart, Names
<1> QED
  BY <1>8, <1>9, <1>10, <1>11 DEF CorpusInv

LEMMA DocumentIngested ==
  ASSUME CorpusInv, NEW d \in Document, IngestDocument(d)
  PROVE  CorpusInv'
<1>1. documents' \in [Document -> DocumentRow]
  BY DocumentsTyped DEF IngestDocument, DocumentRow
<1>2. Present \subseteq Present'
  BY DocumentsTyped DEF IngestDocument, Present, DocumentRow
<1>3. links' = links /\ commandsBegun' = commandsBegun
  BY DEF IngestDocument
<1>4. \A p \in Operator :
         /\ commands[p] \in Command /\ CommandSound(commands[p])
         /\ commands'[p] \in Command /\ KindSound(commands'[p])
         /\ commands'[p].pins = commands[p].pins
         /\ commands'[p].doomed = commands[p].doomed
         /\ MovesSound(commands'[p]) /\ ~commands'[p].alone
  <2> SUFFICES ASSUME NEW p \in Operator
               PROVE  <1>4!(p)
    OBVIOUS
  <2>1. commands[p] \in Command /\ CommandSound(commands[p])
    BY CommandHeld
  <2>2. commands'[p] = [commands[p] EXCEPT !.alone = FALSE]
    BY DEF IngestDocument
  <2>3. commands'[p].alone = FALSE
    BY <2>1, <2>2 DEF Command
  <2> QED
    BY <2>1, <2>2, <2>3, NotAlone
<1>5. CorpusTypeOK'
  <2>1. commands' \in [Operator -> Command]
    BY <1>4 DEF IngestDocument
  <2> QED
    BY <2>1, <1>1, <1>3, DocumentsTyped DEF CorpusTypeOK
<1>6. \A l \in Layer : LinkStored(links[l], l)'
  BY <1>2, <1>3 DEF CorpusInv, LinkStored
<1>7. ASSUME NEW p \in Operator PROVE CommandSound(commands[p])'
  <2>1. KindSound(commands[p])' /\ MovesSound(commands[p])'
    BY <1>4 DEF KindSound, MovesSound, Rest, Whole
  <2>2. PinsSound(commands[p])'
    BY <1>2, <1>4 DEF CommandSound, PinsSound, LinkStored
  <2>3. DoomedCut(commands[p])'
    BY <1>3, <1>4 DEF CommandSound, DoomedCut, Names
  <2>4. AloneSound(commands[p])' /\ PublishSound(commands[p])'
    BY <1>4 DEF AloneSound, PublishSound
  <2> QED
    BY <2>1, <2>2, <2>3, <2>4 DEF CommandSound
<1>8. \A p, q \in Operator : Apart(commands[p], commands[q])'
  BY <1>4 DEF CorpusInv, Apart, Names
<1> QED
  BY <1>5, <1>6, <1>7, <1>8 DEF CorpusInv

-----------------------------------------------------------------------------
LEMMA CorpusBegins == CorpusInit => CorpusInv
<1> SUFFICES ASSUME CorpusInit PROVE CorpusInv
  OBVIOUS
<1>1. documents \in [Document -> DocumentRow] /\ Present = Stored
  <2>1. documents = [d \in Document |-> [present |-> d \in Stored,
                                         enabled |-> d \in Published,
                                         deleted |-> FALSE]]
    BY DEF CorpusInit
  <2>2. \A d \in Document : documents[d].present = (d \in Stored)
    BY <2>1
  <2>3. \A p, e, f \in BOOLEAN : [present |-> p, enabled |-> e, deleted |-> f]
                                    \in DocumentRow
    BY DEF DocumentRow
  <2>4. \A d \in Document : documents[d] \in DocumentRow
    <3> SUFFICES ASSUME NEW d \in Document PROVE documents[d] \in DocumentRow
      OBVIOUS
    <3> DEFINE p == d \in Stored
               e == d \in Published
    <3>1. documents[d] = [present |-> p, enabled |-> e, deleted |-> FALSE]
      BY <2>1
    <3>2. p \in BOOLEAN /\ e \in BOOLEAN
      OBVIOUS
    <3> HIDE DEF p, e
    <3> QED
      BY <2>3, <3>1, <3>2
  <2> QED
    BY <2>1, <2>2, <2>4, CorpusAssumption DEF Present
<1>2. /\ links \in [Layer -> Link \cup {NoLayer}]
      /\ \A l \in Layer : LinkStored(links[l], l)
  <2> SUFFICES ASSUME NEW l \in Layer
               PROVE  links[l] \in Link \cup {NoLayer} /\ LinkStored(links[l], l)
    BY DEF CorpusInit
  <2>1. CASE l \in DOMAIN Linked
    <3> DEFINE d == Linked[l]
               f == IF Matches[d][l] = 1 THEN d ELSE None
    <3>1. links[l] = [document |-> d, fragment |-> f]
      BY <2>1 DEF CorpusInit
    <3>2. d \in Stored /\ d \in Document
      BY <2>1, CorpusAssumption
    <3>3. f \in {d, None} /\ (f # None => Matches[f][l] = 1)
      OBVIOUS
    <3> HIDE DEF d, f
    <3>4. links[l] \in Link /\ links[l].document = d /\ links[l].fragment = f
      BY <3>1, <3>2, <3>3 DEF Link
    <3> QED
      BY <3>2, <3>3, <3>4, <1>1 DEF LinkStored
  <2>2. CASE l \notin DOMAIN Linked
    BY <2>2, Absent DEF CorpusInit, LinkStored
  <2> QED
    BY <2>1, <2>2
<1>3. \A o \in Operator : commands[o] = NoCommand
  BY DEF CorpusInit
<1>4. CorpusTypeOK
  <2>1. commands \in [Operator -> Command]
    BY NoCommandSound DEF CorpusInit
  <2> QED
    BY <2>1, <1>1, <1>2, CorpusAssumption DEF CorpusTypeOK, CorpusInit
<1>5. Apart(NoCommand, NoCommand)
  BY NoCommandSound
<1> QED
  BY <1>2, <1>3, <1>4, <1>5, NoCommandSound DEF CorpusInv

LEMMA CorpusStep == CorpusInv /\ [CorpusNext]_corpusVars => CorpusInv'
<1> SUFFICES ASSUME CorpusInv, [CorpusNext]_corpusVars PROVE CorpusInv'
  OBVIOUS
<1>1. ASSUME NEW o \in Operator, CommandStep(o) PROVE CorpusInv'
  BY <1>1, EnableBegun, OtherBegun, LinkBegun, SiblingsRead, FlagsFlushed,
     DatasetsRelinked, LayerResolved, LinkRecorded, RowsDeleted,
     CommandCommitted, CommandAborted
     DEF CommandStep
<1>2. ASSUME NEW d \in Document, IngestDocument(d) PROVE CorpusInv'
  BY <1>2, DocumentIngested
<1>3. CASE UNCHANGED corpusVars
  BY <1>3 DEF corpusVars, CorpusInv, CorpusTypeOK, LinkStored, CommandSound,
     KindSound, MovesSound, PinsSound, DoomedCut, AloneSound, PublishSound,
     Apart, Names, Whole, Rest, Read, Seen, Present, Enabled
<1> QED
  BY <1>1, <1>2, <1>3 DEF CorpusNext

\* Every command keeps what makes its writes safe to commit.
THEOREM CorpusInvariance == CorpusSpec => []CorpusInv
<1>1. CorpusInit => CorpusInv
  BY CorpusBegins
<1>2. CorpusInv /\ [CorpusNext]_corpusVars => CorpusInv'
  BY CorpusStep
<1> QED
  BY <1>1, <1>2, PTL DEF CorpusSpec

\* The rows and the transactions keep their types.
THEOREM CorpusTypeCorrect == CorpusSpec => []CorpusTypeOK
<1>1. CorpusInv => CorpusTypeOK
  BY DEF CorpusInv
<1> QED
  BY <1>1, CorpusInvariance, PTL

\* However the commands of publish.py, prune.py and linker.py overlap, what a
\* layer is linked to is stored, its fragment alone has the citation in its
\* document, and a command that is alone, whose UPDATEs compare with what the
\* rows still hold, leaves no fragment of one version beside another.
THEOREM LinksAlwaysSound == CorpusSpec => []LinksSound
<1>1. CorpusInv => LinksSound
  BY DEF CorpusInv, LinksSound, CommandSound, AloneSound
<1> QED
  BY <1>1, CorpusInvariance, PTL

\* set_document_retrieval_enabled: a publication that no other commit came
\* between enables what was asked, and with replace leaves no other version
\* enabled nor any layer behind.
THEOREM PublicationEffective == CorpusSpec => PublishTakesEffect
<1> DEFINE Effect ==
      \A o \in Operator :
         LET c == commands[o] IN
         (c.kind = "enable" /\ c.alone /\ Commit(o)) =>
             \A d \in c.asked :
                /\ documents'[d].enabled
                /\ c.replace => \A s \in Present \ c.asked :
                     Bylaw[s] = Bylaw[d] => ~documents'[s].enabled
                /\ \A l \in Layer : links'[l] # NoLayer =>
                     ~ /\ links'[l].document \in Document \ c.asked
                       /\ Bylaw[links'[l].document] = Bylaw[d]
<1>1. CorpusInv => Effect
  <2> SUFFICES ASSUME CorpusInv, NEW o \in Operator,
                      commands[o].kind = "enable", commands[o].alone,
                      Commit(o),
                      NEW d \in commands[o].asked
               PROVE  /\ documents'[d].enabled
                      /\ commands[o].replace =>
                           \A s \in Present \ commands[o].asked :
                              Bylaw[s] = Bylaw[d] => ~documents'[s].enabled
                      /\ \A l \in Layer : links'[l] # NoLayer =>
                           ~ /\ links'[l].document
                                  \in Document \ commands[o].asked
                             /\ Bylaw[links'[l].document] = Bylaw[d]
    BY DEF CorpusInv
  <2> DEFINE c == commands[o]
  <2>1. c \in Command /\ CommandSound(c) /\ d \in Document
    BY CommandHeld DEF Command
  <2>2. /\ c.todo = <<>> /\ c.moves = {}
        /\ c.doomed = {} /\ c.off \cap c.asked = {}
    BY <2>1 DEF CommandSound, KindSound, Commit
  <2>3. Rest(c) = {} /\ d \in Read(c)
    BY <2>2 DEF Rest, Read
  <2>4. /\ c.loaded = c.asked \cap Enabled
        /\ d \in c.on \cup c.loaded
        /\ c.replace => \A s \in Enabled \ c.asked :
                           Bylaw[s] = Bylaw[d] => s \in c.off
        /\ \A l \in Layer : Seen(c, l).document \in Document \ c.asked =>
                               Bylaw[Seen(c, l).document] # Bylaw[d]
    BY <2>1, <2>2, <2>3 DEF CommandSound, PublishSound
  <2>5. \A e \in Document : documents'[e].enabled =
                               ((documents[e].enabled \/ e \in c.on)
                                  /\ e \notin c.off)
    BY <2>2, DocumentsTyped DEF Commit, DocumentRow
  <2>6. documents'[d].enabled
    BY <2>1, <2>2, <2>4, <2>5 DEF Enabled
  <2>7. ASSUME c.replace, NEW s \in Present \ c.asked, Bylaw[s] = Bylaw[d]
        PROVE  ~documents'[s].enabled
    <3>1. s \notin c.on
      BY <2>1, <2>7 DEF CommandSound, KindSound
    <3>2. documents[s].enabled => s \in c.off
      BY <2>4, <2>7 DEF Enabled
    <3> QED
      BY <3>1, <3>2, <2>5, <2>7, DocumentsTyped
  <2>8. \A l \in Layer : links'[l] = Seen(c, l)
    BY DEF Commit, Seen
  <2> QED
    BY <2>4, <2>6, <2>7, <2>8
<1> QED
  BY <1>1, CorpusInvariance, PTL DEF CorpusSpec, PublishTakesEffect


-----------------------------------------------------------------------------
(* Pruning.                                                                  *)

\* A later version of the by-law of d is stored.
Outlived(d) == \E e \in Present : Bylaw[e] = Bylaw[d] /\ e > d

\* What a prune chose has a later version, whatever the others have deleted
\* since, and until one of them commits it is not published.
PruneSound(c) ==
    /\ c.kind = "prune" => \A d \in c.asked : Outlived(d)
    /\ c.kind = "prune" /\ c.alone => c.asked \cap Enabled = {}
    /\ c.doomed \subseteq c.asked

PruneInv == \A o \in Operator : PruneSound(commands[o])

\* The newest version of a by-law is in no prune, so that whoever commits
\* leaves a later version of all that had one.
LEMMA OutlivedStays ==
  ASSUME CorpusInv, PruneInv, NEW d \in Document, Outlived(d),
         NEW o \in Operator, Commit(o)
  PROVE  Outlived(d)'
<1> DEFINE V == Versions(Bylaw[d])
           c == commands[o]
<1>1. V \in SUBSET Nat /\ IsFiniteSet(V) /\ V \subseteq Present
  <2>1. V \subseteq Document /\ V \subseteq Present
    BY DocumentsTyped DEF Versions
  <2> QED
    BY <2>1, CorpusAssumption, FS_Subset
<1>2. PICK e \in V : e > d
  BY DEF Outlived, Versions
<1>3. PICK m \in V : \A f \in V : f <= m
  <2> HIDE DEF V
  <2> QED
    BY <1>1, <1>2, Greatest
<1>4. m \in Document /\ m \in Present /\ Bylaw[m] = Bylaw[d] /\ m > d
  BY <1>1, <1>2, <1>3, DocumentsTyped, CorpusAssumption DEF Versions
<1>5. m \notin c.doomed
  <2> SUFFICES ASSUME m \in c.doomed PROVE FALSE
    OBVIOUS
  <2>1. c.kind = "prune" /\ m \in c.asked
    BY CommandHeld DEF CommandSound, KindSound, PruneInv, PruneSound
  <2>2. PICK f \in Present : Bylaw[f] = Bylaw[m] /\ f > m
    BY <2>1 DEF PruneInv, PruneSound, Outlived
  <2>3. f \in V /\ f \in Nat /\ m \in Nat
    BY <1>1, <1>4, <2>2, DocumentsTyped, CorpusAssumption DEF Versions
  <2> QED
    BY <1>3, <2>2, <2>3
<1>6. documents'[m].present
  <2>1. documents'[m] = [documents[m] EXCEPT
            !.enabled = (@ \/ m \in c.on) /\ m \notin c.off]
    BY <1>4, <1>5 DEF Commit
  <2>2. documents[m] \in DocumentRow /\ documents[m].present
    BY <1>4, DocumentsTyped DEF Present
  <2> QED
    BY <2>1, <2>2 DEF DocumentRow
<1> QED
  BY <1>4, <1>6 DEF Outlived, Present

\* A step that writes no row and gives o a command that is sound.
LEMMA PruneChanged ==
  ASSUME CorpusInv, PruneInv, NEW o \in Operator, NEW c,
         PruneSound(c), commands' = [commands EXCEPT ![o] = c],
         documents' = documents
  PROVE  PruneInv'
<1>1. \A p \in Operator : commands'[p] = IF p = o THEN c ELSE commands[p]
  BY DocumentsTyped
<1>2. Present' = Present /\ Enabled' = Enabled
  BY DEF Present, Enabled
<1> QED
  BY <1>1, <1>2 DEF PruneInv, PruneSound, Outlived

LEMMA PruneBegun ==
  ASSUME CorpusInv, PruneInv, NEW o \in Operator, BeginPrune(o)
  PROVE  PruneInv'
<1>1. PICK B \in {{Bylaw[d]} : d \in Document}
                 \cup {{Bylaw[d] : d \in Document}} :
        Began(o, [NoCommand EXCEPT !.kind = "prune", !.phase = "prune",
                                   !.asked = Prunable(B)])
  BY DEF BeginPrune
<1> DEFINE D == Prunable(B)
           c == [NoCommand EXCEPT !.kind = "prune", !.phase = "prune",
                                  !.asked = D]
<1>2. ASSUME NEW d \in D PROVE Outlived(d) /\ d \notin Enabled
  <2> DEFINE V == Versions(Bylaw[d])
             later == {e \in V : e > d}
  <2>1. d \in Present /\ d \notin Recent(Bylaw[d]) /\ d \notin Enabled
    BY <1>2 DEF Prunable
  <2>2. d \in V
    BY <2>1, DocumentsTyped DEF Versions
  <2>3. ~(Cardinality(later) < KeepLatest)
    BY <2>1, <2>2 DEF Recent
  <2>4. later # {}
    <3>1. Cardinality({}) < KeepLatest
      BY FS_EmptySet, CorpusAssumption
    <3> HIDE DEF later
    <3> QED
      BY <2>3, <3>1
  <2> QED
    BY <2>1, <2>4 DEF Versions, Outlived
<1>3. c.asked = D /\ c.doomed = {}
  BY DEF NoCommand
<1>4. PruneSound(c)
  BY <1>2, <1>3 DEF PruneSound
<1> QED
  BY <1>1, <1>4, PruneChanged DEF Began

\* The commands that are no prune choose nothing and delete nothing.
LEMMA OthersBegun ==
  ASSUME CorpusInv, PruneInv, NEW o \in Operator,
         \/ BeginEnable(o) \/ BeginDisable(o)
         \/ IngestDataset(o) \/ RelinkDatasets(o)
  PROVE  PruneInv'
<1>1. PICK c : /\ Began(o, c) /\ c.kind # "prune" /\ c.doomed = {}
  <2>1. CASE BeginEnable(o)
    <3>1. PICK D \in Asked, replace \in BOOLEAN :
            \E ids \in [1 .. Cardinality(D) -> D] :
              /\ {ids[i] : i \in DOMAIN ids} = D
              /\ Began(o, [NoCommand EXCEPT
                   !.kind = "enable", !.phase = "next",
                   !.replace = replace, !.asked = D, !.todo = ids,
                   !.loaded = D \cap Enabled])
      BY <2>1 DEF BeginEnable
    <3>2. PICK ids : Began(o, [NoCommand EXCEPT
                       !.kind = "enable", !.phase = "next",
                       !.replace = replace, !.asked = D, !.todo = ids,
                       !.loaded = D \cap Enabled])
      BY <3>1
    <3> DEFINE c == [NoCommand EXCEPT
                       !.kind = "enable", !.phase = "next",
                       !.replace = replace, !.asked = D, !.todo = ids,
                       !.loaded = D \cap Enabled]
    <3>3. c.kind # "prune" /\ c.doomed = {}
      BY DEF NoCommand
    <3> HIDE DEF c
    <3> QED
      BY <3>2, <3>3 DEF c
  <2>2. CASE BeginDisable(o)
    <3>1. PICK D \in Asked :
            Began(o, [NoCommand EXCEPT !.kind = "disable", !.phase = "flush",
                                       !.asked = D, !.off = D \cap Enabled])
      BY <2>2 DEF BeginDisable
    <3> DEFINE c == [NoCommand EXCEPT !.kind = "disable", !.phase = "flush",
                                      !.asked = D, !.off = D \cap Enabled]
    <3>2. c.kind # "prune" /\ c.doomed = {}
      BY DEF NoCommand
    <3> HIDE DEF c
    <3> QED
      BY <3>1, <3>2 DEF c
  <2>3. CASE IngestDataset(o)
    <3>1. PICK l \in Layer :
            Began(o, [NoCommand EXCEPT
              !.kind = "link", !.phase = "next", !.pins[l] = Unlinked,
              !.moves = {[layer |-> l, copy |-> Unlinked, link |-> NoLayer]}])
      BY <2>3 DEF IngestDataset
    <3> DEFINE c == [NoCommand EXCEPT
                 !.kind = "link", !.phase = "next", !.pins[l] = Unlinked,
                 !.moves = {[layer |-> l, copy |-> Unlinked, link |-> NoLayer]}]
    <3>2. c.kind # "prune" /\ c.doomed = {}
      BY DEF NoCommand
    <3>3. Began(o, c)
      BY <3>1
    <3> HIDE DEF c
    <3> QED
      BY <3>2, <3>3
  <2>4. CASE RelinkDatasets(o)
    <3> DEFINE orphans == {l \in Ingested : links[l].fragment = None}
               c == [NoCommand EXCEPT
                       !.kind = "link", !.phase = "next",
                       !.moves = {[layer |-> l, copy |-> links[l],
                                   link |-> NoLayer] : l \in orphans}]
    <3>1. Began(o, c)
      BY <2>4 DEF RelinkDatasets
    <3>2. c.kind # "prune" /\ c.doomed = {}
      BY DEF NoCommand
    <3> HIDE DEF c
    <3> QED
      BY <3>1, <3>2
  <2> QED
    BY <2>1, <2>2, <2>3, <2>4
<1>2. PruneSound(c)
  BY <1>1 DEF PruneSound
<1> QED
  BY <1>1, <1>2, PruneChanged DEF Began

\* A command that goes on keeps what it chose, and dooms nothing else.
LEMMA CommandAdvances ==
  ASSUME CorpusInv, PruneInv, NEW o \in Operator,
         \/ ReadSiblings(o) \/ Flush(o) \/ Relink(o) \/ DeleteRows(o)
         \/ Resolve(o) \/ RecordLink(o)
  PROVE  PruneInv'
<1> DEFINE k == commands[o]
<1>1. k \in Command /\ PruneSound(k)
  BY CommandHeld DEF PruneInv
<1> DEFINE Kept(c) == /\ c.kind = k.kind /\ c.asked = k.asked
                      /\ c.alone = k.alone
                      /\ c.doomed \subseteq k.doomed \cup k.asked
<1>2. \E c : Advance(o, c) /\ Kept(c)
  <2>1. CASE ReadSiblings(o)
    <3> DEFINE c == [k EXCEPT !.phase = "flush",
                              !.on = @ \cup ({Head(k.todo)} \ k.loaded),
                              !.off = IF k.replace
                                      THEN @ \cup ({s \in SeenEnabled(o) :
                                              Bylaw[s] = Bylaw[Head(k.todo)]}
                                             \ k.asked)
                                      ELSE @]
    <3>1. Advance(o, c)
      BY <2>1 DEF ReadSiblings
    <3>2. Kept(c)
      BY <1>1 DEF Command
    <3> QED
      BY <3>1, <3>2
  <2>2. CASE Flush(o)
    <3> DEFINE c == [k EXCEPT !.phase = IF k.kind = "disable" THEN "commit"
                                                             ELSE "relink",
                              !.locked = k.on \cup k.off]
    <3>1. Advance(o, c)
      BY <2>2 DEF Flush
    <3>2. Kept(c)
      BY <1>1 DEF Command
    <3> QED
      BY <3>1, <3>2
  <2>3. CASE Relink(o)
    <3> DEFINE c == [k EXCEPT !.phase = "next", !.todo = Tail(@),
                              !.moves = {[layer |-> l, copy |-> SeenLink(o, l),
                                          link |-> Bound(l, Head(k.todo))] :
                                           l \in Superseded(o, Head(k.todo))}]
    <3>1. Advance(o, c)
      BY <2>3 DEF Relink
    <3>2. Kept(c)
      BY <1>1 DEF Command
    <3> QED
      BY <3>1, <3>2
  <2>4. CASE DeleteRows(o)
    <3> DEFINE gone == k.asked \cap Present
               c == [k EXCEPT !.phase = "commit", !.locked = gone,
                              !.doomed = gone,
                              !.pins = [l \in Layer |->
                                IF l \in {h \in Ingested : Names(links[h], gone)}
                                THEN Cut(links[l], gone) ELSE NoLayer]]
    <3>1. Advance(o, c)
      BY <2>4 DEF DeleteRows
    <3>2. Kept(c)
      BY <1>1 DEF Command
    <3> QED
      BY <3>1, <3>2
  <2>5. CASE Resolve(o)
    <3>1. PICK m \in k.moves :
            Advance(o, [k EXCEPT !.moves =
                          (@ \ {m}) \cup {[m EXCEPT !.link = Resolved(m.layer)]}])
      BY <2>5 DEF Resolve
    <3> DEFINE c == [k EXCEPT !.moves =
                       (@ \ {m}) \cup {[m EXCEPT !.link = Resolved(m.layer)]}]
    <3>2. Kept(c)
      BY <1>1 DEF Command
    <3> QED
      BY <3>1, <3>2
  <2>6. CASE RecordLink(o)
    <3>1. PICK m \in Chosen(k) :
            Advance(o, [k EXCEPT !.moves = @ \ {m}, !.pins[m.layer] =
                          RowUpdated(SeenLink(o, m.layer), m.copy, m.link)])
      BY <2>6 DEF RecordLink
    <3> DEFINE c == [k EXCEPT !.moves = @ \ {m}, !.pins[m.layer] =
                       RowUpdated(SeenLink(o, m.layer), m.copy, m.link)]
    <3>2. Kept(c)
      BY <1>1 DEF Command
    <3> QED
      BY <3>1, <3>2
  <2> QED
    BY <2>1, <2>2, <2>3, <2>4, <2>5, <2>6
<1>3. PICK c : Advance(o, c) /\ Kept(c)
  BY <1>2
<1>4. PruneSound(c)
  BY <1>1, <1>3 DEF PruneSound
<1> QED
  BY <1>3, <1>4, PruneChanged DEF Advance

LEMMA PruneAborted ==
  ASSUME CorpusInv, PruneInv, NEW o \in Operator, Abort(o)
  PROVE  PruneInv'
<1>1. PruneSound(NoCommand)
  BY DEF PruneSound, NoCommand
<1> QED
  BY <1>1, PruneChanged DEF Abort, Advance

\* Once rows change, the others are no longer alone.
LEMMA PruneOvertaken ==
  ASSUME CorpusInv, PruneInv, NEW p \in Operator,
         commands'[p] = [commands[p] EXCEPT !.alone = FALSE],
         \A d \in Document : Outlived(d) => Outlived(d)'
  PROVE  PruneSound(commands[p])'
<1>1. commands[p] \in Command /\ PruneSound(commands[p])
  BY CommandHeld DEF PruneInv
<1>2. /\ commands'[p].kind = commands[p].kind /\ commands'[p].alone = FALSE
      /\ commands'[p].asked = commands[p].asked
      /\ commands'[p].doomed = commands[p].doomed
  BY <1>1 DEF Command
<1>3. commands[p].asked \subseteq Document
  BY <1>1 DEF Command
<1>4. commands'[p].kind = "prune" =>
        \A d \in commands'[p].asked : Outlived(d)'
  BY <1>1, <1>2, <1>3 DEF PruneSound
<1> QED
  BY <1>1, <1>2, <1>4 DEF PruneSound, Outlived

LEMMA PruneStep ==
  ASSUME CorpusInv, PruneInv, [CorpusNext]_corpusVars
  PROVE  PruneInv'
<1>1. ASSUME NEW o \in Operator, Commit(o) PROVE PruneInv'
  <2> SUFFICES ASSUME NEW p \in Operator PROVE PruneSound(commands[p])'
    BY DEF PruneInv
  <2>1. CASE p = o
    <3>1. commands'[p] = NoCommand
      BY <1>1, <2>1 DEF Commit
    <3> QED
      BY <3>1 DEF PruneSound, NoCommand
  <2>2. CASE p # o
    <3>1. commands'[p] = [commands[p] EXCEPT !.alone = FALSE]
      BY <1>1, <2>2 DEF Commit
    <3>2. \A d \in Document : Outlived(d) => Outlived(d)'
      BY <1>1, OutlivedStays
    <3> QED
      BY <3>1, <3>2, PruneOvertaken
  <2> QED
    BY <2>1, <2>2
<1>2. ASSUME NEW n \in Document, IngestDocument(n) PROVE PruneInv'
  <2>1. \A p \in Operator :
          commands'[p] = [commands[p] EXCEPT !.alone = FALSE]
    BY <1>2 DEF IngestDocument
  <2>2. Present \subseteq Present'
    BY <1>2, DocumentsTyped DEF IngestDocument, Present
  <2>3. \A d \in Document : Outlived(d) => Outlived(d)'
    BY <2>2 DEF Outlived
  <2> QED
    BY <2>1, <2>3, PruneOvertaken DEF PruneInv
<1>3. ASSUME NEW o \in Operator, CommandStep(o) PROVE PruneInv'
  BY <1>1, <1>3, PruneBegun, OthersBegun, CommandAdvances, PruneAborted
  DEF CommandStep
<1>4. CASE UNCHANGED corpusVars
  BY <1>4 DEF corpusVars, PruneInv, PruneSound, Outlived, Present, Enabled
<1> QED
  BY <1>2, <1>3, <1>4 DEF CorpusNext

\* plan_prune and prune_superseded: whatever runs at the same time, a document
\* that is deleted has a later version that stays, and a prune that no other
\* commit came between deletes nothing that is published.
THEOREM PruneSpares == CorpusSpec => PruneSparesPublished
<1> DEFINE Spared ==
      \A d \in Document :
         (documents[d].present /\ ~documents'[d].present) =>
            /\ \E e \in Document : /\ Bylaw[e] = Bylaw[d] /\ e > d
                                   /\ documents'[e].present
            /\ \A o \in Operator :
                 (Commit(o) /\ commands[o].alone) => ~documents[d].enabled
<1>1. CorpusInit => PruneInv
  BY DEF CorpusInit, PruneInv, PruneSound, NoCommand
<1>2. CorpusInv /\ PruneInv /\ [CorpusNext]_corpusVars => PruneInv'
  BY PruneStep
<1>3. CorpusInv /\ PruneInv /\ [CorpusNext]_corpusVars => Spared
  <2> SUFFICES ASSUME CorpusInv, PruneInv, [CorpusNext]_corpusVars,
                      NEW d \in Document, documents[d].present,
                      ~documents'[d].present
               PROVE  /\ \E e \in Document : /\ Bylaw[e] = Bylaw[d] /\ e > d
                                             /\ documents'[e].present
                      /\ \A o \in Operator : (Commit(o) /\ commands[o].alone)
                           => ~documents[d].enabled
    OBVIOUS
  <2>1. ASSUME NEW o \in Operator, Commit(o)
        PROVE  /\ d \in commands[o].doomed /\ d \in commands[o].asked
               /\ commands[o].kind = "prune"
    <3>1. d \in commands[o].doomed
      <4> SUFFICES ASSUME d \notin commands[o].doomed PROVE FALSE
        OBVIOUS
      <4>1. documents'[d] = [documents[d] EXCEPT
              !.enabled = (@ \/ d \in commands[o].on)
                             /\ d \notin commands[o].off]
        BY <2>1 DEF Commit
      <4>2. documents[d] \in DocumentRow
        BY DocumentsTyped
      <4> QED
        BY <4>1, <4>2 DEF DocumentRow
    <3> QED
      BY <3>1, CommandHeld DEF CommandSound, KindSound, PruneInv, PruneSound
  <2>2. \E o \in Operator : Commit(o)
    <3>1. documents' # documents
      OBVIOUS
    <3>2. ~(\E n \in Document : IngestDocument(n))
      BY DocumentsTyped DEF IngestDocument
    <3>3. PICK o \in Operator : CommandStep(o)
      BY <3>1, <3>2 DEF CorpusNext, corpusVars
    <3> QED
      BY <3>1, <3>3 DEF CommandStep, BeginEnable, BeginDisable, BeginPrune,
         IngestDataset, RelinkDatasets, ReadSiblings, Flush, Relink, Resolve,
         RecordLink, DeleteRows, Abort, Began, Advance
  <2>3. PICK o \in Operator : Commit(o)
    BY <2>2
  <2>4. Outlived(d)'
    BY <2>1, <2>3, OutlivedStays DEF PruneInv, PruneSound
  <2>5. \E e \in Document : /\ Bylaw[e] = Bylaw[d] /\ e > d
                            /\ documents'[e].present
    BY <2>4 DEF Outlived, Present
  <2>6. ASSUME NEW p \in Operator, Commit(p), commands[p].alone
        PROVE  ~documents[d].enabled
    <3>1. d \in commands[p].asked /\ commands[p].kind = "prune"
      BY <2>1, <2>6
    <3>2. d \notin Enabled
      BY <2>6, <3>1 DEF PruneInv, PruneSound
    <3> QED
      BY <3>2 DEF Enabled, Present
  <2> QED
    BY <2>5, <2>6
<1> QED
  BY <1>1, <1>2, <1>3, CorpusInvariance, PTL
  DEF CorpusSpec, PruneSparesPublished

=============================================================================
