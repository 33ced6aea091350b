------------------------------- MODULE Corpus -------------------------------
(***************************************************************************)
(* The published by-law corpus of layer 1: ingested documents with their   *)
(* retrieval_enabled flag, and the geo datasets ("layers") that are linked *)
(* to the fragment of a document (layer1/pipeline/publish.py, prune.py,    *)
(* ingest.py, ingest_dataset.py, layer1/datasets/linker.py, layer1/cli.py).*)
(*                                                                         *)
(* An operator command is one session_scope: one READ COMMITTED            *)
(* transaction that sees what others committed and its own writes, holds   *)
(* the rows its flushes updated, and commits or is rolled back as a whole. *)
(***************************************************************************)
EXTENDS Integers, Sequences, FiniteSets

CONSTANTS
    Document,   \* ids, in the order of ingestion
    Stored,     \* those the corpus starts with,
    Published,  \* those of them that are enabled,
    Linked,     \* and Linked[l]: the one that layer l is linked to then
    Layer,      \* geo datasets that declare a by-law and a citation
    Operator,   \* sessions that run commands at once
    Bylaw,      \* Bylaw[d]: municipality and by-law name of document d
    Declared,   \* Declared[l]: what links_to.document_match of l names
    Matches,    \* Matches[d][l]: fragments of d with the citation of l
    KeepLatest, \* --keep-latest of prune
    MaxIds,     \* bound on the ids of one command
    MaxCommands, \* bound on the commands begun
    None

ASSUME CorpusAssumption ==
    /\ Document \subseteq Nat /\ IsFiniteSet(Document)
    /\ Stored \subseteq Document /\ Published \subseteq Stored
    /\ None \notin Document
    /\ Matches \in [Document -> [Layer -> Nat]]
    /\ DOMAIN Linked \subseteq Layer /\ \A l \in DOMAIN Linked : Linked[l] \in Stored
    /\ KeepLatest \in Nat \ {0} /\ MaxIds \in Nat /\ MaxCommands \in Nat

VARIABLES
    documents,   \* committed document rows
    links,       \* committed external_dataset rows: what each layer is linked to
    commands,    \* the transaction of each operator
    commandsBegun   \* bound only

corpusVars == <<documents, links, commands, commandsBegun>>

-----------------------------------------------------------------------------
(* Rows and transactions.                                                  *)

DocumentRow == [present : BOOLEAN, enabled : BOOLEAN, deleted : BOOLEAN]

\* linked_document_id, and the document that linked_fragment_id is a fragment
\* of.
Link == [document : Document \cup {None}, fragment : Document \cup {None}]

Unlinked == [document |-> None, fragment |-> None]

\* A layer not ingested yet, and a layer a transaction has not written.
NoLayer == [document |-> None, fragment |-> None, absent |-> TRUE]

CommandKind == {"none", "enable", "disable", "prune", "link"}

\* "next": the links it has chosen are written, then the next id is published
\* or the next layer linked.  "flush": the flags are set on the objects, not
\* sent.  "relink": the layers that follow an id are to be read.  "prune": the
\* superseded documents were chosen.  "commit": all is flushed.
CommandPhase == {"idle", "next", "flush", "relink", "prune", "commit"}

\* The row of a layer as the session loaded it, and the link chosen for it.
Move == [layer : Layer, copy : Link, link : Link \cup {NoLayer}]

\* asked: the ids of the command.  todo: ids still to publish.  loaded: the
\* documents it loaded as enabled.  on, off: flags set.  locked: document rows
\* its UPDATEs hold.  doomed: documents it will delete.  moves: the layers that
\* it is still to link.  pins: layer rows written, and held.  alone: no other
\* transaction has committed since it began.
Command == [kind : CommandKind, phase : CommandPhase, replace : BOOLEAN,
            asked : SUBSET Document, todo : Seq(Document),
            loaded : SUBSET Document,
            on : SUBSET Document, off : SUBSET Document,
            locked : SUBSET Document, doomed : SUBSET Document,
            moves : SUBSET Move,
            pins : [Layer -> Link \cup {NoLayer}], alone : BOOLEAN]

NoCommand == [kind |-> "none", phase |-> "idle", replace |-> FALSE,
              asked |-> {}, todo |-> <<>>, loaded |-> {},
              on |-> {}, off |-> {}, locked |-> {}, doomed |-> {}, moves |-> {},
              pins |-> [l \in Layer |-> NoLayer], alone |-> TRUE]

Present == {d \in Document : documents[d].present}
Enabled == {d \in Present : documents[d].enabled}
Ingested == {l \in Layer : links[l] # NoLayer}

Versions(b) == {d \in Present : Bylaw[d] = b}
Newest(S) == CHOOSE d \in S : \A e \in S : e <= d

\* What transaction o sees.
SeenEnabled(o) == (Enabled \ commands[o].off) \cup commands[o].on
SeenLink(o, l) == IF commands[o].pins[l] # NoLayer THEN commands[o].pins[l]
                  ELSE links[l]

\* The moves of a command whose link is chosen and not written.
Chosen(c) == {m \in c.moves : m.link # NoLayer}

Asked == {D \in SUBSET Present : D # {} /\ Cardinality(D) <= MaxIds}

Others(o) == Operator \ {o}

\* An UPDATE of document rows waits for the transactions that hold them.
Unlocked(o, D) == \A p \in Others(o) : D \cap commands[p].locked = {}

\* So does one of a layer's row, and the foreign key waits for a deletion.
LayerFree(o, l) == \A p \in Others(o) : commands[p].pins[l] = NoLayer

-----------------------------------------------------------------------------
CorpusInit ==
    /\ documents = [d \in Document |-> [present |-> d \in Stored,
                                        enabled |-> d \in Published,
                                        deleted |-> FALSE]]
    /\ links = [l \in Layer |->
         IF l \notin DOMAIN Linked THEN NoLayer
         ELSE [document |-> Linked[l],
               fragment |-> IF Matches[Linked[l]][l] = 1 THEN Linked[l] ELSE None]]
    /\ commands = [o \in Operator |-> NoCommand]
    /\ commandsBegun = 0

Began(o, command) ==
    /\ commands[o].phase = "idle" /\ commandsBegun < MaxCommands
    /\ commands' = [commands EXCEPT ![o] = command]
    /\ commandsBegun' = commandsBegun + 1
    /\ UNCHANGED <<documents, links>>

Advance(o, command) ==
    /\ commands' = [commands EXCEPT ![o] = command]
    /\ UNCHANGED <<documents, links, commandsBegun>>

\* enable-retrieval.  An unknown id raises before anything is changed; the
\* preview and the confirmation that precede it change nothing.
BeginEnable(o) ==
    \E D \in Asked, replace \in BOOLEAN :
      \E ids \in [1..Cardinality(D) -> D] :
        /\ {ids[i] : i \in DOMAIN ids} = D
        /\ Began(o, [NoCommand EXCEPT
             !.kind = "enable", !.phase = "next", !.replace = replace,
             !.asked = D, !.todo = ids, !.loaded = D \cap Enabled])

\* The enabled versions of the same by-law are read, and with --replace their
\* flags are cleared; the flag of the id is set unless it was loaded as set.
ReadSiblings(o) ==
    LET c == commands[o]
        d == Head(c.todo)
        siblings == {s \in SeenEnabled(o) : Bylaw[s] = Bylaw[d]} \ c.asked
    IN /\ c.kind = "enable" /\ c.phase = "next"
       /\ Chosen(c) = {} /\ c.todo # <<>>
       /\ Advance(o, [c EXCEPT !.phase = "flush",
                               !.on = @ \cup ({d} \ c.loaded),
                               !.off = IF c.replace THEN @ \cup siblings ELSE @])

\* An UPDATE of a row that is gone matches none and raises.
Flush(o) ==
    LET c == commands[o]
    IN /\ c.phase = "flush"
       /\ Unlocked(o, c.on \cup c.off) /\ c.on \cup c.off \subseteq Present
       /\ Advance(o, [c EXCEPT
            !.phase = IF c.kind = "disable" THEN "commit" ELSE "relink",
            !.locked = c.on \cup c.off])

\* Mutant of Bound: the first of several fragments is taken, and a missing
\* one leaves the fragment the layer had.
BoundLoosely(l, d) == [document |-> d,
                       fragment |-> IF Matches[d][l] > 0 THEN d
                                    ELSE IF links[l] = NoLayer THEN None
                                    ELSE links[l].fragment]

\* Binding a layer to d: a citation that d has not, or has more than once,
\* leaves it flagged on the document without a fragment.
Bound(l, d) == [document |-> d,
                fragment |-> IF Matches[d][l] = 1 THEN d ELSE None]

\* Mutant of Superseded: only the layers of enabled versions follow.
SupersededEnabled(o, d) ==
    {l \in Layer : /\ SeenLink(o, l) # NoLayer
                   /\ SeenLink(o, l).document
                        \in (SeenEnabled(o) \cap Versions(Bylaw[d])) \ {d}}

\* relink_superseded_datasets: the layers of the other versions follow d.
Superseded(o, d) ==
    {l \in Layer : /\ SeenLink(o, l) # NoLayer
                   /\ SeenLink(o, l).document \in Versions(Bylaw[d]) \ {d}}

\* Their rows are loaded, and each is to be bound to d.
Relink(o) ==
    LET c == commands[o]
        d == Head(c.todo)
        moved == Superseded(o, d)
    IN /\ c.phase = "relink"
       /\ Advance(o, [c EXCEPT
            !.phase = "next", !.todo = Tail(@),
            !.moves = {[layer |-> l, copy |-> SeenLink(o, l), link |-> Bound(l, d)] :
                         l \in moved}])

\* A column may name a document, or a fragment of it, that exists and that
\* nobody is deleting.
Referable(o, d) ==
    d # None => d \in Present /\ \A p \in Others(o) : d \notin commands[p].doomed

\* The foreign keys are checked of the columns that change.
Linkable(o, row, link) ==
    /\ link.document # row.document => Referable(o, link.document)
    /\ link.fragment # row.fragment => Referable(o, link.fragment)

\* _record_link sets both attributes of the loaded object, and the flush sends
\* the columns that differ from what was loaded: the others stay as the row has
\* them by now.
RowUpdated(row, copy, link) ==
    [document |-> IF link.document = copy.document THEN row.document
                  ELSE link.document,
     fragment |-> IF link.fragment = copy.fragment THEN row.fragment
                  ELSE link.fragment]

\* The UPDATE of one layer, whose link_history always changes.
RecordLink(o) ==
    LET c == commands[o]
    IN \E m \in Chosen(c) :
         LET row == SeenLink(o, m.layer)
             link == RowUpdated(row, m.copy, m.link)
         IN /\ LayerFree(o, m.layer) /\ Linkable(o, row, link)
            /\ Advance(o, [c EXCEPT !.moves = @ \ {m}, !.pins[m.layer] = link])

\* disable-retrieval changes the flags only: the layers stay where they are.
BeginDisable(o) ==
    \E D \in Asked :
        Began(o, [NoCommand EXCEPT !.kind = "disable", !.phase = "flush",
                                   !.asked = D, !.off = D \cap Enabled])

\* The documents past the newest KeepLatest of their by-law, less the enabled.
Recent(b) == {d \in Versions(b) :
                Cardinality({e \in Versions(b) : e > d}) < KeepLatest}

\* Mutant of Prunable: the oldest are kept instead of the newest.
PrunableNewest(B) ==
    {d \in Present : /\ Bylaw[d] \in B /\ d \notin Enabled
                     /\ \E e \in Versions(Bylaw[d]) : e < d}

Prunable(B) == {d \in Present : /\ Bylaw[d] \in B
                                /\ d \notin Recent(Bylaw[d])
                                /\ d \notin Enabled}

\* prune-superseded --no-dry-run: the plan shown and confirmed was made by an
\* earlier session and is made again here.
BeginPrune(o) ==
    \E B \in {{Bylaw[d]} : d \in Document} \cup {{Bylaw[d] : d \in Document}} :
        Began(o, [NoCommand EXCEPT !.kind = "prune", !.phase = "prune",
                                   !.asked = Prunable(B)])

\* ON DELETE SET NULL, of each column by itself.
Cut(link, gone) ==
    [document |-> IF link.document \in gone THEN None ELSE link.document,
     fragment |-> IF link.fragment \in gone THEN None ELSE link.fragment]

Names(link, D) == link.document \in D \/ link.fragment \in D

\* The flush before the commit deletes by id, whatever the flag is by now.
\* A DELETE waits for updates of the row and for links to it or to a fragment
\* of it; the layers that were linked to either lose that link.
DeleteRows(o) ==
    LET c == commands[o]
        gone == c.asked \cap Present
        cut == {l \in Ingested : Names(links[l], gone)}
    IN /\ c.phase = "prune"
       /\ Unlocked(o, gone)
       /\ \A p \in Others(o) :
            /\ gone \cap commands[p].doomed = {}
            /\ \A l \in Layer : ~Names(commands[p].pins[l], gone)
       /\ \A l \in cut : LayerFree(o, l)
       /\ Advance(o, [c EXCEPT
            !.phase = "commit", !.locked = gone, !.doomed = gone,
            !.pins = [l \in Layer |-> IF l \in cut THEN Cut(links[l], gone)
                                      ELSE NoLayer]])

\* ingest-dataset of a layer not stored yet: its row is inserted unlinked.  Of
\* two at once the name is unique: the later waits, and fails or goes on.
IngestDataset(o) ==
    \E l \in Layer \ Ingested :
        /\ LayerFree(o, l)
        /\ Began(o, [NoCommand EXCEPT
             !.kind = "link", !.phase = "next", !.pins[l] = Unlinked,
             !.moves = {[layer |-> l, copy |-> Unlinked, link |-> NoLayer]}])

\* relink-datasets loads all that have no fragment.
RelinkDatasets(o) ==
    LET orphans == {l \in Ingested : links[l].fragment = None}
    IN Began(o, [NoCommand EXCEPT
         !.kind = "link", !.phase = "next",
         !.moves = {[layer |-> l, copy |-> links[l], link |-> NoLayer] :
                      l \in orphans}])

\* link_dataset_to_bylaw prefers the newest version that has the citation,
\* enabled or not, to the newest of all.
Resolved(l) ==
    LET all == Versions(Declared[l])
        carrying == {d \in all : Matches[d][l] > 0}
    IN IF all = {} THEN Unlinked
       ELSE Bound(l, Newest(IF carrying # {} THEN carrying ELSE all))

\* The versions are read for one of the loaded layers, which is not read again.
Resolve(o) ==
    LET c == commands[o]
    IN /\ c.kind = "link" /\ Chosen(c) = {}
       /\ \E m \in c.moves :
            Advance(o, [c EXCEPT !.moves =
                          (@ \ {m}) \cup {[m EXCEPT !.link = Resolved(m.layer)]}])

Commit(o) ==
    LET c == commands[o]
    IN /\ \/ c.phase = "commit"
          \/ c.phase = "next" /\ c.todo = <<>> /\ c.moves = {}
       /\ documents' = [d \in Document |->
            IF d \in c.doomed
            THEN [present |-> FALSE, enabled |-> FALSE, deleted |-> TRUE]
            ELSE [documents[d] EXCEPT
                    !.enabled = (@ \/ d \in c.on) /\ d \notin c.off]]
       /\ links' = [l \in Layer |-> IF c.pins[l] # NoLayer THEN c.pins[l]
                                    ELSE links[l]]
       /\ commands' = [p \in Operator |->
            IF p = o THEN NoCommand ELSE [commands[p] EXCEPT !.alone = FALSE]]
       /\ UNCHANGED commandsBegun

\* An exception, a refused foreign key, a deadlock or an interrupt: nothing of
\* the command is kept.
Abort(o) ==
    /\ commands[o].phase # "idle"
    /\ Advance(o, NoCommand)

\* ingest: the document, its fragments and its run are one transaction, so a
\* raised exception leaves nothing; validation errors commit a failed run and
\* its document.  Retrieval is never enabled by it.
IngestDocument(d) ==
    /\ ~documents[d].present /\ ~documents[d].deleted
    /\ documents' = [documents EXCEPT ![d] =
                       [present |-> TRUE, enabled |-> FALSE, deleted |-> FALSE]]
    /\ commands' = [p \in Operator |-> [commands[p] EXCEPT !.alone = FALSE]]
    /\ UNCHANGED <<links, commandsBegun>>

CommandStep(o) ==
    \/ BeginEnable(o) \/ BeginDisable(o) \/ BeginPrune(o)
    \/ IngestDataset(o) \/ RelinkDatasets(o)
    \/ ReadSiblings(o) \/ Flush(o) \/ Relink(o) \/ Resolve(o) \/ RecordLink(o)
    \/ DeleteRows(o) \/ Commit(o) \/ Abort(o)

CorpusNext ==
    \/ \E o \in Operator : CommandStep(o)
    \/ \E d \in Document : IngestDocument(d)

CorpusSpec == CorpusInit /\ [][CorpusNext]_corpusVars

-----------------------------------------------------------------------------
CorpusTypeOK ==
    /\ documents \in [Document -> DocumentRow]
    /\ links \in [Layer -> Link \cup {NoLayer}]
    /\ commands \in [Operator -> Command]
    /\ commandsBegun \in 0..MaxCommands

\* Whatever commands overlap, the document and the fragment of a layer are
\* stored, and its citation is that of one fragment of that document alone:
\* retrieval never shows a layer through a deleted fragment, or one picked out
\* of several.
LinkStored(link, l) ==
    /\ link.document # None => link.document \in Present
    /\ link.fragment # None =>
         link.fragment \in Present /\ Matches[link.fragment][l] = 1

\* The fragment is one of the document.
Whole(link) == link.fragment \in {None, link.document}

\* And though an UPDATE sends single columns, a command that no other commit
\* came between writes, and so commits, no fragment of one version beside the
\* link to another: a prune leaves such a layer only where it found it so.
LinksSound ==
    \A l \in Layer :
        /\ LinkStored(links[l], l)
        /\ \A o \in Operator :
             /\ commands[o].alone
             /\ commands[o].kind = "prune" => Whole(links[l])
             => Whole(commands[o].pins[l])

\* A publication that no other commit came between does all it says: its
\* documents are enabled, with --replace no other version of their by-laws is,
\* and no layer stays linked to another version of them.
PublishTakesEffect ==
    [][\A o \in Operator :
         LET c == commands[o] IN
         (c.kind = "enable" /\ c.alone /\ Commit(o)) =>
             \A d \in c.asked :
                /\ documents'[d].enabled
                /\ c.replace => \A s \in Present \ c.asked :
                     Bylaw[s] = Bylaw[d] => ~documents'[s].enabled
                /\ \A l \in Layer : links'[l] # NoLayer =>
                     ~ /\ links'[l].document \in Document \ c.asked
                       /\ Bylaw[links'[l].document] = Bylaw[d]
      ]_corpusVars

\* Whatever runs at the same time, the newest version of a by-law is never
\* deleted; and a prune that no other commit came between deletes no document
\* that is published.
PruneSparesPublished ==
    [][\A d \in Document :
         (documents[d].present /\ ~documents'[d].present) =>
            /\ \E e \in Document : /\ Bylaw[e] = Bylaw[d] /\ e > d
                                   /\ documents'[e].present
            /\ \A o \in Operator :
                 (Commit(o) /\ commands[o].alone) => ~documents[d].enabled
      ]_corpusVars

=============================================================================
