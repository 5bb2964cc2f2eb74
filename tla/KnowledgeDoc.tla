------------------------------ MODULE KnowledgeDoc ------------------------------
(***************************************************************************)
(* The knowledge document of a ticket: Markdown that is taken apart at its *)
(* headings, changed in one place and put together again.  Agents' tools   *)
(* and routes do so under an advisory lock.  A run of the orchestrated     *)
(* analysis starts the document when it must and fills what was left       *)
(* empty; operators save the whole text as they have it on the screen.     *)
(*                                                                         *)
(* An empty text stands for no document: both are taken apart alike.       *)
(***************************************************************************)
EXTENDS Naturals, SequencesExt

CONSTANTS
    Template,     \* the keys of the sections, in order
    Parents,      \* those that may have subsections
    Required,     \* those that a run fills
    SubTitles,    \* of subsections: a name, and numbers that follow it
    Texts,        \* what is written: sequences of lines
    Marker,       \* the line of a section that was left empty
    AnalysisRun,  \* a section of orchestrated-v1, which the template does not know
    MaxLength,    \* lines of a section, at most
    Agents, run,  \* writers under the lock; the run is one of them
    MaxWrites,    \* bound on the calls of agents and routes
    MaxSaves      \* bound on the drafts of operators

Keys == ToSet(Template)
Writers == Agents \cup {run}

\* Lines are records: text, or headings of sections and subsections.
H2(key) == [h2 |-> key]
H3(title) == [h3 |-> title]
IsH2(line) == DOMAIN line = {"h2"}
IsH3(line) == DOMAIN line = {"h3"}

\* A text is kept as splitIntoSections reads it: the lines before its first
\* section, if it has none, and its sections.
NoText == [buffer |-> <<>>, secs |-> <<>>]

None == [none |-> TRUE]

\* Lines that are written are no headings: a heading in a content begins a
\* section of its own, which nobody asked for.
PlainLines == (UNION {ToSet(text) : text \in Texts}) \cup {Marker}

ASSUME KnowledgeAssumption ==
    /\ Template \in Seq(Keys) /\ \A i, j \in DOMAIN Template : Template[i] = Template[j] => i = j
    /\ Parents \subseteq Keys /\ Required \subseteq Keys /\ AnalysisRun \notin Keys
    /\ SubTitles \subseteq Seq(Nat)
    /\ Texts \subseteq Seq(PlainLines) /\ \A line \in PlainLines : ~IsH2(line) /\ ~IsH3(line)
    /\ run \notin Agents /\ None \notin Writers
    /\ MaxWrites \in Nat /\ MaxSaves \in Nat

VARIABLES
    doc,          \* knowledgeDoc
    sidecar,      \* the entries of knowledgeDocSectionMeta, by key and subsection
    lock,         \* who holds the lock of the ticket: nobody or one writer
    writer,       \* of each writer: where it is, what it does, the text it has read
    runPc, todo,  \* the run: its phase, the sections it still has to fill
    draft,        \* the text on an operator's screen, if any
    writes, saves,
    \* history, read by the properties only
    passed,       \* writers that read before a text was saved
    raced         \* writes over what their writer had not read

kdVars == <<doc, sidecar, lock, writer, runPc, todo, draft, writes, saves, passed, raced>>

NotWriting == [pc |-> "idle", op |-> None, seen |-> NoText]

KnowledgeInit ==
    /\ doc = NoText /\ sidecar = {} /\ lock = None
    /\ writer = [w \in Writers |-> NotWriting]
    /\ runPc = "idle" /\ todo = {} /\ draft = None
    /\ writes = 0 /\ saves = 0
    /\ passed = {} /\ raced = 0

-----------------------------------------------------------------------------
(* Taking apart and putting together *)

Section(key) == [key |-> key, content |-> <<>>, subs |-> <<>>]

\* The first of title, title-2, title-3, ... that is not taken.
Slug(title, taken) ==
    IF title \notin taken THEN title
    ELSE LET n == CHOOSE n \in 2 .. Cardinality(taken) + 2 :
                    /\ Append(title, n) \notin taken
                    /\ \A m \in 2 .. n - 1 : Append(title, m) \in taken
         IN  Append(title, n)

SubKeys(s) == {s.subs[i].key : i \in DOMAIN s.subs}
WithSub(s, title, content) ==
    [s EXCEPT !.subs = Append(@, [key |-> Slug(title, SubKeys(s)), title |-> title, content |-> content])]

\* A line goes to the subsection or section begun last; lines before the first
\* section stay in the buffer, and are its first lines.
TakeLine(text, line) ==
    LET n == Len(text.secs)
        m == Len(text.secs[n].subs)
    IN  IF IsH2(line)
        THEN [buffer |-> <<>>,
              secs |-> Append(text.secs, [Section(line.h2) EXCEPT !.content = text.buffer])]
        ELSE IF n = 0 THEN [text EXCEPT !.buffer = Append(@, line)]
        ELSE IF IsH3(line) THEN [text EXCEPT !.secs[n] = WithSub(@, line.h3, <<>>)]
        ELSE IF m > 0 THEN [text EXCEPT !.secs[n].subs[m].content = Append(@, line)]
        ELSE [text EXCEPT !.secs[n].content = Append(@, line)]

Parsed(lines) ==
    LET upTo[n \in 0 .. Len(lines)] ==
            IF n = 0 THEN NoText ELSE TakeLine(upTo[n - 1], lines[n])
    IN  upTo[Len(lines)]

\* The last of the sections that have the key; a section without text if none has.
ByKey(secs, key) ==
    LET has == {i \in DOMAIN secs : secs[i].key = key}
    IN  IF has = {} THEN Section(key) ELSE secs[CHOOSE i \in has : \A j \in has : j <= i]

SectionLines(s) ==
    <<H2(s.key)>> \o s.content
    \o FlattenSeq([i \in DOMAIN s.subs |-> <<H3(s.subs[i].title)>> \o s.subs[i].content])

\* The template's sections in its order, then those it does not know.
ComposeSections(secs) ==
    Parsed(FlattenSeq([i \in DOMAIN Template |-> SectionLines(ByKey(secs, Template[i]))])
           \o FlattenSeq([i \in DOMAIN secs |-> IF secs[i].key \in Keys THEN <<>> ELSE SectionLines(secs[i])]))

EmptyKnowledgeDoc == ComposeSections(<<>>)

\* find: the place of the first section that has the key.
PlaceOf(secs, key) == SelectInSeq(secs, LAMBDA s : s.key = key)
FirstOf(text, key) ==
    IF PlaceOf(text.secs, key) = 0 THEN Section(key) ELSE text.secs[PlaceOf(text.secs, key)]
ReadSection(text, key) == FirstOf(text, key).content

\* The text with s in the place of the first section that has its key, if any.
Changed(text, s) ==
    LET n == PlaceOf(text.secs, s.key)
    IN  ComposeSections(IF n = 0 THEN Append(text.secs, s) ELSE [text.secs EXCEPT ![n] = s])

-----------------------------------------------------------------------------
(* updateSection and addSubsection *)

Updates == [what : {"replace", "append"}, key : Keys, text : Texts]
Additions == [what : {"add"}, key : Parents, title : SubTitles, text : Texts]

\* What the section, or the new subsection, holds afterwards.
NextContent(text, op) ==
    IF op.what = "append" THEN ReadSection(text, op.key) \o op.text ELSE op.text

Written(text, op) ==
    LET s == FirstOf(text, op.key)
        next == NextContent(text, op)
    IN  Changed(text, IF op.what = "add" THEN WithSub(s, op.title, next) ELSE [s EXCEPT !.content = next])

\* The entries of the sidecar that are set: of a section, and of a subsection.
Noted(text, op) ==
    {<<op.key, <<>>>>} \cup
    (IF op.what = "add" THEN {<<op.key, Slug(op.title, SubKeys(FirstOf(text, op.key)))>>} ELSE {})

Begin(w, op) == writer' = [writer EXCEPT ![w] = [pc |-> "waiting", op |-> op, seen |-> NoText]]

CallsTool(w) ==
    /\ writer[w].pc = "idle" /\ writes < MaxWrites
    /\ writes' = writes + 1
    /\ \E op \in Updates \cup Additions : Begin(w, op)
    /\ UNCHANGED <<doc, sidecar, lock, runPc, todo, draft, saves, passed, raced>>

\* Variant: no lock.
GrantedAlways(w) == TRUE

\* pg_advisory_xact_lock: one transaction at a time.
Granted(w) == lock = None

Load(w) ==
    /\ writer[w].pc = "waiting" /\ Granted(w)
    /\ lock' = w
    /\ writer' = [writer EXCEPT ![w].pc = "read", ![w].seen = doc]
    /\ passed' = passed \ {w}
    /\ UNCHANGED <<doc, sidecar, runPc, todo, draft, writes, saves, raced>>

\* The update, and the end of the transaction.
Store(w) ==
    LET op == writer[w].op
        text == writer[w].seen
        next == NextContent(text, op)
    IN  /\ writer[w].pc = "read" /\ Len(next) <= MaxLength
        /\ doc' = Written(text, op)
        /\ sidecar' = sidecar \cup Noted(text, op)
        /\ raced' = IF w \in passed THEN raced + 1 ELSE raced
        /\ lock' = None /\ writer' = [writer EXCEPT ![w] = NotWriting]
        /\ UNCHANGED <<runPc, todo, draft, writes, saves, passed>>

\* A section that is too long, or a transaction that takes too long.
Fails(w) ==
    /\ writer[w].pc # "idle"
    /\ lock' = IF lock = w THEN None ELSE lock
    /\ writer' = [writer EXCEPT ![w] = NotWriting]
    /\ UNCHANGED <<doc, sidecar, runPc, todo, draft, writes, saves, passed, raced>>

-----------------------------------------------------------------------------
(* A run of orchestrated-v2 *)

LooksAtStart ==
    /\ runPc = "idle"
    /\ runPc' = IF doc = NoText \/ sidecar = {} THEN "starting" ELSE "working"
    /\ passed' = passed \ {run}
    /\ UNCHANGED <<doc, sidecar, lock, writer, todo, draft, writes, saves, raced>>

\* The template replaces whatever the document is by now.
Starts ==
    /\ runPc = "starting" /\ lock = None
    /\ doc' = EmptyKnowledgeDoc /\ sidecar' = {}
    /\ raced' = IF doc \in {NoText, EmptyKnowledgeDoc} THEN raced ELSE raced + 1
    /\ runPc' = "working"
    /\ UNCHANGED <<lock, writer, todo, draft, writes, saves, passed>>

\* fallbackFillRequiredSections looks once for all sections.
LooksAtEnd ==
    /\ runPc = "working"
    /\ runPc' = "filling"
    /\ todo' = {k \in Required : ReadSection(doc, k) = <<>>}
    /\ UNCHANGED <<doc, sidecar, lock, writer, draft, writes, saves, passed, raced>>

Fills ==
    /\ runPc = "filling" /\ writer[run].pc = "idle"
    /\ \E k \in todo :
           /\ Begin(run, [what |-> "replace", key |-> k, text |-> <<Marker>>])
           /\ todo' = todo \ {k}
    /\ UNCHANGED <<doc, sidecar, lock, runPc, draft, writes, saves, passed, raced>>

-----------------------------------------------------------------------------
(* Those who write the whole text: operators, and the older orchestrated-v1,
   which keeps a copy of its own and writes it in every round. *)

OpensEditor ==
    /\ draft = None /\ saves < MaxSaves
    /\ draft' = [text |-> doc] /\ saves' = saves + 1
    /\ UNCHANGED <<doc, sidecar, lock, writer, runPc, todo, writes, passed, raced>>

\* What the text on the screen, or of the run, becomes: free lines if nothing is
\* there, one section more, or one that was edited.
TypedFreely(text, lines) == [text EXCEPT !.buffer = @ \o lines]
RunAdded(text, lines) ==
    LET begun == TakeLine(text, H2(AnalysisRun))
    IN  [begun EXCEPT !.secs[Len(begun.secs)].content = @ \o lines]
SectionEdited(text, key, lines) == Changed(text, [FirstOf(text, key) EXCEPT !.content = lines])

SavesText ==
    /\ draft # None
    /\ \E lines \in Texts :
           \/ draft.text.secs = <<>> /\ doc' = TypedFreely(draft.text, lines)
           \/ doc' = RunAdded(draft.text, lines)
           \/ /\ draft.text.secs # <<>>
              /\ \E k \in Keys : doc' = SectionEdited(draft.text, k, lines)
    /\ raced' = IF doc = draft.text THEN raced ELSE raced + 1
    /\ passed' = {w \in Writers : writer[w].pc = "read"}
    /\ draft' = None
    /\ UNCHANGED <<sidecar, lock, writer, runPc, todo, writes, saves>>

KnowledgeNext ==
    \/ \E w \in Agents : CallsTool(w)
    \/ \E w \in Writers : Load(w) \/ Store(w) \/ Fails(w)
    \/ LooksAtStart \/ Starts \/ LooksAtEnd \/ Fills
    \/ OpensEditor \/ SavesText

KnowledgeSpec == KnowledgeInit /\ [][KnowledgeNext]_kdVars

-----------------------------------------------------------------------------
(* Properties *)

KnowledgeTypeOK ==
    /\ doc.buffer \in Seq(UNION {ToSet(text) : text \in Texts})
    /\ \A i \in DOMAIN doc.secs : doc.secs[i].key \in Keys \cup {AnalysisRun}
    /\ sidecar \subseteq Keys \X Seq(Nat)
    /\ lock \in Writers \cup {None}
    /\ \A w \in Writers : writer[w].pc \in {"idle", "waiting", "read"}
    /\ runPc \in {"idle", "starting", "working", "filling"} /\ todo \subseteq Required
    /\ draft = None \/ DOMAIN draft = {"text"}
    /\ writes \in 0 .. MaxWrites /\ saves \in 0 .. MaxSaves
    /\ passed \subseteq Writers /\ raced \in Nat

\* The sections that readers find in the text.
SectionsRead == [k \in Keys |-> [content |-> FirstOf(doc, k).content, subs |-> FirstOf(doc, k).subs]]

Map == INSTANCE SectionMap WITH sections <- SectionsRead

\* The document is a map of sections: whatever calls overlap, a step changes one
\* section, or adds one subsection under a key of its own, and leaves all others
\* as they are.  The exceptions are counted: a text that is saved whole, or is
\* replaced when a run starts, over what its writer had not read, and a call
\* whose own reading a saved text has overtaken.
KnowledgeKept == Map!MapInit /\ [][doc' = doc \/ raced' # raced \/ Map!MapNext]_SectionsRead

=============================================================================
