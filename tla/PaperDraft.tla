------------------------------- MODULE PaperDraft -------------------------------
(***************************************************************************)
(* The paper a tutor edits in the browser: the tree of questions, parts,   *)
(* blocks and answer spaces with every edit its controls offer, the checks *)
(* that decide whether it may be saved, the fragments its cards preview,   *)
(* and the typeset service's own checks of what is sent.                   *)
(*                                                                         *)
(* A text is whether there is any; texts nothing depends on (labels,       *)
(* titles, captions, notes) are left out.  A number is what its box holds: *)
(* nothing, no whole number, or a number; the caps are one cap, and the    *)
(* ranges of the service's integers one range.  `year` stands for the      *)
(* three numbers of the details, and a title for itself.                   *)
(*                                                                         *)
(* source: components/papers of the frontend, draft.ts above all, and the  *)
(* service's document.rs                                                   *)
(***************************************************************************)
EXTENDS Integers, SequencesExt

CONSTANTS
    Name,      \* the numbers of questions and the names of passages
    NoName,    \* an empty one
    Most,      \* the cap on lines, heights, options, rows, columns and widths
    Widest,    \* the greatest number the service's integers hold
    MaxItems,  \* bound: the longest list, and the widest row, an edit makes
    Stored     \* the papers the page may be loaded with

VARIABLE draft

Unset == -1
Bad == -2
Extents == 0..(Widest + 1)
Number == {Unset, Bad} \cup Extents
NoHeader == -1

AnswerKinds == {"lines", "box", "multiple_choice", "essay", "grid", "table", "none"}
EmptyAnswer(type) ==
    [type |-> type, lines |-> Unset, height |-> Unset, rows |-> Unset, cols |-> Unset,
     options |-> <<>>]
NotSet == EmptyAnswer("unset")

BlockKinds == {"passage", "passage_ref", "code", "table", "figure"}
\* `said` is whether it has its text, or its image; a table is its header's cells and its
\* rows' cells, counted.
EmptyBlock(type) ==
    [type |-> type, said |-> FALSE, id |-> NoName,
     header |-> IF type = "table" THEN 2 ELSE NoHeader,
     rows |-> IF type = "table" THEN <<2>> ELSE <<>>, width |-> Unset]

EmptySubPart ==
    [said |-> FALSE, marks |-> Unset, lines |-> Unset, answer |-> NotSet, blocks |-> <<>>]
EmptyPart ==
    [said |-> FALSE, marks |-> Unset, lines |-> Unset, answer |-> NotSet, blocks |-> <<>>,
     parts |-> <<>>]
EmptyQuestion ==
    [number |-> NoName, said |-> FALSE, marks |-> Unset, lines |-> Unset, answer |-> NotSet,
     blocks |-> <<>>, parts |-> <<>>]
EmptySection == [choose |-> Unset, questions |-> <<>>]
EmptyPassage == [id |-> NoName, said |-> FALSE]
EmptySchemePart == [said |-> FALSE, marks |-> Unset, blocks |-> <<>>]
EmptySchemeQuestion == [number |-> NoName, parts |-> <<>>, blocks |-> <<>>]

-------------------------------------------------------------------------------
(***************************************************************************)
(* Editing.  What each control may make of what it shows, as a set.        *)
(***************************************************************************)

\* One place earlier or later; at the ends, nothing.
Moved(list, index, delta) ==
    LET target == index + delta IN
    IF target \in DOMAIN list
    THEN [list EXCEPT ![index] = list[target], ![target] = list[index]]
    ELSE list

\* The tools every item of a list has,
Tools(list) ==
    {Moved(list, i, delta) : i \in DOMAIN list, delta \in {-1, 1}}
    \cup {RemoveAt(list, i) : i \in DOMAIN list}

Added(list, fresh) == IF Len(list) < MaxItems THEN {Append(list, new) : new \in fresh} ELSE {}

\* and what a list becomes: an item moved, removed, changed or added.
ListEdits(list, fresh, Edits(_)) ==
    Tools(list) \cup Added(list, fresh)
    \cup UNION {{[list EXCEPT ![i] = next] : next \in Edits(list[i])} : i \in DOMAIN list}

\* The answer space shown: the one set, or the lines an older paper asks for.
Shown(lines, answer) ==
    IF answer # NotSet \/ lines = Unset THEN answer
    ELSE [EmptyAnswer("lines") EXCEPT !.lines = lines]

Extent(answer) ==
    CASE answer.type = "lines" -> {[answer EXCEPT !.lines = n] : n \in Number}
      [] answer.type \in {"box", "essay"} -> {[answer EXCEPT !.height = n] : n \in Number}
      [] answer.type \in {"grid", "table"} ->
             {[answer EXCEPT !.rows = n] : n \in Number} \cup {[answer EXCEPT !.cols = n] : n \in Number}
      [] OTHER -> {}

Options(answer) ==
    IF answer.type = "multiple_choice"
    THEN {[answer EXCEPT !.options = next] :
             next \in ListEdits(answer.options, {FALSE}, LAMBDA said : BOOLEAN)}
    ELSE {}

\* Any change sets the answer and leaves the older spelling behind.
AnswerEdits(node) ==
    LET current == Shown(node.lines, node.answer) IN
    {[node EXCEPT !.lines = Unset, !.answer = next] :
        next \in {EmptyAnswer(type) : type \in AnswerKinds \cup {"unset"}}
                 \cup Extent(current) \cup Options(current)}

Columns(block) ==
    IF block.header # NoHeader THEN block.header
    ELSE IF block.rows # <<>> THEN block.rows[1] ELSE 0
OneAtLeast(n) == IF n = 0 THEN 1 ELSE n

RowAddedNarrow(block) == [block EXCEPT !.rows = Append(@, 1)]
RowAdded(block) == [block EXCEPT !.rows = Append(@, OneAtLeast(Columns(block)))]
ColumnAdded(block) ==
    [block EXCEPT !.header = IF @ = NoHeader THEN NoHeader ELSE @ + 1,
                  !.rows = [i \in DOMAIN @ |-> @[i] + 1]]
HeaderToggled(block) ==
    [block EXCEPT !.header = IF @ = NoHeader THEN OneAtLeast(Columns(block)) ELSE NoHeader]

TableRows(block) ==
    {[block EXCEPT !.rows = next] : next \in Tools(block.rows)}
    \cup {HeaderToggled(block)}
    \cup (IF Len(block.rows) < MaxItems THEN {RowAdded(block)} ELSE {})
    \cup (IF Columns(block) < MaxItems THEN {ColumnAdded(block)} ELSE {})

BlockBody(block, passages) ==
    CASE block.type \in {"passage", "code"} -> {[block EXCEPT !.said = said] : said \in BOOLEAN}
      [] block.type = "passage_ref" ->
             {[block EXCEPT !.id = id] : id \in {NoName} \cup {passages[p].id : p \in DOMAIN passages}}
      [] block.type = "table" -> TableRows(block)
      [] block.type = "figure" ->
             {[block EXCEPT !.said = said] : said \in BOOLEAN}
             \cup {[block EXCEPT !.width = n] : n \in Number}

BlocksEditor(blocks, passages) ==
    ListEdits(blocks, {EmptyBlock(type) : type \in BlockKinds},
              LAMBDA block : BlockBody(block, passages))

MarksAndAnswer(node) == {[node EXCEPT !.marks = n] : n \in Number} \cup AnswerEdits(node)

SubPartRow(node, passages) ==
    {[node EXCEPT !.said = said] : said \in BOOLEAN}
    \cup {[node EXCEPT !.blocks = next] : next \in BlocksEditor(node.blocks, passages)}
    \cup MarksAndAnswer(node)

PartRow(part, passages) ==
    SubPartRow(part, passages)
    \cup {[part EXCEPT !.parts = next] :
             next \in ListEdits(part.parts, {EmptySubPart}, LAMBDA sub : SubPartRow(sub, passages))}

QuestionFields(question, passages) ==
    {[question EXCEPT !.number = number] : number \in Name \cup {NoName}}
    \cup SubPartRow(question, passages)
    \cup {[question EXCEPT !.parts = next] :
             next \in ListEdits(question.parts, {EmptyPart}, LAMBDA part : PartRow(part, passages))}

QuestionsEditor(questions, passages) ==
    ListEdits(questions, {EmptyQuestion}, LAMBDA question : QuestionFields(question, passages))

SectionsEditor(sections, passages) ==
    ListEdits(sections, {EmptySection},
              LAMBDA section : {[section EXCEPT !.choose = n] : n \in Number}
                               \cup {[section EXCEPT !.questions = next] :
                                        next \in QuestionsEditor(section.questions, passages)})

PassagesEditor(passages) ==
    ListEdits(passages, {EmptyPassage},
              LAMBDA passage : {[passage EXCEPT !.id = id] : id \in Name \cup {NoName}}
                               \cup {[passage EXCEPT !.said = said] : said \in BOOLEAN})

\* An entry's blocks come with the paper; no control changes them.
SchemeFields(entry) ==
    {[entry EXCEPT !.number = number] : number \in Name \cup {NoName}}
    \cup {[entry EXCEPT !.parts = next] :
             next \in ListEdits(entry.parts, {EmptySchemePart},
                                LAMBDA part : {[part EXCEPT !.said = said] : said \in BOOLEAN}
                                              \cup {[part EXCEPT !.marks = n] : n \in Number})}

MarkSchemeEditor(scheme) ==
    ListEdits(scheme, {EmptySchemeQuestion}, LAMBDA entry : SchemeFields(entry))

-------------------------------------------------------------------------------
AllQuestions(paper) ==
    paper.questions \o FlattenSeq([s \in DOMAIN paper.sections |-> paper.sections[s].questions])

\* The numbers asked that no entry has, one for each question that asks it.
Missing(paper) ==
    FlattenSeq([q \in DOMAIN AllQuestions(paper) |->
        LET number == AllQuestions(paper)[q].number IN
        IF \/ number = NoName
           \/ \E e \in DOMAIN paper.scheme : paper.scheme[e].number = number
        THEN <<>> ELSE <<number>>])

Grouped == draft.sections # <<>>

DraftInit == draft \in Stored

EditQuestions ==
    /\ ~Grouped \/ draft.questions # <<>>
    /\ \E next \in QuestionsEditor(draft.questions, draft.passages) :
          draft' = [draft EXCEPT !.questions = next]

EditSections ==
    /\ Grouped
    /\ \E next \in SectionsEditor(draft.sections, draft.passages) :
          draft' = [draft EXCEPT !.sections = next]

Group ==
    /\ ~Grouped
    /\ draft' = [draft EXCEPT !.questions = <<>>,
                              !.sections = <<[EmptySection EXCEPT !.questions = draft.questions]>>]

UngroupReplacing ==
    \E s \in DOMAIN draft.sections :
        draft' = [draft EXCEPT !.questions = draft.sections[s].questions,
                               !.sections = RemoveAt(@, s)]
Ungroup ==
    \E s \in DOMAIN draft.sections :
        draft' = [draft EXCEPT !.questions = @ \o draft.sections[s].questions,
                               !.sections = RemoveAt(@, s)]

EditPassages ==
    \E next \in PassagesEditor(draft.passages) : draft' = [draft EXCEPT !.passages = next]

EditScheme ==
    \E next \in MarkSchemeEditor(draft.scheme) : draft' = [draft EXCEPT !.scheme = next]

AddMissing ==
    /\ Missing(draft) # <<>>
    /\ draft' = [draft EXCEPT !.scheme = @ \o
                    [m \in DOMAIN Missing(draft) |->
                        [EmptySchemeQuestion EXCEPT !.number = Missing(draft)[m]]]]

EditDetails ==
    \/ \E n \in Number : draft' = [draft EXCEPT !.year = n]
    \/ \E titled \in BOOLEAN : draft' = [draft EXCEPT !.titled = titled]

EditDraft ==
    \/ EditQuestions \/ EditSections \/ Group \/ Ungroup
    \/ EditPassages \/ EditScheme \/ AddMissing \/ EditDetails

-------------------------------------------------------------------------------
(***************************************************************************)
(* Building: whether the draft may be saved, and its question previewed.   *)
(* What is built says what the draft does, an empty number left out.       *)
(***************************************************************************)

\* `whole`, of a box with a cap and of one without: marks and the details have none.
Whole(n, max) == n = Unset \/ n \in 0..max
WholeNumber(n) == n # Bad
Required(said) == said
Named(name) == name # NoName

BuildsAnswerUnsized(answer) ==
    /\ Whole(answer.lines, Most) /\ Whole(answer.height, Most)
    /\ Whole(answer.rows, Most) /\ Whole(answer.cols, Most)
    /\ \A o \in DOMAIN answer.options : Required(answer.options[o])
    /\ answer.type = "multiple_choice" => answer.options # <<>>
    /\ Len(answer.options) <= Most
BuildsAnswer(answer) ==
    /\ Whole(answer.lines, Most) /\ Whole(answer.height, Most)
    /\ Whole(answer.rows, Most) /\ Whole(answer.cols, Most)
    /\ \A o \in DOMAIN answer.options : Required(answer.options[o])
    /\ answer.type = "multiple_choice" => answer.options # <<>>
    /\ Len(answer.options) <= Most
    /\ answer.type \in {"grid", "table"} => Unset \notin {answer.rows, answer.cols}

BuildsTable(block) ==
    /\ Columns(block) \in 1..Most
    /\ Len(block.rows) <= Most
    /\ \A r \in DOMAIN block.rows : block.rows[r] = Columns(block)

BuildsBlock(block) ==
    CASE block.type \in {"passage", "code"} -> Required(block.said)
      [] block.type = "passage_ref" -> Named(block.id)
      [] block.type = "table" -> BuildsTable(block)
      [] block.type = "figure" -> Required(block.said) /\ Whole(block.width, Most)

BuildsBlocks(blocks) == \A b \in DOMAIN blocks : BuildsBlock(blocks[b])

\* What every node carries: its marks, one spelling of its answer space, its blocks.
BuildsNode(node) ==
    /\ WholeNumber(node.marks)
    /\ BuildsBlocks(node.blocks)
    /\ IF node.answer # NotSet THEN BuildsAnswer(node.answer) /\ node.lines = Unset
       ELSE Whole(node.lines, Most)

BuildsSubPart(sub) == Required(sub.said) /\ BuildsNode(sub)

BuildsPart(part) ==
    /\ BuildsNode(part)
    /\ \A s \in DOMAIN part.parts : BuildsSubPart(part.parts[s])
    /\ part.said \/ part.parts # <<>>

BuildsQuestion(question) ==
    /\ Named(question.number)
    /\ BuildsNode(question)
    /\ \A p \in DOMAIN question.parts : BuildsPart(question.parts[p])
    /\ question.said \/ question.parts # <<>> \/ question.blocks # <<>>

BuildsSection(section) ==
    /\ section.choose \in {Unset} \cup 1..Len(section.questions)
    /\ \A q \in DOMAIN section.questions : BuildsQuestion(section.questions[q])

BuildsSchemeQuestion(entry) ==
    /\ Named(entry.number)
    /\ BuildsBlocks(entry.blocks)
    /\ \A p \in DOMAIN entry.parts :
          LET part == entry.parts[p] IN
          Required(part.said) /\ WholeNumber(part.marks) /\ BuildsBlocks(part.blocks)

Ids(passages) == {passages[p].id : p \in DOMAIN passages}
\* Only a question's own blocks are looked through for passages that are not there.
PointsAtPassages(question, passages) ==
    \A b \in DOMAIN question.blocks :
        question.blocks[b].type = "passage_ref" => question.blocks[b].id \in Ids(passages)

Builds(paper) ==
    /\ Required(paper.titled) /\ WholeNumber(paper.year)
    /\ \A q \in DOMAIN paper.questions : BuildsQuestion(paper.questions[q])
    /\ \A s \in DOMAIN paper.sections : BuildsSection(paper.sections[s])
    /\ \A p \in DOMAIN paper.passages :
          Named(paper.passages[p].id) /\ Required(paper.passages[p].said)
    /\ \A q \in DOMAIN AllQuestions(paper) : PointsAtPassages(AllQuestions(paper)[q], paper.passages)
    /\ \A e \in DOMAIN paper.scheme : BuildsSchemeQuestion(paper.scheme[e])

-------------------------------------------------------------------------------
(***************************************************************************)
(* What the typeset service refuses of a document, by kind.                *)
(***************************************************************************)
Over(n, kind) == IF n > Most THEN {kind} ELSE {}
\* A number its type does not hold is refused before anything else is looked at.
Beyond(n, kind) == IF n > Widest THEN {kind} ELSE {}

RefusedNumbers(node) ==
    Beyond(node.marks, "marks")
    \cup Beyond(node.answer.lines, "range") \cup Beyond(node.answer.height, "range")
    \cup Beyond(node.answer.rows, "range") \cup Beyond(node.answer.cols, "range")

RefusedExtent(n) ==
    CASE n = Unset -> {"no extent"} [] n = 0 -> {"zero"} [] OTHER -> Over(n, "extent")

RefusedAnswer(node) ==
    LET answer == node.answer IN
    Over(node.lines, "lines")
    \cup (IF answer # NotSet /\ node.lines # Unset THEN {"both"} ELSE {})
    \cup CASE answer.type = "lines" -> Over(answer.lines, "lines")
           [] answer.type \in {"box", "essay"} -> Over(answer.height, "height")
           [] answer.type = "multiple_choice" ->
                  IF Len(answer.options) \in 1..Most THEN {} ELSE {"options"}
           [] answer.type \in {"grid", "table"} ->
                  RefusedExtent(answer.rows) \cup RefusedExtent(answer.cols)
           [] OTHER -> {}

\* An empty header counts as none.
TableColumns(block) ==
    IF block.header > 0 THEN block.header ELSE IF block.rows # <<>> THEN block.rows[1] ELSE 0
RefusedTable(block) ==
    IF TableColumns(block) \in 1..Most /\ Len(block.rows) <= Most
       /\ \A r \in DOMAIN block.rows : block.rows[r] = TableColumns(block)
    THEN {} ELSE {"table"}

RefusedBlock(block, ids, passage) ==
    CASE block.type = "passage_ref" -> IF block.id \in ids THEN {} ELSE {passage}
      [] block.type = "table" -> RefusedTable(block)
      [] block.type = "figure" -> IF block.width = 0 THEN {"zero"} ELSE Over(block.width, "width")
      [] OTHER -> {}

RefusedBlocks(blocks, ids, passage) ==
    UNION {RefusedBlock(blocks[b], ids, passage) : b \in DOMAIN blocks}

RefusedPart(node, ids) ==
    RefusedNumbers(node) \cup RefusedAnswer(node)
    \cup RefusedBlocks(node.blocks, ids, "inner passage")

RefusedQuestion(question, ids) ==
    RefusedNumbers(question) \cup RefusedAnswer(question)
    \cup RefusedBlocks(question.blocks, ids, "passage")
    \cup UNION {LET part == question.parts[p] IN
                RefusedPart(part, ids)
                \cup UNION {RefusedPart(part.parts[s], ids) : s \in DOMAIN part.parts}
                    : p \in DOMAIN question.parts}

RefusedSection(section) ==
    IF section.choose = Unset \/ section.choose \in 1..Len(section.questions) THEN {} ELSE {"choose"}

\* A scheme is set with no passages to point at.
RefusedSchemeQuestion(entry) ==
    RefusedBlocks(entry.blocks, {}, "inner passage")
    \cup UNION {LET part == entry.parts[p] IN
                Beyond(part.marks, "marks") \cup RefusedBlocks(part.blocks, {}, "inner passage")
                    : p \in DOMAIN entry.parts}

Refused(paper) ==
    Beyond(paper.year, "details")
    \cup (UNION {RefusedSection(paper.sections[s]) : s \in DOMAIN paper.sections})
    \cup (UNION {RefusedQuestion(AllQuestions(paper)[q], Ids(paper.passages)) :
                   q \in DOMAIN AllQuestions(paper)})
    \cup (UNION {RefusedSchemeQuestion(paper.scheme[e]) : e \in DOMAIN paper.scheme})

-------------------------------------------------------------------------------
(***************************************************************************)
(* Fragments: a question on its own, with no paper to hold the passages.   *)
(***************************************************************************)

\* A reference is set as the passage it points at, or, to none, left out.
Inlined(blocks, passages) ==
    FlattenSeq([b \in DOMAIN blocks |->
        IF blocks[b].type # "passage_ref" THEN <<blocks[b]>>
        ELSE IF blocks[b].id \notin Ids(passages) THEN <<>>
        ELSE <<[EmptyBlock("passage") EXCEPT !.said = TRUE]>>])

WithPassages(node, passages) == [node EXCEPT !.blocks = Inlined(@, passages)]

FragmentQuestionOuter(question, passages) ==
    [WithPassages(question, passages) EXCEPT !.parts =
        [p \in DOMAIN question.parts |-> WithPassages(question.parts[p], passages)]]
FragmentQuestion(question, passages) ==
    [WithPassages(question, passages) EXCEPT !.parts =
        [p \in DOMAIN question.parts |->
            [WithPassages(question.parts[p], passages) EXCEPT !.parts =
                [s \in DOMAIN @ |-> WithPassages(@[s], passages)]]]]

\* The same words, without the space to answer in.
DropAnswer(node) == [node EXCEPT !.lines = Unset, !.answer = NotSet]
WithoutAnswerSpace(question) ==
    [DropAnswer(question) EXCEPT !.parts =
        [p \in DOMAIN question.parts |->
            [DropAnswer(question.parts[p]) EXCEPT !.parts =
                [s \in DOMAIN @ |-> DropAnswer(@[s])]]]]

Nothing == [EmptyQuestion EXCEPT !.number = NoName]

\* A question's card sets the question, if it builds.
CardDocument(question, passages) ==
    IF BuildsQuestion(question) THEN FragmentQuestion(question, passages) ELSE Nothing

\* An entry's card sets the first question of its number, or the number alone; its own
\* blocks go as they are.
Asked(paper, entry) ==
    {q \in DOMAIN AllQuestions(paper) :
        /\ Named(AllQuestions(paper)[q].number)
        /\ AllQuestions(paper)[q].number = entry.number}
SchemeDocument(paper, entry) ==
    IF ~BuildsSchemeQuestion(entry) THEN Nothing
    ELSE IF Asked(paper, entry) = {} THEN [EmptyQuestion EXCEPT !.number = entry.number]
    ELSE WithoutAnswerSpace(
            CardDocument(AllQuestions(paper)[Min(Asked(paper, entry))], paper.passages))

-------------------------------------------------------------------------------
(***************************************************************************)
(* Properties.                                                             *)
(***************************************************************************)
Block == [type : BlockKinds, said : BOOLEAN, id : Name \cup {NoName},
          header : Nat \cup {NoHeader}, rows : Seq(Nat), width : Number]
Answer == [type : AnswerKinds \cup {"unset"}, lines : Number, height : Number, rows : Number,
           cols : Number, options : Seq(BOOLEAN)]
SubPart == [said : BOOLEAN, marks : Number, lines : Number, answer : Answer, blocks : Seq(Block)]
Part == [said : BOOLEAN, marks : Number, lines : Number, answer : Answer, blocks : Seq(Block),
         parts : Seq(SubPart)]
Question == [number : Name \cup {NoName}, said : BOOLEAN, marks : Number, lines : Number,
             answer : Answer, blocks : Seq(Block), parts : Seq(Part)]
Section == [choose : Number, questions : Seq(Question)]
Passage == [id : Name \cup {NoName}, said : BOOLEAN]
SchemePart == [said : BOOLEAN, marks : Number, blocks : Seq(Block)]
SchemeQuestion == [number : Name \cup {NoName}, parts : Seq(SchemePart), blocks : Seq(Block)]
Paper == [titled : BOOLEAN, year : Number, questions : Seq(Question), sections : Seq(Section),
          passages : Seq(Passage), scheme : Seq(SchemeQuestion)]

DraftTypeOK == draft \in Paper

Nodes(paper) ==
    LET questions == Range(AllQuestions(paper))
        parts == UNION {Range(question.parts) : question \in questions}
        subParts == UNION {Range(part.parts) : part \in parts}
    IN <<questions, parts, subParts>>
Blocks(paper) ==
    UNION {UNION {Range(node.blocks) : node \in Nodes(paper)[depth]} : depth \in 1..3}

\* What builds is set: the service refuses nothing of a draft that may be saved, but a zero
\* where it wants at least one, a reference to a passage below the question, and a mark or a
\* number of the details past what its integers hold.
WhatBuildsIsSet ==
    Builds(draft) => Refused(draft) \subseteq {"zero", "inner passage", "marks", "details"}

\* However its rows, columns and header are added, moved and dropped, a table has as many
\* cells in every row as it has columns.
TablesStayRectangular ==
    \A block \in Blocks(draft) :
        block.type = "table" => \A r \in DOMAIN block.rows : block.rows[r] = Columns(block)

\* A card's question stands alone: it points at no passage, at whatever depth, and on a
\* mark scheme's card leaves no space to answer in.
PreviewsStandAlone ==
    LET cards == {CardDocument(question, draft.passages) : question \in Range(AllQuestions(draft))}
        schemes == {SchemeDocument(draft, entry) : entry \in Range(draft.scheme)}
        PaperOf(question) == [draft EXCEPT !.questions = <<question>>, !.sections = <<>>]
    IN /\ \A question \in cards \cup schemes :
             \A block \in Blocks(PaperOf(question)) : block.type # "passage_ref"
       /\ \A question \in schemes : \A depth \in 1..3 :
             \A node \in Nodes(PaperOf(question))[depth] : node.lines = Unset /\ node.answer = NotSet

\* Where a list has something another has not.
Gone(from, to) == {q \in DOMAIN from : \A p \in DOMAIN to : to[p] # from[q]}
KeepsQuestions ==
    LET before == AllQuestions(draft) after == AllQuestions(draft') IN
    \/ /\ Cardinality(Gone(before, after)) <= 1 /\ Cardinality(Gone(after, before)) <= 1
       /\ Len(after) - Len(before) \in -1..1
    \/ /\ Len(draft'.sections) = Len(draft.sections) - 1
       /\ draft'.questions = draft.questions

\* Questions are neither lost nor repeated by grouping, ungrouping and moving them: a step
\* takes at most one question from the paper and brings it at most one, but the removal of
\* a section, which leaves the paper's own questions alone.
QuestionsAreKept == [][KeepsQuestions]_draft
===============================================================================
