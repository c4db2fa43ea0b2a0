------------------------------ MODULE Extraction ------------------------------
(***************************************************************************)
(* A paper read in several calls of a model: its shape, its questions in   *)
(* batches, the material they print; and its mark scheme, in batches of    *)
(* the paper's questions.  A reply may say anything its schema allows:     *)
(* questions it was not asked, fewer than it was, wording left in a        *)
(* figure.  What does not fit is asked once more.                          *)
(*                                                                         *)
(* source: sidereal_generate/extraction.py                                 *)
(***************************************************************************)
EXTENDS Chunks

CONSTANT MaxQuestions  \* bound: how many questions a paper has

ASSUME ExtractionAssumption == MaxQuestions \in Nat

VARIABLES
    step,     \* what is being asked for, or how it ended
    left,     \* the places still to be asked about
    misfit,   \* whether the call under way has had a reply that did not fit
    shape,    \* the listing as the shape call read it,
    listing,  \* and as it stands
    read,     \* the transcribed questions, each with its labels
    placed,   \* the numbers material was read for
    shown,    \* history: the pages sent with the call that asked about a place last
    paper,    \* the paper: each place's question
    held,     \* the first reply to a scheme call that is asked again
    answers,  \* the scheme's entries so far, by number
    scheme,   \* the mark scheme: each place's entry
    said,     \* history: what a batch's first reply says of its places,
    more,     \* and what its second does
    twice     \* history: the numbers that replies to two batches answered

paperVars == <<shape, listing, read, placed, shown, paper>>
schemeVars == <<held, answers, scheme, said, more, twice>>
vars == <<step, left, misfit, paperVars, schemeVars>>

Asking == {"shape", "questions", "wording", "material", "scheme", "again"}
Step == Asking \cup {"stored", "read", "answered", "refused", "failed"}
Places == 1..MaxQuestions
Papers == UNION {[1..n -> Question] : n \in 0..MaxQuestions}
Shapes == UNION {[1..n -> Stub] : n \in 0..MaxQuestions}
Over(places, S) == UNION {[some -> S] : some \in SUBSET places}
Transcriptions == Over(Number, SUBSET Label)
IsOver(f, places, S) == DOMAIN f \subseteq places /\ f \in [DOMAIN f -> S]

TypeOK ==
    /\ step \in Step /\ left \subseteq Places /\ misfit \in BOOLEAN
    /\ shape \in Shapes /\ IsOver(listing, Places, Stub)
    /\ IsOver(read, Number, SUBSET Label) /\ placed \subseteq Number
    /\ IsOver(shown, Places, SUBSET (1..PageCount))
    /\ IsOver(paper, Places, Question)
    /\ \A entries \in {held, answers} : IsOver(entries, Number, Entry)
    /\ \A entries \in {scheme, said, more} : IsOver(entries, Places, Entry)
    /\ twice \subseteq Number

\* A document to be read, or a paper stored earlier whose scheme is.
Init ==
    /\ \/ step = "shape" /\ paper = <<>>
       \/ step = "stored" /\ paper \in Papers
    /\ left = {} /\ misfit = FALSE
    /\ shape = <<>> /\ listing = <<>> /\ read = <<>> /\ placed = {} /\ shown = <<>>
    /\ held = <<>> /\ answers = <<>> /\ scheme = <<>>
    /\ said = <<>> /\ more = <<>> /\ twice = {}

\* What is in the second is in it, whatever the first had.
Updated(f, g) == [x \in DOMAIN f \cup DOMAIN g |-> IF x \in DOMAIN g THEN g[x] ELSE f[x]]

-------------------------------------------------------------------------------
(***************************************************************************)
(* The calls.                                                              *)
(***************************************************************************)
Busy == step \in Asking /\ (left # {} \/ step = "shape")

\* A reply that does not fit is asked for once more,
Misfits ==
    /\ Busy /\ ~misfit
    /\ misfit' = TRUE
    /\ UNCHANGED <<step, left, paperVars, schemeVars>>

\* and a second one, or a backend that fails, ends it.
Fails ==
    /\ Busy
    /\ step' = "failed"
    /\ UNCHANGED <<left, misfit, paperVars, schemeVars>>

-------------------------------------------------------------------------------
(***************************************************************************)
(* extract.                                                                *)
(***************************************************************************)
ReadShape(stubs) ==
    /\ step = "shape"
    /\ step' = "questions" /\ misfit' = FALSE
    /\ shape' = stubs /\ listing' = stubs /\ left' = DOMAIN stubs
    /\ UNCHANGED <<read, placed, shown, paper, schemeVars>>

Show == shown' = Updated(shown, [i \in Batch(left) |-> Span(listing, Batch(left))])

TakeQuestions(reply) ==
    /\ read' = Updated(read, reply)
    /\ left' = left \ Batch(left)
    /\ step' = "questions"

\* A batch is taken, unless it left a question's wording in a figure;
ReadQuestions(reply) ==
    /\ step = "questions" /\ left # {}
    /\ misfit' = FALSE
    /\ Show
    /\ \/ TakeQuestions(reply)
       \/ DOMAIN reply # {} /\ step' = "wording" /\ UNCHANGED <<left, read>>
    /\ UNCHANGED <<shape, listing, placed, paper, schemeVars>>

\* it is asked for once more then, and that reply taken in its place, or refused.
ReadWording(reply) ==
    /\ step = "wording"
    /\ misfit' = FALSE
    /\ \/ TakeQuestions(reply)
       \/ step' = "failed" /\ UNCHANGED <<left, read>>
    /\ UNCHANGED <<shape, listing, placed, shown, paper, schemeVars>>

\* Material is asked for under the numbering the transcription settled on,
Settle ==
    /\ step = "questions" /\ left = {}
    /\ LET settled == Reconciled(listing, DOMAIN read) IN
       listing' = settled /\ left' = {i \in DOMAIN settled : settled[i].material}
    /\ step' = "material" /\ shown' = <<>>
    /\ UNCHANGED <<misfit, shape, read, placed, paper, schemeVars>>

ReadMaterial(numbers) ==
    /\ step = "material" /\ left # {}
    /\ Show
    /\ placed' = placed \cup numbers
    /\ left' = left \ Batch(left)
    /\ misfit' = FALSE
    /\ UNCHANGED <<step, shape, listing, read, paper, schemeVars>>

\* and the pieces are merged, or do not fit together.  Material goes with the first
\* question of its number.
Printed(listed, i) ==
    /\ listed[i].number \in placed
    /\ \A j \in DOMAIN listed : j < i => listed[j].number # listed[i].number
Merge ==
    /\ step = "material" /\ left = {}
    /\ LET listed == Reconciled(listing, DOMAIN read) IN
       \/ /\ Numbers(listed) \subseteq DOMAIN read
          /\ step' = "read"
          /\ paper' = [i \in DOMAIN listed |->
                [number |-> listed[i].number, labels |-> read[listed[i].number],
                 material |-> Printed(listed, i)]]
       \/ step' = "failed" /\ UNCHANGED paper
    /\ UNCHANGED <<left, misfit, shape, listing, read, placed, shown, schemeVars>>

-------------------------------------------------------------------------------
(***************************************************************************)
(* extract_mark_scheme.                                                    *)
(***************************************************************************)
BeginScheme ==
    /\ step \in {"read", "stored"}
    /\ step' = "scheme"
    /\ left' = DOMAIN paper
    /\ UNCHANGED <<misfit, paperVars, schemeVars>>

\* An entry as a model gives it, in its first reply or its second.
Entries(reply) == [whole : {"blank", reply},
                   parts : UNION {[labels -> {"blank", reply}] : labels \in SUBSET Label}]

Missing(places, entries) == {paper[i].number : i \in places} \ DOMAIN entries
Gaps(places, entries) ==
    {n \in DOMAIN entries : \E i \in places : paper[i].number = n /\ ~Answered(paper[i], entries[n])}

\* What a reply says of the places it was asked about.
Of(places, entries) ==
    [i \in {i \in places : paper[i].number \in DOMAIN entries} |-> entries[paper[i].number]]

TakeAnswers(entries) ==
    /\ answers' = Updated(answers, entries)
    /\ twice' = twice \cup (DOMAIN answers \cap DOMAIN entries)
    /\ left' = left \ Batch(left)
    /\ held' = <<>>
    /\ step' = "scheme" /\ misfit' = FALSE

\* A batch that answered everything is taken as it is;
ReadScheme(reply) ==
    /\ step = "scheme" /\ left # {}
    /\ said' = Updated(said, Of(Batch(left), reply))
    /\ IF Missing(Batch(left), reply) \cup Gaps(Batch(left), reply) = {}
       THEN TakeAnswers(reply)
       ELSE /\ held' = reply
            /\ step' = "again" /\ misfit' = FALSE
            /\ UNCHANGED <<left, answers, twice>>
    /\ UNCHANGED <<paperVars, scheme, more>>

\* Mutant: the questions left out are taken from the second, and not the labels.
CompletedQuestions(first, second) ==
    [n \in DOMAIN first \cup (Missing(Batch(left), first) \cap DOMAIN second) |->
        IF n \in Missing(Batch(left), first) THEN second[n] ELSE first[n]]

\* one that did not is asked once more, for what it left out alone.
Completed(first, second) ==
    LET missing == Missing(Batch(left), first)
        gaps == Gaps(Batch(left), first)
    IN  [n \in DOMAIN first \cup (missing \cap DOMAIN second) |->
            IF n \in missing THEN second[n]
            ELSE IF n \in gaps \cap DOMAIN second THEN Filled(first[n], second[n])
            ELSE first[n]]
ReadAgain(reply) ==
    /\ step = "again"
    /\ more' = Updated(more, Of(Batch(left), reply))
    /\ TakeAnswers(Completed(held, reply))
    /\ UNCHANGED <<paperVars, scheme, said>>

\* A scheme short of the paper is refused, never stored.
MergeScheme ==
    /\ step = "scheme" /\ left = {}
    /\ IF Missing(DOMAIN paper, answers) \cup Gaps(DOMAIN paper, answers) = {}
       THEN /\ step' = "answered"
            /\ scheme' = Of(DOMAIN paper, answers)
       ELSE step' = "refused" /\ UNCHANGED scheme
    /\ UNCHANGED <<left, misfit, paperVars, held, answers, said, more, twice>>

-------------------------------------------------------------------------------
Extract ==
    \/ \E stubs \in Shapes : ReadShape(stubs)
    \/ \E reply \in Transcriptions : ReadQuestions(reply) \/ ReadWording(reply)
    \/ Settle
    \/ \E numbers \in SUBSET Number : ReadMaterial(numbers)
    \/ Merge
ExtractMarkScheme ==
    \/ BeginScheme
    \/ \E reply \in Over(Number, Entries("first")) : ReadScheme(reply)
    \/ \E reply \in Over(Number, Entries("second")) : ReadAgain(reply)
    \/ MergeScheme
Next == Misfits \/ Fails \/ Extract \/ ExtractMarkScheme
Spec == Init /\ [][Next]_vars

-------------------------------------------------------------------------------
(***************************************************************************)
(* Properties.                                                             *)
(***************************************************************************)

\* A call that asks about a question is sent all of its pages, from the one it starts on to
\* the first where a later question starts, whatever order the pages are in and whichever
\* questions between them are not asked about (_batched, page_span).
QuestionsAreShownWhole ==
    \A i \in DOMAIN shown : \A p \in 1..PageCount :
        (/\ Page(listing[i]) <= p
         /\ \A j \in DOMAIN listing : i < j => p <= Page(listing[j])) => p \in shown[i]

\* Where a shape lists no number twice, a paper loses nothing of what was read: each question
\* transcribed is in it, or is part of one that is, or the shape had nowhere for it but
\* questions transcribed themselves; and each question of the shape is in the listing the
\* material is asked by, itself or as a part, no later, on no later page, and with its
\* material still to be asked for (reconciled, merge).
Within(n, m) == n = m \/ <<n, m>> \in PartOf
ListedOnce == \A i, j \in DOMAIN shape : shape[i].number = shape[j].number => i = j
Homeless(n) ==
    \A i \in DOMAIN shape : Within(shape[i].number, n) => /\ shape[i].number # n
                                                          /\ shape[i].number \in DOMAIN read
NothingReadIsLost ==
    step = "read" /\ ListedOnce =>
        /\ \A n \in DOMAIN read :
              Homeless(n) \/ \E i \in DOMAIN paper : Within(n, paper[i].number)
        /\ \A i \in DOMAIN shape : \E j \in DOMAIN paper \cap DOMAIN listing :
              /\ Within(shape[i].number, paper[j].number) /\ paper[j].number = listing[j].number
              /\ j <= i /\ listing[j].page <= shape[i].page
              /\ shape[i].material => listing[j].material

\* What a batch's first reply answered stands in the scheme, whatever the second says,
\* unless another batch answered the same number (_scheme, filled).
AnswersStand ==
    step = "answered" =>
        \A i \in DOMAIN said : paper[i].number \notin twice =>
            /\ said[i].whole # "blank" => scheme[i].whole = said[i].whole
            /\ \A l \in Given(said[i]) : l \in Given(scheme[i])
                                         /\ scheme[i].parts[l] = said[i].parts[l]

\* A scheme is refused only for what its replies left out: a question that two batches, or
\* two questions, answered under one number, or one that neither reply answered, its
\* labels taken together (merge_scheme, scheme_gaps, filled).
Alone(i) == \A j \in DOMAIN paper : paper[j].number = paper[i].number => j = i
Between(i) ==
    IF i \notin DOMAIN said THEN i \in DOMAIN more /\ Answered(paper[i], more[i])
    ELSE \/ Answered(paper[i], said[i])
         \/ /\ i \in DOMAIN more
            /\ IF paper[i].labels = {} THEN more[i].whole # "blank"
               ELSE \A l \in paper[i].labels : Covered(l, Given(said[i]) \cup Given(more[i]))
RefusedOnlyForGaps ==
    step = "refused" =>
        \E i \in DOMAIN paper : paper[i].number \in twice \/ ~Alone(i) \/ ~Between(i)
===============================================================================
