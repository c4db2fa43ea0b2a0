-------------------------------- MODULE Papers --------------------------------
(***************************************************************************)
(* One papers row: filed by an extraction that then prints it and writes   *)
(* its questions rows, while tutors render it again, read its mark scheme  *)
(* again, edit it in the browser and delete it.  Each of them reads the    *)
(* row, works from that copy for as long as the model and the typeset      *)
(* service take, and writes whole columns back; nothing locks the row, so  *)
(* the others' requests fall anywhere in between.                          *)
(*                                                                         *)
(* A structure or a mark scheme is one value, told apart by what it says,  *)
(* up to the normalisation of its maths that every printer of it applies.  *)
(* A PDF is the value it shows.                                            *)
(*                                                                         *)
(* source: sidereal_generate/papers.py, frontend lib/queries/papers.ts and *)
(* routes/PaperDetailPage.tsx                                              *)
(***************************************************************************)
EXTENDS Naturals

CONSTANTS
    Numbers,     \* question numbers a paper may use
    Structures,  \* what papers.structure may hold
    Schemes,     \* what papers.mark_scheme may hold
    Compiles,    \* the structures and schemes the typeset service accepts
    Asks,        \* the numbers of the questions each structure has
    Answers,     \* the numbers each scheme has an entry for
    None,        \* a null column
    Extraction,  \* the job that files the paper
    Requests,    \* calls of /render and /extract_mark_scheme, by whoever makes them
    Editors      \* browser pages open on the paper

ASSUME PapersAssumption ==
    /\ Compiles \subseteq Structures \cup Schemes
    /\ Structures \cap Schemes = {}
    /\ Asks \in [Structures -> SUBSET Numbers]
    /\ Answers \in [Schemes -> SUBSET Numbers]
    /\ None \notin Structures \cup Schemes
    /\ Extraction \notin Requests

VARIABLES
    row,            \* the papers row: "absent", "filed" or "deleted"
    structure,      \* its columns: structure,
    scheme,         \* mark_scheme,
    paperPdf,       \* rendered_pdf,
    schemePdf,      \* mark_scheme_pdf
    warning,        \* and generated_from.warning
    filed,          \* the numbers the paper has a questions row for
    answer,         \* the scheme each questions row's mark_scheme was cut from
    orphans,        \* questions rows whose paper column was nulled
    at,             \* how far the extraction and each request has got
    heldStructure,  \* what they read from the row or have made since, while they need it
    heldScheme,
    heldWarning,
    todo,           \* the questions rows they have yet to write
    draft,          \* what each page shows
    base,           \* what it was last loaded with
    behind,         \* whether date_updated has moved since then
    deletion,       \* how far useDeletePaper has got
    doomed,         \* the questions rows it listed
    moved,          \* history: whether others wrote under an operation since it read
    saved           \* history: whether a page saved since what is printed was stored

rowVars == <<row, structure, scheme, paperPdf, schemePdf, warning>>
questionVars == <<filed, answer, orphans>>
workVars == <<at, heldStructure, heldScheme, heldWarning, todo>>
pageVars == <<draft, base>>
deletionVars == <<deletion, doomed>>
vars == <<rowVars, questionVars, workVars, pageVars, behind, deletionVars, moved, saved>>

Ops == Requests \cup {Extraction}
Stage == {"idle", "filed", "linking", "writing", "extracted",
          "rendering", "rendered", "reading", "listing", "refreshing", "refreshed", "failed"}
\* Stages at which an operation is going to make another request.
Busy == {"filed", "linking", "writing", "rendering", "reading", "listing", "refreshing"}
Draft == [structure : Structures \cup {None}, scheme : Schemes \cup {None}]

TypeOK ==
    /\ row \in {"absent", "filed", "deleted"}
    /\ structure \in Structures \cup {None}
    /\ scheme \in Schemes \cup {None}
    /\ paperPdf \in Structures \cup {None}
    /\ schemePdf \in Schemes \cup {None}
    /\ warning \in {"none", "scheme", "render"}
    /\ filed \subseteq Numbers
    /\ answer \in [Numbers -> Schemes \cup {None}]
    /\ orphans \subseteq Numbers
    /\ at \in [Ops -> Stage]
    /\ heldStructure \in [Ops -> Structures \cup {None}]
    /\ heldScheme \in [Ops -> Schemes \cup {None}]
    /\ heldWarning \in [Ops -> {"none", "scheme", "render"}]
    /\ todo \in [Ops -> SUBSET Numbers]
    /\ draft \in [Editors -> Draft]
    /\ base \in [Editors -> Draft]
    /\ behind \in [Editors -> BOOLEAN]
    /\ deletion \in {"idle", "listed", "emptied"}
    /\ doomed \subseteq Numbers
    /\ moved \in [Ops -> BOOLEAN]
    /\ saved \in BOOLEAN

Blank == [structure |-> None, scheme |-> None]

Init ==
    /\ row = "absent"
    /\ structure = None /\ scheme = None
    /\ paperPdf = None /\ schemePdf = None
    /\ warning = "none"
    /\ filed = {} /\ orphans = {}
    /\ answer = [n \in Numbers |-> None]
    /\ at = [o \in Ops |-> "idle"]
    /\ heldStructure = [o \in Ops |-> None]
    /\ heldScheme = [o \in Ops |-> None]
    /\ heldWarning = [o \in Ops |-> "none"]
    /\ todo = [o \in Ops |-> {}]
    /\ draft = [e \in Editors |-> Blank] /\ base = [e \in Editors |-> Blank]
    /\ behind = [e \in Editors |-> TRUE]
    /\ deletion = "idle" /\ doomed = {}
    /\ moved = [o \in Ops |-> FALSE]
    /\ saved = FALSE

GoTo(o, stage) == at' = [at EXCEPT ![o] = stage]
\* A patch of the row moves date_updated; a write is news to every other operation.
Touched == behind' = [e \in Editors |-> TRUE]
MovedBy(o) == moved' = [x \in Ops |-> x # o \/ moved[x]]
\* An operation that is over has no locals left.
Forget(o) ==
    /\ heldStructure' = [heldStructure EXCEPT ![o] = None]
    /\ heldScheme' = [heldScheme EXCEPT ![o] = None]
    /\ heldWarning' = [heldWarning EXCEPT ![o] = "none"]
    /\ todo' = [todo EXCEPT ![o] = {}]

-------------------------------------------------------------------------------
(***************************************************************************)
(* Printing.  What compiles is printed as it is; what does not goes back   *)
(* to the model with its diagnostics, and a repair changes wording alone.  *)
(***************************************************************************)
Repaired(s) == {t \in Structures \cap Compiles : Asks[t] = Asks[s]}
RepairedScheme(m) == {t \in Schemes \cap Compiles : Answers[t] = Answers[m]}

PrintedStructure(s) == IF s \in Compiles THEN {s} ELSE Repaired(s)
PrintedScheme(m) == IF m = None THEN {None}
                    ELSE IF m \in Compiles THEN {m} ELSE RepairedScheme(m)

\* The question's entry of a scheme, or nothing: what its row is given.
Slice(m, n) == IF m # None /\ n \in Answers[m] THEN m ELSE None

-------------------------------------------------------------------------------
(***************************************************************************)
(* extract_paper.                                                          *)
(***************************************************************************)

\* The paper is read, and its scheme when there is one; a scheme that cannot be
\* read in full leaves a warning.  Nothing is stored before the row is.
FilePaper(s, m, w) ==
    /\ row = "absent"
    /\ at[Extraction] = "idle"
    /\ m # None => Answers[m] = Asks[s] /\ w = "none"
    /\ w \in {"none", "scheme"}
    /\ row' = "filed"
    /\ structure' = s /\ scheme' = m /\ warning' = w
    /\ GoTo(Extraction, "filed")
    /\ heldStructure' = [heldStructure EXCEPT ![Extraction] = s]
    /\ heldScheme' = [heldScheme EXCEPT ![Extraction] = m]
    /\ MovedBy(Extraction) /\ Touched
    /\ UNCHANGED <<paperPdf, schemePdf, questionVars, heldWarning, todo, pageVars,
                   deletionVars, saved>>

\* _link_pdfs reads the row back for its provenance,
ReadBack ==
    /\ at[Extraction] = "filed"
    /\ row = "filed"
    /\ GoTo(Extraction, "linking")
    /\ heldWarning' = [heldWarning EXCEPT ![Extraction] = warning]
    /\ UNCHANGED <<rowVars, questionVars, heldStructure, heldScheme, todo, pageVars, behind,
                   deletionVars, moved, saved>>

\* prints what it extracted, and stores that over whatever the row holds by now,
StorePdfsBlindly(s, m) ==
    /\ at[Extraction] = "linking"
    /\ row = "filed"
    /\ paperPdf' = s /\ schemePdf' = m
    /\ warning' = heldWarning[Extraction]
    /\ s \in PrintedStructure(heldStructure[Extraction])
    /\ m \in PrintedScheme(heldScheme[Extraction])
    /\ GoTo(Extraction, "writing")
    /\ heldStructure' = [heldStructure EXCEPT ![Extraction] = None]
    /\ heldScheme' = [heldScheme EXCEPT ![Extraction] = m]
    /\ todo' = [todo EXCEPT ![Extraction] = Asks[s]]
    /\ saved' = FALSE
    /\ MovedBy(Extraction) /\ Touched
    /\ UNCHANGED <<row, structure, scheme, questionVars, heldWarning, pageVars, deletionVars>>
StorePdfs(s, m) ==
    /\ at[Extraction] = "linking"
    /\ row = "filed"
    /\ s \in PrintedStructure(heldStructure[Extraction])
    /\ m \in PrintedScheme(heldScheme[Extraction])
    /\ structure' = s /\ scheme' = m
    /\ paperPdf' = s /\ schemePdf' = m
    /\ warning' = heldWarning[Extraction]
    /\ GoTo(Extraction, "writing")
    /\ heldStructure' = [heldStructure EXCEPT ![Extraction] = None]
    /\ heldScheme' = [heldScheme EXCEPT ![Extraction] = m]
    /\ todo' = [todo EXCEPT ![Extraction] = Asks[s]]
    /\ saved' = FALSE
    /\ MovedBy(Extraction) /\ Touched
    /\ UNCHANGED <<row, questionVars, heldWarning, pageVars, deletionVars>>

\* or, when the typeset service refuses it or cannot be reached, says so on the row;
StoreWarningAndStop ==
    /\ at[Extraction] = "linking"
    /\ row = "filed"
    /\ warning' = "render"
    /\ GoTo(Extraction, "extracted")
    /\ Forget(Extraction)
    /\ MovedBy(Extraction) /\ Touched
    /\ UNCHANGED <<row, structure, scheme, paperPdf, schemePdf, questionVars, pageVars,
                   deletionVars, saved>>
StoreWarning ==
    /\ at[Extraction] = "linking"
    /\ row = "filed"
    /\ warning' = "render"
    /\ GoTo(Extraction, "writing")
    /\ todo' = [todo EXCEPT ![Extraction] = Asks[heldStructure[Extraction]]]
    /\ heldStructure' = [heldStructure EXCEPT ![Extraction] = None]
    /\ MovedBy(Extraction) /\ Touched
    /\ UNCHANGED <<row, structure, scheme, paperPdf, schemePdf, questionVars, heldScheme,
                   heldWarning, pageVars, deletionVars, saved>>

\* and files a row for each question, while there is a paper to point it at.
WriteQuestion(n) ==
    /\ at[Extraction] = "writing"
    /\ row = "filed"
    /\ n \in todo[Extraction]
    /\ filed' = filed \cup {n}
    /\ answer' = [answer EXCEPT ![n] = Slice(heldScheme[Extraction], n)]
    /\ todo' = [todo EXCEPT ![Extraction] = @ \ {n}]
    /\ MovedBy(Extraction)
    /\ UNCHANGED <<rowVars, orphans, at, heldStructure, heldScheme, heldWarning, pageVars,
                   behind, deletionVars, saved>>

FinishExtraction ==
    /\ at[Extraction] = "writing"
    /\ todo[Extraction] = {}
    /\ GoTo(Extraction, "extracted")
    /\ Forget(Extraction)
    /\ UNCHANGED <<rowVars, questionVars, pageVars, behind, deletionVars, moved, saved>>

-------------------------------------------------------------------------------
(***************************************************************************)
(* rerender_paper and extract_paper_mark_scheme, by a request of the app   *)
(* or a tool call of the MCP server.                                       *)
(***************************************************************************)

\* The row is read once, before the model and the typeset service are called.
ReadRow(r, stage) ==
    /\ at[r] \notin Busy
    /\ row = "filed"
    /\ GoTo(r, stage)
    /\ heldStructure' = [heldStructure EXCEPT ![r] = structure]
    /\ heldScheme' = [heldScheme EXCEPT ![r] = scheme]
    /\ heldWarning' = [heldWarning EXCEPT ![r] = warning]
    /\ moved' = [moved EXCEPT ![r] = FALSE]
    /\ UNCHANGED <<rowVars, questionVars, todo, pageVars, behind, deletionVars, saved>>

BeginRender(r) == ReadRow(r, "rendering")
BeginRead(r) == ReadRow(r, "reading")

\* What compiled is what is stored, the scheme as it was read included; a scheme
\* that was not there leaves the column of its PDF alone.
StoredSchemeOmitted(m) == None
StoredScheme(m) == m

StoreRender(r, s, m) ==
    /\ at[r] = "rendering"
    /\ row = "filed"
    /\ s \in PrintedStructure(heldStructure[r])
    /\ m \in PrintedScheme(heldScheme[r])
    /\ structure' = s /\ scheme' = StoredScheme(m)
    /\ paperPdf' = s
    /\ schemePdf' = IF m = None THEN schemePdf ELSE m
    /\ warning' = IF heldWarning[r] = "none" THEN warning ELSE "none"
    /\ GoTo(r, "rendered")
    /\ Forget(r)
    /\ saved' = FALSE
    /\ MovedBy(r) /\ Touched
    /\ UNCHANGED <<row, questionVars, pageVars, deletionVars>>

\* The scheme is read in full against the structure as it was, printed and stored,
StoreRead(r, m) ==
    /\ at[r] = "reading"
    /\ row = "filed"
    /\ m \in Schemes \cap Compiles
    /\ Answers[m] = Asks[heldStructure[r]]
    /\ scheme' = m /\ schemePdf' = m
    /\ warning' = IF heldWarning[r] = "scheme" THEN "none" ELSE heldWarning[r]
    /\ heldStructure' = [heldStructure EXCEPT ![r] = None]
    /\ heldScheme' = [heldScheme EXCEPT ![r] = m]
    /\ heldWarning' = [heldWarning EXCEPT ![r] = "none"]
    /\ GoTo(r, "listing")
    /\ MovedBy(r) /\ Touched
    /\ UNCHANGED <<row, structure, paperPdf, questionVars, todo, pageVars, deletionVars, saved>>

\* the paper's questions rows are listed, those it has no entry for passed over,
ToRefreshBlank(r) == {n \in filed \cap Answers[heldScheme[r]] : answer[n] = None}
ToRefresh(r) == filed \cap Answers[heldScheme[r]]

ListQuestions(r) ==
    /\ at[r] = "listing"
    /\ GoTo(r, "refreshing")
    /\ todo' = [todo EXCEPT ![r] = ToRefresh(r)]
    /\ UNCHANGED <<rowVars, questionVars, heldStructure, heldScheme, heldWarning, pageVars,
                   behind, deletionVars, moved, saved>>

\* and each is given its entry where it stands.
RefreshQuestion(r, n) ==
    /\ at[r] = "refreshing"
    /\ n \in todo[r] \cap (filed \cup orphans)
    /\ answer' = [answer EXCEPT ![n] = Slice(heldScheme[r], n)]
    /\ todo' = [todo EXCEPT ![r] = @ \ {n}]
    /\ MovedBy(r)
    /\ UNCHANGED <<rowVars, filed, orphans, at, heldStructure, heldScheme, heldWarning,
                   pageVars, behind, deletionVars, saved>>

FinishRead(r) ==
    /\ at[r] = "refreshing"
    /\ todo[r] = {}
    /\ GoTo(r, "refreshed")
    /\ UNCHANGED <<rowVars, questionVars, heldStructure, heldScheme, heldWarning, todo,
                   pageVars, behind, deletionVars, moved, saved>>

\* Any request, model call or compilation may fail, or its process die: what was
\* written stays, and nothing else is.
Fail(o) ==
    /\ at[o] \in Busy
    /\ GoTo(o, "failed")
    /\ Forget(o)
    /\ UNCHANGED <<rowVars, questionVars, pageVars, behind, deletionVars, moved, saved>>

-------------------------------------------------------------------------------
(***************************************************************************)
(* The paper's page, and useDeletePaper.                                   *)
(***************************************************************************)
Stored == [structure |-> structure, scheme |-> scheme]
Dirty(e) == draft[e] # base[e]

\* The row is fetched again, and loaded into the draft when date_updated has moved.
RefetchUnlessDirty(e) ==
    /\ row = "filed"
    /\ behind[e]
    /\ behind' = [behind EXCEPT ![e] = FALSE]
    /\ IF Dirty(e) THEN UNCHANGED <<draft, base>>
       ELSE /\ draft' = [draft EXCEPT ![e] = Stored]
            /\ base' = [base EXCEPT ![e] = Stored]
    /\ UNCHANGED <<rowVars, questionVars, workVars, deletionVars, moved, saved>>
Refetch(e) ==
    /\ row = "filed"
    /\ behind[e]
    /\ draft' = [draft EXCEPT ![e] = Stored]
    /\ base' = [base EXCEPT ![e] = Stored]
    /\ behind' = [behind EXCEPT ![e] = FALSE]
    /\ UNCHANGED <<rowVars, questionVars, workVars, deletionVars, moved, saved>>

\* A tutor edits what the page shows, the mark scheme as well as the paper.
Edit(e) ==
    /\ row = "filed"
    /\ base[e].structure # None
    /\ \E s \in Structures, m \in Schemes \cup {None} :
          draft' = [draft EXCEPT ![e] = [structure |-> s, scheme |-> m]]
    /\ UNCHANGED <<rowVars, questionVars, workVars, base, behind, deletionVars, moved, saved>>

Discard(e) ==
    /\ row = "filed"
    /\ Dirty(e)
    /\ draft' = [draft EXCEPT ![e] = base[e]]
    /\ UNCHANGED <<rowVars, questionVars, workVars, base, behind, deletionVars, moved, saved>>

\* Save writes the whole structure and the whole scheme; /render is then called.
Save(e) ==
    /\ Dirty(e)
    /\ row = "filed"
    /\ structure' = draft[e].structure /\ scheme' = draft[e].scheme
    /\ saved' = TRUE
    /\ moved' = [o \in Ops |-> TRUE]
    /\ Touched
    /\ UNCHANGED <<row, paperPdf, schemePdf, warning, questionVars, workVars, pageVars,
                   deletionVars>>

\* The paper's questions rows are listed, deleted, and the paper after them; a row
\* written since is left with its paper column nulled.
ListDoomed ==
    /\ row = "filed"
    /\ deletion = "idle"
    /\ deletion' = "listed"
    /\ doomed' = filed
    /\ UNCHANGED <<rowVars, questionVars, workVars, pageVars, behind, moved, saved>>

DeleteQuestions ==
    /\ deletion = "listed"
    /\ deletion' = "emptied"
    /\ filed' = filed \ doomed
    /\ answer' = [n \in Numbers |-> IF n \in doomed THEN None ELSE answer[n]]
    /\ doomed' = {}
    /\ moved' = [o \in Ops |-> TRUE]
    /\ UNCHANGED <<rowVars, orphans, workVars, pageVars, behind, saved>>

DeletePaper ==
    /\ deletion = "emptied"
    /\ deletion' = "idle"
    /\ row' = "deleted"
    /\ structure' = None /\ scheme' = None
    /\ paperPdf' = None /\ schemePdf' = None
    /\ warning' = "none"
    /\ orphans' = filed
    /\ filed' = {}
    /\ moved' = [o \in Ops |-> TRUE]
    /\ UNCHANGED <<answer, workVars, pageVars, behind, doomed, saved>>

DeletionFails ==
    /\ deletion # "idle"
    /\ deletion' = "idle"
    /\ doomed' = {}
    /\ UNCHANGED <<rowVars, questionVars, workVars, pageVars, behind, moved, saved>>

-------------------------------------------------------------------------------
Extract ==
    \/ \E s \in Structures, m \in Schemes \cup {None}, w \in {"none", "scheme"} :
          FilePaper(s, m, w)
    \/ ReadBack
    \/ \E s \in Structures, m \in Schemes \cup {None} : StorePdfs(s, m)
    \/ StoreWarning
    \/ \E n \in Numbers : WriteQuestion(n)
    \/ FinishExtraction

Render(r) ==
    \/ BeginRender(r)
    \/ \E s \in Structures, m \in Schemes \cup {None} : StoreRender(r, s, m)

ReadScheme(r) ==
    \/ BeginRead(r)
    \/ \E m \in Schemes : StoreRead(r, m)
    \/ ListQuestions(r)
    \/ \E n \in Numbers : RefreshQuestion(r, n)
    \/ FinishRead(r)

Page(e) == Refetch(e) \/ Edit(e) \/ Discard(e) \/ Save(e)

Delete == ListDoomed \/ DeleteQuestions \/ DeletePaper \/ DeletionFails

Next ==
    \/ Extract
    \/ \E r \in Requests : Render(r) \/ ReadScheme(r)
    \/ \E o \in Ops : Fail(o)
    \/ \E e \in Editors : Page(e)
    \/ Delete

Spec == Init /\ [][Next]_vars

-------------------------------------------------------------------------------
(***************************************************************************)
(* Properties.                                                             *)
(***************************************************************************)

\* Until a tutor saves again, the PDFs on the row show the structure and the scheme
\* it stores, whoever else wrote in between and whatever a repair changed: source
\* and PDF are stored in one patch, never one without the other.
PdfsShowWhatIsStored ==
    ~saved => /\ paperPdf \in {None, structure}
              /\ scheme = None \/ schemePdf \in {None, scheme}

\* A mark scheme read while nobody else writes leaves the row holding it, its PDF
\* showing it, every questions row it answers cut from it, and no word of a scheme
\* that could not be read.
ReadBringsQuestionsUp ==
    \A r \in Requests :
        at[r] = "refreshed" /\ ~moved[r] =>
            /\ scheme # None /\ schemePdf = scheme
            /\ \A n \in filed \cap Answers[scheme] : answer[n] = scheme
            /\ warning # "scheme"

\* An extraction nobody interrupts files every question of what it stored, each with
\* its own entry, and either the PDFs of exactly that or the warning that there are none.
ExtractionIsWhole ==
    at[Extraction] = "extracted" /\ ~moved[Extraction] =>
        /\ filed = Asks[structure]
        /\ \A n \in filed : answer[n] = scheme
        /\ \/ paperPdf = structure /\ schemePdf = scheme
           \/ paperPdf = None /\ schemePdf = None /\ warning = "render"

\* A render made from the row as it is repairs wording and nothing more: what compiles
\* comes back as it was, and no question, answer or scheme appears or goes.
RenderRepairsWordingOnly ==
    [][\A r \in Requests :
          at[r] = "rendering" /\ at'[r] = "rendered" /\ ~moved[r] =>
              /\ Asks[structure'] = Asks[structure]
              /\ structure \in Compiles => structure' = structure
              /\ scheme = None <=> scheme' = None
              /\ scheme \in Compiles => scheme' = scheme]_vars

\* A page whose row has not moved since it was loaded was loaded with what the row
\* stores: a Save from it overwrites nothing the tutor has not been shown.
FreshPagesShowTheRow ==
    \A e \in Editors : row = "filed" /\ ~behind[e] => base[e] = Stored

\* What PaperDetailPage says of its draft: it is never reloaded while a tutor is mid-edit.
DraftIsKept ==
    [][\A e \in Editors :
          Dirty(e) /\ draft'[e] # draft[e] => Edit(e) \/ Discard(e)]_vars

===============================================================================
