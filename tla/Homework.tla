------------------------------- MODULE Homework -------------------------------
(***************************************************************************)
(* One homework row written in Typst: its source and PDF, its status, the  *)
(* student's answers and photo, the photo's transcription and the tutor's  *)
(* marks.  The student has it open in browser tabs, the tutor on pages,    *)
(* and an agent works on it through the MCP server; each acts on what it   *)
(* last fetched, and a compilation or a transcription is minutes of other  *)
(* people's requests between a read of the row and a write to it.          *)
(*                                                                         *)
(* A PDF and a compiler's report are the source they are of, and a         *)
(* transcription the photo it was read from.  Answers, sources and marks   *)
(* are told apart by what they say.                                        *)
(*                                                                         *)
(* source: sidereal_generate/typst.py, sidereal_ingest/submissions.py,     *)
(* sidereal_core/homework.py, the homework pages of the frontend, and the  *)
(* student's permissions in scripts/directus-bootstrap.sh                  *)
(***************************************************************************)
CONSTANTS
    Sources,   \* what homework.content may hold
    Compiles,  \* the sources the typeset service accepts
    Typst,     \* whether the row's format is typst, or markdown that is not compiled
    Cut,       \* whether it is a worksheet cut from a paper, whose source is only read
    Written,   \* what homework.submission may hold
    Photos,    \* files of working a student may upload
    Marks,     \* what homework.marking may hold
    Unmarked,  \* the marks of an empty marking panel
    None,      \* a null column
    Tabs,      \* the student's pages, each an AnswerCard
    Pages,     \* the tutor's pages, each a HomeworkDetailPage
    Compilers, \* calls of compile_homework,
    Readers,   \* and of transcribe_submission through the MCP server
    Given      \* what its mark_homework may be called with

ASSUME HomeworkAssumption ==
    /\ Compiles \subseteq Sources
    /\ Typst \in BOOLEAN /\ Cut \in BOOLEAN /\ (Cut => Typst)
    /\ Sources # {}
    /\ Unmarked \in Marks
    /\ Given \subseteq Marks
    /\ None \notin Sources \cup Written \cup Photos \cup Marks
    /\ Tabs \cap Pages = {} /\ Compilers \cap Readers = {}
    /\ (Tabs \cup Pages) \cap (Compilers \cup Readers) = {}

VARIABLES
    status,         \* the homework row: its status, or "deleted",
    content,        \* its Typst source,
    pdf,            \* the source its PDF was compiled from,
    error,          \* the source its compile_error is about,
    submission,     \* the answers typed,
    file,           \* the photo attached,
    submittedAt,    \* whether submitted_at is set,
    transcription,  \* the photo its transcription was read from,
    asked,          \* whether the questions it was set with are there
    marking,        \* and its marks
    uploads,        \* the photos uploaded so far, each a file of its own
    at,             \* how far each actor's request has got
    heldSource,     \* the source a compilation read,
    heldFile,       \* the photo a transcription read, or a tab is attaching or removing
    shown,          \* the row as a tutor's page last fetched it,
    draft,          \* the source in its editor
    marks,          \* and the marks in its panel
    seen,           \* the row as a student's tab last fetched it
    typed,          \* and the answers in its boxes
    moved,          \* history: whether others wrote under a request since it read
    reopened        \* history: whether a page set a handed-in row back to assigned

sourceVars == <<content, pdf, error>>
handInVars == <<submission, file, submittedAt, transcription>>
rowVars == <<status, sourceVars, handInVars, asked, marking>>
requestVars == <<at, heldSource, heldFile, moved>>
pageVars == <<shown, draft, marks>>
tabVars == <<seen, typed>>
vars == <<rowVars, uploads, requestVars, pageVars, tabVars, reopened>>

Ops == Tabs \cup Pages \cup Compilers \cup Readers
Stage == {"idle", "saved", "compiling", "compiled", "reading", "read",
          "uploaded", "unlinked"}
Status == {"draft", "assigned", "submitted", "marked", "deleted"}
View == [status : Status, content : Sources, asked : BOOLEAN, marking : Marks \cup {None},
         unprinted : BOOLEAN, unread : BOOLEAN]
StudentView == [status : Status, submission : Written \cup {None}, file : Photos \cup {None}]

TypeOK ==
    /\ status \in Status
    /\ content \in Sources
    /\ pdf \in Compiles \cup {None}
    /\ error \in Sources \cup {None}
    /\ submission \in Written \cup {None}
    /\ file \in Photos \cup {None}
    /\ submittedAt \in BOOLEAN
    /\ transcription \in Photos \cup {None}
    /\ asked \in BOOLEAN
    /\ marking \in Marks \cup {None}
    /\ uploads \subseteq Photos
    /\ at \in [Ops -> Stage]
    /\ heldSource \in [Ops -> Sources \cup {None}]
    /\ heldFile \in [Ops -> Photos \cup {None}]
    /\ shown \in [Pages -> View]
    /\ draft \in [Pages -> Sources]
    /\ marks \in [Pages -> Marks]
    /\ seen \in [Tabs -> StudentView]
    /\ typed \in [Tabs -> Written \cup {None}]
    /\ moved \in [Ops -> BOOLEAN]
    /\ reopened \in BOOLEAN

\* What a tutor's page fetches: beside the columns, whether it offers to compile
\* and to transcribe.
Fetched == [status |-> status, content |-> content, asked |-> asked, marking |-> marking,
            unprinted |-> Typst /\ ~Cut /\ (pdf = None \/ error # None),
            unread |-> file # None /\ transcription = None]
\* What a student's tab fetches, of a row that has been assigned.
Assigned == [status |-> status, submission |-> submission, file |-> file]

\* The marks a panel opens with.
Filled(m) == IF m = None THEN Unmarked ELSE m

\* A generated draft, compiled or refused twice over, that the tutor has open.
Init ==
    /\ status = "draft"
    /\ content \in Sources
    /\ \/ Typst /\ content \in Compiles /\ pdf = content /\ error = None
       \/ Typst /\ ~Cut /\ pdf = None /\ error = content
       \/ ~Typst /\ pdf = None /\ error = None
    /\ submission = None /\ file = None /\ submittedAt = FALSE
    /\ transcription = None
    /\ asked \in BOOLEAN /\ marking = None
    /\ uploads = {}
    /\ at = [o \in Ops |-> "idle"]
    /\ heldSource = [o \in Ops |-> None]
    /\ heldFile = [o \in Ops |-> None]
    /\ shown = [p \in Pages |-> Fetched]
    /\ draft = [p \in Pages |-> content]
    /\ marks = [p \in Pages |-> Unmarked]
    /\ seen = [t \in Tabs |-> Assigned]
    /\ typed = [t \in Tabs |-> None]
    /\ moved = [o \in Ops |-> FALSE]
    /\ reopened = FALSE

Live == status # "deleted"
\* The student's permission to update the row, and to read it.
MayWriteOnceHandedIn == status \in {"assigned", "submitted"}
MayWrite == status = "assigned"
MayRead == status \in {"assigned", "submitted", "marked"}

Busy(o) == at[o] \in {"saved", "compiling", "reading", "uploaded", "unlinked"}
GoTo(o, stage) == at' = [at EXCEPT ![o] = stage]
\* A write to the source or the PDF is news to other compilations, one to the photo
\* or its transcription to other transcriptions.
Wrote(o, stages) ==
    moved' = [x \in Ops |-> /\ at'[x] \in {"compiling", "compiled", "reading", "read"}
                            /\ moved[x] \/ (x # o /\ at[x] \in stages)]
WroteSource(o) == Wrote(o, {"compiling", "compiled"})
WroteFile(o) == Wrote(o, {"reading", "read"})

-------------------------------------------------------------------------------
(***************************************************************************)
(* The source and its PDF.                                                 *)
(***************************************************************************)

\* The editor's Save writes the source, and then asks for it to be compiled.
SaveSource(p) ==
    /\ Live
    /\ ~Busy(p)
    /\ draft[p] # shown[p].content
    /\ content' = draft[p]
    /\ GoTo(p, "saved")
    /\ WroteSource(p)
    /\ UNCHANGED <<status, pdf, error, handInVars, asked, marking, uploads, heldSource,
                   heldFile, pageVars, tabVars, reopened>>

\* recompile_homework reads the row,
MayCompile(o) ==
    \/ o \in Compilers /\ ~Busy(o)
    \/ o \in Pages /\ (at[o] = "saved" \/ (~Busy(o) /\ shown[o].unprinted))

BeginCompile(o) ==
    /\ Live /\ Typst
    /\ MayCompile(o)
    /\ GoTo(o, "compiling")
    /\ heldSource' = [heldSource EXCEPT ![o] = content]
    /\ moved' = [moved EXCEPT ![o] = FALSE]
    /\ UNCHANGED <<rowVars, uploads, heldFile, pageVars, tabVars, reopened>>

\* and stores what compiled with its error cleared,
StorePdfOnly(o) ==
    /\ Live
    /\ at[o] = "compiling"
    /\ heldSource[o] \in Compiles
    /\ pdf' = heldSource[o]
    /\ GoTo(o, "compiled")
    /\ heldSource' = [heldSource EXCEPT ![o] = None]
    /\ WroteSource(o)
    /\ UNCHANGED <<status, content, error, handInVars, asked, marking, uploads, heldFile,
                   pageVars, tabVars, reopened>>
StorePdf(o) ==
    /\ Live
    /\ at[o] = "compiling"
    /\ heldSource[o] \in Compiles
    /\ pdf' = heldSource[o] /\ error' = None
    /\ GoTo(o, "compiled")
    /\ heldSource' = [heldSource EXCEPT ![o] = None]
    /\ WroteSource(o)
    /\ UNCHANGED <<status, content, handInVars, asked, marking, uploads, heldFile,
                   pageVars, tabVars, reopened>>

\* or what the typeset service refused it with, the PDF left as it is.
StoreCompileError(o) ==
    /\ Live
    /\ at[o] = "compiling"
    /\ error' = heldSource[o]
    /\ GoTo(o, "compiled")
    /\ heldSource' = [heldSource EXCEPT ![o] = None]
    /\ WroteSource(o)
    /\ UNCHANGED <<status, content, pdf, handInVars, asked, marking, uploads, heldFile,
                   pageVars, tabVars, reopened>>

EditSource(p) ==
    /\ Live /\ Typst /\ ~Cut
    /\ \E s \in Sources : draft' = [draft EXCEPT ![p] = s]
    /\ UNCHANGED <<rowVars, uploads, requestVars, shown, marks, tabVars, reopened>>

-------------------------------------------------------------------------------
(***************************************************************************)
(* The tutor's page.                                                       *)
(***************************************************************************)
Panel(view) == view.status \in {"submitted", "marked"}

\* A refetch rewrites the row under the editor, which follows it unless the tutor has
\* unsaved work in it, and under the marking panel, which is built again when the
\* row's marks, or the questions it was set with, are others.
FollowedAlways(p) == content
Followed(p) == IF draft[p] = shown[p].content THEN content ELSE draft[p]
RebuiltAlways(p) == Filled(marking)
Rebuilt(p) == IF /\ Panel(shown[p]) /\ Panel(Fetched)
                 /\ <<asked, marking>> = <<shown[p].asked, shown[p].marking>>
              THEN marks[p] ELSE Filled(marking)

Refetch(p) ==
    /\ Live
    /\ shown' = [shown EXCEPT ![p] = Fetched]
    /\ draft' = [draft EXCEPT ![p] = Followed(p)]
    /\ marks' = [marks EXCEPT ![p] = Rebuilt(p)]
    /\ UNCHANGED <<rowVars, uploads, requestVars, tabVars, reopened>>

\* The one step offered from the status the page shows.
Advance(p) ==
    /\ Live
    /\ \/ shown[p].status = "draft" /\ status' = "assigned"
       \/ shown[p].status = "assigned" /\ status' = "submitted"
    /\ reopened' = (reopened \/ (Panel(Fetched) /\ status' = "assigned"))
    /\ UNCHANGED <<sourceVars, handInVars, asked, marking, uploads, requestVars, pageVars,
                   tabVars>>

TypeMarks(p) ==
    /\ Live
    /\ Panel(shown[p])
    /\ \E m \in Marks : marks' = [marks EXCEPT ![p] = m]
    /\ UNCHANGED <<rowVars, uploads, requestVars, shown, draft, tabVars, reopened>>

SaveMarks(p) ==
    /\ Live
    /\ Panel(shown[p])
    /\ marking' = marks[p]
    /\ UNCHANGED <<status, sourceVars, handInVars, asked, uploads, requestVars, pageVars,
                   tabVars, reopened>>

\* The marks and the status in one write, from the page and from the agent.
FinishMarkingStatusFirst(p) ==
    /\ Live
    /\ shown[p].status = "submitted"
    /\ status' = "marked"
    /\ UNCHANGED <<sourceVars, handInVars, asked, marking, uploads, requestVars, pageVars,
                   tabVars, reopened>>
FinishMarking(p) ==
    /\ Live
    /\ shown[p].status = "submitted"
    /\ marking' = marks[p] /\ status' = "marked"
    /\ UNCHANGED <<sourceVars, handInVars, asked, uploads, requestVars, pageVars, tabVars,
                   reopened>>

MarkHomework ==
    /\ Live
    /\ marking' \in Given /\ status' = "marked"
    /\ UNCHANGED <<sourceVars, handInVars, asked, uploads, requestVars, pageVars, tabVars,
                   reopened>>

\* Deleting the paper a worksheet was cut from takes the worksheet's questions with it.
DeletePaper ==
    /\ Live
    /\ Cut /\ asked
    /\ asked' = FALSE
    /\ UNCHANGED <<status, sourceVars, handInVars, marking, uploads, requestVars,
                   pageVars, tabVars, reopened>>

DeleteHomework ==
    /\ Live
    /\ status' = "deleted"
    /\ UNCHANGED <<sourceVars, handInVars, asked, marking, uploads, requestVars, pageVars,
                   tabVars, reopened>>

-------------------------------------------------------------------------------
(***************************************************************************)
(* The student's tab.                                                      *)
(***************************************************************************)

\* Opening the page fills the boxes from the row; fetching it again does not.
OpenTab(t) ==
    /\ MayRead
    /\ ~Busy(t)
    /\ seen' = [seen EXCEPT ![t] = Assigned]
    /\ typed' = [typed EXCEPT ![t] = submission]
    /\ UNCHANGED <<rowVars, uploads, requestVars, pageVars, reopened>>

RefetchTab(t) ==
    /\ MayRead
    /\ seen[t].status # "draft"
    /\ seen' = [seen EXCEPT ![t] = Assigned]
    /\ UNCHANGED <<rowVars, uploads, requestVars, pageVars, typed, reopened>>

Type(t) ==
    /\ seen[t].status = "assigned"
    /\ \E w \in Written \cup {None} : typed' = [typed EXCEPT ![t] = w]
    /\ UNCHANGED <<rowVars, uploads, requestVars, pageVars, seen, reopened>>

SaveAnswers(t) ==
    /\ seen[t].status = "assigned" /\ at[t] # "reading"
    /\ typed[t] # seen[t].submission
    /\ MayWrite
    /\ submission' = typed[t]
    /\ UNCHANGED <<status, sourceVars, file, submittedAt, transcription, asked, marking,
                   uploads, requestVars, pageVars, tabVars, reopened>>

\* The answers, the moment and the status in one write.
HandIn(t) ==
    /\ seen[t].status = "assigned" /\ at[t] # "reading"
    /\ typed[t] # None \/ seen[t].file # None
    /\ MayWrite
    /\ submission' = typed[t] /\ submittedAt' = TRUE /\ status' = "submitted"
    /\ UNCHANGED <<sourceVars, file, transcription, asked, marking, uploads, requestVars,
                   pageVars, tabVars, reopened>>

\* A photo is uploaded, then linked to the row;
UploadPhoto(t, f) ==
    /\ seen[t].status = "assigned" /\ seen[t].file = None
    /\ ~Busy(t)
    /\ f \notin uploads
    /\ uploads' = uploads \cup {f}
    /\ GoTo(t, "uploaded")
    /\ heldFile' = [heldFile EXCEPT ![t] = f]
    /\ Wrote(t, {})
    /\ UNCHANGED <<rowVars, heldSource, pageVars, tabVars, reopened>>

LinkPhoto(t) ==
    /\ at[t] = "uploaded"
    /\ MayWrite
    /\ file' = heldFile[t]
    /\ GoTo(t, "idle")
    /\ heldFile' = [heldFile EXCEPT ![t] = None]
    /\ WroteFile(t)
    /\ UNCHANGED <<status, sourceVars, submission, submittedAt, transcription, asked,
                   marking, uploads, heldSource, pageVars, tabVars, reopened>>

\* it is removed the other way round, and only what the tab showed is deleted: a file
\* deleted while something links to it takes the link with it.
UnlinkPhoto(t) ==
    /\ seen[t].status = "assigned" /\ seen[t].file # None
    /\ ~Busy(t)
    /\ MayWrite
    /\ file' = None
    /\ GoTo(t, "unlinked")
    /\ heldFile' = [heldFile EXCEPT ![t] = seen[t].file]
    /\ WroteFile(t)
    /\ UNCHANGED <<status, sourceVars, submission, submittedAt, transcription, asked,
                   marking, uploads, heldSource, pageVars, tabVars, reopened>>

DeletePhoto(t) ==
    /\ at[t] = "unlinked"
    /\ file' = IF file = heldFile[t] THEN None ELSE file
    /\ GoTo(t, "idle")
    /\ heldFile' = [heldFile EXCEPT ![t] = None]
    /\ UNCHANGED <<status, sourceVars, submission, submittedAt, transcription, asked,
                   marking, uploads, heldSource, moved, pageVars, tabVars, reopened>>

-------------------------------------------------------------------------------
(***************************************************************************)
(* transcribe_submission, asked for by a tab, a page or the agent.         *)
(***************************************************************************)
MayAskToRead(o) ==
    \/ o \in Readers
    \/ o \in Pages /\ shown[o].unread
    \/ o \in Tabs /\ MayRead /\ seen[o].status = "assigned" /\ seen[o].file # None

\* The photo is the one the row holds when the row is read.
PhotoAsSeen(o) == IF o \in Tabs THEN seen[o].file ELSE file
Photo(o) == file

BeginRead(o) ==
    /\ Live
    /\ ~Busy(o)
    /\ MayAskToRead(o)
    /\ file # None
    /\ GoTo(o, "reading")
    /\ heldFile' = [heldFile EXCEPT ![o] = Photo(o)]
    /\ moved' = [moved EXCEPT ![o] = FALSE]
    /\ UNCHANGED <<rowVars, uploads, heldSource, pageVars, tabVars, reopened>>

\* What was read is stored over whatever is there, by a student only while the row
\* is theirs to write.
StoreTranscription(o) ==
    /\ Live
    /\ at[o] = "reading"
    /\ o \in Tabs => MayWrite
    /\ transcription' = heldFile[o]
    /\ GoTo(o, "read")
    /\ heldFile' = [heldFile EXCEPT ![o] = None]
    /\ WroteFile(o)
    /\ UNCHANGED <<status, sourceVars, submission, file, submittedAt, asked, marking,
                   uploads, heldSource, pageVars, tabVars, reopened>>

\* Any of these may be refused, fail or never be answered: what was written stays.
Fail(o) ==
    /\ Busy(o)
    /\ GoTo(o, "idle")
    /\ heldSource' = [heldSource EXCEPT ![o] = None]
    /\ heldFile' = [heldFile EXCEPT ![o] = None]
    /\ Wrote(o, {})
    /\ UNCHANGED <<rowVars, uploads, pageVars, tabVars, reopened>>

-------------------------------------------------------------------------------
Compile(o) == BeginCompile(o) \/ StorePdf(o) \/ StoreCompileError(o)
Transcribe(o) == BeginRead(o) \/ StoreTranscription(o)

Page(p) ==
    \/ EditSource(p) \/ SaveSource(p)
    \/ Refetch(p)
    \/ Advance(p)
    \/ TypeMarks(p) \/ SaveMarks(p) \/ FinishMarking(p)

Tab(t) ==
    \/ OpenTab(t) \/ RefetchTab(t) \/ Type(t)
    \/ SaveAnswers(t) \/ HandIn(t)
    \/ \E f \in Photos : UploadPhoto(t, f)
    \/ LinkPhoto(t) \/ UnlinkPhoto(t) \/ DeletePhoto(t)

Next ==
    \/ \E o \in Pages \cup Compilers : Compile(o)
    \/ \E o \in Ops : Transcribe(o) \/ Fail(o)
    \/ \E p \in Pages : Page(p)
    \/ MarkHomework
    \/ \E t \in Tabs : Tab(t)
    \/ DeletePaper
    \/ DeleteHomework

Spec == Init /\ [][Next]_vars

-------------------------------------------------------------------------------
(***************************************************************************)
(* Properties.                                                             *)
(***************************************************************************)

\* A compilation nobody wrote under leaves the PDF of the source the row holds and no
\* error, or the compiler's report on that very source.
CompiledIsTheSource ==
    \A o \in Pages \cup Compilers :
        at[o] = "compiled" /\ ~moved[o] =>
            \/ pdf = content /\ error = None
            \/ error = content

\* What TypstEditor says of a tutor's unsaved work: whatever is fetched meanwhile, it is
\* never thrown away.
UnsavedSourceIsKept ==
    [][\A p \in Pages :
          draft[p] # shown[p].content /\ draft'[p] # draft[p] => EditSource(p)]_vars

\* No row is marked without marks, whichever of the page and the agent wrote which of
\* its columns last.
MarkedHasMarks == status = "marked" => marking # None

\* Marks typed into an open panel, and not saved, give way only to marks the row was
\* given since or with the questions they are for, which somebody deleted.
TypedMarksGoOnlyForNewOnes ==
    [][\A p \in Pages :
          Panel(shown[p]) /\ Panel(shown'[p]) /\ marks'[p] # marks[p] =>
              \/ TypeMarks(p)
              \/ marking # shown[p].marking
              \/ shown[p].asked /\ ~asked]_vars

\* What the student is told when they hand in: the answers and the photo cannot be
\* changed afterwards, by any of their tabs and whatever was under way, as long as no
\* tutor's page that still shows an earlier status assigns the homework again.
AnswersAreFrozen ==
    [][submittedAt /\ ~reopened => UNCHANGED <<submission, file>>]_vars

\* A transcription nobody wrote under is of the photo that is attached.
ReadIsOfThePhoto ==
    \A o \in Ops : at[o] = "read" /\ ~moved[o] => transcription = file

===============================================================================
