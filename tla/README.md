# A verification model of Sidereal Tutoring

TLA+ modules, TLC configurations and TLAPS proofs about the program in `src/`:
a tutoring practice's record in Directus (Postgres behind it), Python packages
that ingest material and generate work with a language model, a FastAPI app and
an MCP server in front of them, a React client, and two Rust services.

Every module is translated from the source. `PROJECT.json` maps each definition
to the lines it stands for, lists the runs, the mutants each property is tried
against, the hazards the properties are for, and the theorems.

    tlc -workers 2 -config jobs_safety.cfg MCGenerationJobs.tla
    tlc -workers 2 -config accounts.cfg MCAccounts.tla
    tlapm GenerationJobsProofs.tla
    tlapm EditorProofs.tla

## The system

Nothing in the program holds a lock or a transaction across two requests.
Directus is the only store; every handler is a sequence of HTTP requests to it,
to the typeset service and to a model, and any other handler, background task,
browser tab or agent may make its own in between. A request may be refused, may
time out after it landed, and the process that was going to make the next one may
be restarted. That is what the modules are about: each request that reads or
writes a row is a step, and what a handler read is kept as its local state until
it uses it.

| Component | State | Operations | Hard because |
|---|---|---|---|
| Generation jobs (`sidereal_generate/jobs.py`) | a `generation_jobs` row; a background task per row | start, retry, run, a verdict by hand; the student's deletion | the task lives in a process, the row in Directus; artefacts are many requests |
| Papers (`sidereal_generate/papers.py`, the paper page) | a `papers` row with source and PDFs, its `questions` rows, the page's draft | extract, render, read the scheme again, edit, save, delete | minutes between a read and the write back of whole columns |
| Student logins (`sidereal_core/students.py`, `logins.py`, `files.py`) | `students.status` and `.user`, `directus_users.status`, `uploaded_by` | archive, unarchive, create, remove, delete | two rows that must agree, written one after the other |
| Tutor accounts (`sidereal_core/tutors.py`, the admin pages) | `directus_users`, `students.tutor`, `uploaded_by` | create, suspend, remove, hand a student over | count, list, reassign, delete, each a request of its own |
| Browser session (`lib/auth.tsx`, `auth-storage.ts`, `api.ts`) | the session a tab holds, the one the tabs share, the user and role shown | restore, sign in and out, renew, refresh | answers land after what overtook them; storage is shared |
| Profile photo (`lib/queries/account.ts`) | `avatar`, the files | upload, set, discard the one before | three requests, and what the tab knew when they began |
| Documents (`sidereal_ingest/documents.py`, the dialog and page of material) | a `documents` row, its page rows, its files | add, process, process again, tag, delete | runs overlap; an addition is many requests; a failure is a column |
| Topics and tags (`routes/TopicsPage.tsx`, `lib/queries/topics.ts`) | a tree of rows; junction rows | add, describe, delete; replace an item's tags | a read, a deletion and parallel creations; a cascade |
| Files shown in the browser (`lib/files.ts`) | an object URL per viewer | ask for another, show, revoke | bytes arrive after another file was asked for |
| Paper editor (`components/papers`) | a draft | every edit of the tabs; build | the draft's checks and the service's must agree |
| Previews of a card (`lib/queries/typeset.ts`, `FragmentView.tsx`) | a settled document, cached queries | type, settle, fetch, render | figures and renders answer in any order |
| Homework (`sidereal_core/homework.py`, `sidereal_ingest/submissions.py`, `sidereal_generate/typst.py`) | a `homework` row, its PDF, its submission | compile, hand in, transcribe, mark | a result is stored over an input that has changed |
| Chunked extraction (`sidereal_generate/chunks.py`, `extraction.py`) | the listing, what replies have said so far | batch, ask, ask again, fold, merge | replies omit, stray, repeat, and disagree with the shape |
| Generation backends (`claude.py`, `openrouter.py`, `usage.py`) | tokens used | ask, ask again within a bound | retries add up |
| Rate limits (`api/ratelimit.py`, `ingest/ratelimit.py`) | buckets by address; one bucket under a lock | allow; acquire | refill, eviction, waiting |
| App sign-in (`deps.py`, `logins.identify`) | none | who is calling | decided afresh by request |
| MCP server (`sidereal_mcp`), Directus client | none | the same functions, by an agent | a second writer |
| Typeset and transcripts services (`services/`) | none; a poll loop | render; poll | shutdown, failing polls |
| Lists, statuses and search (`frontend/src/routes`) | cached rows | filter, poll | only read |
| Feedback, plans and sessions | a row each | write it from a form | one request each |
| Schema and permissions (`directus/`, `scripts/`) | on-delete rules, row rules | | cascades change what others hold |

What makes each correct is stated as the properties below; `PROJECT.json`
(`hazards`) names the lines where each is at risk.

## Modules

| Module | Stands for |
|---|---|
| `JobContract` | what a job promises whoever watches its row |
| `GenerationJobs` | `start_job`, `retry_job`, `run_job` request by request, `update_generation_job`, crashes, `delete_student`'s naming of jobs and the cascade |
| `GenerationJobsProofs` | its theorems, the refinement of `JobContract` among them |
| `Papers` | `extract_paper`, `rerender_paper`, `extract_paper_mark_scheme`, the paper page, `useDeletePaper` |
| `PapersProofs` | its theorems |
| `StudentLogins` | `archive_student`, `unarchive_student`, `create_login`, `remove_login`, `delete_student`, `release_uploads` |
| `StudentLoginsProofs` | its theorems |
| `Homework` | `recompile_homework`, `transcribe_submission`, `mark_homework`, the tutor's homework page with its source editor and marking panel, the student's answers, photo and hand-in |
| `HomeworkProofs` | its theorems |
| `Topics` | the tree, the page that edits it, and the saving of an item's tags |
| `Documents` | `EXTENDS Topics`: the dialog that adds material, `process_document`, the page that polls, retries, edits, tags and deletes |
| `FileBlobs` | `useFileBlob` and its object URLs |
| `Library` | the three together: a topic deleted under a save of tags, an item under its page, a file under the lightbox |
| `LibraryProofs` | its theorems |
| `PaperDraft` | every edit of the paper editor, what may be saved, what its cards set, and what the typeset service refuses |
| `Previews` | one card's debounce and queries |
| `Editor` | the two together |
| `EditorProofs` | its theorems |
| `TutorAccounts` | `create_tutor`, `set_tutor_status`, `remove_tutor` with `release_uploads`, students handed over |
| `Session` | `EXTENDS TutorAccounts`: tabs that restore, sign in and out, renew and refresh, against accounts that come and go |
| `Accounts` | `EXTENDS Session`: the profile photo, and all of it together |
| `AccountsProofs` | its theorems |
| `Chunks` | the operators of `chunks.py`: batches and their pages, the shape resettled on what was transcribed, scheme entries and what fills their gaps |
| `Extraction` | `EXTENDS Chunks`: `extract` and `extract_mark_scheme`, call by call |
| `ExtractionProofs` | their theorems |
| `MC...` | the instances TLC checks: constants and symmetry |

### GenerationJobs

A job's row is `status`, `kind`, `student`, `input`, `output`; its task is where
`run_job` has got (`task`, `host`) and what it holds. `landed` counts the writes
of the artefact in the order the code makes them (`RowAt`, `WriteCount`): a
homework is its questions, the PDF if it compiled, the row, then a junction row
per question; a paper is filed first; feedback and plans are one row. `Fault`
bounds refused requests, lost answers and crashes together by `MaxFaults`; a
write whose answer is lost lands. `DeleteStudent` is the listing, the naming of
each job, and the delete with Directus's cascade. `verdict` and `askedFor` are
history.

`JobContract` is the abstract specification: queued, running, settled for good,
succeeded only with the whole of what was made behind it, and nothing but a
verdict moves a status otherwise. `KeepsTheContract` is the refinement, under
the mapping `Contract` at the end of `GenerationJobs`.

### Papers

One paper. A structure or scheme is a value told apart by what it says; a PDF is
the value it shows; `Compiles`, `Asks` and `Answers` say which sources the
typeset service takes and which questions each has. A repair round may hand back
any source that asks the same (`Repaired`, `RepairedScheme`). An operation keeps
what it read in `heldStructure`, `heldScheme`, `heldWarning` and writes whole
columns from it. `moved[o]` is history: somebody else has written since `o` read.
A page has a `draft`, the `base` it was loaded with, and `behind`, the
`date_updated` comparison the page makes.

### StudentLogins

One student. `account` is each login's status, `owner` each file's
`uploaded_by`. An operation reads the row (`Begin`) and then makes its requests
in the code's order: the login before the row, the uploads before the login, the
login before the link. `Fail` may end any of them between two requests.
Directus's part is in the actions: a deleted login is nulled wherever it is
pointed at. `moved` is as in `Papers`; `refused` and `late` remember why a file
may have lost its owner.

### Homework

One homework. A PDF and a compiler's report are the source they are of, a
transcription the photo it was read from. Everyone acts on what they last
fetched: a tutor's page on `shown` (with the editor's `draft` and the panel's
`marks`), a student's tab on `seen` (with the boxes' `typed`), and both may be
behind the row; `Refetch`, `OpenTab` and `RefetchTab` say what a fetch does to
what was typed. `BeginCompile`/`StorePdf`/`StoreCompileError` and
`BeginRead`/`StoreTranscription` are the two long calls, made from a page, a tab
or by an agent (`Compilers`, `Readers`); `MayWrite` and `MayRead` are the
student's permissions on the row. The typeset service may refuse a source that
compiles (any answer of 400 or more is a `TypesetError`), so `StoreCompileError`
asks nothing of the source. Attaching and removing a photo are two requests each,
and a file's deletion nulls a link to it. Each actor makes one long call at a
time: two at once are two actors. `Typst` is the row's format; `Cut` a worksheet,
cut from a paper: its source is read and not edited, and deleting the paper takes the
questions the panel of marks lists (`asked`). The panel is built again when the row's
marks or questions are others than it was built from (`Rebuilt`), over what was typed
into it. `reopened` is history: a page set a handed-in row back to assigned.

### Library: Topics, Documents, FileBlobs

A row of `links` tags an item with a topic. A `Saver` (the Topics field of a page,
or the dialog that has just filed an item) reads what the item has (`held`),
deletes what is no longer chosen, and sends one creation per new topic: `busy` are
those in flight and `late` those still in flight when another was refused, because
`Promise.all` gives up on the first. `WroteTags` marks in `moved` every save that
somebody else wrote under. A Topics page holds the tree it last fetched; deleting a
topic promotes its children and drops every tag of it, as the schema says.

An addition of material is `BeginAdd`, `Upload`s, `CreateDocument`, `LinkPage`s and
`StartReading`, and `AddFails` may end it between any two. What was read is the
sequence of pages it was read from, so a scan read in part shows. A `Task` is one
run of `process_document`, started by an addition or by a retry: two may overlap on
one item. `Retry` asks nothing of the row, as `reprocess_document` does not, so a scan
can be asked for while its pages are still being linked: `hurried` remembers the runs
that were. A page shows `seen` and polls while that is unsettled.

A viewer's bytes carry the asking they are of; `Ask` revokes the URL shown and
cancels what is under way. A viewer shares no state with the rest, and is composed
for the deletion of the file it shows.

### Editor: PaperDraft, Previews

A paper is the record the canonical format describes, with each text reduced to
whether there is any and each number to what its box may hold: nothing, no whole
number, or a number up to one past what the service's integers hold (`Widest`, one
range for its `u32` and `i32`, no shorter than the caps, `Most`). The controls are operators that return
the set of what they may make of what they show (`AnswerEdits`, `BlockBody`,
`ListEdits` with the moves and removals every list has), so one `EditDraft` is any
edit of any tab. `Builds` is `buildPatch`; `Refused` is what the service's
`document.rs` refuses of the same paper, by kind; `WhatBuildsIsSet` relates the two.
`CardDocument` and `SchemeDocument` are the fragments the cards set.

`Previews` tells documents apart and no more: `want` is what the draft builds,
`settled` what it built when it stood still, and each image and render is a query of
a cache (idle, loading, there, refused). `Mount` is the effects of one React render.

### Accounts: TutorAccounts, Session

A removal is `Count`, `ListFiles`, a `Reassign` per file and `Delete`; tutors add
students and files, and the admin hands students over, between any two of them.
`disturbed` is history: the tutor was given something since the count. A deleted
account is taken off every row that names it.

`@directus/sdk` is not in the repository; of it the model has what `lib/directus.ts`
and `lib/auth-storage.ts` bring about. To sign in (`Submit`, `SignIn`) and to renew a
session (`Renew`, `Renewed`) it first empties its storage, which is the one all tabs
share (`auth-storage.ts:42-50`), and fills it when it is answered. A renewal is begun
by a timer or by a request about to go out; it may succeed, be refused or be lost, with
the old session ended at Directus or not, and what is asked of a tab meanwhile waits
(`Awaited`, `Token`) and goes out with what the tab then holds (`Resumed`). `lapsed` is
history: the session a tab took out to renew and has not brought back, and `Held` the
session it holds or that one.

A call in flight carries the session the tab held when it was sent, or that it waits
for one, and what is to be done with its answer. Directus's answer depends on what has become of the session and
its account by then: one that was ended, or of an account suspended or removed, may be
refused or may still be accepted for a while, and the row of a removed account is an
id and nothing else (`MayBeNobody`). The app answers the role and says "tutor" of a
caller it cannot place. `late` marks the calls a sign-in or sign-out overtook, and a
change of photo's asking for the user with nobody shown signed in; `mixed` is a tab
one of them has landed in. A change of photo is a click, an upload, the row, the
deletion of the photo the tab knew of at the click, and the user again; each request
is made under whatever session the tab holds by then. `saving` keeps whose photo the
change was begun on, and `crossed` (`Cross`) is history: a request of a change was
made under another account's session.

### Extraction: Chunks

A paper too long for one call is read in several: its shape, its questions in
batches, the material they print; then its scheme, in batches of the paper's
questions. `step` is what is being asked, `left` the places not yet asked about, and
each action one answer of the model, which may be anything its schema allows.
`Misfits` is an answer that does not fit, asked for once more; `ReadWording` and
`ReadAgain` are the two other second asks, of a batch whose wording came back in a
figure and of a scheme batch that left something out.

A listing is a function from places, in the order printed (loose questions first, then
each section's), to a number, the page it starts on and whether it prints material.
`PartOf` is `_is_part_of` (`01.1` of `01`); numbers stand in their order as text.
`Reconciled` folds the places that a transcribed question replaces into one, at the
place of the first; the code applies it before the material is asked for and again in
`merge`. `Printed` is the `pop` of what was placed. An entry of a scheme tells apart
only what is blank and which reply said it, with one text for the whole and one per
label; `Whole` sends `a(i)` to `a`. `shown`, `said`, `more` and `twice` are history: the
pages sent with the last call about a place, what a batch's first reply and its second
said of it, and the numbers answered in two batches.

`Papers` begins where this ends: with the structure and scheme an extraction hands
over, or its failure.

## Runs

All bounds are constants of the `.cfg` files. Runs stop where the system does
(`CHECK_DEADLOCK FALSE`): a finished history with no ids left, or a deleted row,
has nothing more to do.

| Run | Instance | Shows |
|---|---|---|
| `jobs_safety` | 2 jobs, 1 student, 3 kinds, 1 question, 1 fault, 1 verdict | outputs are whole, unsettled rows have a task, failures file nothing, retries keep the student, the contract (in which outcomes are final) is kept |
| `jobs_settle` | 2 homework jobs, 1 fault, weak fairness of each task | every queued row settles unless a request is lost or a process dies |
| `papers_safety` | extraction, deletion, and 2 requests with no page open, over 2 questions and 2 schemes, or 1 request and 1 page, over 1 scheme and 1 question filed; a source that compiles and one that does not | PDFs show what is stored until a tutor saves; a page with the row's stamp shows the row; undisturbed operations leave row, PDFs and questions consistent |
| `papers_draft` | extraction, 1 request, 1 page | a patch of the row reloads a draft a tutor is editing |
| `logins_safety` | 2 operations, 2 logins, 2 files | an undisturbed operation does what it says; files keep an owner; only a race loses a login |
| `homework_source` | 2 tutor's pages, a source that compiles and one that does not; set without questions | an undisturbed compilation is of the source the row holds; a refetch throws no unsaved source away |
| `homework_handin` | a worksheet; 1 tab, 1 page, an agent that marks; 2 photos, 2 markings, 1 answer | what was handed in stays; an undisturbed transcription is of the photo; marks come with their status, and typed ones go only for others, or with the questions they are for |
| `library` | 2 topics, 2 descriptions, 2 items of 3 files, scans of 2 pages, 2 tasks, 1 dialog, 1 page, 2 Topics pages, 1 viewer, 1 lost request, two actors at a time | undisturbed saves of tags end in the choice, scans are read whole unless asked for before their pages are linked, nothing read or typed is lost, viewers show what they are asked for, a polling page sees how a reading ended |
| `editor` | 5 papers, numbers to 4 with a cap of 2 and a range to 3; any 2 edits, or 5 of one table or of the order of questions; 2 documents of 2 figures | what builds is set by the service but for three gaps (zeros, references below a question, numbers past its integers), tables stay rectangular, cards stand alone, questions are kept, figures are awaited, previews catch up |
| `accounts` | an admin, 2 tutors and a student account; 1 student, 2 files, 2 removals; 2 tabs with 2 calls in flight each, 2 sessions, 3 photos; 1 lost request | undisturbed removals leave nothing nameless, a tab shows whom it holds a session of, or did until a renewal that has not succeeded; the stored session goes only by a sign-out, by a refusal, or when the SDK signs in or renews; the photo named is there until a change goes on under another account |
| `extraction` | numbers 01, 01.1, 01.1.a, 01.2; papers of at most 3 questions, 2 to a call; labels a, a(i), b; pages 0 to 3 of a document of 2 | calls are sent whole questions, what was read is in the paper, first answers stand, schemes are refused for gaps alone |
| `session_role` | the same as `accounts` | a user asked for again before a sign-out is shown after it, with no role |

`papers_draft` and `session_role` are expected to fail, each quoting in `findings`
the line of the repository it goes against.

### Disagreements met that have no run

Jobs and logins:

* One lost request, or a process that dies, leaves a row queued or running for good
  (`jobs.py:219`; the docstring above it and `docs/architecture.md` say a job
  settles). `QueuedJobsSettle` says it takes that.
* A job filed while its student is being deleted is never named (`students.py:58`
  lists, `:67` deletes).
* An archived student can be given a working login (`students.py:41`,
  `logins.py:148`).
* A homework job writes `homework_questions` rows (`jobs.py:474`), which
  `docs/architecture.md` says it does not.
* Two callers giving a student a login at once both succeed (`logins.py:154`;
  the app's README says 409); `LoginsStayFindable` says this takes a race.

Papers and homework:

* A render takes the mark-scheme warning off a paper whose scheme is still missing
  (`papers.py:248`; the comment above the line says an earlier failure's warning is
  no longer true of a row that rendered).
* A mark scheme cleared in the editor keeps its PDF through the next render
  (`papers.py:244`; `papers.ts:127` says the PDFs follow the row).
* Questions an extraction files after `useDeletePaper` listed them outlive the
  paper with a null column (`papers.ts:171` says the listing is there so that
  none does); `orphans` of `Papers` holds them.
* A photo replaced after it was read keeps the transcription of the first
  (`submissions.py:31`).
* A tutor's page that still shows a draft offers to assign it after the student has
  handed it in, and then they can write again (`HomeworkDetailPage.tsx:121`;
  `transitions.ts:9` says the step is from where they are, `AnswerCard.tsx:375`
  that answers cannot be changed once handed in). `AnswersAreFrozen` says this is
  the only way.

The editor:

* `buildPatch` checks a reference to a passage at the level of the question only,
  and the service refuses one from a part or a sub-part ("inner passage" in
  `WhatBuildsIsSet`); it takes zero rows, columns and widths, which the service
  does not ("zero"); and `whole` asks no cap of marks, the year, the time and the total
  (`draft.ts:556`, `:865-873`), which the service reads into a `u32` or an `i32`
  (`document.rs:60-62`, `:97`, `:112`, `:211`): a greater number builds and is refused
  ("marks", "details").
* A header without cells above rows with cells is read as canonical and cannot be
  built again; an extent over its cap that its answer's kind does not read makes a
  loaded draft one that cannot be saved. `EditorAssumption` leaves the first out of
  `Stored`.
* Adding the entries a mark scheme misses adds one twice where two questions share
  a number.
* The cache key of a render is a 32-bit hash of what is set (`typeset.ts:33`): two
  documents may share one. `Previews` tells them apart.

Sessions and accounts:

* "`restore` must leave the stored session alone" where a request is merely lost
  (`auth.tsx:67-70`), and it does; the SDK does not. A renewal that is lost or refused, a
  page reloaded during one, and a sign-in that fails have emptied the storage every tab
  shares. The tab goes on showing its user with no session (`Held` in
  `SignedInAsAnswered`, `Renew` and `Submit` in `OnlyRefusedSessionsGo`), and the others
  lose theirs at their next reload. A second tab that renews the session the first has
  renewed is refused, and empties the storage the first has filled.
* A renewal answered after a sign-out puts a session back, which the next reload
  restores; `mixed` covers the tab.
* A sign-in (`auth.tsx:142`) lacks the check that the row answered is somebody's,
  which a restore makes (`:98`): `MayBeNobody` in `ShowUser`.
* A restore that ends after a sign-in shows its own user, and one refused then drops
  the new session; one refused in a tab drops the session another tab has stored
  since. `mixed` and `OnlyRefusedSessionsGo` say when.
* A change of photo goes on in a tab that signs out and in as somebody else while it
  runs (`account.ts:45`): one account's upload lands on the other's row, or the other's
  deletion takes a photo an account still names. `crossed` is this, and
  `PhotoIsThere` says it takes it.
* A user asked for again by a change that ends after a sign-out (`auth.tsx:150`) is
  shown under the next session, before the role of that session is known; `mixed`
  covers it with the call already under way, which `session_role` shows.
* A tutor given a student or a file between the count and the deletion is removed
  all the same, and what they were given is nobody's (`tutors.py:196`).

Extraction:

* Where the shape lists a number twice and both are parts of a question that was
  transcribed, `_folded` writes a plan for the number and then strikes it out
  (`chunks.py:525`, `:532`): the question disappears with no error, though
  `reconciled` says the parts "give up their place - and their section - to it".
  `ListedOnce` in `NothingReadIsLost` says it takes that.
* A reply that strays onto a number of an earlier batch replaces what that batch
  answered (`extraction.py:280`; `merge_scheme`'s dictionary), though "the first read
  the rest already" (`:202`): `twice` in `AnswersStand`.
* A first reply of blank parts and a second that answers the question as a whole are
  put together into an entry that is refused (`chunks.py:413` wants no parts at all):
  `Between` in `RefusedOnlyForGaps` counts the labels only.

Material:

* A dialog sent again after a failure files the material a second time; a row whose
  reading could not be started stays pending with no task until it is retried.
* The hook "re-runs ingestion for a pending or failed row" (`documents.ts:156`) and the
  endpoint takes a row of any status (`routes.py:252-264`), where the page offers it for
  a failed one only. A scan asked for while its pages are being linked is read in part and
  marked ready: `hurried` in `ReadyScansAreWhole` excepts that run and no other.

### Why the bounds are enough

The hazards are pairwise (one handler's write between another's read and write), so
two operations on one row, each with its every step, reach them; a second question,
file, page or job is there so that "all" and "some" differ; one fault suffices
because the properties are about what the first one leaves. `homework_handin` has
one tab of the student, whose own requests already race its hand-in;
`HandInsAreFinal` covers any number. Where a theorem is listed, it holds for every
size.

`MCLibrary`, `MCEditor`, `MCAccounts`, `MCPapers` and `MCExtraction` give each behaviour a matter and the two
actors that meet over it (`cast`, `about`), and hold the rest still: two Topics pages
over the topics; two savers, or a saver and a Topics page, over one item's tags; a
dialog and a page, or pages, over what reads an item; a viewer alone; two removals
over tutors; two tabs, one of which signs in anew, or a tab and the admin, over sessions; two tabs over a photo;
one tab over a photo while it switches accounts; two requests on a paper, or one and a
page; a shape that disagrees with what is transcribed, the pages of a call, one
question's scheme by parts, or several questions' schemes. Every action of every component takes
part in some cast. What the casts leave out is three actors on one matter, and matters
that meet over no state of the model (an item's tags and its reading touch different
rows; a draft and a preview are one-way). Two tabs meet over the stored session alone,
which the second need not sign in itself to restore, renew, lose or end. A table needs three edits to lose its shape
and get it back, the order of questions four to move one through a section, so those
two matters have five. Three questions in calls of two are the fewest that give two
batches, one of them short, and a call that is not the last; three numbers of which two
are parts of the third, and one of those a part of another, every way to fold.

### Fairness

* `jobs_settle`: weak fairness of each job's task, which is what the event loop gives
  a coroutine that can go on.
* `PagesSeeTheEnd`: of each run of `process_document`, of the service filing what a
  dialog sent, and of a page's poll, whose timer fires again after each answer.
* `PreviewCatchesUp`: of the debounce's timer, of React's effects, and of each fetch,
  which ends in an answer or an error.

Nothing is assumed of tutors, students, admins, deletions or crashes, and a violation
is never the system stopping.

## Proofs

Every safety invariant and every action property of the passing runs is stated by a
theorem, for every value of the constants. Each theorem module has an inductive
invariant, proved by one lemma per group of actions with a step per action and per
conjunct, and the properties follow from it. In the first four modules it is one
formula, `IInv`; in `LibraryProofs`, `AccountsProofs` and `ExtractionProofs` it comes in parts about
different state, each inductive with the types (`Types`, `CallInv`), so that a theorem
rests on the part it needs; in `EditorProofs` most of the work is not in the
invariant but in lemmas about the operators the editor is made of.

* `GenerationJobsProofs`: `IInv` ties the status to the stage of the task
  (`StatusInv`), the stage to how much of the artefact has landed
  (`ArtefactInv`, `FailureInv`), and the student column and input to whom the job
  was for (`StudentInv`). Proved: `TypeCorrect`, `OutputsAreWhole`,
  `UnsettledIsWorkedOn`, `FailuresFileNothing`, `RetriesKeepTheStudent`,
  `OutcomesAreFinal` (which no run checks: the contract has it), and `KeepsContract`: initial states map to initial states
  and each action to one of `JobContract` or a stutter.
* `PapersProofs`: what an undisturbed operation holds is what the row holds
  (`ReadInv`, `ExtractInv`); source and PDF travel in one patch (`PrintInv`).
  Proved: `TypeCorrect`, `PdfsAreOfTheSource`, `ReadsReachEveryQuestion`,
  `ExtractionsAreWhole`, `FreshPagesAreCurrent`, `RendersRepairWording`.
* `StudentLoginsProofs`: what an undisturbed operation finds at each of its steps
  (`UnderWay`), what it leaves (`Outcome`), and that what is still a login's is on
  the list of whoever is releasing it (`Released`). Proved: `TypeCorrect`,
  `UndisturbedOperationsHold`, `UploadsFindAnOwner`, `LoginsAreLostByRaces`.
* `HomeworkProofs`: what an undisturbed request holds is what the row holds
  (`SourceHeld`, `PhotoHeld`); every upload is a file of its own, so a removal
  under way at the hand-in deletes nothing that was handed in (`PhotosApart`);
  what was handed in is not assigned (`HandedIn`). Proved: `TypeCorrect`,
  `MarksComeWithTheStatus`, `UndisturbedCompilesHold`, `UndisturbedReadsHold`,
  `HandInsAreFinal`, `UnsavedSourceStays`, `TypedMarksStay`.
* `LibraryProofs`: how far a dialog has got says what it has uploaded (`AddingInv`,
  `FilingInv`); an answer under way that is of the last asking is of the file wanted
  (`LoadsInv`); a run that was not asked for too early is of an item with every page
  linked, and has read them all (`WholeInv`, from `Sound`), so a scan a dialog gave up on
  is read as whole only by a run that is remembered; and an
  undisturbed save has linked what it chose less what is in flight (`TagsInv`, where a
  row it added must be the only one of its topic, or a refused creation would leave
  two). Proved: `TypeCorrect`, `BlobsAsAsked`, `ReadyScansWhole`, `ReadIsKept`,
  `TypedIsKept`, `TagsChosen`.
* `EditorProofs`: a draft, whatever edits it has had, is a `SoundPaper`: of its types,
  with every table of one width, shown level by level (block, sub-part, part, question,
  section) for whatever the lists' tools do. `BuiltIsSet` and `CardsStandAlone` hold of
  any sound paper: what `buildPatch` checks of an answer, a table, a block or an entry
  leaves the service nothing to refuse but the three gaps, whatever the cap and the range, and a card's fragment has what
  it points at inlined and a scheme's card no space to answer in. `QuestionsKept`
  reads the questions of a paper as one list and shows each edit to take at most one
  and bring at most one (`Close`), which what surrounds a list does not change.
  `FlattenSeq` is recursive in the library: what is needed of it (each item of the
  result is an item of a list, and the converse; changing one list changes one stretch
  of the result) is proved from the least place at which it would fail. Of the
  previews, an image that cannot be had is on the list of refused ones (`ImagesInv`).
  Proved: `TypeCorrect`, `TablesRectangular`, `BuiltIsSet`, `CardsStandAlone`,
  `QuestionsKept`, `FiguresAwaited`.
* `AccountsProofs`: an undisturbed removal that goes on is of somebody without
  students, whose files are all listed (`RemovalInv`); a call nothing overtook carries,
  or waits for, a session of whom its tab holds or renews one of (`Goes`, of `Held`), and
  there is one way in and one renewal at a time (`OneWayIn`, both in `TabsInv`); every photo named anywhere (by an account, a tab, an answer, a change)
  was uploaded, one uploaded and not yet set is named nowhere, and one about to be
  discarded is no longer its account's, unless a change has crossed accounts
  (`PhotosKnown`, `UnsetInv`, `DiscardInv`, `OwnPhoto`). Proved: `TypeCorrect`,
  `Removals`, `SignedIn`, `RefusedSessionsGo`, `PhotosAreThere`.
* `ExtractionProofs`: every call sent so far was sent what its questions need
  (`Sent`), from `SpansAreWhole`: the pages from the least any of a batch starts on to
  where the question after its last does. Until the paper is merged the listing is the
  shape, or the shape folded once on everything transcribed (`Settling`); a place left
  in a folded listing is transcribed or no transcribed number is free to take it
  (`NothingIsLeftToTake`), so folding again is the identity (`SettledOnce`) and the
  paper is of the listing its material was asked by. `NothingReadIsLost` then follows
  from which place each folded one gave way to (`TakersAreListed`). Of schemes, what is
  on record for a place already asked about has all its first reply said and is a gap
  only where both replies together leave one (`Answering`), which each batch keeps
  (`FilledIs`, `FilledAnswers`, `EarlierIsKept`, `BatchIsKept`) as long as no other
  answers the number. The least place and the least number, where the code walks a list,
  are there because the naturals' order is well-founded (`LeastNumber`, `LeastByPlace`).
  Proved: `TypeCorrect`, `CallsAreSentWholeQuestions`, `PapersAreAsAsked`,
  `NothingIsLost`, `FirstAnswersStand`, `RefusalsAreForGaps`.

Assumptions are the named `ASSUME`s of the modules: null is no id, the kinds are
the code's, each source has its set of questions, a stored paper is one the
service took, with no table that has a header without cells (`EditorAssumption`), and a
number that reads as a part of two is a part of the one by way of the other, as prefixes
are (`ChunksAssumption`). TLC
evaluates them in every run.

`TypeOK` of every composed module is proved (`TypeCorrect`) and not run again;
`PaperIsAsAsked` and `OutcomeIsFinal` are proved and not run either.

Only model-checked: `QueuedJobsSettle`, `PagesSeeTheEnd` and `PreviewCatchesUp`
(liveness under fairness is out of the prover's reach), and the two runs that find a
disagreement, which are counterexamples.

Two properties were found to say too much when their proofs were tried, and TLC then
found why on a run that switches accounts: `PhotoIsThere` and `SignedInAsAnswered`,
of a tab whose change of photo goes on after a sign-out. `crossed` and `late` with
nobody shown came of that, and the properties say what it takes.

## What is not modelled, and the plan

* Wording, layout, prompts, figure crops, worksheets, image and PDF reading, paging
  and HTTP encoding are data the properties do not tell apart.
* Of chunked extraction: sections, marks, the blocks of parts and labels, figures, the
  stem of a lone unlabelled part, passages that restate a question, the repair calls
  (what a repair may change is `Repaired` in `Papers`).
* Generation backends: a generation is one step that may fail.
* Rate limits and the transcripts service's loop: arithmetic on clocks; to every
  module a limit is a request refused.
* Canonical papers as YAML and Typst text: conversions of text, which `Papers` and
  `PaperDraft` take by what they tell apart.
* Permissions other than a student's on homework, and the app's checks of single
  routes: a refused request is in every module, why it was is not.
* The timer `@directus/sdk` leaves running when a refused session is dropped without it,
  which renews what is no longer there and empties the storage once more.
* Lists, filters, the home page, and the forms of feedback, plans and sessions, which
  read, or write one row in one request.
* Two tutors in one editor: a draft is one page's, and `Papers` has what two pages
  do to the row.

Left to do: `RateLimits`, the keyed limiter with eviction and the bucket with waiters,
against an abstract limiter.
