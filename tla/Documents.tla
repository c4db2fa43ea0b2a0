------------------------------- MODULE Documents -------------------------------
(***************************************************************************)
(* Material: the dialog that adds it, the background task that reads it,   *)
(* and the page that shows it, retries it, tags it and deletes it.         *)
(*                                                                         *)
(* An addition is an upload for each file, the row, a junction row for     *)
(* each page of a scan, the task, and then the tags, each a request; what  *)
(* a failure leaves stays.  What was read is the sequence of pages it was  *)
(* read from, for a file the one file and for pasted text none.            *)
(*                                                                         *)
(* A reader may edit what it shows; names and renames are left out.        *)
(*                                                                         *)
(* source: sidereal_ingest/documents.py, sidereal_app/api/routes.py,       *)
(* components/material, routes/MaterialDetailPage.tsx and                  *)
(* lib/queries/documents.ts of the frontend                                *)
(***************************************************************************)
EXTENDS Topics, Sequences

CONSTANTS
    File,      \* ids of uploaded files
    MaxPages,  \* bound: pages of a scan
    Task,      \* background runs of process_document, each used once
    Adder,     \* open dialogs
    Reader,    \* open material pages
    Old,       \* uploads filed and read, or not, before any of this, and their files
    FileOf

ASSUME DocumentsAssumption ==
    /\ Adder \cap Reader = {} /\ Adder \cup Reader = Saver
    /\ MaxPages \in Nat \ {0}
    /\ None \notin File
    /\ Old \subseteq Item /\ FileOf \in [Old -> File]

VARIABLES
    status,   \* the documents collection: a row's status, "absent" before it is filed
    kind,     \* its kind,
    given,    \* the files the tutor chose for it, in order,
    pages,    \* the pages linked to it so far,
    text,     \* and the pages its text was read from
    files,    \* the files there are,
    uploads,  \* and were ever
    at,       \* the item a dialog has filed, or a page shows
    adding,   \* how far a dialog has got
    form,     \* what it was given: a kind and how many files
    sent,     \* the files it has uploaded
    seen,     \* the status a page last fetched
    doomed,   \* the file a page goes on to delete, its row deleted
    task,     \* the item a run is of,
    stage,    \* and how far it is
    read,     \* the pages it has read,
    hurried   \* history: the runs asked for while pages of their scan were not linked

docVars == <<status, kind, given, pages, text>>
fileVars == <<files, uploads>>
dialogVars == <<adding, form, sent>>
pageVars == <<seen, doomed>>
taskVars == <<task, stage, read, hurried>>
ownVars == <<docVars, fileVars, at, dialogVars, pageVars, taskVars>>
documentVars == <<topicVars, ownVars>>

Kind == {"scan", "file", "text"}
Settled == {"ready", "failed"}
Unsettled == {"pending", "processing"}
Status == Settled \cup Unsettled \cup {"absent", "deleted"}
PageSeq == UNION {[1..n -> File] : n \in 0..MaxPages}
\* What a dialog can be given: a file, some pages in order, pasted text or a link.
Form == [kind : {"file"}, count : {1}] \cup [kind : {"scan"}, count : 1..MaxPages]
        \cup [kind : {"text"}, count : {0}]

DocumentsTypeOK ==
    /\ status \in [Item -> Status]
    /\ kind \in [Item -> Kind]
    /\ given \in [Item -> PageSeq]
    /\ pages \in [Item -> PageSeq]
    /\ text \in [Item -> PageSeq \cup {None}]
    /\ files \subseteq uploads /\ uploads \subseteq File
    /\ at \in [Saver -> Item \cup {None}]
    /\ adding \in [Adder -> {"form", "uploading", "creating", "linking", "tagging"}]
    /\ form \in [Adder -> Form]
    /\ sent \in [Adder -> PageSeq]
    /\ seen \in [Reader -> Status]
    /\ doomed \in [Reader -> File \cup {None}]
    /\ task \in [Task -> Item \cup {None}]
    /\ stage \in [Task -> {"new", "queued", "reading", "over"}]
    /\ read \in [Task -> PageSeq]
    /\ hurried \subseteq Task

DocumentsInit ==
    /\ status \in [Item -> Settled \cup {"absent"}]
    /\ \A i \in Item : i \in Old <=> status[i] # "absent"
    /\ kind = [i \in Item |-> IF i \in Old THEN "file" ELSE "text"]
    /\ given = [i \in Item |-> IF i \in Old THEN <<FileOf[i]>> ELSE <<>>]
    /\ pages = [i \in Item |-> <<>>]
    /\ text = [i \in Item |-> IF status[i] = "ready" THEN given[i] ELSE None]
    /\ files = {FileOf[i] : i \in Old} /\ uploads = files
    /\ at = [s \in Saver |-> None]
    /\ adding = [d \in Adder |-> "form"]
    /\ form = [d \in Adder |-> [kind |-> "text", count |-> 0]]
    /\ sent = [d \in Adder |-> <<>>]
    /\ seen = [v \in Reader |-> "absent"]
    /\ doomed = [v \in Reader |-> None]
    /\ task = [t \in Task |-> None]
    /\ stage = [t \in Task |-> "new"]
    /\ read = [t \in Task |-> <<>>]
    /\ hurried = {}

Live(i) == i # None /\ status[i] \notin {"absent", "deleted"}

-------------------------------------------------------------------------------
(***************************************************************************)
(* The dialog.                                                             *)
(***************************************************************************)

\* The tutor fills the form in and sends it; with nothing chosen it is not sent.
BeginAdd(d) ==
    /\ adding[d] = "form" /\ ~Saving(d)
    /\ \E f \in Form :
          /\ form' = [form EXCEPT ![d] = f]
          /\ adding' = [adding EXCEPT ![d] = IF f.count = 0 THEN "creating" ELSE "uploading"]
    /\ UNCHANGED <<topicVars, docVars, fileVars, at, sent, pageVars, taskVars>>

\* Uploads the next file, in the order they were chosen.
Upload(d) ==
    /\ adding[d] = "uploading"
    /\ File # uploads
    /\ LET f == CHOOSE fresh \in File : fresh \notin uploads IN
          /\ uploads' = uploads \cup {f}
          /\ files' = files \cup {f}
          /\ sent' = [sent EXCEPT ![d] = Append(@, f)]
    /\ adding' = [adding EXCEPT ![d] = IF Len(sent'[d]) = form[d].count THEN "creating" ELSE @]
    /\ UNCHANGED <<topicVars, docVars, at, form, pageVars, taskVars>>

\* add_document files the row,
CreateDocument(d) ==
    /\ adding[d] = "creating"
    /\ \E i \in Item :
          /\ status[i] = "absent"
          /\ status' = [status EXCEPT ![i] = "pending"]
          /\ kind' = [kind EXCEPT ![i] = form[d].kind]
          /\ given' = [given EXCEPT ![i] = sent[d]]
          /\ at' = [at EXCEPT ![d] = i]
    /\ adding' = [adding EXCEPT ![d] = "linking"]
    /\ UNCHANGED <<topicVars, pages, text, fileVars, form, sent, pageVars, taskVars>>

\* then a scan's pages one by one.
LinkPage(d) ==
    LET i == at[d] IN
    /\ adding[d] = "linking"
    /\ kind[i] = "scan" /\ Live(i) /\ Len(pages[i]) < Len(given[i])
    /\ pages' = [pages EXCEPT ![i] = Append(@, given[i][Len(@) + 1])]
    /\ UNCHANGED <<topicVars, status, kind, given, text, fileVars, at, dialogVars, pageVars,
                   taskVars>>

Queue(t, i) ==
    /\ stage[t] = "new"
    /\ task' = [task EXCEPT ![t] = i]
    /\ stage' = [stage EXCEPT ![t] = "queued"]
    /\ read' = read

\* create_document is over with every page linked.
FiledRowOnly(i) == status[i] # "absent"
Filed(i) == kind[i] = "scan" => pages[i] = given[i]

\* Then the task is queued and the dialog answered: it reads the item's
\* tags to set them, or closes and is empty again.
StartReading(d) ==
    LET i == at[d] IN
    /\ adding[d] = "linking"
    /\ Filed(i)
    /\ \E t \in Task : Queue(t, i)
    /\ hurried' = hurried
    /\ IF choice[d] = {}
       THEN /\ adding' = [adding EXCEPT ![d] = "form"]
            /\ UNCHANGED topicVars
       ELSE /\ adding' = [adding EXCEPT ![d] = "tagging"]
            /\ ReadTags(d, i)
    /\ sent' = [sent EXCEPT ![d] = <<>>]
    /\ UNCHANGED <<docVars, fileVars, at, form, pageVars>>

\* Tagged, the dialog closes.  Not tagged it says why and stays as it was filled in: sent
\* again it files the material again.
EndAdd(d) ==
    /\ adding[d] = "tagging" /\ ~Saving(d)
    /\ adding' = [adding EXCEPT ![d] = "form"]
    /\ IF step[d] = "saved"
       THEN choice' = [choice EXCEPT ![d] = {}] /\ Idle(d)
       ELSE UNCHANGED <<choice, step, held>>
    /\ UNCHANGED <<rows, links, treeVars, busy, late, moved,
                   docVars, fileVars, at, form, sent, pageVars, taskVars, lost>>

\* A request of the addition is refused or not answered, its row, pages and files kept.
AddFails(d) ==
    /\ adding[d] \in {"uploading", "creating", "linking"}
    /\ adding' = [adding EXCEPT ![d] = "form"]
    /\ sent' = [sent EXCEPT ![d] = <<>>]
    /\ Lose
    /\ UNCHANGED <<tagVars, docVars, fileVars, at, form, pageVars, taskVars>>

-------------------------------------------------------------------------------
(***************************************************************************)
(* process_document, in the background.                                    *)
(***************************************************************************)

\* Reads the row and its pages and marks it; of a row that is gone nothing more happens.
Begin(t) ==
    LET i == task[t] IN
    /\ stage[t] = "queued"
    /\ IF Live(i)
       THEN /\ status' = [status EXCEPT ![i] = "processing"]
            /\ stage' = [stage EXCEPT ![t] = "reading"]
            /\ read' = [read EXCEPT ![t] = IF kind[i] = "scan" THEN pages[i] ELSE given[i]]
       ELSE /\ stage' = [stage EXCEPT ![t] = "over"]
            /\ UNCHANGED <<status, read>>
    /\ UNCHANGED <<topicVars, kind, given, pages, text, fileVars, at, dialogVars, pageVars, task,
                   hurried>>

\* Ends in ready with what was read; a scan with no pages is not read, nor one of a file
\* that is gone.
StoreText(t) ==
    LET i == task[t] IN
    /\ stage[t] = "reading"
    /\ Live(i)
    /\ kind[i] = "scan" => read[t] # <<>>
    /\ {read[t][n] : n \in DOMAIN read[t]} \subseteq files
    /\ status' = [status EXCEPT ![i] = "ready"]
    /\ text' = [text EXCEPT ![i] = read[t]]
    /\ stage' = [stage EXCEPT ![t] = "over"]
    /\ UNCHANGED <<topicVars, kind, given, pages, fileVars, at, dialogVars, pageVars, task,
                   read, hurried>>

StoreFailureBlank(t) ==
    LET i == task[t] IN
    /\ stage[t] = "reading"
    /\ status' = IF Live(i) THEN [status EXCEPT ![i] = "failed"] ELSE status
    /\ text' = IF Live(i) THEN [text EXCEPT ![i] = None] ELSE text
    /\ stage' = [stage EXCEPT ![t] = "over"]
    /\ UNCHANGED <<topicVars, kind, given, pages, fileVars, at, dialogVars, pageVars, task,
                   read, hurried>>

\* Or in failed, with what the row had.
StoreFailure(t) ==
    LET i == task[t] IN
    /\ stage[t] = "reading"
    /\ status' = IF Live(i) THEN [status EXCEPT ![i] = "failed"] ELSE status
    /\ stage' = [stage EXCEPT ![t] = "over"]
    /\ UNCHANGED <<topicVars, kind, given, pages, text, fileVars, at, dialogVars, pageVars, task,
                   read, hurried>>

\* The process restarts, or a request that moves the status is lost.
CutShort(t) ==
    /\ stage[t] \in {"queued", "reading"}
    /\ stage' = [stage EXCEPT ![t] = "over"]
    /\ Lose
    /\ UNCHANGED <<tagVars, docVars, fileVars, at, dialogVars, pageVars, task,
                   read, hurried>>

-------------------------------------------------------------------------------
(***************************************************************************)
(* The page of an item.                                                    *)
(***************************************************************************)

Open(v) ==
    /\ \E i \in Item :
          /\ Live(i) /\ at[v] = None
          /\ at' = [at EXCEPT ![v] = i]
          /\ seen' = [seen EXCEPT ![v] = status[i]]
          /\ choice' = [choice EXCEPT ![v] = TagsOf(i)]
    /\ UNCHANGED <<rows, links, treeVars, step, held, busy, late, moved,
                   docVars, fileVars, dialogVars, doomed, taskVars, lost>>

Fetch(v) ==
    /\ at[v] # None
    /\ seen' = [seen EXCEPT ![v] = status[at[v]]]
    /\ UNCHANGED <<topicVars, docVars, fileVars, at, dialogVars, doomed, taskVars>>

PollPending(v) == seen[v] = "pending" /\ Fetch(v)
\* The page asks again every two seconds while what it shows is not settled,
Poll(v) == seen[v] \in Unsettled /\ Fetch(v)
\* and when a change of its own or its window's focus makes it.
Refetch(v) == at[v] # None /\ seen[v] # status[at[v]] /\ Fetch(v)

\* reprocess_document asks nothing of the row.  The page offers it where it shows the item
\* as failed; the hook behind it is for a pending one too, and the service takes it of any.
Retry(v) ==
    LET i == at[v] IN
    /\ Live(i)
    /\ \E t \in Task :
          /\ Queue(t, i)
          /\ hurried' = IF kind[i] = "scan" /\ pages[i] # given[i]
                        THEN hurried \cup {t} ELSE hurried
    /\ UNCHANGED <<topicVars, docVars, fileVars, at, dialogVars, pageVars>>

SaveField(v) ==
    /\ Live(at[v])
    /\ ReadTags(v, at[v])
    /\ UNCHANGED ownVars

\* Editing starts from the tags there are.
Edit(v) ==
    /\ at[v] # None /\ ~Saving(v)
    /\ choice[v] # TagsOf(at[v])
    /\ choice' = [choice EXCEPT ![v] = TagsOf(at[v])]
    /\ Idle(v)
    /\ UNCHANGED <<rows, links, treeVars, busy, late, moved, lost, ownVars>>

\* Deletes the row, whose pages and tags go with it,
DeleteDocument(v) ==
    LET i == at[v] IN
    /\ Live(i) /\ seen[v] \notin {"absent", "deleted"}
    /\ status' = [status EXCEPT ![i] = "deleted"]
    /\ pages' = [pages EXCEPT ![i] = <<>>]
    /\ links' = links \ LinksOf(i)
    /\ moved' = [s \in Saver |-> moved[s] \/ at[s] = i]
    /\ doomed' = [doomed EXCEPT ![v] = IF kind[i] = "file" THEN given[i][1] ELSE None]
    /\ UNCHANGED <<rows, treeVars, choice, step, held, busy, late,
                   kind, given, text, fileVars, at, dialogVars, seen, taskVars, lost>>

\* and then the file behind an upload.
DeleteFile(v) ==
    /\ doomed[v] # None
    /\ files' = files \ {doomed[v]}
    /\ doomed' = [doomed EXCEPT ![v] = None]
    /\ UNCHANGED <<topicVars, docVars, uploads, at, dialogVars, seen, taskVars>>

-------------------------------------------------------------------------------
Tag(s) == at[s] # None /\ SaveTags(s, at, {i \in Item : Live(i)}) /\ UNCHANGED ownVars
Pick(s) == Choose(s) /\ UNCHANGED ownVars

\* The service goes on with what it was sent.
Filing(d) == LinkPage(d) \/ StartReading(d)
Dialog(d) ==
    \/ BeginAdd(d) \/ Upload(d) \/ CreateDocument(d) \/ Filing(d) \/ EndAdd(d) \/ AddFails(d)
    \/ (adding[d] = "form" /\ Pick(d))
Run(t) == Begin(t) \/ StoreText(t) \/ StoreFailure(t)
MaterialPage(v) ==
    \/ Open(v) \/ Poll(v) \/ Refetch(v) \/ Retry(v)
    \/ Edit(v) \/ SaveField(v) \/ DeleteDocument(v) \/ DeleteFile(v)
    \/ (at[v] # None /\ Pick(v))

-------------------------------------------------------------------------------
(***************************************************************************)
(* Properties.                                                             *)
(***************************************************************************)

\* A save of tags that nobody wrote under leaves the item tagged with exactly the topics
\* chosen, and a topic it adds once: the creations of a save that failed, those in flight
\* and topics deleted meanwhile included.  (Two saves at once may tag twice.)
TagsAreTheChoice ==
    \A s \in Saver :
        step[s] = "saved" /\ ~moved[s] /\ at[s] # None =>
            /\ TagsOf(at[s]) = choice[s]
            /\ \A link \in LinksOf(at[s]) \ held[s] : \A other \in LinksOf(at[s]) \ {link} :
                  other.topic # link.topic

\* A scan that is ready was read from every page the tutor chose, in that order, however the
\* additions, failures and runs interleave, unless somebody asked for it to be read before
\* its pages were linked.
ReadyScansAreWhole ==
    \A i \in Item :
        status[i] = "ready" /\ kind[i] = "scan" =>
            text[i] = given[i] \/ \E t \in hurried : task[t] = i

TextKept == \A i \in Item : text[i] # None /\ text'[i] # text[i] => status'[i] = "ready"
\* What was read stays until something else is read, whichever of two runs ends last.
WhatWasReadIsKept == [][TextKept]_documentVars

\* A page that shows material still being read comes to show how that ended, unless a
\* request or a task was lost (or the bounded tasks are used up).
PagesSeeTheEnd ==
    \A v \in Reader :
        seen[v] \in Unsettled
            ~> seen[v] \notin Unsettled \/ lost > 0 \/ \A t \in Task : stage[t] # "new"
===============================================================================
