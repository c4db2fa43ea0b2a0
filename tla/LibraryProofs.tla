----------------------------- MODULE LibraryProofs -----------------------------
(***************************************************************************)
(* Theorems of Library: the types, what a viewer shows, what a scan that   *)
(* is ready was read from, and what a save of tags leaves, for any number  *)
(* of topics, items, files, pages, dialogs, readers and tasks.             *)
(*                                                                         *)
(* The invariant is in four parts, each inductive with the types: how far  *)
(* a dialog has got says what it has uploaded; an answer under way that    *)
(* is of the last asking is of the file wanted; an item that was ever read *)
(* has all its pages, and so has one a run is of; and a save nobody wrote  *)
(* under has linked what it chose, but for the creations in flight.        *)
(***************************************************************************)
EXTENDS Library, TLAPS

AddingInv ==
    \A d \in Adder :
        /\ adding[d] \in {"form", "tagging"} => sent[d] = <<>>
        /\ adding[d] = "uploading" => Len(sent[d]) < form[d].count
        /\ adding[d] = "creating" => Len(sent[d]) = form[d].count
        /\ adding[d] \in {"linking", "tagging"} => at[d] # None

\* A file is filed as one upload, and a run that is going on is of an item.
FilingInv ==
    /\ \A i \in Item : kind[i] = "file" => Len(given[i]) = 1
    /\ \A t \in Task : stage[t] \in {"queued", "reading"} => task[t] # None

LoadsInv ==
    \A v \in Viewer : \A load \in loads[v] :
        /\ load[2] <= asked[v]
        /\ load[2] = asked[v] => load[1] = wanted[v]

\* Every page of a scan is linked.
Whole(i) == kind[i] = "scan" => pages[i] = given[i]

\* A run that was not asked for too early is of an item with all its pages, and what it
\* has read is those.
Sound(t) ==
    stage[t] \in {"queued", "reading"} =>
        /\ status[task[t]] # "absent"
        /\ t \notin hurried /\ Live(task[t]) =>
              /\ Whole(task[t])
              /\ stage[t] = "reading" /\ kind[task[t]] = "scan" => read[t] = given[task[t]]
WholeInv ==
    /\ \A t \in Task : Sound(t)
    /\ \A t \in hurried : stage[t] # "new"
    /\ \A s \in Saver : at[s] # None => status[at[s]] # "absent"

\* A save reads, removes and adds under one item; what it has linked is what it chose, less
\* what is in flight, and the rows it added are of a topic each.
SavedSoFar(s) ==
    /\ busy[s] \subseteq choice[s]
    /\ TagsOf(at[s]) = choice[s] \ busy[s]
    /\ \A link \in LinksOf(at[s]) \ held[s] : \A other \in LinksOf(at[s]) \ {link} :
          other.topic # link.topic
TagInv(s) ==
    /\ at[s] = None => step[s] = "idle"
    /\ step[s] # "adding" => busy[s] = {}
    /\ \A link \in held[s] : step[s] # "idle" /\ link.item = at[s]
    /\ step[s] = "removing" /\ ~moved[s] => held[s] = LinksOf(at[s])
    /\ step[s] \in {"adding", "saved"} /\ ~moved[s] => SavedSoFar(s)
TagsInv ==
    /\ \A d \in Adder : adding[d] # "tagging" => step[d] = "idle"
    /\ \A s \in Saver : TagInv(s)

-------------------------------------------------------------------------------
\* The pages of a scan are a sequence of files no longer than the bound.
LEMMA PageSeqs ==
    /\ PageSeq = {s \in Seq(File) : Len(s) <= MaxPages}
    /\ <<>> \in PageSeq
    /\ \A s \in PageSeq, f \in File : Len(s) < MaxPages =>
          Append(s, f) \in PageSeq /\ Len(Append(s, f)) = Len(s) + 1
<1>1. PageSeq = {s \in Seq(File) : Len(s) <= MaxPages}
  <2>1. ASSUME NEW s \in PageSeq PROVE s \in Seq(File) /\ Len(s) <= MaxPages
    <3>1. PICK n \in 0..MaxPages : s \in [1..n -> File]
      BY <2>1 DEF PageSeq
    <3>2. QED
      BY <3>1, DocumentsAssumption
  <2>2. ASSUME NEW s \in Seq(File), Len(s) <= MaxPages PROVE s \in PageSeq
    <3>1. s \in [1..Len(s) -> File] /\ Len(s) \in 0..MaxPages
      BY <2>2, DocumentsAssumption
    <3>2. QED
      BY <3>1 DEF PageSeq
  <2>3. QED
    BY <2>1, <2>2
<1>2. <<>> \in Seq(File) /\ Len(<<>>) <= MaxPages
  BY DocumentsAssumption
<1>3. QED
  BY <1>1, <1>2, DocumentsAssumption

\* A form of the dialog.
LEMMA Forms ==
    \A f \in Form : /\ f.kind \in Kind /\ f.count \in 0..MaxPages
                    /\ f.kind = "file" => f.count = 1
  BY DocumentsAssumption DEF Form, Kind

\* The types, to begin with.
LEMMA InitTypes == Init => TypeOK /\ AddingInv /\ FilingInv
<1> SUFFICES ASSUME Init PROVE TypeOK /\ AddingInv /\ FilingInv
  OBVIOUS
<1>1. TopicsTypeOK
  <2>1. rows \subseteq TopicRow
    BY TopicsAssumption DEF Init, TopicsInit, TopicRow
  <2>2. QED
    BY <2>1, TopicsAssumption DEF Init, TopicsInit, TopicsTypeOK, Step
<1>2. \A i \in Item : given[i] \in PageSeq /\ (kind[i] = "file" => Len(given[i]) = 1)
  <2>1. ASSUME NEW i \in Old PROVE <<FileOf[i]>> \in PageSeq /\ Len(<<FileOf[i]>>) = 1
    <3>1. FileOf[i] \in File
      BY DocumentsAssumption
    <3>2. QED
      BY <3>1, PageSeqs, DocumentsAssumption
  <2>2. QED
    BY <2>1, PageSeqs DEF Init, DocumentsInit
<1>3. DocumentsTypeOK
  <2>1. [kind |-> "text", count |-> 0] \in Form
    BY DEF Form
  <2>2. /\ status \in [Item -> Status] /\ kind \in [Item -> Kind]
        /\ given \in [Item -> PageSeq] /\ pages \in [Item -> PageSeq]
        /\ text \in [Item -> PageSeq \cup {None}]
    BY <1>2, PageSeqs DEF Init, DocumentsInit, Status, Settled, Unsettled, Kind
  <2>3. files \subseteq uploads /\ uploads \subseteq File
    BY DocumentsAssumption DEF Init, DocumentsInit
  <2>4. QED
    BY <2>1, <2>2, <2>3, PageSeqs DEF Init, DocumentsInit, DocumentsTypeOK, Status
<1>4. BlobsTypeOK
  BY FileBlobsAssumption DEF Init, BlobsInit, BlobsTypeOK
<1>5. AddingInv /\ FilingInv
  BY <1>2 DEF Init, DocumentsInit, AddingInv, FilingInv
<1>6. QED
  BY <1>1, <1>3, <1>4, <1>5 DEF TypeOK

\* What a Topics page does keeps the types of the topics and of the tags.
LEMMA EditTypes ==
    ASSUME TopicsTypeOK, NEW e \in Editor, EditTopics(e)
    PROVE  TopicsTypeOK' /\ UNCHANGED <<choice, step, held, busy, late, lost>>
<1>a. /\ rows \subseteq TopicRow /\ links \subseteq Link /\ moved \in [Saver -> BOOLEAN]
      /\ tree \in [Editor -> SUBSET TopicRow] /\ selected \in [Editor -> Topic \cup {None}]
      /\ typed \in [Editor -> Text]
  BY DEF TopicsTypeOK
<1>b. \A row \in TopicRow : row.id \in Topic /\ row.parent \in Topic \cup {None} /\ row.about \in Text
  BY DEF TopicRow
<1>c. \A topics \in SUBSET TopicRow : \A t : Followed(e, topics, t) \in Text
  <2>1. ASSUME NEW topics \in SUBSET TopicRow, NEW t PROVE Box(AboutIn(topics, t)) \in Text
    <3>1. CASE t \in Ids(topics)
      <4>1. \E row \in topics : row.id = t
        BY <3>1 DEF Ids
      <4>2. (CHOOSE row \in topics : row.id = t) \in topics
        BY <4>1
      <4>3. QED
        BY <3>1, <4>2, <1>b, TopicsAssumption DEF AboutIn, Box
    <3>2. CASE t \notin Ids(topics)
      BY <3>2, TopicsAssumption DEF AboutIn, Box
    <3>3. QED
      BY <3>1, <3>2
  <2>2. QED
    BY <2>1, <1>a DEF Followed
<1>d. ASSUME NEW topics \in SUBSET TopicRow, NEW t \in Topic \cup {None}, Show(e, topics, t)
      PROVE  /\ tree' \in [Editor -> SUBSET TopicRow] /\ selected' \in [Editor -> Topic \cup {None}]
             /\ typed' \in [Editor -> Text]
  BY <1>a, <1>c, <1>d DEF Show
<1>1. CASE RefetchTree(e)
  <2>1. Show(e, rows, selected[e]) /\ UNCHANGED <<rows, links, saveVars, lost>>
    BY <1>1 DEF RefetchTree
  <2>2. QED
    BY <2>1, <1>a, <1>d DEF saveVars, TopicsTypeOK
<1>2. CASE Select(e)
  <2>1. PICK t \in Ids(tree[e]) : Show(e, tree[e], t)
    BY <1>2 DEF Select
  <2>2. t \in Topic /\ tree[e] \in SUBSET TopicRow
    BY <2>1, <1>a, <1>b DEF Ids
  <2>3. QED
    BY <1>2, <2>1, <2>2, <1>d DEF Select, saveVars, TopicsTypeOK
<1>3. CASE Describe(e)
  BY <1>3 DEF Describe, saveVars, TopicsTypeOK
<1>4. CASE AddTopic(e)
  <2>1. PICK t \in Topic \ Known, parent \in Under(e) \cap (Known \cup {None}) :
            /\ rows' = rows \cup {[id |-> t, parent |-> parent, about |-> Blank]}
            /\ Show(e, tree[e], t)
    BY <1>4 DEF AddTopic
  <2>2. parent \in Topic \cup {None} /\ tree[e] \in SUBSET TopicRow
    BY <1>a, <1>b DEF Under, Ids
  <2>3. rows' \subseteq TopicRow
    BY <2>1, <2>2, <1>a, TopicsAssumption DEF TopicRow
  <2>4. QED
    BY <1>4, <2>1, <2>2, <2>3, <1>d DEF AddTopic, saveVars, TopicsTypeOK
<1>5. CASE SaveDescription(e)
  <2>1. rows' \subseteq TopicRow
    <3>1. \A row \in TopicRow : [row EXCEPT !.about = typed[e]] \in TopicRow
      BY <1>a DEF TopicRow
    <3>2. QED
      BY <1>5, <3>1, <1>a DEF SaveDescription
  <2>2. QED
    BY <1>5, <2>1 DEF SaveDescription, treeVars, saveVars, TopicsTypeOK
<1>6. CASE DeleteTopic(e)
  <2>1. PICK t \in Ids(tree[e]) \cap Known :
            /\ rows' = {IF row.parent = t THEN [row EXCEPT !.parent = None] ELSE row :
                           row \in {other \in rows : other.id # t}}
            /\ links' = {link \in links : link.topic # t}
            /\ Show(e, tree[e], IF selected[e] = t THEN None ELSE selected[e])
    BY <1>6 DEF DeleteTopic
  <2>2. rows' \subseteq TopicRow
    <3>1. \A row \in TopicRow : [row EXCEPT !.parent = None] \in TopicRow
      BY DEF TopicRow
    <3>2. QED
      BY <2>1, <3>1, <1>a
  <2>3. tree[e] \in SUBSET TopicRow /\ (IF selected[e] = t THEN None ELSE selected[e]) \in Topic \cup {None}
    BY <1>a
  <2>4. moved' \in [Saver -> BOOLEAN]
    BY <1>6 DEF DeleteTopic
  <2>5. QED
    BY <1>6, <2>1, <2>2, <2>3, <2>4, <1>a, <1>d DEF DeleteTopic, TopicsTypeOK
<1>7. QED
  BY <1>1, <1>2, <1>3, <1>4, <1>5, <1>6 DEF EditTopics

\* So does a save of tags.
LEMMA SaveTypes ==
    ASSUME TopicsTypeOK, NEW s \in Saver, NEW existing, at[s] \in Item, SaveTags(s, at, existing)
    PROVE  TopicsTypeOK'
<1>a. /\ rows \subseteq TopicRow /\ links \subseteq Link /\ choice \in [Saver -> SUBSET Topic]
      /\ held \in [Saver -> SUBSET Link] /\ busy \in [Saver -> SUBSET Topic]
      /\ late \in [Saver -> SUBSET (Item \X Topic)] /\ moved \in [Saver -> BOOLEAN]
      /\ step \in [Saver -> Step] /\ lost \in 0..MaxLost
  BY DEF TopicsTypeOK
<1>b. \A item \in Item, t \in Topic : Land(item, t) => links' \subseteq Link
  BY <1>a DEF Land, Link
<1>c. \A item, except : WroteTags(item, except, at) => moved' \in [Saver -> BOOLEAN]
  BY <1>a DEF WroteTags
<1>d. Lose \/ UNCHANGED lost => lost' \in 0..MaxLost
  BY <1>a, TopicsAssumption DEF Lose
<1>1. CASE RemoveTags(s, at)
  <2>1. Missing(s) \in SUBSET Topic /\ moved' \in [Saver -> BOOLEAN]
    BY <1>1, <1>a, <1>c DEF RemoveTags, Missing
  <2>2. QED
    BY <1>1, <2>1, <1>a DEF RemoveTags, treeVars, TopicsTypeOK, Step
<1>2. CASE AddTag(s, at)
  <2>1. links' \subseteq Link /\ moved' \in [Saver -> BOOLEAN]
    BY <1>2, <1>a, <1>b, <1>c DEF AddTag
  <2>2. busy' \in [Saver -> SUBSET Topic]
    BY <1>2, <1>a DEF AddTag
  <2>3. QED
    BY <1>2, <2>1, <2>2 DEF AddTag, treeVars, TopicsTypeOK
<1>3. CASE FinishTags(s)
  BY <1>3 DEF FinishTags, treeVars, TopicsTypeOK, Step
<1>4. CASE RefuseTag(s, at, existing)
  <2>1. late' \in [Saver -> SUBSET (Item \X Topic)] /\ lost' \in 0..MaxLost
    <3>1. PICK t \in busy[s] :
              /\ late' = [late EXCEPT ![s] = @ \cup ({at[s]} \X (busy[s] \ {t}))]
              /\ Lose \/ UNCHANGED lost
      BY <1>4 DEF RefuseTag
    <3>2. {at[s]} \X (busy[s] \ {t}) \subseteq Item \X Topic
      BY <1>a
    <3>3. QED
      BY <3>1, <3>2, <1>a, <1>d
  <2>2. QED
    BY <1>4, <2>1, <1>a DEF RefuseTag, Idle, treeVars, TopicsTypeOK, Step
<1>5. CASE AddLate(s, at, existing)
  <2>1. PICK tag \in late[s] :
            /\ late' = [late EXCEPT ![s] = @ \ {tag}]
            /\ \/ Land(tag[1], tag[2]) /\ WroteTags(tag[1], {}, at)
               \/ UNCHANGED <<links, moved>>
    BY <1>5 DEF AddLate
  <2>2. tag[1] \in Item /\ tag[2] \in Topic
    BY <1>a
  <2>3. links' \subseteq Link /\ moved' \in [Saver -> BOOLEAN] /\ late' \in [Saver -> SUBSET (Item \X Topic)]
    BY <2>1, <2>2, <1>a, <1>b, <1>c
  <2>4. QED
    BY <1>5, <2>3 DEF AddLate, treeVars, TopicsTypeOK
<1>6. CASE RefuseSave(s)
  BY <1>6, <1>d DEF RefuseSave, Idle, treeVars, TopicsTypeOK, Step
<1>7. QED
  BY <1>1, <1>2, <1>3, <1>4, <1>5, <1>6 DEF SaveTags

\* And what reads the tags, or chooses others.
LEMMA ChooseTypes ==
    ASSUME TopicsTypeOK, NEW s \in Saver,
           Choose(s) \/ \E i \in Item : ReadTags(s, i)
    PROVE  TopicsTypeOK'
<1>1. CASE Choose(s)
  <2>1. Known \subseteq Topic
    BY DEF TopicsTypeOK, Known, Ids, TopicRow
  <2>2. QED
    BY <1>1, <2>1 DEF Choose, Idle, treeVars, TopicsTypeOK, Step
<1>2. ASSUME NEW i \in Item, ReadTags(s, i) PROVE TopicsTypeOK'
  BY <1>2 DEF ReadTags, LinksOf, treeVars, TopicsTypeOK, Step
<1>3. QED
  BY <1>1, <1>2

-------------------------------------------------------------------------------
\* A run queued is of the item it is queued for.
LEMMA QueueTypes ==
    ASSUME DocumentsTypeOK, FilingInv, NEW i \in Item, NEW k \in Task, Queue(k, i)
    PROVE  /\ task' \in [Task -> Item \cup {None}]
           /\ stage' \in [Task -> {"new", "queued", "reading", "over"}]
           /\ \A t \in Task : stage'[t] \in {"queued", "reading"} => task'[t] # None
           /\ read' = read
  BY TopicsAssumption DEF DocumentsTypeOK, FilingInv, Queue

\* What a dialog does keeps the types of the material, and what its progress says.
LEMMA DialogTypes ==
    ASSUME TopicsTypeOK, DocumentsTypeOK, AddingInv, FilingInv, NEW d \in Adder, Dialog(d)
    PROVE  TopicsTypeOK' /\ DocumentsTypeOK' /\ AddingInv' /\ FilingInv'
<1>a. d \in Saver
  BY DocumentsAssumption
<1>b. /\ status \in [Item -> Status] /\ kind \in [Item -> Kind] /\ given \in [Item -> PageSeq]
      /\ pages \in [Item -> PageSeq] /\ files \subseteq uploads /\ uploads \subseteq File
      /\ at \in [Saver -> Item \cup {None}] /\ form \in [Adder -> Form] /\ sent \in [Adder -> PageSeq]
      /\ adding \in [Adder -> {"form", "uploading", "creating", "linking", "tagging"}]
  BY DEF DocumentsTypeOK
<1>c. /\ adding[d] \in {"form", "tagging"} => sent[d] = <<>>
      /\ adding[d] = "uploading" => Len(sent[d]) < form[d].count
      /\ adding[d] = "creating" => Len(sent[d]) = form[d].count
      /\ adding[d] = "linking" => at[d] \in Item
      /\ form[d].kind \in Kind /\ form[d].count \in 0..MaxPages
      /\ form[d].kind = "file" => form[d].count = 1
  BY <1>a, <1>b, Forms DEF AddingInv
<1>1. CASE BeginAdd(d)
  <2>1. TopicsTypeOK'
    BY <1>1 DEF BeginAdd, topicVars, tagVars, treeVars, saveVars, TopicsTypeOK
  <2>2. DocumentsTypeOK'
    BY <1>1 DEF BeginAdd, docVars, fileVars, pageVars, taskVars, DocumentsTypeOK
  <2>3. AddingInv'
    <3>1. PICK f \in Form : /\ form' = [form EXCEPT ![d] = f]
                            /\ adding' = [adding EXCEPT ![d] = IF f.count = 0 THEN "creating" ELSE "uploading"]
      BY <1>1 DEF BeginAdd
    <3>2. f.count \in 0..MaxPages /\ sent[d] = <<>> /\ sent' = sent /\ at' = at
      BY <1>1, <1>c, Forms DEF BeginAdd
    <3>3. f.count = 0 \/ 0 < f.count
      BY <3>2, DocumentsAssumption
    <3>4. QED
      BY <3>1, <3>2, <3>3, <1>b DEF AddingInv
  <2>4. FilingInv'
    BY <1>1 DEF BeginAdd, docVars, taskVars, FilingInv
  <2>5. QED
    BY <2>1, <2>2, <2>3, <2>4
<1>2. CASE Upload(d)
  <2>1. TopicsTypeOK'
    BY <1>2 DEF Upload, topicVars, tagVars, treeVars, saveVars, TopicsTypeOK
  <2>2. PICK f \in File : f \notin uploads /\ uploads' = uploads \cup {f} /\ files' = files \cup {f}
                          /\ sent' = [sent EXCEPT ![d] = Append(@, f)]
    <3>1. \E f \in File : f \notin uploads
      BY <1>2, <1>b DEF Upload
    <3>2. QED
      BY <1>2, <3>1 DEF Upload
  <2>3. Append(sent[d], f) \in PageSeq /\ Len(Append(sent[d], f)) = Len(sent[d]) + 1
        /\ Len(sent[d]) \in Nat
    BY <1>2, <1>b, <1>c, PageSeqs, DocumentsAssumption DEF Upload
  <2>4. sent' \in [Adder -> PageSeq] /\ sent'[d] = Append(sent[d], f)
    BY <2>2, <2>3, <1>b
  <2>5. DocumentsTypeOK'
    BY <1>2, <2>2, <2>4 DEF Upload, docVars, pageVars, taskVars, DocumentsTypeOK
  <2>6. AddingInv'
    <3>1. adding'[d] = (IF Len(sent'[d]) = form[d].count THEN "creating" ELSE "uploading")
          /\ form' = form /\ at' = at
      BY <1>2, <1>b DEF Upload
    <3>2. Len(sent'[d]) = form[d].count \/ Len(sent'[d]) < form[d].count
      BY <1>2, <2>3, <2>4, <1>c, DocumentsAssumption DEF Upload
    <3>3. \A x \in Adder \ {d} : adding'[x] = adding[x] /\ sent'[x] = sent[x]
      BY <1>2, <2>2, <1>b DEF Upload
    <3>4. QED
      BY <3>1, <3>2, <3>3 DEF AddingInv
  <2>7. FilingInv'
    BY <1>2 DEF Upload, docVars, taskVars, FilingInv
  <2>8. QED
    BY <2>1, <2>5, <2>6, <2>7
<1>3. CASE CreateDocument(d)
  <2>1. TopicsTypeOK'
    BY <1>3 DEF CreateDocument, topicVars, tagVars, treeVars, saveVars, TopicsTypeOK
  <2>2. PICK i \in Item :
            /\ status' = [status EXCEPT ![i] = "pending"] /\ kind' = [kind EXCEPT ![i] = form[d].kind]
            /\ given' = [given EXCEPT ![i] = sent[d]] /\ at' = [at EXCEPT ![d] = i]
    BY <1>3 DEF CreateDocument
  <2>3. /\ status' \in [Item -> Status] /\ kind' \in [Item -> Kind] /\ given' \in [Item -> PageSeq]
        /\ at' \in [Saver -> Item \cup {None}] /\ at'[d] = i
    BY <2>2, <1>a, <1>b, <1>c DEF Status, Unsettled
  <2>4. DocumentsTypeOK'
    BY <1>3, <2>3 DEF CreateDocument, fileVars, pageVars, taskVars, DocumentsTypeOK
  <2>5. AddingInv'
    BY <1>3, <2>2, <2>3, <1>a, <1>b, TopicsAssumption, DocumentsAssumption DEF CreateDocument, AddingInv
  <2>6. FilingInv'
    BY <1>3, <2>2, <1>b, <1>c DEF CreateDocument, taskVars, FilingInv
  <2>7. QED
    BY <2>1, <2>4, <2>5, <2>6
<1>4. CASE LinkPage(d)
  <2>1. TopicsTypeOK'
    BY <1>4 DEF LinkPage, topicVars, tagVars, treeVars, saveVars, TopicsTypeOK
  <2>2. at[d] \in Item /\ given[at[d]] \in PageSeq /\ pages[at[d]] \in PageSeq
    BY <1>4, <1>b, <1>c DEF LinkPage
  <2>3. Append(pages[at[d]], given[at[d]][Len(pages[at[d]]) + 1]) \in PageSeq
    <3>1. Len(pages[at[d]]) < Len(given[at[d]]) /\ Len(pages[at[d]]) < MaxPages
      BY <1>4, <2>2, PageSeqs, DocumentsAssumption DEF LinkPage
    <3>2. given[at[d]][Len(pages[at[d]]) + 1] \in File
      BY <2>2, <3>1, PageSeqs
    <3>3. QED
      BY <2>2, <3>1, <3>2, PageSeqs
  <2>4. DocumentsTypeOK'
    BY <1>4, <2>2, <2>3 DEF LinkPage, fileVars, dialogVars, pageVars, taskVars, DocumentsTypeOK
  <2>5. AddingInv' /\ FilingInv'
    BY <1>4 DEF LinkPage, dialogVars, taskVars, AddingInv, FilingInv
  <2>6. QED
    BY <2>1, <2>4, <2>5
<1>5. CASE StartReading(d)
  <2>1. at[d] \in Item
    BY <1>5, <1>c DEF StartReading
  <2>2. TopicsTypeOK'
    <3>1. ReadTags(d, at[d]) \/ UNCHANGED topicVars
      BY <1>5 DEF StartReading
    <3>2. QED
      BY <2>1, <3>1, <1>a, ChooseTypes DEF topicVars, tagVars, treeVars, saveVars, TopicsTypeOK
  <2>3. /\ task' \in [Task -> Item \cup {None}] /\ stage' \in [Task -> {"new", "queued", "reading", "over"}]
        /\ \A t \in Task : stage'[t] \in {"queued", "reading"} => task'[t] # None
        /\ read' = read /\ hurried' = hurried
    <3>1. PICK k \in Task : Queue(k, at[d])
      BY <1>5 DEF StartReading
    <3>2. QED
      BY <1>5, <2>1, <3>1, QueueTypes DEF StartReading
  <2>4. /\ adding' \in [Adder -> {"form", "uploading", "creating", "linking", "tagging"}]
        /\ adding'[d] \in {"form", "tagging"} /\ sent' = [sent EXCEPT ![d] = <<>>]
        /\ \A x \in Adder \ {d} : adding'[x] = adding[x]
        /\ UNCHANGED <<docVars, fileVars, at, form, pageVars>>
    BY <1>5, <1>b DEF StartReading
  <2>5. DocumentsTypeOK'
    BY <2>3, <2>4, PageSeqs DEF docVars, fileVars, pageVars, DocumentsTypeOK
  <2>6. AddingInv'
    BY <2>1, <2>4, <1>b, TopicsAssumption DEF AddingInv
  <2>7. FilingInv'
    BY <2>3, <2>4 DEF docVars, FilingInv
  <2>8. QED
    BY <2>2, <2>5, <2>6, <2>7
<1>6. CASE EndAdd(d)
  <2>1. TopicsTypeOK'
    BY <1>6 DEF EndAdd, Idle, treeVars, TopicsTypeOK, Step
  <2>2. DocumentsTypeOK' /\ FilingInv'
    BY <1>6 DEF EndAdd, docVars, fileVars, pageVars, taskVars, DocumentsTypeOK, FilingInv
  <2>3. AddingInv'
    BY <1>6, <1>b, <1>c DEF EndAdd, AddingInv
  <2>4. QED
    BY <2>1, <2>2, <2>3
<1>7. CASE AddFails(d)
  <2>1. TopicsTypeOK'
    BY <1>7, TopicsAssumption DEF AddFails, Lose, tagVars, treeVars, saveVars, TopicsTypeOK
  <2>2. DocumentsTypeOK' /\ FilingInv'
    BY <1>7, PageSeqs DEF AddFails, docVars, fileVars, pageVars, taskVars, DocumentsTypeOK, FilingInv
  <2>3. AddingInv'
    BY <1>7, <1>b DEF AddFails, AddingInv
  <2>4. QED
    BY <2>1, <2>2, <2>3
<1>8. CASE Pick(d)
  <2>1. TopicsTypeOK'
    BY <1>8, <1>a, ChooseTypes DEF Pick
  <2>2. DocumentsTypeOK' /\ AddingInv' /\ FilingInv'
    BY <1>8 DEF Pick, ownVars, docVars, fileVars, dialogVars, pageVars, taskVars, DocumentsTypeOK,
                AddingInv, FilingInv
  <2>3. QED
    BY <2>1, <2>2
<1>9. QED
  BY <1>1, <1>2, <1>3, <1>4, <1>5, <1>6, <1>7, <1>8 DEF Dialog, Filing

\* What a run does.
LEMMA RunTypes ==
    ASSUME TopicsTypeOK, DocumentsTypeOK, AddingInv, FilingInv, NEW t \in Task, Run(t) \/ CutShort(t)
    PROVE  TopicsTypeOK' /\ DocumentsTypeOK' /\ AddingInv' /\ FilingInv'
<1>a. /\ stage[t] \in {"queued", "reading"} => task[t] \in Item
      /\ given \in [Item -> PageSeq] /\ pages \in [Item -> PageSeq] /\ status \in [Item -> Status]
      /\ text \in [Item -> PageSeq \cup {None}] /\ read \in [Task -> PageSeq]
  BY DEF DocumentsTypeOK, FilingInv
<1>1. CASE Begin(t)
  <2>1. /\ status' \in [Item -> Status] /\ read' \in [Task -> PageSeq]
        /\ stage' \in [Task -> {"new", "queued", "reading", "over"}]
    BY <1>1, <1>a DEF Begin, Status, Unsettled, DocumentsTypeOK
  <2>2. TopicsTypeOK'
    BY <1>1 DEF Begin, topicVars, tagVars, treeVars, saveVars, TopicsTypeOK
  <2>3. DocumentsTypeOK' /\ AddingInv' /\ FilingInv'
    BY <1>1, <2>1 DEF Begin, fileVars, dialogVars, pageVars, DocumentsTypeOK, AddingInv, FilingInv
  <2>4. QED
    BY <2>2, <2>3
<1>2. CASE StoreText(t) \/ StoreFailure(t)
  <2>1. /\ status' \in [Item -> Status] /\ text' \in [Item -> PageSeq \cup {None}]
        /\ stage' \in [Task -> {"new", "queued", "reading", "over"}]
    BY <1>2, <1>a DEF StoreText, StoreFailure, Status, Settled, DocumentsTypeOK
  <2>2. TopicsTypeOK'
    BY <1>2 DEF StoreText, StoreFailure, topicVars, tagVars, treeVars, saveVars, TopicsTypeOK
  <2>3. DocumentsTypeOK' /\ AddingInv' /\ FilingInv'
    BY <1>2, <2>1 DEF StoreText, StoreFailure, fileVars, dialogVars, pageVars, DocumentsTypeOK, AddingInv,
                      FilingInv
  <2>4. QED
    BY <2>2, <2>3
<1>3. CASE CutShort(t)
  <2>1. TopicsTypeOK'
    BY <1>3, TopicsAssumption DEF CutShort, Lose, tagVars, treeVars, saveVars, TopicsTypeOK
  <2>2. DocumentsTypeOK' /\ AddingInv' /\ FilingInv'
    BY <1>3 DEF CutShort, docVars, fileVars, dialogVars, pageVars, DocumentsTypeOK, AddingInv, FilingInv
  <2>3. QED
    BY <2>1, <2>2
<1>4. QED
  BY <1>1, <1>2, <1>3 DEF Run

\* What a page does.
LEMMA PageTypes ==
    ASSUME TopicsTypeOK, DocumentsTypeOK, AddingInv, FilingInv, NEW v \in Reader, MaterialPage(v)
    PROVE  TopicsTypeOK' /\ DocumentsTypeOK' /\ AddingInv' /\ FilingInv'
<1>a. v \in Saver /\ v \notin Adder
  BY DocumentsAssumption
<1>b. /\ status \in [Item -> Status] /\ at \in [Saver -> Item \cup {None}] /\ seen \in [Reader -> Status]
      /\ given \in [Item -> PageSeq] /\ pages \in [Item -> PageSeq] /\ doomed \in [Reader -> File \cup {None}]
      /\ links \subseteq Link
  BY DEF DocumentsTypeOK, TopicsTypeOK
<1>c. Live(at[v]) => at[v] \in Item
  BY <1>a, <1>b DEF Live
<1>d. \A i \in Item : TagsOf(i) \subseteq Topic
  BY <1>b DEF TagsOf, LinksOf, Link
<1>1. CASE Open(v)
  <2>1. PICK i \in Item : /\ at' = [at EXCEPT ![v] = i] /\ seen' = [seen EXCEPT ![v] = status[i]]
                          /\ choice' = [choice EXCEPT ![v] = TagsOf(i)]
    BY <1>1 DEF Open
  <2>2. TopicsTypeOK'
    BY <1>1, <2>1, <1>d DEF Open, treeVars, TopicsTypeOK
  <2>3. at' \in [Saver -> Item \cup {None}] /\ seen' \in [Reader -> Status]
        /\ \A d \in Adder : at'[d] = at[d]
    BY <2>1, <1>a, <1>b
  <2>4. DocumentsTypeOK' /\ AddingInv' /\ FilingInv'
    BY <1>1, <2>3 DEF Open, docVars, fileVars, dialogVars, taskVars, DocumentsTypeOK, AddingInv, FilingInv
  <2>5. QED
    BY <2>2, <2>4
<1>2. CASE Poll(v) \/ Refetch(v)
  <2>1. Fetch(v)
    BY <1>2 DEF Poll, Refetch
  <2>2. seen' \in [Reader -> Status]
    BY <2>1, <1>a, <1>b DEF Fetch
  <2>3. TopicsTypeOK'
    BY <2>1 DEF Fetch, topicVars, tagVars, treeVars, saveVars, TopicsTypeOK
  <2>4. DocumentsTypeOK' /\ AddingInv' /\ FilingInv'
    BY <2>1, <2>2 DEF Fetch, docVars, fileVars, dialogVars, taskVars, DocumentsTypeOK, AddingInv, FilingInv
  <2>5. QED
    BY <2>3, <2>4
<1>3. CASE Retry(v)
  <2>1. /\ task' \in [Task -> Item \cup {None}] /\ stage' \in [Task -> {"new", "queued", "reading", "over"}]
        /\ \A t \in Task : stage'[t] \in {"queued", "reading"} => task'[t] # None
        /\ read' = read /\ hurried' \subseteq Task
    <3>1. PICK k \in Task : Queue(k, at[v]) /\ hurried' \subseteq hurried \cup {k}
      BY <1>3 DEF Retry
    <3>2. at[v] \in Item
      BY <1>3, <1>c DEF Retry
    <3>3. QED
      BY <3>1, <3>2, QueueTypes DEF DocumentsTypeOK
  <2>2. TopicsTypeOK'
    BY <1>3 DEF Retry, topicVars, tagVars, treeVars, saveVars, TopicsTypeOK
  <2>3. DocumentsTypeOK' /\ AddingInv' /\ FilingInv'
    BY <1>3, <2>1 DEF Retry, docVars, fileVars, dialogVars, pageVars, DocumentsTypeOK, AddingInv, FilingInv
  <2>4. QED
    BY <2>2, <2>3
<1>4. CASE Edit(v) \/ SaveField(v) \/ Pick(v)
  <2>1. TopicsTypeOK'
    <3>1. CASE Edit(v)
      BY <3>1, <1>a, <1>b, <1>d DEF Edit, Idle, treeVars, TopicsTypeOK, Step
    <3>2. CASE SaveField(v)
      BY <3>2, <1>a, <1>c, ChooseTypes DEF SaveField
    <3>3. CASE Pick(v)
      BY <3>3, <1>a, ChooseTypes DEF Pick
    <3>4. QED
      BY <1>4, <3>1, <3>2, <3>3
  <2>2. DocumentsTypeOK' /\ AddingInv' /\ FilingInv'
    BY <1>4 DEF Edit, SaveField, Pick, ownVars, docVars, fileVars, dialogVars, pageVars, taskVars,
                DocumentsTypeOK, AddingInv, FilingInv
  <2>3. QED
    BY <2>1, <2>2
<1>5. CASE DeleteDocument(v)
  <2>1. TopicsTypeOK'
    BY <1>5 DEF DeleteDocument, treeVars, TopicsTypeOK
  <2>2. status' \in [Item -> Status] /\ pages' \in [Item -> PageSeq]
    BY <1>5, <1>b, PageSeqs DEF DeleteDocument, Status
  <2>3. kind[at[v]] = "file" => given[at[v]][1] \in File
    BY <1>5, <1>b, <1>c, PageSeqs DEF DeleteDocument, FilingInv
  <2>4. doomed' \in [Reader -> File \cup {None}]
    BY <1>5, <1>b, <2>3 DEF DeleteDocument
  <2>5. DocumentsTypeOK' /\ AddingInv' /\ FilingInv'
    BY <1>5, <2>2, <2>4 DEF DeleteDocument, fileVars, dialogVars, taskVars, DocumentsTypeOK, AddingInv,
                            FilingInv
  <2>6. QED
    BY <2>1, <2>5
<1>6. CASE DeleteFile(v)
  <2>1. TopicsTypeOK'
    BY <1>6 DEF DeleteFile, topicVars, tagVars, treeVars, saveVars, TopicsTypeOK
  <2>2. DocumentsTypeOK' /\ AddingInv' /\ FilingInv'
    BY <1>6 DEF DeleteFile, docVars, dialogVars, taskVars, DocumentsTypeOK, AddingInv, FilingInv
  <2>3. QED
    BY <2>1, <2>2
<1>7. QED
  BY <1>1, <1>2, <1>3, <1>4, <1>5, <1>6 DEF MaterialPage

\* A viewer's.
LEMMA LookTypes ==
    ASSUME BlobsTypeOK, LoadsInv, NEW w \in Viewer, Look(w)
    PROVE  BlobsTypeOK' /\ LoadsInv'
<1>a. /\ wanted \in [Viewer -> Blob \cup {NoFile}] /\ url \in [Viewer -> Blob \cup {NoFile}]
      /\ alive \in [Viewer -> SUBSET Blob] /\ asked \in [Viewer -> 0..MaxAsked]
      /\ loads \in [Viewer -> SUBSET (Blob \X (0..MaxAsked))]
  BY DEF BlobsTypeOK
<1>1. ASSUME NEW f \in Blob \cup {NoFile}, Ask(w, f) PROVE BlobsTypeOK' /\ LoadsInv'
  <2>1. asked'[w] = asked[w] + 1 /\ asked' \in [Viewer -> 0..MaxAsked]
    BY <1>1, <1>a, FileBlobsAssumption DEF Ask
  <2>2. f # NoFile => <<f, asked'[w]>> \in Blob \X (0..MaxAsked)
    BY <2>1, <1>a
  <2>3. /\ loads' \in [Viewer -> SUBSET (Blob \X (0..MaxAsked))]
        /\ \A x \in Viewer : \A load \in loads'[x] : load \in loads[x] \/ (x = w /\ load = <<f, asked'[w]>>)
    BY <1>1, <2>2, <1>a DEF Ask
  <2>4. BlobsTypeOK'
    BY <1>1, <2>1, <2>3, <1>a DEF Ask, BlobsTypeOK
  <2>5. LoadsInv'
    <3>1. ASSUME NEW x \in Viewer, NEW load \in loads'[x]
          PROVE  load[2] <= asked'[x] /\ (load[2] = asked'[x] => load[1] = wanted'[x])
      <4>1. CASE x = w /\ load = <<f, asked'[w]>>
        BY <4>1, <1>1, <2>1, <1>a DEF Ask
      <4>2. CASE load \in loads[x]
        <5>1. load[2] \in Nat /\ load[2] <= asked[x] /\ (load[2] = asked[x] => load[1] = wanted[x])
          BY <4>2, <1>a DEF LoadsInv
        <5>2. asked[x] \in Nat
          BY <1>a
        <5>3. CASE x = w
          BY <5>1, <5>2, <5>3, <2>1
        <5>4. CASE x # w
          BY <5>1, <5>4, <1>1, <1>a DEF Ask
        <5>5. QED
          BY <5>3, <5>4
      <4>3. QED
        BY <2>3, <4>1, <4>2
    <3>2. QED
      BY <3>1 DEF LoadsInv
  <2>6. QED
    BY <2>4, <2>5
<1>2. CASE Answer(w) \/ Refuse(w)
  <2>1. PICK load \in loads[w] :
            /\ loads' = [loads EXCEPT ![w] = @ \ {load}]
            /\ \/ UNCHANGED <<url, alive>>
               \/ /\ url' = [url EXCEPT ![w] = load[1]]
                  /\ alive' = [alive EXCEPT ![w] = @ \cup {load[1]}]
    BY <1>2 DEF Answer, Refuse
  <2>2. UNCHANGED <<wanted, asked>> /\ load[1] \in Blob
    BY <1>2, <2>1, <1>a DEF Answer, Refuse
  <2>3. \A x \in Viewer : loads'[x] \subseteq loads[x]
    BY <2>1, <1>a
  <2>4. BlobsTypeOK'
    BY <2>1, <2>2, <2>3, <1>a DEF BlobsTypeOK
  <2>5. LoadsInv'
    BY <2>2, <2>3 DEF LoadsInv
  <2>6. QED
    BY <2>4, <2>5
<1>3. QED
  BY <1>1, <1>2 DEF Look

Types == TypeOK /\ AddingInv /\ FilingInv /\ LoadsInv

\* They hold throughout,
LEMMA AlwaysTyped == Spec => []Types
<1>1. Init => Types
  BY InitTypes DEF Init, BlobsInit, LoadsInv, Types
<1>2. Types /\ [Next]_vars => Types'
  <2> SUFFICES ASSUME Types, [Next]_vars PROVE Types'
    OBVIOUS
  <2> DEFINE Material == TopicsTypeOK /\ DocumentsTypeOK /\ AddingInv /\ FilingInv
             Shown == BlobsTypeOK /\ LoadsInv
  <2>1. UNCHANGED blobVars => Shown'
    BY DEF blobVars, Types, TypeOK, BlobsTypeOK, LoadsInv
  <2>2. UNCHANGED documentVars => Material'
    BY DEF documentVars, topicVars, tagVars, treeVars, saveVars, ownVars, docVars, fileVars, dialogVars,
       pageVars, taskVars, Types, TypeOK, TopicsTypeOK, DocumentsTypeOK, AddingInv, FilingInv
  <2>3. ASSUME NEW a \in Actor, Act(a) PROVE Material' /\ Shown'
    <3>1. CASE a \in Editor /\ EditTopics(a) /\ UNCHANGED <<ownVars, blobVars>>
      <4>1. TopicsTypeOK'
        BY <3>1, EditTypes DEF Types, TypeOK
      <4>2. DocumentsTypeOK' /\ AddingInv' /\ FilingInv'
        BY <3>1 DEF ownVars, docVars, fileVars, dialogVars, pageVars, taskVars, Types, TypeOK,
                    DocumentsTypeOK, AddingInv, FilingInv
      <4>3. QED
        BY <3>1, <4>1, <4>2, <2>1
    <3>2. CASE a \in Saver /\ Tag(a) /\ UNCHANGED blobVars
      <4>1. at[a] \in Item
        BY <3>2 DEF Tag, Types, TypeOK, DocumentsTypeOK
      <4>2. TopicsTypeOK'
        BY <3>2, <4>1, SaveTypes DEF Tag, Types, TypeOK
      <4>3. DocumentsTypeOK' /\ AddingInv' /\ FilingInv'
        BY <3>2 DEF Tag, ownVars, docVars, fileVars, dialogVars, pageVars, taskVars, Types, TypeOK,
                    DocumentsTypeOK, AddingInv, FilingInv
      <4>4. QED
        BY <3>2, <4>2, <4>3, <2>1
    <3>3. CASE a \in Adder /\ Dialog(a) /\ UNCHANGED blobVars
      BY <3>3, <2>1, DialogTypes DEF Types, TypeOK
    <3>4. CASE a \in Reader /\ MaterialPage(a) /\ UNCHANGED blobVars
      BY <3>4, <2>1, PageTypes DEF Types, TypeOK
    <3>5. CASE a \in Task /\ (Run(a) \/ CutShort(a)) /\ UNCHANGED blobVars
      BY <3>5, <2>1, RunTypes DEF Types, TypeOK
    <3>6. CASE a \in Viewer /\ Look(a)
      BY <3>6, <2>2, LookTypes DEF Look, Types, TypeOK
    <3>7. QED
      BY <2>3, <3>1, <3>2, <3>3, <3>4, <3>5, <3>6 DEF Act
  <2>4. CASE UNCHANGED vars
    BY <2>1, <2>2, <2>4 DEF vars, Types, TypeOK
  <2>5. QED
    BY <2>3, <2>4 DEF Next, Types, TypeOK
<1>3. QED
  BY <1>1, <1>2, PTL DEF Spec

\* and so whatever the tree, the material, its tasks, the dialogs, the pages and the viewers keep
\* is of its type.
THEOREM TypeCorrect == Spec => []TypeOK
<1>1. Types => TypeOK
  BY DEF Types
<1>2. QED
  BY <1>1, AlwaysTyped, PTL

-------------------------------------------------------------------------------
\* Whatever order answers arrive in, a viewer shows the file it was last asked for, and
\* holds no object URL but that one's.
THEOREM BlobsAsAsked == Spec => []BlobsAreOfTheFileAsked
<1>1. Init => BlobsAreOfTheFileAsked
  BY DEF Init, BlobsInit, BlobsAreOfTheFileAsked
<1>2. Types /\ BlobsAreOfTheFileAsked /\ [Next]_vars => BlobsAreOfTheFileAsked'
  <2> SUFFICES ASSUME Types, BlobsAreOfTheFileAsked, [Next]_vars PROVE BlobsAreOfTheFileAsked'
    OBVIOUS
  <2>a. /\ wanted \in [Viewer -> Blob \cup {NoFile}] /\ url \in [Viewer -> Blob \cup {NoFile}]
        /\ alive \in [Viewer -> SUBSET Blob] /\ loads \in [Viewer -> SUBSET (Blob \X (0..MaxAsked))]
    BY DEF Types, TypeOK, BlobsTypeOK
  <2>1. CASE UNCHANGED blobVars
    BY <2>1 DEF blobVars, BlobsAreOfTheFileAsked
  <2>2. ASSUME NEW w \in Viewer, NEW f \in Blob \cup {NoFile}, Ask(w, f) PROVE BlobsAreOfTheFileAsked'
    BY <2>2, <2>a DEF Ask, BlobsAreOfTheFileAsked
  <2>3. ASSUME NEW w \in Viewer, Answer(w) PROVE BlobsAreOfTheFileAsked'
    <3>1. PICK load \in loads[w] : Answer(w)!1!(load)
      BY <2>3 DEF Answer
    <3>2. load[1] \in Blob /\ (~Cancelled(w, load) => load[1] = wanted[w])
      BY <2>a DEF Types, LoadsInv, Cancelled
    <3>3. UNCHANGED wanted
      BY <2>3 DEF Answer
    <3>4. QED
      BY <3>1, <3>2, <3>3, <2>a, FileBlobsAssumption DEF BlobsAreOfTheFileAsked
  <2>4. ASSUME NEW w \in Viewer, Refuse(w) PROVE BlobsAreOfTheFileAsked'
    BY <2>4 DEF Refuse, BlobsAreOfTheFileAsked
  <2>5. QED
    BY <2>1, <2>2, <2>3, <2>4 DEF Next, Act, Look, vars
<1>3. QED
  BY <1>1, <1>2, AlwaysTyped, PTL DEF Spec

\* Only the end of a reading that succeeded replaces what was read.
THEOREM ReadIsKept == Spec => WhatWasReadIsKept
<1>1. Types /\ [Next]_vars => [TextKept]_documentVars
  <2> SUFFICES ASSUME Types, [Next]_vars, text' # text PROVE TextKept
    BY DEF TextKept
  <2>0. PICK a \in Actor : Act(a)
    BY DEF Next, vars, documentVars, ownVars, docVars
  <2>1. PICK t \in Task : StoreText(t)
    <3>1. ~(a \in Editor /\ EditTopics(a) /\ UNCHANGED <<ownVars, blobVars>>)
      BY DEF ownVars, docVars
    <3>2. ~(a \in Saver /\ Tag(a) /\ UNCHANGED blobVars)
      BY DEF Tag, ownVars, docVars
    <3>3. ~Dialog(a)
      <4>1. ~(BeginAdd(a) \/ Upload(a) \/ CreateDocument(a))
        BY DEF BeginAdd, Upload, CreateDocument, docVars
      <4>2. ~(LinkPage(a) \/ StartReading(a))
        BY DEF LinkPage, StartReading, docVars
      <4>3. ~(EndAdd(a) \/ AddFails(a) \/ Pick(a))
        BY DEF EndAdd, AddFails, Pick, ownVars, docVars
      <4>4. QED
        BY <4>1, <4>2, <4>3 DEF Dialog, Filing
    <3>4. ~MaterialPage(a)
      <4>1. ~(Open(a) \/ Poll(a) \/ Refetch(a) \/ Retry(a))
        BY DEF Open, Poll, Refetch, Fetch, Retry, docVars
      <4>2. ~(Edit(a) \/ SaveField(a) \/ DeleteDocument(a) \/ DeleteFile(a) \/ Pick(a))
        BY DEF Edit, SaveField, DeleteDocument, DeleteFile, Pick, ownVars, docVars
      <4>3. QED
        BY <4>1, <4>2 DEF MaterialPage
    <3>5. ~(Begin(a) \/ StoreFailure(a) \/ CutShort(a))
      BY DEF Begin, StoreFailure, CutShort, docVars
    <3>6. ~Look(a)
      BY DEF Look, documentVars, ownVars, docVars
    <3>7. QED
      BY <2>0, <3>1, <3>2, <3>3, <3>4, <3>5, <3>6 DEF Act, Run
  <2>2. task[t] \in Item
    BY <2>1 DEF StoreText, Types, TypeOK, DocumentsTypeOK, FilingInv
  <2>3. QED
    BY <2>1, <2>2 DEF StoreText, TextKept, Types, TypeOK, DocumentsTypeOK
<1>2. QED
  BY <1>1, AlwaysTyped, PTL DEF Spec, WhatWasReadIsKept

\* The box goes on showing what was typed for the topic selected.
THEOREM TypedIsKept == Spec => TypedDescriptionIsKept
<1>1. Types /\ [Next]_vars => [\A e \in Editor : BoxKept(e)]_topicVars
  <2> SUFFICES ASSUME Types, [Next]_vars, NEW e \in Editor PROVE BoxKept(e)
    OBVIOUS
  <2>a. tree \in [Editor -> SUBSET TopicRow] /\ selected \in [Editor -> Topic \cup {None}]
        /\ typed \in [Editor -> Text]
    BY DEF Types, TypeOK, TopicsTypeOK
  <2>1. CASE UNCHANGED treeVars
    BY <2>1 DEF treeVars, BoxKept
  <2>2. ASSUME NEW x \in Editor, EditTopics(x) PROVE BoxKept(e)
    <3>1. ASSUME NEW t, Show(x, tree[x], t) PROVE BoxKept(e)
      BY <3>1, <2>a DEF Show, Followed, BoxKept
    <3>2. ASSUME Show(x, rows, selected[x]) PROVE BoxKept(e)
      BY <3>2, <2>a DEF Show, Followed, BoxKept
    <3>3. CASE Describe(x)
      BY <3>3, <2>a DEF Describe, BoxKept
    <3>4. QED
      BY <2>2, <2>1, <3>1, <3>2, <3>3 DEF EditTopics, RefetchTree, Select, AddTopic, SaveDescription, DeleteTopic
  <2>3. ASSUME NEW a \in Actor, Act(a), ~(a \in Editor /\ EditTopics(a)) PROVE UNCHANGED treeVars
    <3>1. CASE a \in Saver /\ Tag(a)
      BY <3>1 DEF Tag, SaveTags, RemoveTags, AddTag, RefuseTag, AddLate, RefuseSave, FinishTags, treeVars
    <3>2. CASE Dialog(a)
      <4>1. CASE BeginAdd(a) \/ Upload(a) \/ CreateDocument(a) \/ LinkPage(a) \/ AddFails(a)
        BY <4>1 DEF BeginAdd, Upload, CreateDocument, LinkPage, AddFails, topicVars, tagVars
      <4>2. CASE StartReading(a) \/ EndAdd(a) \/ Pick(a)
        BY <4>2 DEF StartReading, ReadTags, EndAdd, Pick, Choose, topicVars, tagVars
      <4>3. QED
        BY <3>2, <4>1, <4>2 DEF Dialog, Filing
    <3>3. CASE MaterialPage(a)
      <4>1. CASE Open(a) \/ Poll(a) \/ Refetch(a) \/ Retry(a) \/ DeleteFile(a)
        BY <4>1 DEF Open, Poll, Refetch, Fetch, Retry, DeleteFile, topicVars, tagVars
      <4>2. CASE Edit(a) \/ SaveField(a) \/ DeleteDocument(a) \/ Pick(a)
        BY <4>2 DEF Edit, SaveField, ReadTags, DeleteDocument, Pick, Choose, topicVars, tagVars
      <4>3. QED
        BY <3>3, <4>1, <4>2 DEF MaterialPage
    <3>4. CASE Begin(a) \/ StoreText(a) \/ StoreFailure(a) \/ CutShort(a)
      BY <3>4 DEF Begin, StoreText, StoreFailure, CutShort, topicVars, tagVars
    <3>5. CASE Look(a)
      BY <3>5 DEF Look, documentVars, topicVars, tagVars
    <3>6. QED
      BY <2>3, <3>1, <3>2, <3>3, <3>4, <3>5 DEF Act, Run
  <2>4. CASE UNCHANGED vars
    BY <2>4, <2>1 DEF vars, documentVars, topicVars, tagVars
  <2>5. QED
    BY <2>1, <2>2, <2>3, <2>4 DEF Next
<1>2. QED
  BY <1>1, AlwaysTyped, PTL DEF Spec, TypedDescriptionIsKept

-------------------------------------------------------------------------------
\* What is not about an item's row, its readers or its readings leaves the pages they know.
LEMMA WholeStands ==
    ASSUME WholeInv, ReadyScansAreWhole, UNCHANGED <<docVars, at, taskVars>>
    PROVE  WholeInv' /\ ReadyScansAreWhole'
  BY DEF WholeInv, Sound, ReadyScansAreWhole, docVars, taskVars, Whole, Live

\* What is about another item leaves a run as it is.
LEMMA SoundStands ==
    ASSUME Types, WholeInv, NEW t \in Task, stage[t] \in {"queued", "reading"},
           UNCHANGED <<task, hurried>>, stage'[t] = stage[t], read'[t] = read[t],
           NEW i \in Item, i # task[t],
           \A x \in Item : x # i => /\ status'[x] = status[x] /\ kind'[x] = kind[x]
                                    /\ given'[x] = given[x] /\ pages'[x] = pages[x]
    PROVE  Sound(t)'
<1>1. PICK x \in Item : x = task[t]
  BY DEF Types, TypeOK, DocumentsTypeOK, FilingInv
<1>2. x # i /\ task'[t] = x
  BY <1>1
<1>3. Sound(t)
  BY DEF WholeInv
<1>4. (Whole(x)' <=> Whole(x)) /\ (Live(x)' <=> Live(x))
  BY <1>2 DEF Whole, Live
<1>5. QED
  BY <1>1, <1>2, <1>3, <1>4 DEF Sound, Whole, Live

\* A run is queued of an item that has all its pages, or it is asked for too early.
LEMMA QueueWhole ==
    ASSUME Types, WholeInv, ReadyScansAreWhole, NEW i \in Item, NEW k \in Task, Queue(k, i),
           status[i] # "absent", UNCHANGED <<docVars, at>>,
           (hurried' = hurried /\ Whole(i)) \/ hurried' = hurried \cup {k}
    PROVE  WholeInv' /\ ReadyScansAreWhole'
<1>a. /\ task \in [Task -> Item \cup {None}] /\ read \in [Task -> PageSeq]
      /\ stage \in [Task -> {"new", "queued", "reading", "over"}] /\ hurried \subseteq Task
  BY DEF Types, TypeOK, DocumentsTypeOK
<1>1. /\ stage[k] = "new" /\ task'[k] = i /\ stage'[k] = "queued"
      /\ \A x \in Task : x # k => task'[x] = task[x] /\ stage'[x] = stage[x]
  BY <1>a DEF Queue
<1>2. UNCHANGED <<status, kind, given, pages, text, at, read>>
  BY DEF Queue, docVars
<1>3. \A x \in Item : (Whole(x)' <=> Whole(x)) /\ (Live(x)' <=> Live(x))
  BY <1>2 DEF Whole, Live
<1>4. ASSUME NEW x \in Task PROVE Sound(x)'
  <2>1. CASE x = k
    <3>1. k \in hurried' \/ Whole(i)'
      BY <1>3
    <3>2. QED
      BY <1>1, <1>2, <2>1, <3>1 DEF Sound, Whole
  <2>2. CASE x # k
    <3>1. task'[x] = task[x] /\ stage'[x] = stage[x] /\ (x \in hurried' <=> x \in hurried)
      BY <1>1, <2>2
    <3>2. Sound(x)
      BY DEF WholeInv
    <3>3. QED
      BY <3>1, <3>2, <1>2 DEF Sound, Whole, Live
  <2>3. QED
    BY <2>1, <2>2
<1>5. \A x \in hurried' : stage'[x] # "new"
  BY <1>1, <1>a DEF WholeInv
<1>6. ReadyScansAreWhole'
  <2>1. \A x \in hurried : x \in hurried' /\ task'[x] = task[x]
    BY <1>1, <1>a DEF WholeInv
  <2>2. QED
    BY <2>1, <1>2 DEF ReadyScansAreWhole
<1>7. QED
  BY <1>2, <1>4, <1>5, <1>6 DEF WholeInv

\* What a dialog does: no row is filed twice, no page linked once all are, and a run is
\* queued when they are.
LEMMA DialogWhole ==
    ASSUME Types, WholeInv, ReadyScansAreWhole, NEW d \in Adder, Dialog(d)
    PROVE  WholeInv' /\ ReadyScansAreWhole'
<1>a. /\ status \in [Item -> Status] /\ kind \in [Item -> Kind] /\ given \in [Item -> PageSeq]
      /\ pages \in [Item -> PageSeq] /\ text \in [Item -> PageSeq \cup {None}]
      /\ at \in [Saver -> Item \cup {None}] /\ d \in Saver /\ None \notin Item
  BY DocumentsAssumption, TopicsAssumption DEF Types, TypeOK, DocumentsTypeOK
<1>1. CASE BeginAdd(d) \/ Upload(d) \/ EndAdd(d) \/ AddFails(d) \/ Pick(d)
  <2>1. UNCHANGED <<docVars, at, taskVars>>
    BY <1>1 DEF BeginAdd, Upload, EndAdd, AddFails, Pick, ownVars
  <2>2. QED
    BY <2>1, WholeStands
<1>2. CASE CreateDocument(d)
  <2>1. PICK i \in Item :
            /\ status[i] = "absent"
            /\ status' = [status EXCEPT ![i] = "pending"]
            /\ kind' = [kind EXCEPT ![i] = form[d].kind]
            /\ given' = [given EXCEPT ![i] = sent[d]]
            /\ at' = [at EXCEPT ![d] = i]
    BY <1>2 DEF CreateDocument
  <2>2. UNCHANGED <<pages, text, task, stage, read, hurried>>
    BY <1>2 DEF CreateDocument, taskVars
  <2>3. /\ status'[i] = "pending"
        /\ \A x \in Item : x # i =>
              status'[x] = status[x] /\ kind'[x] = kind[x] /\ given'[x] = given[x] /\ pages'[x] = pages[x]
    BY <2>1, <2>2, <1>a
  <2>4. ASSUME NEW t \in Task PROVE Sound(t)'
    <3>1. CASE stage[t] \in {"queued", "reading"}
      <4>1. task[t] # i
        BY <3>1, <2>1 DEF WholeInv, Sound
      <4>2. QED
        BY <3>1, <4>1, <2>2, <2>3, SoundStands
    <3>2. CASE stage[t] \notin {"queued", "reading"}
      BY <3>2, <2>2 DEF Sound
    <3>3. QED
      BY <3>1, <3>2
  <2>5. \A s \in Saver : at'[s] # None => status'[at'[s]] # "absent"
    BY <2>1, <2>3, <1>a DEF WholeInv
  <2>6. ReadyScansAreWhole'
    BY <2>2, <2>3 DEF ReadyScansAreWhole
  <2>7. QED
    BY <2>2, <2>4, <2>5, <2>6 DEF WholeInv
<1>3. CASE LinkPage(d)
  <2>1. PICK i : i = at[d]
    OBVIOUS
  <2>2. /\ i \in Item /\ kind[i] = "scan" /\ Live(i) /\ ~Whole(i)
        /\ \A x \in Item : x # i => pages'[x] = pages[x]
    BY <1>3, <2>1, <1>a DEF LinkPage, Live, Whole
  <2>3. UNCHANGED <<status, kind, given, text, at, task, stage, read, hurried>>
    BY <1>3 DEF LinkPage, taskVars
  <2>4. ASSUME NEW t \in Task PROVE Sound(t)'
    <3>1. CASE stage[t] \in {"queued", "reading"} /\ task[t] # i
      BY <3>1, <2>2, <2>3, SoundStands
    <3>2. CASE stage[t] \in {"queued", "reading"} /\ task[t] = i
      <4>1. t \in hurried /\ status[task[t]] # "absent"
        BY <3>2, <2>2 DEF WholeInv, Sound
      <4>2. QED
        BY <4>1, <2>3 DEF Sound
    <3>3. CASE stage[t] \notin {"queued", "reading"}
      BY <3>3, <2>3 DEF Sound
    <3>4. QED
      BY <3>1, <3>2, <3>3
  <2>5. ReadyScansAreWhole'
    BY <2>3 DEF ReadyScansAreWhole
  <2>6. QED
    BY <2>3, <2>4, <2>5 DEF WholeInv
<1>4. CASE StartReading(d)
  <2>1. /\ at[d] \in Item /\ status[at[d]] # "absent" /\ Whole(at[d])
        /\ hurried' = hurried /\ \E k \in Task : Queue(k, at[d])
    <3>1. at[d] \in Item /\ hurried' = hurried /\ (\E k \in Task : Queue(k, at[d])) /\ Filed(at[d])
      BY <1>4, <1>a DEF StartReading, Types, AddingInv
    <3>2. QED
      BY <3>1, <1>a DEF WholeInv, Whole, Filed
  <2>2. UNCHANGED <<docVars, at>>
    BY <1>4 DEF StartReading
  <2>3. QED
    BY <2>1, <2>2, QueueWhole
<1>5. QED
  BY <1>1, <1>2, <1>3, <1>4 DEF Dialog, Filing

\* What process_document does: it reads what is linked when it begins.
LEMMA RunWhole ==
    ASSUME Types, WholeInv, ReadyScansAreWhole, NEW t \in Task, Run(t) \/ CutShort(t)
    PROVE  WholeInv' /\ ReadyScansAreWhole'
<1>a. /\ status \in [Item -> Status] /\ text \in [Item -> PageSeq \cup {None}]
      /\ task \in [Task -> Item \cup {None}] /\ read \in [Task -> PageSeq] /\ None \notin Item
      /\ stage \in [Task -> {"new", "queued", "reading", "over"}] /\ at \in [Saver -> Item \cup {None}]
      /\ hurried \subseteq Task
  BY DocumentsAssumption, TopicsAssumption DEF Types, TypeOK, DocumentsTypeOK
<1>b. UNCHANGED <<kind, given, pages, at, task, hurried>>
  BY DEF Run, Begin, StoreText, StoreFailure, CutShort, docVars
<1>1. PICK i : i = task[t]
  OBVIOUS
<1>2. /\ i \in Item /\ stage[t] \in {"queued", "reading"} /\ status[i] # "absent"
      /\ t \notin hurried /\ Live(i) => Whole(i)
      /\ t \notin hurried /\ Live(i) /\ stage[t] = "reading" /\ kind[i] = "scan" => read[t] = given[i]
  <2>1. stage[t] \in {"queued", "reading"}
    BY DEF Run, Begin, StoreText, StoreFailure, CutShort
  <2>2. QED
    BY <2>1, <1>1, <1>a DEF WholeInv, Sound, Types, FilingInv
<1>c. \A x \in Item : Whole(x)' <=> Whole(x)
  BY <1>b DEF Whole
\* Only a live item of the run's is marked, and stays live.
<1>3. /\ \A x \in Item : x # i => status'[x] = status[x] /\ text'[x] = text[x]
      /\ \A x \in Item : Live(x)' <=> Live(x)
      /\ \A x \in Item : status[x] # "absent" => status'[x] # "absent"
      /\ stage'[t] # "new"
      /\ \A x \in Task : x # t => stage'[x] = stage[x] /\ read'[x] = read[x]
  <2>1. CASE Begin(t) \/ StoreText(t) \/ StoreFailure(t)
    BY <2>1, <1>1, <1>2, <1>a DEF Begin, StoreText, StoreFailure, Live
  <2>2. CASE CutShort(t)
    BY <2>2, <1>1, <1>2, <1>a DEF CutShort, docVars, Live
  <2>3. QED
    BY <2>1, <2>2 DEF Run
<1>5. ASSUME NEW x \in Task PROVE Sound(x)'
  <2>1. CASE x = t /\ stage'[t] \in {"queued", "reading"}
    <3>1. /\ Begin(t) /\ Live(i) /\ stage'[t] = "reading"
          /\ read' = [read EXCEPT ![t] = IF kind[i] = "scan" THEN pages[i] ELSE given[i]]
      <4>1. ~(StoreText(t) \/ StoreFailure(t) \/ CutShort(t))
        BY <2>1, <1>a DEF StoreText, StoreFailure, CutShort
      <4>2. QED
        BY <4>1, <2>1, <1>1, <1>a DEF Run, Begin
    <3>2. t \notin hurried /\ kind[i] = "scan" => read'[t] = given[i]
      BY <3>1, <1>2, <1>a DEF Whole
    <3>3. task'[t] = i /\ status'[i] # "absent" /\ (t \notin hurried => Whole(i)')
      BY <3>1, <1>1, <1>2, <1>3, <1>b, <1>c
    <3>4. QED
      BY <3>2, <3>3, <2>1, <1>b DEF Sound, Whole
  <2>2. CASE x # t /\ stage[x] \in {"queued", "reading"}
    <3>1. PICK j \in Item : j = task[x]
      BY <2>2, <1>a DEF Types, FilingInv
    <3>2. Sound(x) /\ task'[x] = j /\ stage'[x] = stage[x] /\ read'[x] = read[x]
      BY <3>1, <2>2, <1>3, <1>b DEF WholeInv
    <3>3. /\ status'[j] # "absent" /\ (Live(j)' <=> Live(j)) /\ (Whole(j)' <=> Whole(j))
          /\ kind'[j] = kind[j] /\ given'[j] = given[j]
      BY <3>1, <3>2, <2>2, <1>3, <1>b, <1>c DEF Sound
    <3>4. QED
      BY <3>1, <3>2, <3>3, <1>b DEF Sound, Live, Whole
  <2>3. CASE stage'[x] \notin {"queued", "reading"}
    BY <2>3 DEF Sound
  <2>4. QED
    BY <2>1, <2>2, <2>3, <1>3
<1>6. \A x \in hurried' : stage'[x] # "new"
  BY <1>3, <1>a, <1>b DEF WholeInv
<1>7. \A s \in Saver : at'[s] # None => status'[at'[s]] # "absent"
  <2>1. ASSUME NEW s \in Saver, at[s] # None PROVE status'[at[s]] # "absent"
    BY <2>1, <1>3, <1>a DEF WholeInv
  <2>2. QED
    BY <2>1, <1>b
<1>8. ReadyScansAreWhole'
  <2>1. ASSUME status'[i] = "ready", kind[i] = "scan", t \notin hurried
        PROVE  text'[i] = given[i] \/ \E x \in hurried : task[x] = i
    <3>1. CASE StoreText(t)
      BY <3>1, <2>1, <1>1, <1>2, <1>a DEF StoreText
    <3>2. CASE ~StoreText(t)
      <4>1. status' = status /\ text' = text
        BY <3>2, <2>1, <1>1, <1>2, <1>a DEF Run, Begin, StoreFailure, CutShort, docVars
      <4>2. QED
        BY <4>1, <2>1, <1>2 DEF ReadyScansAreWhole
    <3>3. QED
      BY <3>1, <3>2
  <2>2. QED
    BY <2>1, <1>1, <1>3, <1>b DEF ReadyScansAreWhole
<1>9. QED
  BY <1>5, <1>6, <1>7, <1>8 DEF WholeInv

\* What the page of an item does: what it asks for too early is remembered.
LEMMA PageWhole ==
    ASSUME Types, WholeInv, ReadyScansAreWhole, NEW v \in Reader, MaterialPage(v)
    PROVE  WholeInv' /\ ReadyScansAreWhole'
<1>a. /\ status \in [Item -> Status] /\ pages \in [Item -> PageSeq]
      /\ at \in [Saver -> Item \cup {None}] /\ None \notin Item
      /\ Reader \subseteq Saver
  BY DocumentsAssumption, TopicsAssumption DEF Types, TypeOK, DocumentsTypeOK
<1>1. CASE Fetch(v) \/ Edit(v) \/ SaveField(v) \/ DeleteFile(v) \/ Pick(v)
  <2>1. UNCHANGED <<docVars, at, taskVars>>
    BY <1>1 DEF Fetch, Edit, SaveField, DeleteFile, Pick, ownVars
  <2>2. QED
    BY <2>1, WholeStands
<1>2. CASE Open(v)
  <2>1. UNCHANGED <<status, kind, given, pages, text, task, stage, read, hurried>>
    BY <1>2 DEF Open, docVars, taskVars
  <2>2. PICK i \in Item : status[i] # "absent" /\ at' = [at EXCEPT ![v] = i]
    BY <1>2 DEF Open, Live
  <2>3. \A s \in Saver : at'[s] # None => status'[at'[s]] # "absent"
    BY <2>1, <2>2, <1>a DEF WholeInv
  <2>4. QED
    BY <2>1, <2>3 DEF WholeInv, Sound, ReadyScansAreWhole, Whole, Live
<1>3. CASE Retry(v)
  <2>1. at[v] \in Item /\ status[at[v]] # "absent"
    BY <1>3, <1>a DEF Retry, Live
  <2>2. PICK k \in Task : /\ Queue(k, at[v])
                          /\ hurried' = IF kind[at[v]] = "scan" /\ pages[at[v]] # given[at[v]]
                                      THEN hurried \cup {k} ELSE hurried
    BY <1>3 DEF Retry
  <2>3. UNCHANGED <<docVars, at>>
    BY <1>3 DEF Retry
  <2>4. (hurried' = hurried /\ Whole(at[v])) \/ hurried' = hurried \cup {k}
    BY <2>2 DEF Whole
  <2>5. QED
    BY <2>1, <2>2, <2>3, <2>4, QueueWhole
<1>4. CASE DeleteDocument(v)
  <2>1. PICK i : i = at[v]
    OBVIOUS
  <2>2. /\ i \in Item /\ status'[i] = "deleted"
        /\ \A x \in Item : x # i => status'[x] = status[x] /\ pages'[x] = pages[x]
    BY <1>4, <2>1, <1>a DEF DeleteDocument, Live
  <2>3. UNCHANGED <<kind, given, text, at, task, stage, read, hurried>>
    BY <1>4 DEF DeleteDocument, taskVars
  <2>4. ASSUME NEW t \in Task PROVE Sound(t)'
    <3>1. CASE stage[t] \in {"queued", "reading"} /\ task[t] # i
      BY <3>1, <2>2, <2>3, SoundStands
    <3>2. CASE task[t] = i
      BY <3>2, <2>2, <2>3 DEF Sound, Live
    <3>3. CASE stage[t] \notin {"queued", "reading"}
      BY <3>3, <2>3 DEF Sound
    <3>4. QED
      BY <3>1, <3>2, <3>3
  <2>5. \A s \in Saver : at'[s] # None => status'[at'[s]] # "absent"
    BY <2>2, <2>3, <1>a DEF WholeInv
  <2>6. ReadyScansAreWhole'
    BY <2>2, <2>3 DEF ReadyScansAreWhole
  <2>7. QED
    BY <2>3, <2>4, <2>5, <2>6 DEF WholeInv
<1>5. QED
  BY <1>1, <1>2, <1>3, <1>4 DEF MaterialPage, Poll, Refetch

\* A scan that is ready was read from every page chosen for it, in their order, whatever
\* was retried, deleted or lost meanwhile, unless it was asked for before they were linked.
THEOREM ReadyScansWhole == Spec => []ReadyScansAreWhole
<1>1. Init => WholeInv /\ ReadyScansAreWhole
  <2> SUFFICES ASSUME Init PROVE WholeInv /\ ReadyScansAreWhole
    OBVIOUS
  <2>1. \A i \in Item : status[i] # "absent" => kind[i] = "file"
    BY DEF Init, DocumentsInit
  <2>2. WholeInv
    BY <2>1, DocumentsAssumption DEF Init, DocumentsInit, WholeInv, Sound, Whole, Live
  <2>3. ReadyScansAreWhole
    BY <2>1 DEF ReadyScansAreWhole
  <2>4. QED
    BY <2>2, <2>3
<1>2. Types /\ WholeInv /\ ReadyScansAreWhole /\ [Next]_vars => WholeInv' /\ ReadyScansAreWhole'
  <2> SUFFICES ASSUME Types, WholeInv, ReadyScansAreWhole, [Next]_vars
               PROVE  WholeInv' /\ ReadyScansAreWhole'
    OBVIOUS
  <2>1. ASSUME NEW a \in Actor, Act(a) PROVE WholeInv' /\ ReadyScansAreWhole'
    <3>1. CASE UNCHANGED ownVars
      BY <3>1, WholeStands DEF ownVars
    <3>2. CASE a \in Adder /\ Dialog(a)
      BY <3>2, DialogWhole
    <3>3. CASE a \in Reader /\ MaterialPage(a)
      BY <3>3, PageWhole
    <3>4. CASE a \in Task /\ (Run(a) \/ CutShort(a))
      BY <3>4, RunWhole
    <3>5. QED
      BY <2>1, <3>1, <3>2, <3>3, <3>4 DEF Act, Tag, Look, documentVars
  <2>2. CASE UNCHANGED vars
    BY <2>2, WholeStands DEF vars, documentVars, ownVars
  <2>3. QED
    BY <2>1, <2>2 DEF Next
<1>3. QED
  BY <1>1, <1>2, AlwaysTyped, PTL DEF Spec

-------------------------------------------------------------------------------
\* A save that a step does nothing of, on an item whose tags it writes nothing of or has
\* noted it does, stands.
LEMMA SaveStands ==
    ASSUME NEW s \in Saver, TagInv(s),
           at'[s] = at[s], step'[s] = step[s], held'[s] = held[s], busy'[s] = busy[s], choice'[s] = choice[s],
           moved'[s] \/ (moved'[s] = moved[s] /\ LinksOf(at[s])' = LinksOf(at[s]))
    PROVE  TagInv(s)'
<1>1. CASE moved'[s]
  BY <1>1 DEF TagInv
<1>2. CASE moved'[s] = moved[s] /\ LinksOf(at[s])' = LinksOf(at[s])
  <2>1. TagsOf(at[s])' = TagsOf(at[s])
    BY <1>2 DEF TagsOf
  <2>2. SavedSoFar(s)' <=> SavedSoFar(s)
    BY <1>2, <2>1 DEF SavedSoFar
  <2>3. QED
    BY <1>2, <2>2 DEF TagInv
<1>3. QED
  BY <1>1, <1>2

\* So does one that has just become idle.
LEMMA IdleStands ==
    ASSUME NEW s \in Saver, step'[s] = "idle", held'[s] = {}, busy'[s] = {}
    PROVE  TagInv(s)'
  BY DEF TagInv

\* What is not about tags leaves every save.
LEMMA TagsStand ==
    ASSUME TagsInv, UNCHANGED <<links, choice, step, held, busy, moved, at>>,
           \A d \in Adder : adding'[d] = adding[d] \/ adding'[d] = "tagging" \/ step[d] = "idle"
    PROVE  TagsInv'
<1>1. ASSUME NEW s \in Saver PROVE TagInv(s)'
  BY <1>1, SaveStands DEF TagsInv, LinksOf
<1>2. QED
  BY <1>1 DEF TagsInv

\* The links of an item with one more: of that item, or of another.
LEMMA OneMore ==
    ASSUME NEW item \in Item, NEW t \in Topic, Land(item, t)
    PROVE  \E link : /\ link.topic = t
                     /\ LinksOf(item)' = LinksOf(item) \cup {link}
                     /\ \A other : other # item => LinksOf(other)' = LinksOf(other)
<1>1. PICK id \in LinkId \ Taken : links' = links \cup {[id |-> id, item |-> item, topic |-> t]}
  BY DEF Land
<1>2. PICK link : link = [id |-> id, item |-> item, topic |-> t]
  OBVIOUS
<1>3. link.topic = t /\ link.item = item /\ links' = links \cup {link}
  BY <1>1, <1>2
<1>4. QED
  BY <1>3 DEF LinksOf

\* A Topics page touches no save; deleting a topic disturbs them all.
LEMMA EditTags ==
    ASSUME Types, TagsInv, NEW e \in Editor, EditTopics(e), UNCHANGED ownVars
    PROVE  TagsInv'
<1>1. UNCHANGED <<choice, step, held, busy, at, adding>>
  BY EditTypes DEF Types, TypeOK, ownVars, dialogVars
<1>2. CASE DeleteTopic(e)
  <2>1. \A s \in Saver : moved'[s]
    BY <1>2 DEF DeleteTopic
  <2>2. \A s \in Saver : TagInv(s)'
    BY <2>1, <1>1, SaveStands DEF TagsInv
  <2>3. QED
    BY <2>2, <1>1 DEF TagsInv
<1>3. CASE ~DeleteTopic(e)
  <2>1. UNCHANGED <<links, moved>>
    BY <1>3 DEF EditTopics, RefetchTree, Select, Describe, AddTopic, SaveDescription, saveVars
  <2>2. QED
    BY <2>1, <1>1, TagsStand
<1>4. QED
  BY <1>2, <1>3

\* A save reads what the item has,
LEMMA ReadTagsStand ==
    ASSUME Types, TagsInv, NEW s \in Saver, at[s] # None, ReadTags(s, at[s]), UNCHANGED at,
           \A d \in Adder : IF d = s THEN adding'[d] = "tagging" ELSE adding'[d] = adding[d]
    PROVE  TagsInv'
<1>a. /\ step \in [Saver -> Step] /\ held \in [Saver -> SUBSET Link] /\ moved \in [Saver -> BOOLEAN]
      /\ busy \in [Saver -> SUBSET Topic] /\ Adder \subseteq Saver
  BY DocumentsAssumption DEF Types, TypeOK, TopicsTypeOK
<1>1. UNCHANGED <<links, choice, busy>> /\ ~Saving(s)
  BY DEF ReadTags
<1>2. step'[s] = "removing" /\ held'[s] = LinksOf(at[s]) /\ busy'[s] = {}
  BY <1>1, <1>a DEF ReadTags, TagsInv, TagInv, Saving, Step
<1>3. TagInv(s)'
  BY <1>1, <1>2 DEF TagInv, LinksOf
<1>4. ASSUME NEW x \in Saver, x # s PROVE TagInv(x)' /\ step'[x] = step[x]
  <2>1. step'[x] = step[x] /\ held'[x] = held[x] /\ moved'[x] = moved[x]
    BY <1>4, <1>a DEF ReadTags
  <2>2. QED
    BY <2>1, <1>1, SaveStands DEF TagsInv, LinksOf
<1>5. \A d \in Adder : adding'[d] # "tagging" => step'[d] = "idle"
  BY <1>4, <1>a DEF TagsInv
<1>6. QED
  BY <1>3, <1>4, <1>5 DEF TagsInv

\* removes what was not chosen and adds what is missing, each write of it disturbing the
\* other saves of the item; one that is refused is over.
LEMMA SaveTagsStand ==
    ASSUME Types, TagsInv, NEW s \in Saver, Tag(s)
    PROVE  TagsInv'
<1>a. /\ step \in [Saver -> Step] /\ held \in [Saver -> SUBSET Link] /\ moved \in [Saver -> BOOLEAN]
      /\ busy \in [Saver -> SUBSET Topic] /\ choice \in [Saver -> SUBSET Topic] /\ Adder \subseteq Saver
      /\ links \subseteq Link /\ late \in [Saver -> SUBSET (Item \X Topic)]
      /\ at \in [Saver -> Item \cup {None}]
  BY DocumentsAssumption DEF Types, TypeOK, TopicsTypeOK, DocumentsTypeOK
<1>b. at[s] \in Item /\ UNCHANGED <<at, adding>> /\ UNCHANGED choice
  BY <1>a DEF Tag, ownVars, dialogVars, SaveTags, RemoveTags, AddTag, FinishTags, RefuseTag, AddLate, RefuseSave
<1>c. TagInv(s)
  BY DEF TagsInv
<1>1. CASE RemoveTags(s, at)
  <2>1. /\ step'[s] = "adding" /\ busy'[s] = Missing(s) /\ held' = held
        /\ links' = links \ Unwanted(s) /\ moved'[s] = moved[s]
        /\ step[s] = "removing"
    BY <1>1, <1>a DEF RemoveTags, WroteTags
  <2>2. ASSUME ~moved'[s] PROVE SavedSoFar(s)'
    <3>1. held[s] = LinksOf(at[s])
      BY <2>1, <2>2, <1>c DEF TagInv
    <3>2. LinksOf(at[s])' = {link \in held[s] : link.topic \in choice[s]}
      BY <2>1, <3>1, <1>b DEF LinksOf, Unwanted
    <3>3. TagsOf(at[s])' = choice[s] \ Missing(s)
      BY <3>2 DEF TagsOf, Missing
    <3>4. Missing(s) \subseteq choice[s]
      BY DEF Missing
    <3>5. LinksOf(at[s])' \ held'[s] = {}
      BY <2>1, <3>2
    <3>6. QED
      BY <3>3, <3>4, <3>5, <2>1, <1>b DEF SavedSoFar
  <2>3. \A link \in held[s] : link.item = at[s]
    BY <1>c DEF TagInv
  <2>4. TagInv(s)'
    <3>1. at'[s] # None /\ \A link \in held'[s] : link.item = at'[s]
      BY <2>1, <2>3, <1>b, TopicsAssumption
    <3>2. ~moved'[s] => SavedSoFar(s)'
      BY <2>2
    <3>3. QED
      BY <3>1, <3>2, <2>1 DEF TagInv
  <2>5. ASSUME NEW x \in Saver, x # s PROVE TagInv(x)' /\ step'[x] = step[x]
    <3>1. step'[x] = step[x] /\ held'[x] = held[x] /\ busy'[x] = busy[x]
      BY <1>1, <2>5, <1>a DEF RemoveTags
    <3>2. CASE at[x] # at[s]
      <4>1. LinksOf(at[x])' = LinksOf(at[x])
        BY <3>2, <2>1, <2>3, <1>b DEF LinksOf, Unwanted
      <4>2. moved'[x] = moved[x]
        BY <1>1, <3>2, <1>a DEF RemoveTags, WroteTags
      <4>3. QED
        BY <4>1, <4>2, <3>1, <1>b, SaveStands DEF TagsInv
    <3>3. CASE at[x] = at[s] /\ Unwanted(s) # {}
      <4>1. moved'[x]
        BY <1>1, <3>3, <2>5 DEF RemoveTags, WroteTags
      <4>2. QED
        BY <4>1, <3>1, <1>b, SaveStands DEF TagsInv
    <3>4. CASE Unwanted(s) = {}
      <4>1. links' = links /\ moved' = moved
        BY <1>1, <3>4 DEF RemoveTags
      <4>2. QED
        BY <4>1, <3>1, <1>b, SaveStands DEF TagsInv, LinksOf
    <3>5. QED
      BY <3>2, <3>3, <3>4
  <2>6. QED
    BY <2>1, <2>4, <2>5, <1>b, <1>a DEF TagsInv
<1>2. CASE AddTag(s, at)
  <2>1. PICK t \in busy[s] \cap Known : Land(at[s], t) /\ busy' = [busy EXCEPT ![s] = @ \ {t}]
    BY <1>2 DEF AddTag
  <2>2. /\ UNCHANGED <<step, held>> /\ t \in Topic /\ step[s] = "adding"
        /\ moved' = [x \in Saver |-> moved[x] \/ (x \notin {s} /\ at[x] = at[s])]
    BY <1>2, <2>1, <1>a, <1>c DEF AddTag, WroteTags, TagInv
  <2>3. PICK new : /\ new.topic = t /\ LinksOf(at[s])' = LinksOf(at[s]) \cup {new}
                   /\ \A other : other # at[s] => {link \in links' : link.item = other} = LinksOf(other)
    <3>1. PICK item \in Item : item = at[s]
      BY <1>b
    <3>2. PICK new : /\ new.topic = t /\ LinksOf(item)' = LinksOf(item) \cup {new}
                     /\ \A other : other # item => LinksOf(other)' = LinksOf(other)
      BY <2>1, <2>2, <3>1, OneMore
    <3>3. QED
      BY <3>1, <3>2, <1>b DEF LinksOf
  <2>4. moved'[s] = moved[s] /\ busy'[s] = busy[s] \ {t}
    BY <2>1, <2>2, <1>a
  <2>5. ASSUME ~moved'[s] PROVE SavedSoFar(s)'
    <3>1. /\ SavedSoFar(s) /\ t \in busy[s] /\ busy[s] \subseteq choice[s]
          /\ TagsOf(at[s]) = choice[s] \ busy[s]
      BY <2>1, <2>2, <2>4, <2>5, <1>c DEF TagInv, SavedSoFar
    <3>2. TagsOf(at[s])' = TagsOf(at[s]) \cup {t}
      BY <2>3 DEF TagsOf
    <3>3. TagsOf(at[s])' = choice[s] \ (busy[s] \ {t})
      BY <3>1, <3>2
    <3>4. \A link \in LinksOf(at[s]) : link.topic \in TagsOf(at[s]) /\ link.topic # t
      BY <3>1 DEF TagsOf
    <3>5. ASSUME NEW link \in LinksOf(at[s])' \ held[s], NEW other \in LinksOf(at[s])' \ {link}
          PROVE  other.topic # link.topic
      BY <3>1, <3>4, <3>5, <2>3 DEF SavedSoFar
    <3>6. QED
      BY <3>1, <3>3, <3>5, <2>2, <2>4, <1>b DEF SavedSoFar
  <2>6. TagInv(s)'
    BY <2>2, <2>5, <1>b, <1>c DEF TagInv
  <2>7. ASSUME NEW x \in Saver, x # s PROVE TagInv(x)'
    <3>1. busy'[x] = busy[x] /\ moved'[x] = (moved[x] \/ at[x] = at[s])
      BY <2>1, <2>2, <2>7, <1>a
    <3>2. at[x] # at[s] => LinksOf(at[x])' = LinksOf(at[x]) /\ moved'[x] = moved[x]
      BY <2>3, <3>1, <1>b, <1>a DEF LinksOf
    <3>3. QED
      BY <3>1, <3>2, <2>2, <1>b, SaveStands DEF TagsInv
  <2>8. QED
    BY <2>2, <2>6, <2>7, <1>b DEF TagsInv
<1>3. CASE FinishTags(s)
  <2>1. /\ UNCHANGED <<links, held, busy, moved>> /\ step[s] = "adding" /\ busy[s] = {} /\ step'[s] = "saved"
    BY <1>3, <1>a DEF FinishTags
  <2>2. SavedSoFar(s)' <=> SavedSoFar(s)
    BY <2>1, <1>b DEF SavedSoFar, TagsOf, LinksOf
  <2>3. TagInv(s)'
    BY <2>1, <2>2, <1>b, <1>c DEF TagInv
  <2>4. ASSUME NEW x \in Saver, x # s PROVE TagInv(x)' /\ step'[x] = step[x]
    <3>1. step'[x] = step[x]
      BY <1>3, <2>4, <1>a DEF FinishTags
    <3>2. QED
      BY <3>1, <2>1, <1>b, SaveStands DEF TagsInv, LinksOf
  <2>5. QED
    BY <2>1, <2>3, <2>4, <1>b, <1>a DEF TagsInv
<1>4. CASE RefuseTag(s, at, {i \in Item : Live(i)}) \/ RefuseSave(s)
  <2>1. /\ UNCHANGED <<links, moved>> /\ step'[s] = "idle" /\ held'[s] = {} /\ busy'[s] = {}
        /\ \A x \in Saver : x # s => step'[x] = step[x] /\ held'[x] = held[x] /\ busy'[x] = busy[x]
    BY <1>4, <1>a, <1>c DEF RefuseTag, RefuseSave, Idle, TagInv
  <2>2. \A x \in Saver : x # s => TagInv(x)'
    BY <2>1, <1>b, SaveStands DEF TagsInv, LinksOf
  <2>3. QED
    BY <2>1, <2>2, <1>b, <1>a, IdleStands DEF TagsInv
<1>5. CASE AddLate(s, at, {i \in Item : Live(i)})
  <2>1. UNCHANGED <<step, held, busy>>
    BY <1>5 DEF AddLate
  <2>2. PICK tag \in late[s] :
            IF tag[1] \in {i \in Item : Live(i)} /\ tag[2] \in Known
            THEN Land(tag[1], tag[2]) /\ WroteTags(tag[1], {}, at)
            ELSE UNCHANGED <<links, moved>>
    BY <1>5 DEF AddLate
  <2>3. ASSUME NEW x \in Saver PROVE moved'[x] \/ (moved'[x] = moved[x] /\ LinksOf(at[x])' = LinksOf(at[x]))
    <3>1. CASE UNCHANGED <<links, moved>>
      BY <3>1, <1>b DEF LinksOf
    <3>2. CASE Land(tag[1], tag[2]) /\ WroteTags(tag[1], {}, at)
      <4>1. PICK item \in Item, t \in Topic : item = tag[1] /\ t = tag[2]
        BY <1>a
      <4>2. \A other : other # item => {link \in links' : link.item = other} = LinksOf(other)
        BY <3>2, <4>1, OneMore DEF LinksOf
      <4>3. moved'[x] = (moved[x] \/ at[x] = item)
        BY <3>2, <4>1, <1>a DEF WroteTags
      <4>4. at[x] # item => LinksOf(at[x])' = LinksOf(at[x])
        BY <4>2, <1>b DEF LinksOf
      <4>5. QED
        BY <4>3, <4>4, <1>a
    <3>3. QED
      BY <2>2, <3>1, <3>2
  <2>4. \A x \in Saver : TagInv(x)'
    BY <2>1, <2>3, <1>b, SaveStands DEF TagsInv
  <2>5. QED
    BY <2>1, <2>4, <1>b DEF TagsInv
<1>6. QED
  BY <1>1, <1>2, <1>3, <1>4, <1>5 DEF Tag, SaveTags

\* The picker, and the button that begins editing, forget a save that has ended.
LEMMA PickTags ==
    ASSUME Types, TagsInv, NEW s \in Saver, Pick(s) \/ Edit(s)
    PROVE  TagsInv'
<1>a. /\ step \in [Saver -> Step] /\ held \in [Saver -> SUBSET Link] /\ choice \in [Saver -> SUBSET Topic]
      /\ Adder \subseteq Saver
  BY DocumentsAssumption DEF Types, TypeOK, TopicsTypeOK
<1>1. /\ UNCHANGED <<links, busy, moved, at, adding>> /\ ~Saving(s) /\ step'[s] = "idle" /\ held'[s] = {}
      /\ \A x \in Saver : x # s => step'[x] = step[x] /\ held'[x] = held[x] /\ choice'[x] = choice[x]
  <2>1. CASE Pick(s)
    BY <2>1, <1>a DEF Pick, Choose, Idle, ownVars, dialogVars
  <2>2. CASE Edit(s)
    BY <2>2, <1>a DEF Edit, Idle, ownVars, dialogVars
  <2>3. QED
    BY <2>1, <2>2
<1>2. busy'[s] = {}
  BY <1>1, <1>a DEF TagsInv, TagInv, Saving, Step
<1>3. \A x \in Saver : x # s => TagInv(x)'
  BY <1>1, SaveStands DEF TagsInv, LinksOf
<1>4. TagInv(s)'
  BY <1>1, <1>2, IdleStands
<1>5. QED
  BY <1>1, <1>3, <1>4, <1>a DEF TagsInv

\* What a dialog does: it tags what it has filed, and picks topics with no save under way.
LEMMA DialogTags ==
    ASSUME Types, TagsInv, NEW d \in Adder, Dialog(d)
    PROVE  TagsInv'
<1>a. /\ step \in [Saver -> Step] /\ held \in [Saver -> SUBSET Link] /\ adding \in [Adder ->
            {"form", "uploading", "creating", "linking", "tagging"}]
      /\ choice \in [Saver -> SUBSET Topic] /\ at \in [Saver -> Item \cup {None}] /\ d \in Saver
  BY DocumentsAssumption DEF Types, TypeOK, TopicsTypeOK, DocumentsTypeOK
<1>1. CASE BeginAdd(d) \/ Upload(d) \/ LinkPage(d) \/ AddFails(d)
  <2>1. /\ UNCHANGED <<links, choice, step, held, busy, moved, at>>
        /\ \A x \in Adder : adding'[x] = adding[x] \/ step[x] = "idle"
    <3>1. CASE BeginAdd(d) \/ LinkPage(d)
      BY <3>1, <1>a DEF BeginAdd, LinkPage, topicVars, tagVars, saveVars, dialogVars, TagsInv
    <3>2. CASE Upload(d)
      BY <3>2, <1>a DEF Upload, topicVars, tagVars, saveVars, TagsInv
    <3>3. CASE AddFails(d)
      BY <3>3, <1>a DEF AddFails, tagVars, saveVars, TagsInv
    <3>4. QED
      BY <1>1, <3>1, <3>2, <3>3
  <2>2. QED
    BY <2>1, TagsStand
<1>2. CASE CreateDocument(d)
  <2>1. /\ UNCHANGED <<links, choice, step, held, busy, moved>> /\ step[d] = "idle"
        /\ \A x \in Saver : x # d => at'[x] = at[x]
        /\ \A x \in Adder : x # d => adding'[x] = adding[x]
    BY <1>2, <1>a DEF CreateDocument, topicVars, tagVars, saveVars, TagsInv
  <2>2. TagInv(d)'
    BY <2>1, <1>a, IdleStands DEF TagsInv, TagInv
  <2>3. ASSUME NEW x \in Saver, x # d PROVE TagInv(x)'
    BY <2>1, <2>3, SaveStands DEF TagsInv, LinksOf
  <2>4. QED
    BY <2>1, <2>2, <2>3 DEF TagsInv
<1>3. CASE StartReading(d)
  <2>1. /\ at[d] # None /\ UNCHANGED at /\ adding[d] = "linking"
        /\ \A x \in Adder : x # d => adding'[x] = adding[x]
    BY <1>3, <1>a DEF StartReading, Types, AddingInv
  <2>2. CASE choice[d] = {}
    <3>1. UNCHANGED <<links, choice, step, held, busy, moved, at>> /\ step[d] = "idle"
      BY <1>3, <2>1, <2>2 DEF StartReading, topicVars, tagVars, saveVars, TagsInv
    <3>2. QED
      BY <3>1, <2>1, TagsStand
  <2>3. CASE choice[d] # {}
    <3>1. ReadTags(d, at[d]) /\ adding'[d] = "tagging"
      BY <1>3, <2>3, <1>a DEF StartReading
    <3>2. QED
      BY <3>1, <2>1, <1>a, ReadTagsStand
  <2>4. QED
    BY <2>2, <2>3
<1>4. CASE EndAdd(d)
  <2>1. /\ UNCHANGED <<links, busy, moved, at>> /\ ~Saving(d)
        /\ \A x \in Adder : x # d => adding'[x] = adding[x]
        /\ \A x \in Saver : x # d => step'[x] = step[x] /\ held'[x] = held[x] /\ choice'[x] = choice[x]
    BY <1>4, <1>a DEF EndAdd, Idle
  <2>2. \A x \in Saver : x # d => TagInv(x)'
    BY <2>1, SaveStands DEF TagsInv, LinksOf
  <2>3. step'[d] = "idle" /\ held'[d] = {} /\ busy'[d] = {}
    <3>1. TagInv(d) /\ step[d] \in {"idle", "saved"}
      BY <2>1, <1>a DEF TagsInv, Saving, Step
    <3>2. busy[d] = {} /\ (step[d] = "idle" => held[d] = {})
      BY <3>1 DEF TagInv
    <3>3. QED
      BY <1>4, <2>1, <3>1, <3>2, <1>a DEF EndAdd, Idle
  <2>4. TagInv(d)'
    BY <2>3, <1>a, IdleStands
  <2>5. QED
    BY <2>1, <2>2, <2>3, <2>4, DocumentsAssumption DEF TagsInv
<1>5. CASE Pick(d)
  BY <1>5, <1>a, PickTags
<1>6. QED
  BY <1>1, <1>2, <1>3, <1>4, <1>5 DEF Dialog, Filing

\* What the page of an item does: opened, it saves nothing yet; deleting the item disturbs
\* every save of it.
LEMMA PageTags ==
    ASSUME Types, TagsInv, NEW v \in Reader, MaterialPage(v)
    PROVE  TagsInv'
<1>a. /\ step \in [Saver -> Step] /\ held \in [Saver -> SUBSET Link] /\ choice \in [Saver -> SUBSET Topic]
      /\ moved \in [Saver -> BOOLEAN] /\ at \in [Saver -> Item \cup {None}]
      /\ v \in Saver /\ v \notin Adder /\ Adder \subseteq Saver /\ None \notin Item
  BY DocumentsAssumption, TopicsAssumption DEF Types, TypeOK, TopicsTypeOK, DocumentsTypeOK
<1>1. CASE Open(v)
  <2>1. /\ UNCHANGED <<links, step, held, busy, moved, adding>> /\ at[v] = None
        /\ \A x \in Saver : x # v => at'[x] = at[x] /\ choice'[x] = choice[x]
    BY <1>1, <1>a DEF Open, dialogVars
  <2>2. step[v] = "idle" /\ held[v] = {} /\ busy[v] = {}
    BY <2>1, <1>a DEF TagsInv, TagInv
  <2>3. TagInv(v)'
    BY <2>1, <2>2, <1>a, IdleStands
  <2>4. \A x \in Saver : x # v => TagInv(x)'
    BY <2>1, SaveStands DEF TagsInv, LinksOf
  <2>5. QED
    BY <2>1, <2>3, <2>4 DEF TagsInv
<1>2. CASE Fetch(v) \/ Retry(v) \/ DeleteFile(v)
  <2>1. UNCHANGED <<links, choice, step, held, busy, moved, at, adding>>
    BY <1>2 DEF Fetch, Retry, DeleteFile, topicVars, tagVars, saveVars, dialogVars
  <2>2. QED
    BY <2>1, TagsStand
<1>3. CASE Edit(v) \/ Pick(v)
  BY <1>3, <1>a, PickTags
<1>4. CASE SaveField(v)
  <2>1. at[v] # None /\ ReadTags(v, at[v]) /\ UNCHANGED <<at, adding>>
    BY <1>4 DEF SaveField, Live, ownVars, dialogVars
  <2>2. QED
    BY <2>1, <1>a, ReadTagsStand
<1>5. CASE DeleteDocument(v)
  <2>1. /\ UNCHANGED <<choice, step, held, busy, at, adding>> /\ links' = links \ LinksOf(at[v])
        /\ moved' = [s \in Saver |-> moved[s] \/ at[s] = at[v]]
    BY <1>5 DEF DeleteDocument, dialogVars
  <2>2. ASSUME NEW x \in Saver PROVE TagInv(x)'
    <3>1. CASE at[x] = at[v]
      BY <3>1, <2>1, SaveStands DEF TagsInv
    <3>2. CASE at[x] # at[v]
      <4>1. LinksOf(at[x])' = LinksOf(at[x]) /\ moved'[x] = moved[x]
        BY <3>2, <2>1, <1>a DEF LinksOf
      <4>2. QED
        BY <4>1, <2>1, SaveStands DEF TagsInv
    <3>3. QED
      BY <3>1, <3>2
  <2>3. QED
    BY <2>1, <2>2 DEF TagsInv
<1>6. QED
  BY <1>1, <1>2, <1>3, <1>4, <1>5 DEF MaterialPage, Poll, Refetch

\* A save nobody wrote under leaves the item tagged with exactly the topics chosen, and a
\* topic it added once, whatever failed before it or lands meanwhile.
THEOREM TagsChosen == Spec => []TagsAreTheChoice
<1>1. Init => TagsInv
  BY DocumentsAssumption DEF Init, TopicsInit, DocumentsInit, TagsInv, TagInv
<1>2. Types /\ TagsInv /\ [Next]_vars => TagsInv'
  <2> SUFFICES ASSUME Types, TagsInv, [Next]_vars PROVE TagsInv'
    OBVIOUS
  <2>1. ASSUME NEW a \in Actor, Act(a) PROVE TagsInv'
    <3>1. CASE a \in Editor /\ EditTopics(a) /\ UNCHANGED <<ownVars, blobVars>>
      BY <3>1, EditTags
    <3>2. CASE a \in Saver /\ Tag(a)
      BY <3>2, SaveTagsStand
    <3>3. CASE a \in Adder /\ Dialog(a)
      BY <3>3, DialogTags
    <3>4. CASE a \in Reader /\ MaterialPage(a)
      BY <3>4, PageTags
    <3>5. CASE a \in Task /\ (Run(a) \/ CutShort(a))
      <4>1. UNCHANGED <<links, choice, step, held, busy, moved, at, adding>>
        BY <3>5 DEF Run, Begin, StoreText, StoreFailure, CutShort, topicVars, tagVars, saveVars, dialogVars
      <4>2. QED
        BY <4>1, TagsStand
    <3>6. CASE Look(a)
      BY <3>6, TagsStand DEF Look, documentVars, topicVars, tagVars, saveVars, ownVars, dialogVars
    <3>7. QED
      BY <2>1, <3>1, <3>2, <3>3, <3>4, <3>5, <3>6 DEF Act
  <2>2. CASE UNCHANGED vars
    BY <2>2, TagsStand DEF vars, documentVars, topicVars, tagVars, saveVars, ownVars, dialogVars
  <2>3. QED
    BY <2>1, <2>2 DEF Next
<1>3. TagsInv => TagsAreTheChoice
  BY DEF TagsInv, TagInv, SavedSoFar, TagsAreTheChoice
<1>4. QED
  BY <1>1, <1>2, <1>3, AlwaysTyped, PTL DEF Spec
===============================================================================
