---------------------------- MODULE HomeworkProofs ----------------------------
(***************************************************************************)
(* What Homework guarantees for any number of tabs, pages and agents.  Two *)
(* arguments carry it.  A request nobody has written under still holds     *)
(* what the row holds (SourceHeld, PhotoHeld).  And every upload is a file *)
(* of its own (PhotosApart): what a tab is about to link nobody has seen,  *)
(* and what it is about to delete nobody can have linked again, so a       *)
(* removal that was under way when the homework was handed in deletes      *)
(* nothing that was handed in.                                             *)
(***************************************************************************)
EXTENDS Homework, TLAPS

SourceHeld(o) ==
    /\ at[o] = "compiling" => heldSource[o] \in Sources
    /\ ~moved[o] =>
        /\ at[o] = "compiling" => heldSource[o] = content
        /\ at[o] = "compiled" => \/ pdf = content /\ error = None
                                 \/ error = content

PhotoHeld(o) ==
    ~moved[o] =>
        /\ at[o] = "reading" => heldFile[o] = file
        /\ at[o] = "read" => transcription = file

Attaching == {"uploaded", "unlinked"}

PhotosApart ==
    /\ file # None => file \in uploads
    /\ \A t \in Tabs : seen[t].file # None => seen[t].file \in uploads
    /\ \A t \in Tabs : at[t] \in Attaching => heldFile[t] \in uploads /\ heldFile[t] # file
    /\ \A t, u \in Tabs : at[t] = "uploaded" => seen[u].file # heldFile[t]
    /\ \A t, u \in Tabs :
          at[t] = "uploaded" /\ at[u] \in Attaching /\ t # u => heldFile[u] # heldFile[t]

HandedIn == submittedAt /\ ~reopened => status \in {"submitted", "marked", "deleted"}

IInv ==
    /\ TypeOK
    /\ MarkedHasMarks
    /\ HandedIn
    /\ \A o \in Ops : SourceHeld(o) /\ PhotoHeld(o)
    /\ PhotosApart

LEMMA InitEstablishes == ASSUME Init PROVE IInv
<1> USE HomeworkAssumption DEF Init
<1>1. TypeOK
  BY DEF TypeOK, Fetched, Assigned, View, StudentView, Status, Stage
<1>2. MarkedHasMarks /\ HandedIn
  BY DEF MarkedHasMarks, HandedIn
<1>3. ASSUME NEW o \in Ops PROVE SourceHeld(o) /\ PhotoHeld(o)
  BY DEF SourceHeld, PhotoHeld
<1>4. PhotosApart
  BY DEF PhotosApart, Attaching, Assigned, Ops
<1> QED BY <1>1, <1>2, <1>3, <1>4 DEF IInv

LEMMA CompilePreserves == ASSUME NEW o \in Pages \cup Compilers, IInv, Compile(o) PROVE IInv'
<1> USE HomeworkAssumption
    DEF IInv, GoTo, Wrote, WroteSource, WroteFile, Live, MayWrite, rowVars, sourceVars,
        handInVars, requestVars, pageVars, tabVars
<1>1. CASE BeginCompile(o)
  <2>1. TypeOK'
    BY <1>1 DEF BeginCompile, TypeOK, Ops, Stage
  <2>2. MarkedHasMarks' /\ HandedIn'
    BY <1>1 DEF BeginCompile, TypeOK, MarkedHasMarks, HandedIn
  <2>3. ASSUME NEW x \in Ops PROVE SourceHeld(x)' /\ PhotoHeld(x)'
    BY <1>1 DEF BeginCompile, TypeOK, Ops, SourceHeld, PhotoHeld
  <2>4. PhotosApart'
    BY <1>1 DEF BeginCompile, TypeOK, Ops, PhotosApart, Attaching
  <2> QED BY <2>1, <2>2, <2>3, <2>4
<1>2. CASE StorePdf(o)
  <2>1. TypeOK'
    BY <1>2 DEF StorePdf, TypeOK, Ops, Stage
  <2>2. MarkedHasMarks' /\ HandedIn'
    BY <1>2 DEF StorePdf, TypeOK, MarkedHasMarks, HandedIn
  <2>3. ASSUME NEW x \in Ops PROVE SourceHeld(x)' /\ PhotoHeld(x)'
    BY <1>2 DEF StorePdf, TypeOK, Ops, SourceHeld, PhotoHeld
  <2>4. PhotosApart'
    BY <1>2 DEF StorePdf, TypeOK, Ops, PhotosApart, Attaching
  <2> QED BY <2>1, <2>2, <2>3, <2>4
<1>3. CASE StoreCompileError(o)
  <2>1. TypeOK'
    BY <1>3 DEF StoreCompileError, TypeOK, Ops, Stage
  <2>2. MarkedHasMarks' /\ HandedIn'
    BY <1>3 DEF StoreCompileError, TypeOK, MarkedHasMarks, HandedIn
  <2>3. ASSUME NEW x \in Ops PROVE SourceHeld(x)' /\ PhotoHeld(x)'
    BY <1>3 DEF StoreCompileError, TypeOK, Ops, SourceHeld, PhotoHeld
  <2>4. PhotosApart'
    BY <1>3 DEF StoreCompileError, TypeOK, Ops, PhotosApart, Attaching
  <2> QED BY <2>1, <2>2, <2>3, <2>4
<1> QED BY <1>1, <1>2, <1>3 DEF Compile

LEMMA TranscribePreserves == ASSUME NEW o \in Ops, IInv, Transcribe(o) PROVE IInv'
<1> USE HomeworkAssumption
    DEF IInv, GoTo, Wrote, WroteSource, WroteFile, Live, MayWrite, rowVars, sourceVars,
        handInVars, requestVars, pageVars, tabVars
<1>1. CASE BeginRead(o)
  <2>1. TypeOK'
    BY <1>1 DEF BeginRead, Photo, TypeOK, Ops, Stage
  <2>2. MarkedHasMarks' /\ HandedIn'
    BY <1>1 DEF BeginRead, Photo, TypeOK, MarkedHasMarks, HandedIn
  <2>3. ASSUME NEW x \in Ops PROVE SourceHeld(x)' /\ PhotoHeld(x)'
    BY <1>1 DEF BeginRead, Photo, TypeOK, Ops, SourceHeld, PhotoHeld
  <2>4. PhotosApart'
    BY <1>1 DEF BeginRead, Photo, TypeOK, Ops, PhotosApart, Attaching
  <2> QED BY <2>1, <2>2, <2>3, <2>4
<1>2. CASE StoreTranscription(o)
  <2>1. TypeOK'
    BY <1>2 DEF StoreTranscription, TypeOK, Ops, Stage
  <2>2. MarkedHasMarks' /\ HandedIn'
    BY <1>2 DEF StoreTranscription, TypeOK, MarkedHasMarks, HandedIn
  <2>3. ASSUME NEW x \in Ops PROVE SourceHeld(x)' /\ PhotoHeld(x)'
    BY <1>2 DEF StoreTranscription, TypeOK, Ops, SourceHeld, PhotoHeld
  <2>4. PhotosApart'
    BY <1>2 DEF StoreTranscription, TypeOK, Ops, PhotosApart, Attaching
  <2> QED BY <2>1, <2>2, <2>3, <2>4
<1> QED BY <1>1, <1>2 DEF Transcribe

LEMMA PagePreserves == ASSUME NEW p \in Pages, IInv, Page(p) PROVE IInv'
<1> USE HomeworkAssumption
    DEF IInv, GoTo, Wrote, WroteSource, WroteFile, Live, MayWrite, rowVars, sourceVars,
        handInVars, requestVars, pageVars, tabVars
<1>1. CASE EditSource(p)
  <2>1. TypeOK'
    BY <1>1 DEF EditSource, TypeOK, Ops, Stage
  <2>2. MarkedHasMarks' /\ HandedIn'
    BY <1>1 DEF EditSource, TypeOK, MarkedHasMarks, HandedIn
  <2>3. ASSUME NEW x \in Ops PROVE SourceHeld(x)' /\ PhotoHeld(x)'
    BY <1>1 DEF EditSource, TypeOK, Ops, SourceHeld, PhotoHeld
  <2>4. PhotosApart'
    BY <1>1 DEF EditSource, TypeOK, Ops, PhotosApart, Attaching
  <2> QED BY <2>1, <2>2, <2>3, <2>4
<1>2. CASE SaveSource(p)
  <2>1. TypeOK'
    BY <1>2 DEF SaveSource, TypeOK, Ops, Stage
  <2>2. MarkedHasMarks' /\ HandedIn'
    BY <1>2 DEF SaveSource, TypeOK, MarkedHasMarks, HandedIn
  <2>3. ASSUME NEW x \in Ops PROVE SourceHeld(x)' /\ PhotoHeld(x)'
    BY <1>2 DEF SaveSource, TypeOK, Ops, SourceHeld, PhotoHeld
  <2>4. PhotosApart'
    BY <1>2 DEF SaveSource, TypeOK, Ops, PhotosApart, Attaching
  <2> QED BY <2>1, <2>2, <2>3, <2>4
<1>3. CASE Refetch(p)
  <2>1. TypeOK'
    BY <1>3 DEF Refetch, Fetched, Followed, Rebuilt, Filled, TypeOK, Ops, View, StudentView
  <2>2. MarkedHasMarks' /\ HandedIn'
    BY <1>3 DEF Refetch, Fetched, Followed, Rebuilt, Filled, TypeOK, MarkedHasMarks,
       HandedIn
  <2>3. ASSUME NEW x \in Ops PROVE SourceHeld(x)' /\ PhotoHeld(x)'
    BY <1>3 DEF Refetch, Fetched, Followed, Rebuilt, Filled, TypeOK, Ops, SourceHeld,
       PhotoHeld
  <2>4. PhotosApart'
    BY <1>3 DEF Refetch, Fetched, Followed, Rebuilt, Filled, TypeOK, Ops, PhotosApart,
       Attaching
  <2> QED BY <2>1, <2>2, <2>3, <2>4
<1>4. CASE Advance(p)
  <2>1. TypeOK'
    BY <1>4 DEF Advance, Panel, Fetched, TypeOK, Ops, Status, Stage
  <2>2. MarkedHasMarks' /\ HandedIn'
    BY <1>4 DEF Advance, Panel, Fetched, TypeOK, MarkedHasMarks, HandedIn
  <2>3. ASSUME NEW x \in Ops PROVE SourceHeld(x)' /\ PhotoHeld(x)'
    BY <1>4 DEF Advance, Panel, Fetched, TypeOK, Ops, SourceHeld, PhotoHeld
  <2>4. PhotosApart'
    BY <1>4 DEF Advance, Panel, Fetched, TypeOK, Ops, PhotosApart, Attaching
  <2> QED BY <2>1, <2>2, <2>3, <2>4
<1>5. CASE TypeMarks(p)
  <2>1. TypeOK'
    BY <1>5 DEF TypeMarks, TypeOK, Ops, Stage
  <2>2. MarkedHasMarks' /\ HandedIn'
    BY <1>5 DEF TypeMarks, TypeOK, MarkedHasMarks, HandedIn
  <2>3. ASSUME NEW x \in Ops PROVE SourceHeld(x)' /\ PhotoHeld(x)'
    BY <1>5 DEF TypeMarks, TypeOK, Ops, SourceHeld, PhotoHeld
  <2>4. PhotosApart'
    BY <1>5 DEF TypeMarks, TypeOK, Ops, PhotosApart, Attaching
  <2> QED BY <2>1, <2>2, <2>3, <2>4
<1>6. CASE SaveMarks(p)
  <2>1. TypeOK'
    BY <1>6 DEF SaveMarks, TypeOK, Ops, Stage
  <2>2. MarkedHasMarks' /\ HandedIn'
    BY <1>6 DEF SaveMarks, TypeOK, MarkedHasMarks, HandedIn
  <2>3. ASSUME NEW x \in Ops PROVE SourceHeld(x)' /\ PhotoHeld(x)'
    BY <1>6 DEF SaveMarks, TypeOK, Ops, SourceHeld, PhotoHeld
  <2>4. PhotosApart'
    BY <1>6 DEF SaveMarks, TypeOK, Ops, PhotosApart, Attaching
  <2> QED BY <2>1, <2>2, <2>3, <2>4
<1>7. CASE FinishMarking(p)
  <2>1. TypeOK'
    BY <1>7 DEF FinishMarking, TypeOK, Ops, Status, Stage
  <2>2. MarkedHasMarks' /\ HandedIn'
    BY <1>7 DEF FinishMarking, TypeOK, MarkedHasMarks, HandedIn
  <2>3. ASSUME NEW x \in Ops PROVE SourceHeld(x)' /\ PhotoHeld(x)'
    BY <1>7 DEF FinishMarking, TypeOK, Ops, SourceHeld, PhotoHeld
  <2>4. PhotosApart'
    BY <1>7 DEF FinishMarking, TypeOK, Ops, PhotosApart, Attaching
  <2> QED BY <2>1, <2>2, <2>3, <2>4
<1> QED BY <1>1, <1>2, <1>3, <1>4, <1>5, <1>6, <1>7 DEF Page

LEMMA TabPreserves == ASSUME NEW t \in Tabs, IInv, Tab(t) PROVE IInv'
<1> USE HomeworkAssumption
    DEF IInv, GoTo, Wrote, WroteSource, WroteFile, Live, MayWrite, rowVars, sourceVars,
        handInVars, requestVars, pageVars, tabVars
<1>1. CASE OpenTab(t)
  <2>1. TypeOK'
    BY <1>1 DEF OpenTab, Assigned, TypeOK, Ops, View, StudentView
  <2>2. MarkedHasMarks' /\ HandedIn'
    BY <1>1 DEF OpenTab, Assigned, TypeOK, MarkedHasMarks, HandedIn
  <2>3. ASSUME NEW x \in Ops PROVE SourceHeld(x)' /\ PhotoHeld(x)'
    BY <1>1 DEF OpenTab, Assigned, TypeOK, Ops, SourceHeld, PhotoHeld
  <2>4. PhotosApart'
    BY <1>1 DEF OpenTab, Assigned, TypeOK, Ops, PhotosApart, Attaching
  <2> QED BY <2>1, <2>2, <2>3, <2>4
<1>2. CASE RefetchTab(t)
  <2>1. TypeOK'
    BY <1>2 DEF RefetchTab, Assigned, TypeOK, Ops, View, StudentView
  <2>2. MarkedHasMarks' /\ HandedIn'
    BY <1>2 DEF RefetchTab, Assigned, TypeOK, MarkedHasMarks, HandedIn
  <2>3. ASSUME NEW x \in Ops PROVE SourceHeld(x)' /\ PhotoHeld(x)'
    BY <1>2 DEF RefetchTab, Assigned, TypeOK, Ops, SourceHeld, PhotoHeld
  <2>4. PhotosApart'
    BY <1>2 DEF RefetchTab, Assigned, TypeOK, Ops, PhotosApart, Attaching
  <2> QED BY <2>1, <2>2, <2>3, <2>4
<1>3. CASE Type(t)
  <2>1. TypeOK'
    BY <1>3 DEF Type, TypeOK, Ops, Stage
  <2>2. MarkedHasMarks' /\ HandedIn'
    BY <1>3 DEF Type, TypeOK, MarkedHasMarks, HandedIn
  <2>3. ASSUME NEW x \in Ops PROVE SourceHeld(x)' /\ PhotoHeld(x)'
    BY <1>3 DEF Type, TypeOK, Ops, SourceHeld, PhotoHeld
  <2>4. PhotosApart'
    BY <1>3 DEF Type, TypeOK, Ops, PhotosApart, Attaching
  <2> QED BY <2>1, <2>2, <2>3, <2>4
<1>4. CASE SaveAnswers(t)
  <2>1. TypeOK'
    BY <1>4 DEF SaveAnswers, TypeOK, Ops, Stage
  <2>2. MarkedHasMarks' /\ HandedIn'
    BY <1>4 DEF SaveAnswers, TypeOK, MarkedHasMarks, HandedIn
  <2>3. ASSUME NEW x \in Ops PROVE SourceHeld(x)' /\ PhotoHeld(x)'
    BY <1>4 DEF SaveAnswers, TypeOK, Ops, SourceHeld, PhotoHeld
  <2>4. PhotosApart'
    BY <1>4 DEF SaveAnswers, TypeOK, Ops, PhotosApart, Attaching
  <2> QED BY <2>1, <2>2, <2>3, <2>4
<1>5. CASE HandIn(t)
  <2>1. TypeOK'
    BY <1>5 DEF HandIn, TypeOK, Ops, Status, Stage
  <2>2. MarkedHasMarks' /\ HandedIn'
    BY <1>5 DEF HandIn, TypeOK, MarkedHasMarks, HandedIn
  <2>3. ASSUME NEW x \in Ops PROVE SourceHeld(x)' /\ PhotoHeld(x)'
    BY <1>5 DEF HandIn, TypeOK, Ops, SourceHeld, PhotoHeld
  <2>4. PhotosApart'
    BY <1>5 DEF HandIn, TypeOK, Ops, PhotosApart, Attaching
  <2> QED BY <2>1, <2>2, <2>3, <2>4
<1>6. ASSUME NEW f \in Photos, UploadPhoto(t, f) PROVE IInv'
  <2>1. TypeOK'
    BY <1>6 DEF UploadPhoto, TypeOK, Ops, Stage
  <2>2. MarkedHasMarks' /\ HandedIn'
    BY <1>6 DEF UploadPhoto, TypeOK, MarkedHasMarks, HandedIn
  <2>3. ASSUME NEW x \in Ops PROVE SourceHeld(x)' /\ PhotoHeld(x)'
    BY <1>6 DEF UploadPhoto, TypeOK, Ops, SourceHeld, PhotoHeld
  <2>4. PhotosApart'
    BY <1>6 DEF UploadPhoto, TypeOK, Ops, PhotosApart, Attaching
  <2> QED BY <2>1, <2>2, <2>3, <2>4
<1>7. CASE LinkPhoto(t)
  <2>1. TypeOK'
    BY <1>7 DEF LinkPhoto, TypeOK, Ops, Stage
  <2>2. MarkedHasMarks' /\ HandedIn'
    BY <1>7 DEF LinkPhoto, TypeOK, MarkedHasMarks, HandedIn
  <2>3. ASSUME NEW x \in Ops PROVE SourceHeld(x)' /\ PhotoHeld(x)'
    BY <1>7 DEF LinkPhoto, TypeOK, Ops, SourceHeld, PhotoHeld
  <2>4. PhotosApart'
    BY <1>7 DEF LinkPhoto, TypeOK, Ops, PhotosApart, Attaching
  <2> QED BY <2>1, <2>2, <2>3, <2>4
<1>8. CASE UnlinkPhoto(t)
  <2>1. TypeOK'
    BY <1>8 DEF UnlinkPhoto, TypeOK, Ops, Stage, StudentView
  <2>2. MarkedHasMarks' /\ HandedIn'
    BY <1>8 DEF UnlinkPhoto, TypeOK, MarkedHasMarks, HandedIn
  <2>3. ASSUME NEW x \in Ops PROVE SourceHeld(x)' /\ PhotoHeld(x)'
    BY <1>8 DEF UnlinkPhoto, TypeOK, Ops, SourceHeld, PhotoHeld
  <2>4. PhotosApart'
    BY <1>8 DEF UnlinkPhoto, TypeOK, Ops, PhotosApart, Attaching
  <2> QED BY <2>1, <2>2, <2>3, <2>4
<1>9. CASE DeletePhoto(t)
  <2>1. TypeOK'
    BY <1>9 DEF DeletePhoto, TypeOK, Ops, Stage
  <2>2. MarkedHasMarks' /\ HandedIn'
    BY <1>9 DEF DeletePhoto, TypeOK, MarkedHasMarks, HandedIn
  <2>3. ASSUME NEW x \in Ops PROVE SourceHeld(x)' /\ PhotoHeld(x)'
    BY <1>9 DEF DeletePhoto, TypeOK, Ops, SourceHeld, PhotoHeld, PhotosApart, Attaching
  <2>4. PhotosApart'
    BY <1>9 DEF DeletePhoto, TypeOK, Ops, PhotosApart, Attaching
  <2> QED BY <2>1, <2>2, <2>3, <2>4
<1> QED BY <1>1, <1>2, <1>3, <1>4, <1>5, <1>6, <1>7, <1>8, <1>9 DEF Tab

LEMMA FailPreserves == ASSUME NEW o \in Ops, IInv, Fail(o) PROVE IInv'
<1> USE HomeworkAssumption
    DEF IInv, GoTo, Wrote, WroteSource, WroteFile, Live, MayWrite, rowVars, sourceVars,
        handInVars, requestVars, pageVars, tabVars
<1>1. TypeOK'
  BY Fail(o) DEF Fail, Busy, TypeOK, Ops, Stage
<1>2. MarkedHasMarks' /\ HandedIn'
  BY Fail(o) DEF Fail, Busy, TypeOK, MarkedHasMarks, HandedIn
<1>3. ASSUME NEW x \in Ops PROVE SourceHeld(x)' /\ PhotoHeld(x)'
  BY Fail(o) DEF Fail, Busy, TypeOK, Ops, SourceHeld, PhotoHeld
<1>4. PhotosApart'
  BY Fail(o) DEF Fail, Busy, TypeOK, Ops, PhotosApart, Attaching
<1> QED BY <1>1, <1>2, <1>3, <1>4

LEMMA MarkPreserves == ASSUME IInv, MarkHomework PROVE IInv'
<1> USE HomeworkAssumption
    DEF IInv, GoTo, Wrote, WroteSource, WroteFile, Live, MayWrite, rowVars, sourceVars,
        handInVars, requestVars, pageVars, tabVars
<1>1. TypeOK'
  BY MarkHomework DEF MarkHomework, TypeOK, Ops, Status, Stage
<1>2. MarkedHasMarks' /\ HandedIn'
  BY MarkHomework DEF MarkHomework, TypeOK, MarkedHasMarks, HandedIn
<1>3. ASSUME NEW x \in Ops PROVE SourceHeld(x)' /\ PhotoHeld(x)'
  BY MarkHomework DEF MarkHomework, TypeOK, Ops, SourceHeld, PhotoHeld
<1>4. PhotosApart'
  BY MarkHomework DEF MarkHomework, TypeOK, Ops, PhotosApart, Attaching
<1> QED BY <1>1, <1>2, <1>3, <1>4

LEMMA DeletePreserves == ASSUME IInv, DeletePaper \/ DeleteHomework PROVE IInv'
<1> USE HomeworkAssumption
    DEF IInv, GoTo, Wrote, WroteSource, WroteFile, Live, MayWrite, rowVars, sourceVars,
        handInVars, requestVars, pageVars, tabVars
<1>1. TypeOK'
  BY DEF DeletePaper, DeleteHomework, TypeOK, Ops, Status, Stage
<1>2. MarkedHasMarks' /\ HandedIn'
  BY DEF DeletePaper, DeleteHomework, TypeOK, MarkedHasMarks, HandedIn
<1>3. ASSUME NEW x \in Ops PROVE SourceHeld(x)' /\ PhotoHeld(x)'
  BY DEF DeletePaper, DeleteHomework, TypeOK, Ops, SourceHeld, PhotoHeld
<1>4. PhotosApart'
  BY DEF DeletePaper, DeleteHomework, TypeOK, Ops, PhotosApart, Attaching
<1> QED BY <1>1, <1>2, <1>3, <1>4

LEMMA NextPreserves == ASSUME IInv, [Next]_vars PROVE IInv'
<1>1. CASE Next
  BY <1>1, CompilePreserves, TranscribePreserves, PagePreserves, TabPreserves, FailPreserves,
     MarkPreserves, DeletePreserves DEF Next
<1>2. CASE UNCHANGED vars
  BY <1>2 DEF vars, rowVars, sourceVars, handInVars, requestVars, pageVars, tabVars, IInv, TypeOK,
     MarkedHasMarks, HandedIn, SourceHeld, PhotoHeld, PhotosApart
<1> QED BY <1>1, <1>2

LEMMA Invariance == Spec => []IInv
<1>1. Init => IInv
  BY InitEstablishes
<1>2. IInv /\ [Next]_vars => IInv'
  BY NextPreserves
<1> QED BY <1>1, <1>2, PTL DEF Spec

\* Every variable keeps its type, whoever acts on what.
THEOREM TypeCorrect == Spec => []TypeOK
<1>1. IInv => TypeOK
  BY DEF IInv
<1> QED BY Invariance, <1>1, PTL

\* A homework is never marked without its marks.
THEOREM MarksComeWithTheStatus == Spec => []MarkedHasMarks
<1>1. IInv => MarkedHasMarks
  BY DEF IInv
<1> QED BY Invariance, <1>1, PTL

\* A compilation nobody wrote under is of the source the row holds.
THEOREM UndisturbedCompilesHold == Spec => []CompiledIsTheSource
<1>1. IInv => CompiledIsTheSource
  BY DEF IInv, SourceHeld, CompiledIsTheSource, Ops
<1> QED BY Invariance, <1>1, PTL

\* A transcription nobody wrote under is of the photo the row holds.
THEOREM UndisturbedReadsHold == Spec => []ReadIsOfThePhoto
<1>1. IInv => ReadIsOfThePhoto
  BY DEF IInv, PhotoHeld, ReadIsOfThePhoto
<1> QED BY Invariance, <1>1, PTL

\* What a student handed in stays as it was, whatever their tabs had under way, until a
\* page assigns the homework again.
THEOREM HandInsAreFinal == Spec => AnswersAreFrozen
<1> DEFINE Frozen == submittedAt /\ ~reopened => UNCHANGED <<submission, file>>
<1>1. IInv /\ Next => Frozen
  <2> SUFFICES ASSUME IInv, Next, submittedAt, ~reopened
               PROVE  UNCHANGED <<submission, file>>
    OBVIOUS
  <2> USE DEF rowVars, sourceVars, handInVars
  <2>1. ~MayWrite
    BY DEF IInv, HandedIn, MayWrite
  <2>2. ASSUME NEW o \in Ops, Compile(o) \/ Transcribe(o) \/ Fail(o)
        PROVE  UNCHANGED <<submission, file>>
    BY <2>2 DEF Compile, BeginCompile, StorePdf, StoreCompileError, Transcribe, BeginRead,
       StoreTranscription, Fail
  <2>3. ASSUME NEW p \in Pages, Page(p) PROVE UNCHANGED <<submission, file>>
    BY <2>3 DEF Page, EditSource, SaveSource, Refetch, Advance, TypeMarks, SaveMarks,
       FinishMarking
  <2>4. ASSUME NEW t \in Tabs, Tab(t) PROVE UNCHANGED <<submission, file>>
    <3>1. CASE DeletePhoto(t)
      BY <3>1 DEF DeletePhoto, IInv, PhotosApart, Attaching
    <3>2. CASE ~DeletePhoto(t)
      BY <2>1, <2>4, <3>2 DEF Tab, OpenTab, RefetchTab, Type, SaveAnswers, HandIn, UploadPhoto,
         LinkPhoto, UnlinkPhoto
    <3> QED BY <3>1, <3>2
  <2>5. CASE MarkHomework \/ DeletePaper \/ DeleteHomework
    BY <2>5 DEF MarkHomework, DeletePaper, DeleteHomework
  <2> QED BY <2>2, <2>3, <2>4, <2>5 DEF Next, Ops
<1>2. IInv /\ [Next]_vars => [Frozen]_vars
  BY <1>1
<1> QED BY Invariance, <1>2, PTL DEF Spec, AnswersAreFrozen

\* A tutor's unsaved source is never thrown away.
THEOREM UnsavedSourceStays == Spec => UnsavedSourceIsKept
<1> DEFINE Kept == \A p \in Pages :
      draft[p] # shown[p].content /\ draft'[p] # draft[p] => EditSource(p)
<1>1. IInv /\ Next => Kept
  <2> SUFFICES ASSUME IInv, Next, NEW p \in Pages, draft[p] # shown[p].content,
                      draft'[p] # draft[p]
               PROVE  EditSource(p)
    OBVIOUS
  <2> USE DEF pageVars
  <2>1. PICK q \in Pages : EditSource(q) \/ Refetch(q)
    BY DEF Next, Compile, BeginCompile, StorePdf, StoreCompileError, Transcribe, BeginRead,
       StoreTranscription, Fail, Page, SaveSource, Advance, TypeMarks, SaveMarks, FinishMarking,
       MarkHomework, DeletePaper, DeleteHomework, Tab, OpenTab, RefetchTab, Type, SaveAnswers,
       HandIn, UploadPhoto, LinkPhoto, UnlinkPhoto, DeletePhoto
  <2>2. q = p
    BY <2>1 DEF EditSource, Refetch, IInv, TypeOK
  <2>3. ~Refetch(p)
    BY DEF Refetch, Followed, IInv, TypeOK
  <2> QED BY <2>1, <2>2, <2>3
<1>2. IInv /\ [Next]_vars => [Kept]_vars
  BY <1>1
<1> QED BY Invariance, <1>2, PTL DEF Spec, UnsavedSourceIsKept

\* The questions a row was set with go and do not come back: a page that shows none has
\* nothing to lose.
QuestionsOnlyGo == \A p \in Pages : asked => shown[p].asked

LEMMA QuestionsGoOnce == Spec => []QuestionsOnlyGo
<1>1. Init => QuestionsOnlyGo
  BY DEF Init, Fetched, QuestionsOnlyGo
<1>2. ASSUME IInv, QuestionsOnlyGo, [Next]_vars PROVE QuestionsOnlyGo'
  <2>1. CASE Next
    <3>1. CASE \E p \in Pages : Refetch(p)
      BY <1>2, <3>1 DEF Refetch, Fetched, QuestionsOnlyGo, IInv, TypeOK, rowVars
    <3>2. CASE DeletePaper
      BY <3>2 DEF DeletePaper, QuestionsOnlyGo
    <3>3. CASE ~DeletePaper /\ ~\E p \in Pages : Refetch(p)
      <4>1. UNCHANGED <<asked, shown>>
        BY <2>1, <3>3 DEF Next, Compile, BeginCompile, StorePdf, StoreCompileError, Transcribe,
           BeginRead, StoreTranscription, Fail, Page, EditSource, SaveSource, Advance, TypeMarks,
           SaveMarks, FinishMarking, MarkHomework, DeleteHomework, Tab, OpenTab, RefetchTab, Type,
           SaveAnswers, HandIn, UploadPhoto, LinkPhoto, UnlinkPhoto, DeletePhoto, rowVars, pageVars
      <4> QED BY <1>2, <4>1 DEF QuestionsOnlyGo
    <3> QED BY <3>1, <3>2, <3>3
  <2>2. CASE UNCHANGED vars
    BY <1>2, <2>2 DEF vars, rowVars, pageVars, QuestionsOnlyGo
  <2> QED BY <1>2, <2>1, <2>2
<1> QED BY <1>1, <1>2, Invariance, PTL DEF Spec

\* Marks typed into an open panel stay until the row has been given others, or has lost
\* the questions they are for.
THEOREM TypedMarksStay == Spec => TypedMarksGoOnlyForNewOnes
<1> DEFINE Kept == \A p \in Pages :
      Panel(shown[p]) /\ Panel(shown'[p]) /\ marks'[p] # marks[p] =>
          \/ TypeMarks(p)
          \/ marking # shown[p].marking
          \/ shown[p].asked /\ ~asked
<1>1. IInv /\ QuestionsOnlyGo /\ Next => Kept
  <2> SUFFICES ASSUME IInv, QuestionsOnlyGo, Next, NEW p \in Pages, Panel(shown[p]),
                      Panel(shown'[p]),
                      marks'[p] # marks[p], marking = shown[p].marking,
                      shown[p].asked => asked
               PROVE  TypeMarks(p)
    OBVIOUS
  <2> USE DEF pageVars
  <2>1. PICK q \in Pages : TypeMarks(q) \/ Refetch(q)
    BY DEF Next, Compile, BeginCompile, StorePdf, StoreCompileError, Transcribe, BeginRead,
       StoreTranscription, Fail, Page, EditSource, SaveSource, Advance, SaveMarks, FinishMarking,
       MarkHomework, DeletePaper, DeleteHomework, Tab, OpenTab, RefetchTab, Type, SaveAnswers,
       HandIn, UploadPhoto, LinkPhoto, UnlinkPhoto, DeletePhoto
  <2>2. q = p
    BY <2>1 DEF TypeMarks, Refetch, IInv, TypeOK
  <2>3. asked = shown[p].asked
    <3>1. asked \in BOOLEAN /\ shown[p].asked \in BOOLEAN
      BY DEF IInv, TypeOK, View
    <3> QED BY <3>1 DEF QuestionsOnlyGo
  <2>4. ~Refetch(p)
    BY <2>3 DEF Refetch, Rebuilt, Panel, Fetched, IInv, TypeOK
  <2> QED BY <2>1, <2>2, <2>4
<1>2. IInv /\ QuestionsOnlyGo /\ [Next]_vars => [Kept]_vars
  BY <1>1
<1> QED BY Invariance, QuestionsGoOnce, <1>2, PTL DEF Spec, TypedMarksGoOnlyForNewOnes

===============================================================================
