----------------------------- MODULE PapersProofs -----------------------------
(***************************************************************************)
(* What Papers guarantees for any structures, schemes, questions, requests *)
(* and pages.  Every write tells the other operations apart from its own:  *)
(* one that has not been written under still holds what the row holds      *)
(* (ReadInv for requests, ExtractInv for the extraction), and that is all  *)
(* the properties of an undisturbed operation need.  The PDFs need no such *)
(* condition: source and PDF travel in one patch (PrintInv).               *)
(***************************************************************************)
EXTENDS Papers, TLAPS

PrintInv ==
    /\ row = "absent" => paperPdf = None /\ schemePdf = None /\ filed = {}
    /\ PdfsShowWhatIsStored

\* What a stored scheme read by r says of the row.
HoldsScheme ==
    scheme # None /\ schemePdf = scheme /\ warning # "scheme"

ReadInv(r) ==
    ~moved[r] =>
        /\ at[r] \in {"rendering", "reading"} =>
              heldStructure[r] = structure /\ heldScheme[r] = scheme /\ heldWarning[r] = warning
        /\ at[r] \in {"listing", "refreshing"} => HoldsScheme /\ heldScheme[r] = scheme
        /\ at[r] = "refreshing" =>
              \A n \in (filed \cap Answers[scheme]) \ todo[r] : answer[n] = scheme
        /\ at[r] = "refreshed" =>
              HoldsScheme /\ \A n \in filed \cap Answers[scheme] : answer[n] = scheme

Printed ==
    \/ paperPdf = structure /\ schemePdf = scheme
    \/ paperPdf = None /\ schemePdf = None /\ warning = "render"

ExtractInv ==
    /\ row = "absent" => at[Extraction] = "idle"
    /\ at[Extraction] \in {"filed", "linking"} => heldStructure[Extraction] # None
    /\ ~moved[Extraction] =>
        /\ at[Extraction] \in {"filed", "linking", "writing", "extracted"} =>
              structure # None /\ (scheme # None => Answers[scheme] = Asks[structure])
        /\ at[Extraction] \in {"filed", "linking"} =>
              /\ heldStructure[Extraction] = structure
              /\ heldScheme[Extraction] = scheme
              /\ filed = {} /\ paperPdf = None /\ schemePdf = None
        /\ at[Extraction] = "writing" =>
              /\ heldScheme[Extraction] = scheme
              /\ filed = Asks[structure] \ todo[Extraction]
              /\ todo[Extraction] \subseteq Asks[structure]
        /\ at[Extraction] \in {"writing", "extracted"} =>
              Printed /\ \A n \in filed : answer[n] = scheme
        /\ at[Extraction] = "extracted" => filed = Asks[structure]

IInv ==
    /\ TypeOK
    /\ PrintInv
    /\ \A r \in Requests : ReadInv(r)
    /\ ExtractInv
    /\ FreshPagesShowTheRow

LEMMA InitEstablishes == ASSUME Init PROVE IInv
<1> USE PapersAssumption DEF Init, Ops
<1>1. TypeOK
  BY DEF TypeOK, Stage, Draft, Blank
<1>2. PrintInv
  BY DEF PrintInv, PdfsShowWhatIsStored
<1>3. ASSUME NEW r \in Requests PROVE ReadInv(r)
  BY DEF ReadInv
<1>4. ExtractInv
  BY DEF ExtractInv
<1>5. FreshPagesShowTheRow
  BY DEF FreshPagesShowTheRow
<1> QED BY <1>1, <1>2, <1>3, <1>4, <1>5 DEF IInv

LEMMA ExtractPreserves == ASSUME IInv, Extract PROVE IInv'
<1> USE PapersAssumption
    DEF IInv, Ops, GoTo, MovedBy, Touched, Forget, rowVars, questionVars, workVars, pageVars,
        deletionVars
<1>1. ASSUME NEW s \in Structures, NEW m \in Schemes \cup {None}, NEW w \in {"none", "scheme"},
             FilePaper(s, m, w)
      PROVE  IInv'
  <2>1. TypeOK'
    BY <1>1 DEF FilePaper, TypeOK, Stage, Draft
  <2>2. PrintInv'
    BY <1>1 DEF FilePaper, TypeOK, PrintInv, PdfsShowWhatIsStored
  <2>3. ASSUME NEW x \in Requests PROVE ReadInv(x)'
    BY <1>1 DEF FilePaper, TypeOK, ReadInv, HoldsScheme, PrintInv
  <2>4. ExtractInv'
    BY <1>1 DEF FilePaper, TypeOK, ExtractInv, Printed, PrintInv
  <2>5. FreshPagesShowTheRow'
    BY <1>1 DEF FilePaper, TypeOK, FreshPagesShowTheRow, Stored, Draft
  <2> QED BY <2>1, <2>2, <2>3, <2>4, <2>5
<1>2. CASE ReadBack
  <2>1. TypeOK'
    BY <1>2 DEF ReadBack, TypeOK, Stage, Draft
  <2>2. PrintInv'
    BY <1>2 DEF ReadBack, TypeOK, PrintInv, PdfsShowWhatIsStored
  <2>3. ASSUME NEW x \in Requests PROVE ReadInv(x)'
    BY <1>2 DEF ReadBack, TypeOK, ReadInv, HoldsScheme, PrintInv
  <2>4. ExtractInv'
    BY <1>2 DEF ReadBack, TypeOK, ExtractInv, Printed, PrintInv
  <2>5. FreshPagesShowTheRow'
    BY <1>2 DEF ReadBack, TypeOK, FreshPagesShowTheRow, Stored, Draft
  <2> QED BY <2>1, <2>2, <2>3, <2>4, <2>5
<1>3. ASSUME NEW s \in Structures, NEW m \in Schemes \cup {None},
             StorePdfs(s, m)
      PROVE  IInv'
  <2>1. TypeOK'
    BY <1>3 DEF StorePdfs, PrintedStructure, PrintedScheme, Repaired, RepairedScheme,
       TypeOK, Stage, Draft
  <2>2. PrintInv'
    BY <1>3 DEF StorePdfs, PrintedStructure, PrintedScheme, Repaired, RepairedScheme,
       TypeOK, PrintInv, PdfsShowWhatIsStored
  <2>3. ASSUME NEW x \in Requests PROVE ReadInv(x)'
    BY <1>3 DEF StorePdfs, PrintedStructure, PrintedScheme, Repaired, RepairedScheme,
       TypeOK, ReadInv, HoldsScheme, PrintInv
  <2>4. ExtractInv'
    BY <1>3 DEF StorePdfs, PrintedStructure, PrintedScheme, Repaired, RepairedScheme,
       TypeOK, ExtractInv, Printed, PrintInv
  <2>5. FreshPagesShowTheRow'
    BY <1>3 DEF StorePdfs, PrintedStructure, PrintedScheme, Repaired, RepairedScheme,
       TypeOK, FreshPagesShowTheRow, Stored, Draft
  <2> QED BY <2>1, <2>2, <2>3, <2>4, <2>5
<1>4. CASE StoreWarning
  <2>1. TypeOK'
    <3>1. Asks[heldStructure[Extraction]] \subseteq Numbers
      BY <1>4 DEF StoreWarning, TypeOK, ExtractInv
    <3> QED BY <1>4, <3>1 DEF StoreWarning, TypeOK, Stage
  <2>2. PrintInv'
    BY <1>4 DEF StoreWarning, TypeOK, PrintInv, PdfsShowWhatIsStored
  <2>3. ASSUME NEW x \in Requests PROVE ReadInv(x)'
    BY <1>4 DEF StoreWarning, TypeOK, ReadInv, HoldsScheme, PrintInv
  <2>4. ExtractInv'
    BY <1>4 DEF StoreWarning, TypeOK, ExtractInv, Printed, PrintInv
  <2>5. FreshPagesShowTheRow'
    BY <1>4 DEF StoreWarning, TypeOK, FreshPagesShowTheRow, Stored, Draft
  <2> QED BY <2>1, <2>2, <2>3, <2>4, <2>5
<1>5. ASSUME NEW n \in Numbers,
             WriteQuestion(n)
      PROVE  IInv'
  <2>1. TypeOK'
    BY <1>5 DEF WriteQuestion, Slice, TypeOK, Stage, Draft
  <2>2. PrintInv'
    BY <1>5 DEF WriteQuestion, Slice, TypeOK, PrintInv, PdfsShowWhatIsStored
  <2>3. ASSUME NEW x \in Requests PROVE ReadInv(x)'
    BY <1>5 DEF WriteQuestion, Slice, TypeOK, ReadInv, HoldsScheme, PrintInv
  <2>4. ExtractInv'
    BY <1>5 DEF WriteQuestion, Slice, TypeOK, ExtractInv, Printed, PrintInv
  <2>5. FreshPagesShowTheRow'
    BY <1>5 DEF WriteQuestion, Slice, TypeOK, FreshPagesShowTheRow, Stored, Draft
  <2> QED BY <2>1, <2>2, <2>3, <2>4, <2>5
<1>6. CASE FinishExtraction
  <2>1. TypeOK'
    BY <1>6 DEF FinishExtraction, TypeOK, Stage, Draft
  <2>2. PrintInv'
    BY <1>6 DEF FinishExtraction, TypeOK, PrintInv, PdfsShowWhatIsStored
  <2>3. ASSUME NEW x \in Requests PROVE ReadInv(x)'
    BY <1>6 DEF FinishExtraction, TypeOK, ReadInv, HoldsScheme, PrintInv
  <2>4. ExtractInv'
    BY <1>6 DEF FinishExtraction, TypeOK, ExtractInv, Printed, PrintInv
  <2>5. FreshPagesShowTheRow'
    BY <1>6 DEF FinishExtraction, TypeOK, FreshPagesShowTheRow, Stored, Draft
  <2> QED BY <2>1, <2>2, <2>3, <2>4, <2>5
<1> QED BY <1>1, <1>2, <1>3, <1>4, <1>5, <1>6 DEF Extract

LEMMA RenderPreserves == ASSUME NEW r \in Requests, IInv, Render(r) PROVE IInv'
<1> USE PapersAssumption
    DEF IInv, Ops, GoTo, MovedBy, Touched, Forget, rowVars, questionVars, workVars, pageVars,
        deletionVars
<1>1. CASE BeginRender(r)
  <2>1. TypeOK'
    BY <1>1 DEF BeginRender, ReadRow, TypeOK, Stage, Draft
  <2>2. PrintInv'
    BY <1>1 DEF BeginRender, ReadRow, TypeOK, PrintInv, PdfsShowWhatIsStored
  <2>3. ASSUME NEW x \in Requests PROVE ReadInv(x)'
    BY <1>1 DEF BeginRender, ReadRow, TypeOK, ReadInv, HoldsScheme, PrintInv
  <2>4. ExtractInv'
    BY <1>1 DEF BeginRender, ReadRow, TypeOK, ExtractInv, Printed, PrintInv
  <2>5. FreshPagesShowTheRow'
    BY <1>1 DEF BeginRender, ReadRow, TypeOK, FreshPagesShowTheRow, Stored, Draft
  <2> QED BY <2>1, <2>2, <2>3, <2>4, <2>5
<1>2. ASSUME NEW s \in Structures, NEW m \in Schemes \cup {None},
             StoreRender(r, s, m)
      PROVE  IInv'
  <2>1. TypeOK'
    BY <1>2 DEF StoreRender, PrintedStructure, PrintedScheme, Repaired, RepairedScheme,
       StoredScheme, TypeOK, Stage, Draft
  <2>2. PrintInv'
    BY <1>2 DEF StoreRender, PrintedStructure, PrintedScheme, Repaired, RepairedScheme,
       StoredScheme, TypeOK, PrintInv, PdfsShowWhatIsStored
  <2>3. ASSUME NEW x \in Requests PROVE ReadInv(x)'
    BY <1>2 DEF StoreRender, PrintedStructure, PrintedScheme, Repaired, RepairedScheme,
       StoredScheme, TypeOK, ReadInv, HoldsScheme, PrintInv
  <2>4. ExtractInv'
    BY <1>2 DEF StoreRender, PrintedStructure, PrintedScheme, Repaired, RepairedScheme,
       StoredScheme, TypeOK, ExtractInv, Printed, PrintInv
  <2>5. FreshPagesShowTheRow'
    BY <1>2 DEF StoreRender, PrintedStructure, PrintedScheme, Repaired, RepairedScheme,
       StoredScheme, TypeOK, FreshPagesShowTheRow, Stored, Draft
  <2> QED BY <2>1, <2>2, <2>3, <2>4, <2>5
<1> QED BY <1>1, <1>2 DEF Render

LEMMA ReadSchemePreserves == ASSUME NEW r \in Requests, IInv, ReadScheme(r) PROVE IInv'
<1> USE PapersAssumption
    DEF IInv, Ops, GoTo, MovedBy, Touched, Forget, rowVars, questionVars, workVars, pageVars,
        deletionVars
<1>1. CASE BeginRead(r)
  <2>1. TypeOK'
    BY <1>1 DEF BeginRead, ReadRow, TypeOK, Stage, Draft
  <2>2. PrintInv'
    BY <1>1 DEF BeginRead, ReadRow, TypeOK, PrintInv, PdfsShowWhatIsStored
  <2>3. ASSUME NEW x \in Requests PROVE ReadInv(x)'
    BY <1>1 DEF BeginRead, ReadRow, TypeOK, ReadInv, HoldsScheme, PrintInv
  <2>4. ExtractInv'
    BY <1>1 DEF BeginRead, ReadRow, TypeOK, ExtractInv, Printed, PrintInv
  <2>5. FreshPagesShowTheRow'
    BY <1>1 DEF BeginRead, ReadRow, TypeOK, FreshPagesShowTheRow, Stored, Draft
  <2> QED BY <2>1, <2>2, <2>3, <2>4, <2>5
<1>2. ASSUME NEW m \in Schemes,
             StoreRead(r, m)
      PROVE  IInv'
  <2>1. TypeOK'
    BY <1>2 DEF StoreRead, TypeOK, Stage, Draft
  <2>2. PrintInv'
    BY <1>2 DEF StoreRead, TypeOK, PrintInv, PdfsShowWhatIsStored
  <2>3. ASSUME NEW x \in Requests PROVE ReadInv(x)'
    BY <1>2 DEF StoreRead, TypeOK, ReadInv, HoldsScheme, PrintInv
  <2>4. ExtractInv'
    BY <1>2 DEF StoreRead, TypeOK, ExtractInv, Printed, PrintInv
  <2>5. FreshPagesShowTheRow'
    BY <1>2 DEF StoreRead, TypeOK, FreshPagesShowTheRow, Stored, Draft
  <2> QED BY <2>1, <2>2, <2>3, <2>4, <2>5
<1>3. CASE ListQuestions(r)
  <2>1. TypeOK'
    BY <1>3 DEF ListQuestions, ToRefresh, TypeOK, Stage, Draft
  <2>2. PrintInv'
    BY <1>3 DEF ListQuestions, ToRefresh, TypeOK, PrintInv, PdfsShowWhatIsStored
  <2>3. ASSUME NEW x \in Requests PROVE ReadInv(x)'
    BY <1>3 DEF ListQuestions, ToRefresh, TypeOK, ReadInv, HoldsScheme, PrintInv
  <2>4. ExtractInv'
    BY <1>3 DEF ListQuestions, ToRefresh, TypeOK, ExtractInv, Printed, PrintInv
  <2>5. FreshPagesShowTheRow'
    BY <1>3 DEF ListQuestions, ToRefresh, TypeOK, FreshPagesShowTheRow, Stored, Draft
  <2> QED BY <2>1, <2>2, <2>3, <2>4, <2>5
<1>4. ASSUME NEW n \in Numbers,
             RefreshQuestion(r, n)
      PROVE  IInv'
  <2>1. TypeOK'
    BY <1>4 DEF RefreshQuestion, Slice, TypeOK, Stage, Draft
  <2>2. PrintInv'
    BY <1>4 DEF RefreshQuestion, Slice, TypeOK, PrintInv, PdfsShowWhatIsStored
  <2>3. ASSUME NEW x \in Requests PROVE ReadInv(x)'
    BY <1>4 DEF RefreshQuestion, Slice, TypeOK, ReadInv, HoldsScheme, PrintInv
  <2>4. ExtractInv'
    BY <1>4 DEF RefreshQuestion, Slice, TypeOK, ExtractInv, Printed, PrintInv
  <2>5. FreshPagesShowTheRow'
    BY <1>4 DEF RefreshQuestion, Slice, TypeOK, FreshPagesShowTheRow, Stored, Draft
  <2> QED BY <2>1, <2>2, <2>3, <2>4, <2>5
<1>5. CASE FinishRead(r)
  <2>1. TypeOK'
    BY <1>5 DEF FinishRead, TypeOK, Stage, Draft
  <2>2. PrintInv'
    BY <1>5 DEF FinishRead, TypeOK, PrintInv, PdfsShowWhatIsStored
  <2>3. ASSUME NEW x \in Requests PROVE ReadInv(x)'
    BY <1>5 DEF FinishRead, TypeOK, ReadInv, HoldsScheme, PrintInv
  <2>4. ExtractInv'
    BY <1>5 DEF FinishRead, TypeOK, ExtractInv, Printed, PrintInv
  <2>5. FreshPagesShowTheRow'
    BY <1>5 DEF FinishRead, TypeOK, FreshPagesShowTheRow, Stored, Draft
  <2> QED BY <2>1, <2>2, <2>3, <2>4, <2>5
<1> QED BY <1>1, <1>2, <1>3, <1>4, <1>5 DEF ReadScheme

LEMMA FailPreserves == ASSUME NEW o \in Ops, IInv, Fail(o) PROVE IInv'
<1> USE PapersAssumption
    DEF IInv, Ops, GoTo, MovedBy, Touched, Forget, rowVars, questionVars, workVars, pageVars,
        deletionVars
<1>1. TypeOK'
  BY Fail(o) DEF Fail, Busy, TypeOK, Stage, Draft
<1>2. PrintInv'
  BY Fail(o) DEF Fail, Busy, TypeOK, PrintInv, PdfsShowWhatIsStored
<1>3. ASSUME NEW x \in Requests PROVE ReadInv(x)'
  BY Fail(o) DEF Fail, Busy, TypeOK, ReadInv, HoldsScheme, PrintInv
<1>4. ExtractInv'
  BY Fail(o) DEF Fail, Busy, TypeOK, ExtractInv, Printed, PrintInv
<1>5. FreshPagesShowTheRow'
  BY Fail(o) DEF Fail, Busy, TypeOK, FreshPagesShowTheRow, Stored, Draft
<1> QED BY <1>1, <1>2, <1>3, <1>4, <1>5

LEMMA PagePreserves == ASSUME NEW e \in Editors, IInv, Page(e) PROVE IInv'
<1> USE PapersAssumption
    DEF IInv, Ops, GoTo, MovedBy, Touched, Forget, rowVars, questionVars, workVars, pageVars,
        deletionVars
<1>1. CASE Refetch(e)
  <2>1. TypeOK'
    BY <1>1 DEF Refetch, Stored, TypeOK, Stage, Draft
  <2>2. PrintInv'
    BY <1>1 DEF Refetch, Stored, TypeOK, PrintInv, PdfsShowWhatIsStored
  <2>3. ASSUME NEW x \in Requests PROVE ReadInv(x)'
    BY <1>1 DEF Refetch, Stored, TypeOK, ReadInv, HoldsScheme, PrintInv
  <2>4. ExtractInv'
    BY <1>1 DEF Refetch, Stored, TypeOK, ExtractInv, Printed, PrintInv
  <2>5. FreshPagesShowTheRow'
    BY <1>1 DEF Refetch, Stored, TypeOK, FreshPagesShowTheRow, Stored, Draft
  <2> QED BY <2>1, <2>2, <2>3, <2>4, <2>5
<1>2. CASE Edit(e)
  <2>1. TypeOK'
    BY <1>2 DEF Edit, TypeOK, Stage, Draft
  <2>2. PrintInv'
    BY <1>2 DEF Edit, TypeOK, PrintInv, PdfsShowWhatIsStored
  <2>3. ASSUME NEW x \in Requests PROVE ReadInv(x)'
    BY <1>2 DEF Edit, TypeOK, ReadInv, HoldsScheme, PrintInv
  <2>4. ExtractInv'
    BY <1>2 DEF Edit, TypeOK, ExtractInv, Printed, PrintInv
  <2>5. FreshPagesShowTheRow'
    BY <1>2 DEF Edit, TypeOK, FreshPagesShowTheRow, Stored, Draft
  <2> QED BY <2>1, <2>2, <2>3, <2>4, <2>5
<1>3. CASE Discard(e)
  <2>1. TypeOK'
    BY <1>3 DEF Discard, Dirty, TypeOK, Stage, Draft
  <2>2. PrintInv'
    BY <1>3 DEF Discard, Dirty, TypeOK, PrintInv, PdfsShowWhatIsStored
  <2>3. ASSUME NEW x \in Requests PROVE ReadInv(x)'
    BY <1>3 DEF Discard, Dirty, TypeOK, ReadInv, HoldsScheme, PrintInv
  <2>4. ExtractInv'
    BY <1>3 DEF Discard, Dirty, TypeOK, ExtractInv, Printed, PrintInv
  <2>5. FreshPagesShowTheRow'
    BY <1>3 DEF Discard, Dirty, TypeOK, FreshPagesShowTheRow, Stored, Draft
  <2> QED BY <2>1, <2>2, <2>3, <2>4, <2>5
<1>4. CASE Save(e)
  <2>1. TypeOK'
    BY <1>4 DEF Save, Dirty, TypeOK, Stage, Draft
  <2>2. PrintInv'
    BY <1>4 DEF Save, Dirty, TypeOK, PrintInv, PdfsShowWhatIsStored
  <2>3. ASSUME NEW x \in Requests PROVE ReadInv(x)'
    BY <1>4 DEF Save, Dirty, TypeOK, ReadInv, HoldsScheme, PrintInv
  <2>4. ExtractInv'
    BY <1>4 DEF Save, Dirty, TypeOK, ExtractInv, Printed, PrintInv
  <2>5. FreshPagesShowTheRow'
    BY <1>4 DEF Save, Dirty, TypeOK, FreshPagesShowTheRow, Stored, Draft
  <2> QED BY <2>1, <2>2, <2>3, <2>4, <2>5
<1> QED BY <1>1, <1>2, <1>3, <1>4 DEF Page

LEMMA DeletePreserves == ASSUME IInv, Delete PROVE IInv'
<1> USE PapersAssumption
    DEF IInv, Ops, GoTo, MovedBy, Touched, Forget, rowVars, questionVars, workVars, pageVars,
        deletionVars
<1>1. CASE ListDoomed
  <2>1. TypeOK'
    BY <1>1 DEF ListDoomed, TypeOK, Stage, Draft
  <2>2. PrintInv'
    BY <1>1 DEF ListDoomed, TypeOK, PrintInv, PdfsShowWhatIsStored
  <2>3. ASSUME NEW x \in Requests PROVE ReadInv(x)'
    BY <1>1 DEF ListDoomed, TypeOK, ReadInv, HoldsScheme, PrintInv
  <2>4. ExtractInv'
    BY <1>1 DEF ListDoomed, TypeOK, ExtractInv, Printed, PrintInv
  <2>5. FreshPagesShowTheRow'
    BY <1>1 DEF ListDoomed, TypeOK, FreshPagesShowTheRow, Stored, Draft
  <2> QED BY <2>1, <2>2, <2>3, <2>4, <2>5
<1>2. CASE DeleteQuestions
  <2>1. TypeOK'
    BY <1>2 DEF DeleteQuestions, TypeOK, Stage, Draft
  <2>2. PrintInv'
    BY <1>2 DEF DeleteQuestions, TypeOK, PrintInv, PdfsShowWhatIsStored
  <2>3. ASSUME NEW x \in Requests PROVE ReadInv(x)'
    BY <1>2 DEF DeleteQuestions, TypeOK, ReadInv, HoldsScheme, PrintInv
  <2>4. ExtractInv'
    BY <1>2 DEF DeleteQuestions, TypeOK, ExtractInv, Printed, PrintInv
  <2>5. FreshPagesShowTheRow'
    BY <1>2 DEF DeleteQuestions, TypeOK, FreshPagesShowTheRow, Stored, Draft
  <2> QED BY <2>1, <2>2, <2>3, <2>4, <2>5
<1>3. CASE DeletePaper
  <2>1. TypeOK'
    BY <1>3 DEF DeletePaper, TypeOK, Stage, Draft
  <2>2. PrintInv'
    BY <1>3 DEF DeletePaper, TypeOK, PrintInv, PdfsShowWhatIsStored
  <2>3. ASSUME NEW x \in Requests PROVE ReadInv(x)'
    BY <1>3 DEF DeletePaper, TypeOK, ReadInv, HoldsScheme, PrintInv
  <2>4. ExtractInv'
    BY <1>3 DEF DeletePaper, TypeOK, ExtractInv, Printed, PrintInv
  <2>5. FreshPagesShowTheRow'
    BY <1>3 DEF DeletePaper, TypeOK, FreshPagesShowTheRow, Stored, Draft
  <2> QED BY <2>1, <2>2, <2>3, <2>4, <2>5
<1>4. CASE DeletionFails
  <2>1. TypeOK'
    BY <1>4 DEF DeletionFails, TypeOK, Stage, Draft
  <2>2. PrintInv'
    BY <1>4 DEF DeletionFails, TypeOK, PrintInv, PdfsShowWhatIsStored
  <2>3. ASSUME NEW x \in Requests PROVE ReadInv(x)'
    BY <1>4 DEF DeletionFails, TypeOK, ReadInv, HoldsScheme, PrintInv
  <2>4. ExtractInv'
    BY <1>4 DEF DeletionFails, TypeOK, ExtractInv, Printed, PrintInv
  <2>5. FreshPagesShowTheRow'
    BY <1>4 DEF DeletionFails, TypeOK, FreshPagesShowTheRow, Stored, Draft
  <2> QED BY <2>1, <2>2, <2>3, <2>4, <2>5
<1> QED BY <1>1, <1>2, <1>3, <1>4 DEF Delete

LEMMA StutterPreserves == IInv /\ UNCHANGED vars => IInv'
BY DEF IInv, vars, rowVars, questionVars, workVars, pageVars, deletionVars, TypeOK, PrintInv,
   PdfsShowWhatIsStored, ReadInv, HoldsScheme, ExtractInv, Printed, FreshPagesShowTheRow, Stored

LEMMA NextPreserves == IInv /\ [Next]_vars => IInv'
BY ExtractPreserves, RenderPreserves, ReadSchemePreserves, FailPreserves, PagePreserves,
   DeletePreserves, StutterPreserves DEF Next

LEMMA Invariance == Spec => []IInv
<1>1. Init => IInv
  BY InitEstablishes
<1>2. IInv /\ [Next]_vars => IInv'
  BY NextPreserves
<1> QED BY <1>1, <1>2, PTL DEF Spec

-------------------------------------------------------------------------------
(***************************************************************************)
(* The properties.                                                         *)
(***************************************************************************)

\* Row, operations and pages keep their types: a repair hands back the kind of
\* document it was given, and no scheme is stored where a structure goes.
THEOREM TypeCorrect == Spec => []TypeOK
<1>1. IInv => TypeOK
  BY DEF IInv
<1> QED BY Invariance, <1>1, PTL

\* Whoever else writes and however they interleave, the PDFs show what is stored
\* until a tutor saves.
THEOREM PdfsAreOfTheSource == Spec => []PdfsShowWhatIsStored
<1>1. IInv => PdfsShowWhatIsStored
  BY DEF IInv, PrintInv
<1> QED BY Invariance, <1>1, PTL

\* A mark scheme read again with nobody writing reaches every questions row it answers.
THEOREM ReadsReachEveryQuestion == Spec => []ReadBringsQuestionsUp
<1>1. IInv => ReadBringsQuestionsUp
  BY DEF IInv, ReadInv, HoldsScheme, ReadBringsQuestionsUp
<1> QED BY Invariance, <1>1, PTL

\* An extraction nobody interrupts is whole, or says that it has no PDFs.
THEOREM ExtractionsAreWhole == Spec => []ExtractionIsWhole
<1>1. IInv => ExtractionIsWhole
  BY DEF IInv, ExtractInv, Printed, ExtractionIsWhole
<1> QED BY Invariance, <1>1, PTL

\* A page that has the row's stamp has the row's content.
THEOREM FreshPagesAreCurrent == Spec => []FreshPagesShowTheRow
<1>1. IInv => FreshPagesShowTheRow
  BY DEF IInv
<1> QED BY Invariance, <1>1, PTL

\* Only the store of a render ends one.
LEMMA RenderedBy ==
    ASSUME TypeOK, Next, NEW r \in Requests, at[r] = "rendering", at'[r] = "rendered"
    PROVE  \E s \in Structures, m \in Schemes \cup {None} : StoreRender(r, s, m)
<1> USE PapersAssumption DEF TypeOK, GoTo, Ops, workVars
<1>1. CASE Extract
  BY <1>1 DEF Extract, FilePaper, ReadBack, StorePdfs, StoreWarning, WriteQuestion,
     FinishExtraction
<1>2. CASE \E x \in Requests : Render(x) \/ ReadScheme(x)
  <2>1. PICK x \in Requests : Render(x) \/ ReadScheme(x)
    BY <1>2
  <2>2. CASE x = r
    BY <2>1, <2>2 DEF Render, ReadScheme, BeginRender, BeginRead, ReadRow, StoreRead,
       ListQuestions, RefreshQuestion, FinishRead
  <2>3. CASE x # r
    BY <2>1, <2>3 DEF Render, ReadScheme, BeginRender, BeginRead, ReadRow, StoreRender,
       StoreRead, ListQuestions, RefreshQuestion, FinishRead
  <2> QED BY <2>2, <2>3
<1>3. CASE \E o \in Ops : Fail(o)
  BY <1>3 DEF Fail
<1>4. CASE \E e \in Editors : Page(e)
  BY <1>4 DEF Page, Refetch, Edit, Discard, Save
<1>5. CASE Delete
  BY <1>5 DEF Delete, ListDoomed, DeleteQuestions, DeletePaper, DeletionFails
<1> QED BY <1>1, <1>2, <1>3, <1>4, <1>5 DEF Next

\* A render made from the row as it is changes wording the compiler refused, and nothing else.
THEOREM RendersRepairWording == Spec => RenderRepairsWordingOnly
<1> DEFINE Repairs ==
      \A r \in Requests :
          at[r] = "rendering" /\ at'[r] = "rendered" /\ ~moved[r] =>
              /\ Asks[structure'] = Asks[structure]
              /\ structure \in Compiles => structure' = structure
              /\ scheme = None <=> scheme' = None
              /\ scheme \in Compiles => scheme' = scheme
<1>1. IInv /\ Next => Repairs
  <2> SUFFICES ASSUME IInv, Next, NEW r \in Requests,
                      at[r] = "rendering", at'[r] = "rendered", ~moved[r]
               PROVE  /\ Asks[structure'] = Asks[structure]
                      /\ structure \in Compiles => structure' = structure
                      /\ scheme = None <=> scheme' = None
                      /\ scheme \in Compiles => scheme' = scheme
    OBVIOUS
  <2>1. PICK s \in Structures, m \in Schemes \cup {None} : StoreRender(r, s, m)
    BY RenderedBy DEF IInv
  <2>2. heldStructure[r] = structure /\ heldScheme[r] = scheme
    BY DEF IInv, ReadInv
  <2> QED BY <2>1, <2>2, PapersAssumption
          DEF StoreRender, PrintedStructure, PrintedScheme, Repaired, RepairedScheme, StoredScheme
<1>2. IInv /\ [Next]_vars => [Repairs]_vars
  BY <1>1
<1> QED BY Invariance, <1>2, PTL DEF Spec, RenderRepairsWordingOnly

===============================================================================
