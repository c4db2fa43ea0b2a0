----------------------------- MODULE MCExtraction -----------------------------
(***************************************************************************)
(* Numbers 01, 01.1, 01.1.a and 01.2, in that order; a part a, its sub-    *)
(* part a(i) and a part b.  Each behaviour is about one matter:            *)
(*   fold    what the shape lists and what is transcribed disagree         *)
(*   pages   the pages questions start on, transcribed as they were listed *)
(*   parts   one question's scheme, answered by parts                      *)
(*   strays  several questions' schemes, answered whole or under each      *)
(*           other's numbers                                               *)
(***************************************************************************)
EXTENDS Extraction, TLC

CONSTANTS a, ai, b
VARIABLE cast

MCPartOf == {<<2, 1>>, <<3, 1>>, <<3, 2>>, <<4, 1>>}
MCWhole == a :> a @@ ai :> a @@ b :> b
MCPages == 0..(PageCount + 1)

PaperCasts == {"fold", "pages"}
MCInit ==
    /\ Init
    /\ \/ cast \in PaperCasts /\ step = "shape"
       \/ cast \in {"parts", "strays"} /\ step = "stored"
    /\ cast = "parts" => DOMAIN paper = {1} /\ paper[1].labels \subseteq {ai, b}
    /\ cast = "strays" => \A i \in DOMAIN paper :
          paper[i].labels = {} /\ (paper[i].number < 3 \/ (i = 3 /\ paper[i].number = 3))
    /\ \A i \in DOMAIN paper : ~paper[i].material /\ (cast = "parts" => paper[i].number = 1)

FoldShapes == UNION {[1..n -> {s \in Stub : s.page = 1}] : n \in 0..MaxQuestions}
PageShapes ==
    {[i \in 1..MaxQuestions |-> [number |-> i, page |-> pages[i], material |-> i \in printed]] :
        pages \in [1..MaxQuestions -> Pages], printed \in SUBSET (1..MaxQuestions)}
FoldReplies == Over(Number, {{}})
WholeEntries(reply) == {e \in Entries(reply) : e.parts = <<>>}
PartsFirst == Over({1}, Entries("first"))
PartsSecond == Over({1}, Entries("second"))
Strays == {1, 2} \cup {paper[i].number : i \in left}
StraysFirst == Over(Strays, WholeEntries("first"))
StraysSecond == Over(Strays, WholeEntries("second"))

ReadsPaper ==
    \/ /\ step = "shape"
       /\ \E stubs \in IF cast = "fold" THEN FoldShapes ELSE PageShapes : ReadShape(stubs)
    \/ cast = "fold" /\ \E reply \in FoldReplies : ReadQuestions(reply) \/ ReadWording(reply)
    \/ /\ cast = "pages"
       /\ LET asked == [n \in Batch(left) |-> {}] IN ReadQuestions(asked) \/ ReadWording(asked)
    \/ Settle
    \/ ReadMaterial(Number)
    \/ Merge
ReadsScheme ==
    \/ step = "stored" /\ BeginScheme
    \/ cast = "parts" /\ \E reply \in PartsFirst : ReadScheme(reply)
    \/ cast = "strays" /\ \E reply \in StraysFirst : ReadScheme(reply)
    \/ cast = "parts" /\ \E reply \in PartsSecond : ReadAgain(reply)
    \/ cast = "strays" /\ \E reply \in StraysSecond : ReadAgain(reply)
    \/ MergeScheme
MCNext == Misfits \/ Fails \/ ReadsPaper \/ ReadsScheme
MCSpec == MCInit /\ [][MCNext /\ UNCHANGED cast]_<<vars, cast>>
===============================================================================
