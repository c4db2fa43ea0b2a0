-------------------------------- MODULE MCEditor --------------------------------
(***************************************************************************)
(* Small papers, each about one matter: a blank one, a table, references   *)
(* at every depth with their passage and entry, answer spaces in both      *)
(* spellings, questions loose and in a section, a figure and a scheme.     *)
(* Draft and preview share nothing, so a behaviour is about one of them;   *)
(* a long one is about the shape of a table or the order of questions,     *)
(* and nothing else changes in it.                                         *)
(***************************************************************************)
EXTENDS Editor, TLC

CONSTANTS n1, n2, b1, b2, g1, g2
VARIABLE about

Blank == [titled |-> TRUE, year |-> Unset, questions |-> <<>>, sections |-> <<>>,
          passages |-> <<>>, scheme |-> <<>>]
Plain(number) == [EmptyQuestion EXCEPT !.number = number, !.said = TRUE]
Entry(number) == [EmptySchemeQuestion EXCEPT !.number = number]
Ref == [EmptyBlock("passage_ref") EXCEPT !.id = n1]
Figured == [EmptyBlock("figure") EXCEPT !.said = TRUE, !.width = 1]

Tabled == [Blank EXCEPT !.questions =
    <<[Plain(n1) EXCEPT !.blocks = <<EmptyBlock("table"), Figured>>]>>]
Referring == [Blank EXCEPT
    !.questions = <<[Plain(n1) EXCEPT
        !.blocks = <<Ref>>,
        !.parts = <<[EmptyPart EXCEPT
            !.blocks = <<Ref>>,
            !.parts = <<[EmptySubPart EXCEPT !.said = TRUE, !.blocks = <<Ref>>]>>]>>]>>,
    !.passages = <<[id |-> n1, said |-> TRUE]>>,
    !.scheme = <<Entry(n1)>>]
Answering == [Blank EXCEPT
    !.questions = <<[Plain(n1) EXCEPT !.lines = 2],
                    [Plain(n2) EXCEPT !.answer = [EmptyAnswer("grid") EXCEPT !.rows = 1, !.cols = 2]]>>,
    !.scheme = <<Entry(n1)>>]
Sectioned == [Blank EXCEPT
    !.questions = <<Plain(n1), Plain(n2)>>,
    !.sections = <<[choose |-> 1, questions |-> <<[Plain(n1) EXCEPT !.marks = 1]>>]>>]

MCStored == {Blank, Tabled, Referring, Answering, Sectioned}
MCFigureOf == b1 :> {g1} @@ b2 :> {g1, g2}

Budget == [anything |-> 2, tables |-> 5, order |-> 5, preview |-> 0]

MCInit ==
    /\ Init
    /\ about \in DOMAIN Budget
    /\ about = "tables" => draft = Tabled
    /\ about = "order" => draft = Sectioned
    /\ about = "preview" => draft = Blank
    /\ about # "preview" => want = NoBody

Shapeless(question) ==
    [question EXCEPT !.blocks = [b \in DOMAIN @ |-> [@[b] EXCEPT !.header = 0, !.rows = <<>>]]]

Still ==
    /\ about = "tables" =>
          [draft' EXCEPT !.questions = [q \in DOMAIN @ |-> Shapeless(@[q])]]
            = [draft EXCEPT !.questions = [q \in DOMAIN @ |-> Shapeless(@[q])]]
    /\ about = "order" =>
          /\ Range(AllQuestions(draft')) \subseteq Range(AllQuestions(draft)) \cup {EmptyQuestion}
          /\ \A field \in {"titled", "year", "passages", "scheme"} : draft'[field] = draft[field]
          /\ \A s \in DOMAIN draft'.sections : draft'.sections[s].choose \in {Unset, 1}

MCNext ==
    /\ \/ edits < Budget[about] /\ Edit /\ Still
       \/ about = "preview" /\ Preview
    /\ UNCHANGED about

MCSpec == MCInit /\ [][MCNext]_<<vars, about>> /\ Fairness
===============================================================================
