--------------------------------- MODULE Editor ---------------------------------
(***************************************************************************)
(* The paper editor: the draft, and the preview of one of its cards.       *)
(***************************************************************************)
EXTENDS PaperDraft, Previews

VARIABLE edits

CONSTANT MaxEdits  \* bound: how many edits are made

ASSUME EditorAssumption ==
    /\ MaxEdits \in Nat /\ Most \in Nat /\ MaxItems \in Nat
    /\ Widest \in Nat /\ Most <= Widest
    /\ NoName \notin Name
    \* What is stored has been read as a canonical paper, whose integers have no range, and
    \* no table of it has a header without cells.
    /\ Stored \subseteq Paper
    /\ \A paper \in Stored :
          /\ Refused(paper) \subseteq {"passage", "inner passage", "marks", "details", "range"}
          /\ \A block \in Blocks(paper) : block.header # 0

vars == <<draft, edits, previewVars>>

TypeOK == DraftTypeOK /\ PreviewsTypeOK /\ edits \in 0..MaxEdits

Init == DraftInit /\ PreviewsInit /\ edits = 0

Edit ==
    /\ edits < MaxEdits
    /\ edits' = edits + 1
    /\ EditDraft
    /\ draft' # draft
    /\ UNCHANGED previewVars

\* What a card's preview sets is told apart from other documents, and no more.
Preview == PreviewsNext /\ UNCHANGED <<draft, edits>>

Next == Edit \/ Preview

\* Timers run out, effects run, and a fetch ends in an answer or an error.
Fairness ==
    /\ WF_vars(Settle /\ UNCHANGED <<draft, edits>>)
    /\ WF_vars(Mount /\ UNCHANGED <<draft, edits>>)
    /\ \A f \in Figure : WF_vars(FetchImage(f) /\ UNCHANGED <<draft, edits>>)
    /\ \A r \in Request : WF_vars(RenderTypst(r) /\ UNCHANGED <<draft, edits>>)

Spec == Init /\ [][Next]_vars /\ Fairness
===============================================================================
