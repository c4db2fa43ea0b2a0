-------------------------------- MODULE Chunks --------------------------------
(***************************************************************************)
(* What a paper too long for one call is split into, and how the replies   *)
(* are put together again.  A listing is a function from places, the order *)
(* the paper's questions are printed in, to what is known of each; sections *)
(* and wording are left out.                                               *)
(*                                                                         *)
(* source: sidereal_generate/chunks.py                                     *)
(***************************************************************************)
EXTENDS Integers, FiniteSets, FiniteSetsExt

CONSTANTS
    Number,     \* question numbers, in their order as text: an initial one comes first
    PartOf,     \* the pairs of a number and one it reads as a part of: 01.1 of 01
    Label,      \* what a question's parts and sub-parts are labelled, as a scheme prints it
    Whole,      \* the part each label is of: a for a(i), a for a
    Size,       \* how many questions one call takes
    Pages,      \* the pages a question may be said to start on
    PageCount   \* page images sent with the document, or none

ASSUME ChunksAssumption ==
    /\ Number \subseteq Nat
    /\ PartOf \subseteq Number \X Number
    /\ \A pair \in PartOf : pair[2] < pair[1]
    \* Two numbers that one reads as a part of begin alike.
    /\ \A l, m, n \in Number :
          <<l, m>> \in PartOf /\ <<l, n>> \in PartOf /\ m < n => <<n, m>> \in PartOf
    /\ Whole \in [Label -> Label]
    /\ Size \in Nat \ {0}
    /\ Pages \subseteq Int
    /\ PageCount \in Nat

Stub == [number : Number, page : Pages, material : BOOLEAN]
Numbers(listing) == {listing[i].number : i \in DOMAIN listing}

-------------------------------------------------------------------------------
(***************************************************************************)
(* Batches, and the pages each is shown.                                   *)
(***************************************************************************)

\* The first few of the places not yet asked for.
Batch(left) == {i \in left : Cardinality({j \in left : j < i}) < Size}

Page(stub) == IF stub.page < 1 THEN 1 ELSE IF stub.page > PageCount THEN PageCount ELSE stub.page

\* Mutant: where the last question starts, and no further.
FollowingStarts(listing, i) == Page(listing[i])

\* Where the question after a place starts, or the last page.
Following(listing, i) ==
    LET after == {j \in DOMAIN listing : j > i}
    IN  IF after = {} THEN PageCount ELSE Page(listing[Min(after)])

\* A batch's own pages, through to where the question after it starts.
Reaches(listing, batch, p) ==
    \/ p <= Following(listing, Max(batch))
    \/ \E i \in batch : p <= Page(listing[i])
Span(listing, batch) ==
    {p \in 1..PageCount : Reaches(listing, batch, p) /\ \E i \in batch : Page(listing[i]) <= p}

-------------------------------------------------------------------------------
(***************************************************************************)
(* The shape resettled on what was transcribed.                            *)
(***************************************************************************)

\* The transcribed questions the listing has not, of which an untranscribed place reads as
\* a part; the first takes it.
Takers(listing, answered, i) ==
    {n \in answered \ Numbers(listing) : <<listing[i].number, n>> \in PartOf}
Taken(listing, answered) ==
    {i \in DOMAIN listing : listing[i].number \notin answered /\ Takers(listing, answered, i) # {}}
\* Mutant: the last takes it.
LastTaker(listing, answered, i) == Max(Takers(listing, answered, i))
Taker(listing, answered, i) == Min(Takers(listing, answered, i))
Group(listing, answered, i) ==
    {j \in Taken(listing, answered) : Taker(listing, answered, j) = Taker(listing, answered, i)}

\* What is taken together becomes one question, in the place of the first; a plan is kept by
\* number, so one with a number listed again among them is struck out again.
Leads(listing, answered, i) ==
    /\ i = Min(Group(listing, answered, i))
    /\ \A j \in DOMAIN listing : listing[j].number = listing[i].number => j = i
FoldedStub(listing, answered, i) ==
    LET group == Group(listing, answered, i) IN
    [number |-> Taker(listing, answered, i),
     page |-> Min({listing[j].page : j \in group}),
     material |-> \E j \in group : listing[j].material]
Reconciled(listing, answered) ==
    LET taken == Taken(listing, answered)
        kept == {i \in DOMAIN listing : i \in taken => Leads(listing, answered, i)}
    IN  [i \in kept |-> IF i \in taken THEN FoldedStub(listing, answered, i) ELSE listing[i]]

-------------------------------------------------------------------------------
(***************************************************************************)
(* A scheme's entries.  A text is blank, or by the reply that said it.     *)
(***************************************************************************)
Text == {"blank", "first", "second"}
PartTexts == UNION {[labels -> Text] : labels \in SUBSET Label}
Entry == [whole : Text, parts : PartTexts]
Question == [number : Number, labels : SUBSET Label, material : BOOLEAN]

Given(entry) == {l \in DOMAIN entry.parts : entry.parts[l] # "blank"}
Covered(label, given) == label \in given \/ Whole[label] \in given

\* A question without parts is answered by the whole; one with parts under each of its
\* labels, or by the whole where the entry has no parts at all.
Answered(question, entry) ==
    IF question.labels = {} THEN entry.whole # "blank"
    ELSE \/ DOMAIN entry.parts = {} /\ entry.whole # "blank"
         \/ \A l \in question.labels : Covered(l, Given(entry))

\* Mutant: the second reply's answers over the first's.
Overwritten(first, second) ==
    [whole |-> IF second.whole # "blank" THEN second.whole ELSE first.whole,
     parts |-> [l \in DOMAIN first.parts \cup Given(second) |->
                   IF l \in Given(second) THEN second.parts[l] ELSE first.parts[l]]]

\* The gaps in the first taken from the second: what was already answered stands.
Filled(first, second) ==
    LET taken == Given(second) \ Given(first) IN
    [whole |-> IF first.whole # "blank" THEN first.whole ELSE second.whole,
     parts |-> [l \in DOMAIN first.parts \cup taken |->
                   IF l \in taken THEN second.parts[l] ELSE first.parts[l]]]
===============================================================================
