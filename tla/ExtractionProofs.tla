---------------------------- MODULE ExtractionProofs ----------------------------
(***************************************************************************)
(* Theorems about a paper read in several calls, for any numbers and the   *)
(* parts they read as, any labels, pages and batch size, and replies that  *)
(* say anything.                                                           *)
(*                                                                         *)
(* Pages and places are compared by the least of a set: that there is one  *)
(* is the first section.  Then what a reply has, batch by batch: the pages *)
(* it was sent (Sent), the listing resettled once and for good (Settling), *)
(* and the scheme's answers, which a later batch may only touch under a    *)
(* number counted in twice (Answering).                                    *)
(***************************************************************************)
EXTENDS Extraction, FiniteSetTheorems, WellFoundedInduction, TLAPS

-------------------------------------------------------------------------------
(***************************************************************************)
(* The least and the most of a set.                                        *)
(***************************************************************************)

\* Every non-empty set of numbers has a least one,
LEMMA LeastNumber ==
    ASSUME NEW S \in SUBSET Nat, S # {}
    PROVE  Min(S) \in S /\ \A k \in S : Min(S) <= k
<1>1. PICK R : R = OpToRel(<, Nat)
  OBVIOUS
<1>2. IsWellFoundedOn(R, Nat)
  BY <1>1, NatLessThanWellFounded
<1>3. \A x, y \in Nat : x < y => <<x, y>> \in R
  BY <1>1 DEF OpToRel
<1>4. PICK m \in S : \A y \in S : <<y, m>> \notin R
  BY <1>2, WFMin
<1>5. ASSUME NEW k \in S PROVE m <= k
  <2>1. m \in Nat /\ k \in Nat /\ ~(k < m)
    BY <1>3, <1>4
  <2>2. QED
    BY <2>1
<1>6. QED
  BY <1>5 DEF Min

\* and so has one of integers kept by place, of which there are so many.
LEMMA LeastByPlace ==
    ASSUME NEW k \in Nat, NEW f \in [1..k -> Int], NEW G \in SUBSET (1..k), G # {}
    PROVE  \E i \in G : \A j \in G : f[i] <= f[j]
<1>1. SUFFICES ASSUME \A i \in G : \E j \in G : f[j] < f[i] PROVE FALSE
  OBVIOUS
<1>2. PICK bad \in SUBSET Nat :
          bad = {n \in Nat : \E H \in SUBSET (1..k) :
                    H # {} /\ \A i \in H : i <= n /\ \E j \in H : f[j] < f[i]}
  OBVIOUS
<1>3. PICK n \in bad : \A m \in bad : n <= m
  <2>1. k \in bad
    BY <1>1, <1>2
  <2>2. QED
    BY <2>1, LeastNumber
<1> n \in Nat
  OBVIOUS
<1>4. PICK H \in SUBSET (1..k) : /\ H # {} /\ \A i \in H : i <= n
                                 /\ \A i \in H : \E j \in H : f[j] < f[i]
  BY <1>2
<1>5. n \in H
  <2>1. SUFFICES ASSUME n \notin H PROVE FALSE
    OBVIOUS
  <2>2. \A i \in H : i \in Nat /\ i >= 1 /\ i <= n - 1
    BY <1>4, <2>1
  <2>3. PICK i \in H : TRUE
    BY <1>4
  <2>4. n - 1 \in Nat
    BY <2>2, <2>3
  <2>5. n - 1 \in bad
    BY <1>2, <1>4, <2>2, <2>4
  <2>6. QED
    BY <1>3, <2>5
\* Without its last place, the set still lacks a least one.
<1>6. PICK s \in H : f[s] < f[n]
  BY <1>4, <1>5
<1>7. \A i \in H \ {n} : \E j \in H \ {n} : f[j] < f[i]
  <2>1. TAKE i \in H \ {n}
  <2>2. PICK j \in H : f[j] < f[i]
    BY <1>4
  <2>3. CASE j = n
    <3>1. f[s] < f[i] /\ s # n
      BY <1>5, <1>6, <2>2, <2>3
    <3>2. QED
      BY <3>1
  <2>4. CASE j # n
    BY <2>2, <2>4
  <2>5. QED
    BY <2>3, <2>4
<1>8. \A i \in H \ {n} : i <= n - 1
  BY <1>4
<1>9. n - 1 \in bad
  <2>1. s \in H \ {n}
    BY <1>5, <1>6
  <2>2. n - 1 \in Nat
    BY <1>8, <2>1
  <2>3. QED
    BY <1>2, <1>7, <1>8, <2>1, <2>2
<1>10. QED
  BY <1>3, <1>9

\* The last of some places.
LEMMA LastPlace ==
    ASSUME NEW S \in SUBSET Places, S # {}
    PROVE  Max(S) \in S /\ \A k \in S : k <= Max(S)
<1>1. MaxQuestions \in Nat
  BY ExtractionAssumption
<1>2. PICK f \in [1..MaxQuestions -> Int] : \A i \in 1..MaxQuestions : f[i] = 0 - i
  <2>1. [i \in 1..MaxQuestions |-> 0 - i] \in [1..MaxQuestions -> Int]
    BY <1>1
  <2>2. QED
    BY <2>1
<1>3. PICK m \in S : \A j \in S : f[m] <= f[j]
  BY <1>1, <1>2, LeastByPlace DEF Places
<1>4. \A j \in S : m >= j
  BY <1>1, <1>2, <1>3 DEF Places
<1>5. QED
  BY <1>4 DEF Max, Places

\* The first of some places is a number's least.
LEMMA FirstPlace ==
    ASSUME NEW S \in SUBSET Places, S # {}
    PROVE  Min(S) \in S /\ \A k \in S : Min(S) <= k
  BY LeastNumber DEF Places

\* The earliest page some places start on.
LEMMA FirstPage ==
    ASSUME NEW list, IsOver(list, Places, Stub), NEW G \in SUBSET DOMAIN list, G # {}
    PROVE  /\ Min({list[j].page : j \in G}) \in Pages
           /\ \A k \in G : Min({list[j].page : j \in G}) <= list[k].page
<1>1. MaxQuestions \in Nat /\ Pages \subseteq Int
  BY ExtractionAssumption, ChunksAssumption
<1>2. \A j \in DOMAIN list : j \in Places /\ list[j].page \in Pages
  BY DEF IsOver, Stub
<1>3. PICK f : f = [j \in 1..MaxQuestions |-> IF j \in DOMAIN list THEN list[j].page ELSE 0]
  OBVIOUS
<1>4. f \in [1..MaxQuestions -> Int] /\ \A j \in DOMAIN list : f[j] = list[j].page
  <2>1. \A j \in DOMAIN list : list[j].page \in Int
    BY <1>1, <1>2
  <2>2. \A j \in 1..MaxQuestions : f[j] \in Int
    BY <1>3, <2>1
  <2>3. DOMAIN f = 1..MaxQuestions /\ f = [j \in DOMAIN f |-> f[j]]
    BY <1>3
  <2>4. f \in [1..MaxQuestions -> Int]
    BY <2>2, <2>3
  <2>5. QED
    BY <1>2, <1>3, <2>4 DEF Places
<1>5. PICK i \in G : \A j \in G : f[i] <= f[j]
  BY <1>1, <1>2, <1>4, LeastByPlace DEF Places
<1>6. PICK starts : starts = {list[j].page : j \in G}
  OBVIOUS
<1>7. list[i].page \in starts /\ \A p \in starts : list[i].page <= p
  BY <1>4, <1>5, <1>6
<1>8. Min(starts) \in starts /\ \A p \in starts : Min(starts) <= p
  BY <1>7 DEF Min
<1>9. QED
  BY <1>2, <1>6, <1>8

-------------------------------------------------------------------------------
(***************************************************************************)
(* Types.                                                                  *)
(***************************************************************************)

\* What a later reply adds to is of the same type.
LEMMA UpdatedIsOver ==
    ASSUME NEW D, NEW S, NEW f, NEW g, IsOver(f, D, S), IsOver(g, D, S)
    PROVE  IsOver(Updated(f, g), D, S)
  BY DEF IsOver, Updated

\* A reply over some places is over those.
LEMMA OverIs ==
    ASSUME NEW D, NEW S, NEW f \in Over(D, S)
    PROVE  IsOver(f, D, S)
  BY DEF Over, IsOver

\* The empty listing is of every type.
LEMMA EmptyIsOver == ASSUME NEW D, NEW S PROVE DOMAIN <<>> = {} /\ IsOver(<<>>, D, S)
  BY DEF IsOver

\* Who takes a place is a number transcribed and not listed that it is a part of.
LEMMA TakersAre ==
    ASSUME NEW list, IsOver(list, Places, Stub), NEW given \in SUBSET Number,
           NEW i \in Taken(list, given)
    PROVE  /\ i \in DOMAIN list /\ list[i].number \notin given
           /\ Taker(list, given, i) \in Takers(list, given, i)
           /\ \A n \in Takers(list, given, i) : Taker(list, given, i) <= n
<1>1. i \in DOMAIN list /\ list[i].number \notin given /\ Takers(list, given, i) # {}
  BY DEF Taken
<1>2. Takers(list, given, i) \in SUBSET Nat
  BY ChunksAssumption DEF Takers
<1>3. QED
  BY <1>1, <1>2, LeastNumber DEF Taker

\* A listing resettled is still one, over places it had.
LEMMA ReconciledIs ==
    ASSUME NEW list, IsOver(list, Places, Stub), NEW given \in SUBSET Number
    PROVE  /\ IsOver(Reconciled(list, given), Places, Stub)
           /\ DOMAIN Reconciled(list, given) \subseteq DOMAIN list
           /\ \A i \in DOMAIN list \ Taken(list, given) :
                 /\ i \in DOMAIN Reconciled(list, given)
                 /\ Reconciled(list, given)[i] = list[i]
           /\ \A i \in Taken(list, given) :
                 /\ i \in DOMAIN Reconciled(list, given) <=> Leads(list, given, i)
                 /\ i \in DOMAIN Reconciled(list, given) =>
                       Reconciled(list, given)[i] = FoldedStub(list, given, i)
<1>1. PICK settled : settled = Reconciled(list, given)
  OBVIOUS
<1>2. /\ DOMAIN settled = {i \in DOMAIN list : i \in Taken(list, given) => Leads(list, given, i)}
      /\ settled = [i \in DOMAIN settled |->
            IF i \in Taken(list, given) THEN FoldedStub(list, given, i) ELSE list[i]]
  BY <1>1 DEF Reconciled
<1>3. Taken(list, given) \subseteq DOMAIN list
  BY DEF Taken
<1>4. \A i \in DOMAIN list : i \in Places /\ list[i] \in Stub
  BY DEF IsOver
<1>5. ASSUME NEW i \in DOMAIN settled PROVE settled[i] \in Stub
  <2>1. CASE i \in Taken(list, given)
    <3>1. PICK group : group = Group(list, given, i)
      OBVIOUS
    <3>2. i \in group /\ group \subseteq DOMAIN list
      BY <2>1, <3>1, <1>3 DEF Group
    <3>3. Min({list[j].page : j \in group}) \in Pages
      BY <3>2, FirstPage
    <3>4. Taker(list, given, i) \in Number
      BY <2>1, TakersAre DEF Takers
    <3>5. (\E j \in group : list[j].material) \in BOOLEAN
      OBVIOUS
    <3>6. FoldedStub(list, given, i) \in Stub
      BY <3>1, <3>3, <3>4, <3>5 DEF FoldedStub, Stub
    <3>7. QED
      BY <1>2, <2>1, <3>6
  <2>2. CASE i \notin Taken(list, given)
    BY <1>2, <1>4, <2>2
  <2>3. QED
    BY <2>1, <2>2
<1>6. IsOver(settled, Places, Stub)
  BY <1>2, <1>4, <1>5 DEF IsOver
<1>7. QED
  BY <1>1, <1>2, <1>3, <1>6

\* A model's entry is an entry,
LEMMA EntriesAre ==
    ASSUME NEW said_by \in {"first", "second"}
    PROVE  /\ Entries(said_by) \subseteq Entry
           /\ \A f \in Over(Number, Entries(said_by)) : IsOver(f, Number, Entry)
<1>1. {"blank", said_by} \subseteq Text
  BY DEF Text
<1>2. ASSUME NEW labels \in SUBSET Label, NEW p \in [labels -> {"blank", said_by}]
      PROVE  p \in [labels -> Text]
  BY <1>1
<1>3. UNION {[labels -> {"blank", said_by}] : labels \in SUBSET Label} \subseteq PartTexts
  BY <1>2 DEF PartTexts
<1>4. Entries(said_by) \subseteq Entry
  BY <1>1, <1>3 DEF Entries, Entry
<1>5. QED
  BY <1>4 DEF Over, IsOver

\* its parts are texts under labels,
LEMMA PartsAre ==
    ASSUME NEW e \in Entry
    PROVE  /\ e.whole \in Text /\ DOMAIN e.parts \subseteq Label
           /\ \A l \in DOMAIN e.parts : e.parts[l] \in Text
  BY DEF Entry, PartTexts

\* and so is one whose gaps were filled.
LEMMA FilledIs ==
    ASSUME NEW first \in Entry, NEW second \in Entry
    PROVE  /\ Filled(first, second) \in Entry
           /\ Given(Filled(first, second)) = Given(first) \cup Given(second)
           /\ \A l \in Given(first) : Filled(first, second).parts[l] = first.parts[l]
           /\ first.whole # "blank" => Filled(first, second).whole = first.whole
           /\ first.whole = "blank" => Filled(first, second).whole = second.whole
<1>1. PICK taken : taken = Given(second) \ Given(first)
  OBVIOUS
<1>2. PICK parts : parts = [l \in DOMAIN first.parts \cup taken |->
                              IF l \in taken THEN second.parts[l] ELSE first.parts[l]]
  OBVIOUS
<1>3. PICK whole : whole = IF first.whole # "blank" THEN first.whole ELSE second.whole
  OBVIOUS
<1>4. Filled(first, second) = [whole |-> whole, parts |-> parts]
  BY <1>1, <1>2, <1>3 DEF Filled
<1>5. taken \subseteq DOMAIN second.parts
  BY <1>1 DEF Given
<1>6. \A l \in DOMAIN parts : parts[l] \in Text
  BY <1>2, <1>5, PartsAre
<1>7. DOMAIN parts \in SUBSET Label /\ parts \in [DOMAIN parts -> Text]
  BY <1>2, <1>5, <1>6, PartsAre
<1>8. [whole |-> whole, parts |-> parts] \in Entry
  BY <1>3, <1>7, PartsAre DEF Entry, PartTexts
<1>9. {l \in DOMAIN parts : parts[l] # "blank"} = Given(first) \cup Given(second)
  BY <1>1, <1>2 DEF Given
<1>10. \A l \in Given(first) : parts[l] = first.parts[l]
  BY <1>1, <1>2 DEF Given
<1>11. QED
  BY <1>3, <1>4, <1>8, <1>9, <1>10 DEF Given

\* What a shape call or a stored paper lists is over the places there are.
LEMMA ListsAre ==
    ASSUME NEW S, NEW f \in UNION {[1..n -> S] : n \in 0..MaxQuestions}
    PROVE  IsOver(f, Places, S)
<1>1. PICK n \in 0..MaxQuestions : f \in [1..n -> S]
  OBVIOUS
<1>2. 1..n \subseteq Places
  BY ExtractionAssumption DEF Places
<1>3. QED
  BY <1>1, <1>2 DEF IsOver

\* What a reply says of some places is over those.
LEMMA OfIs ==
    ASSUME TypeOK, NEW places \in SUBSET Places, NEW entries, IsOver(entries, Number, Entry)
    PROVE  IsOver(Of(places, entries), Places, Entry)
  BY DEF Of, IsOver

\* A reply completed by a second is still one; only a number left out or left with gaps is the
\* second's.
LEMMA CompletedIs ==
    ASSUME NEW first, NEW second, IsOver(first, Number, Entry), IsOver(second, Number, Entry)
    PROVE  /\ IsOver(Completed(first, second), Number, Entry)
           /\ DOMAIN first \subseteq DOMAIN Completed(first, second)
           /\ \A n \in DOMAIN first : n \notin Gaps(Batch(left), first) \cap DOMAIN second =>
                 Completed(first, second)[n] = first[n]
           /\ \A n \in Gaps(Batch(left), first) \cap DOMAIN second :
                 Completed(first, second)[n] = Filled(first[n], second[n])
           /\ \A n \in Missing(Batch(left), first) \cap DOMAIN second :
                 n \in DOMAIN Completed(first, second) /\ Completed(first, second)[n] = second[n]
<1>1. PICK missing : missing = Missing(Batch(left), first)
  OBVIOUS
<1>2. PICK gaps : gaps = Gaps(Batch(left), first)
  OBVIOUS
<1>3. missing \cap DOMAIN first = {} /\ gaps \subseteq DOMAIN first
  BY <1>1, <1>2 DEF Missing, Gaps
<1>4. PICK all : all = Completed(first, second)
  OBVIOUS
<1>5. /\ DOMAIN all = DOMAIN first \cup (missing \cap DOMAIN second)
      /\ all = [n \in DOMAIN all |-> IF n \in missing THEN second[n]
                                     ELSE IF n \in gaps \cap DOMAIN second
                                          THEN Filled(first[n], second[n]) ELSE first[n]]
  BY <1>1, <1>2, <1>4 DEF Completed
<1>6. ASSUME NEW n \in DOMAIN all PROVE n \in Number /\ all[n] \in Entry
  <2>1. CASE n \in missing
    BY <1>3, <1>5, <2>1 DEF IsOver
  <2>2. CASE n \in gaps \cap DOMAIN second
    <3>1. first[n] \in Entry /\ second[n] \in Entry /\ n \in Number
      BY <1>3, <2>2 DEF IsOver
    <3>2. QED
      BY <1>3, <1>5, <2>2, <3>1, FilledIs
  <2>3. CASE n \notin missing /\ n \notin gaps \cap DOMAIN second
    BY <1>5, <2>3 DEF IsOver
  <2>4. QED
    BY <2>1, <2>2, <2>3
<1>7. IsOver(all, Number, Entry)
  BY <1>5, <1>6 DEF IsOver
<1>8. QED
  BY <1>1, <1>2, <1>3, <1>4, <1>5, <1>7

LEMMA InitTypes == Init => TypeOK
<1> SUFFICES ASSUME Init PROVE TypeOK
  OBVIOUS
<1>1. shape \in Shapes
  <2>1. 0 \in 0..MaxQuestions
    BY ExtractionAssumption
  <2>2. shape \in [1..0 -> Stub]
    BY DEF Init
  <2>3. QED
    BY <2>1, <2>2 DEF Shapes
<1>2. IsOver(paper, Places, Question)
  BY ListsAre, EmptyIsOver DEF Init, Papers
<1>3. \A D, S : IsOver(<<>>, D, S)
  BY EmptyIsOver
<1>4. step \in Step /\ left \subseteq Places /\ misfit \in BOOLEAN
  BY DEF Init, Step, Asking
<1>5. QED
  BY <1>1, <1>2, <1>3, <1>4 DEF Init, TypeOK

\* The pages of a call are pages there are.
LEMMA ShowIs ==
    ASSUME TypeOK, Show
    PROVE  IsOver(shown', Places, SUBSET (1..PageCount))
<1>1. PICK sent : sent = [i \in Batch(left) |-> Span(listing, Batch(left))]
  OBVIOUS
<1>2. Batch(left) \subseteq Places
  BY DEF Batch, TypeOK
<1>3. Span(listing, Batch(left)) \subseteq 1..PageCount
  BY DEF Span
<1>4. IsOver(sent, Places, SUBSET (1..PageCount))
  BY <1>1, <1>2, <1>3 DEF IsOver
<1>5. QED
  BY <1>1, <1>4, UpdatedIsOver DEF Show, TypeOK

\* A batch's answers, taken.
LEMMA TakenAreTyped ==
    ASSUME TypeOK, NEW entries, IsOver(entries, Number, Entry), TakeAnswers(entries)
    PROVE  /\ step' \in Step /\ misfit' \in BOOLEAN /\ left' \subseteq Places
           /\ IsOver(held', Number, Entry) /\ IsOver(answers', Number, Entry)
           /\ twice' \subseteq Number
<1>1. IsOver(answers', Number, Entry)
  BY UpdatedIsOver DEF TakeAnswers, TypeOK
<1>2. twice' \subseteq Number
  BY DEF TakeAnswers, TypeOK, IsOver
<1>3. QED
  BY <1>1, <1>2, EmptyIsOver DEF TakeAnswers, TypeOK, Step, Asking

LEMMA StepTypes == TypeOK /\ [Next]_vars => TypeOK'
<1> SUFFICES ASSUME TypeOK, [Next]_vars PROVE TypeOK'
  OBVIOUS
<1> USE DEF Step, Asking
<1>1. CASE Misfits \/ Fails
  BY <1>1 DEF Misfits, Fails, TypeOK, paperVars, schemeVars
<1>2. ASSUME NEW stubs \in Shapes, ReadShape(stubs) PROVE TypeOK'
  <2>1. IsOver(stubs, Places, Stub)
    BY ListsAre DEF Shapes
  <2>2. left' \subseteq Places
    BY <1>2, <2>1 DEF ReadShape, IsOver
  <2>3. QED
    BY <1>2, <2>1, <2>2 DEF ReadShape, TypeOK, schemeVars
<1>3. ASSUME NEW reply \in Transcriptions, ReadQuestions(reply) PROVE TypeOK'
  <2>1. IsOver(reply, Number, SUBSET Label)
    BY OverIs DEF Transcriptions
  <2>2. /\ IsOver(read', Number, SUBSET Label) /\ left' \subseteq Places
        /\ step' \in Step
    BY <1>3, <2>1, UpdatedIsOver DEF ReadQuestions, TakeQuestions, TypeOK
  <2>3. QED
    BY <1>3, <2>2, ShowIs DEF ReadQuestions, TypeOK, schemeVars
<1>4. ASSUME NEW reply \in Transcriptions, ReadWording(reply) PROVE TypeOK'
  <2>1. IsOver(reply, Number, SUBSET Label)
    BY OverIs DEF Transcriptions
  <2>2. /\ IsOver(read', Number, SUBSET Label) /\ left' \subseteq Places
        /\ step' \in Step
    BY <1>4, <2>1, UpdatedIsOver DEF ReadWording, TakeQuestions, TypeOK
  <2>3. QED
    BY <1>4, <2>2 DEF ReadWording, TypeOK, schemeVars
<1>5. CASE Settle
  <2>1. DOMAIN read \in SUBSET Number
    BY DEF TypeOK, IsOver
  <2>2. IsOver(listing', Places, Stub) /\ DOMAIN listing' \subseteq Places
    BY <1>5, <2>1, ReconciledIs DEF Settle, TypeOK, IsOver
  <2>3. left' \subseteq Places
    BY <1>5, <2>2 DEF Settle
  <2>4. QED
    BY <1>5, <2>2, <2>3, EmptyIsOver DEF Settle, TypeOK, schemeVars
<1>6. ASSUME NEW numbers \in SUBSET Number, ReadMaterial(numbers) PROVE TypeOK'
  BY <1>6, ShowIs DEF ReadMaterial, TypeOK, schemeVars
<1>7. CASE Merge
  <2>1. PICK listed : listed = Reconciled(listing, DOMAIN read)
    OBVIOUS
  <2>2. IsOver(listed, Places, Stub)
    BY <2>1, ReconciledIs DEF TypeOK, IsOver
  <2>3. CASE /\ Numbers(listed) \subseteq DOMAIN read /\ step' = "read"
             /\ paper' = [i \in DOMAIN listed |->
                   [number |-> listed[i].number, labels |-> read[listed[i].number],
                    material |-> Printed(listed, i)]]
    <3>1. ASSUME NEW i \in DOMAIN listed
          PROVE  [number |-> listed[i].number, labels |-> read[listed[i].number],
                  material |-> Printed(listed, i)] \in Question
      <4>1. listed[i].number \in Number
        BY <2>2 DEF IsOver, Stub
      <4>2. read[listed[i].number] \in SUBSET Label
        BY <2>3 DEF Numbers, TypeOK, IsOver
      <4>3. Printed(listed, i) \in BOOLEAN
        BY DEF Printed
      <4>4. QED
        BY <4>1, <4>2, <4>3 DEF Question
    <3>2. IsOver(paper', Places, Question)
      BY <2>2, <2>3, <3>1 DEF IsOver
    <3>3. QED
      BY <1>7, <2>3, <3>2 DEF Merge, TypeOK, schemeVars
  <2>4. CASE step' = "failed" /\ UNCHANGED paper
    BY <1>7, <2>4 DEF Merge, TypeOK, schemeVars
  <2>5. QED
    BY <1>7, <2>1, <2>3, <2>4 DEF Merge
<1>8. CASE BeginScheme
  BY <1>8 DEF BeginScheme, TypeOK, IsOver, paperVars, schemeVars
<1>9. ASSUME NEW reply \in Over(Number, Entries("first")), ReadScheme(reply) PROVE TypeOK'
  <2>1. IsOver(reply, Number, Entry)
    BY EntriesAre
  <2>2. IsOver(said', Places, Entry)
    <3>1. Batch(left) \subseteq Places
      BY DEF Batch, TypeOK
    <3>2. QED
      BY <1>9, <2>1, <3>1, OfIs, UpdatedIsOver DEF ReadScheme, TypeOK
  <2>3. CASE TakeAnswers(reply)
    BY <1>9, <2>1, <2>2, <2>3, TakenAreTyped DEF ReadScheme, TypeOK, paperVars
  <2>4. CASE held' = reply /\ step' = "again" /\ misfit' = FALSE /\ UNCHANGED <<left, answers, twice>>
    BY <1>9, <2>1, <2>2, <2>4 DEF ReadScheme, TypeOK, paperVars
  <2>5. QED
    BY <1>9, <2>3, <2>4 DEF ReadScheme
<1>10. ASSUME NEW reply \in Over(Number, Entries("second")), ReadAgain(reply) PROVE TypeOK'
  <2>1. IsOver(reply, Number, Entry)
    BY EntriesAre
  <2>2. IsOver(more', Places, Entry)
    <3>1. Batch(left) \subseteq Places
      BY DEF Batch, TypeOK
    <3>2. QED
      BY <1>10, <2>1, <3>1, OfIs, UpdatedIsOver DEF ReadAgain, TypeOK
  <2>3. IsOver(Completed(held, reply), Number, Entry)
    BY <2>1, CompletedIs DEF TypeOK
  <2>4. QED
    BY <1>10, <2>2, <2>3, TakenAreTyped DEF ReadAgain, TypeOK, paperVars
<1>11. CASE MergeScheme
  <2>1. DOMAIN paper \subseteq Places /\ IsOver(answers, Number, Entry)
    BY DEF TypeOK, IsOver
  <2>2. IsOver(scheme', Places, Entry)
    BY <1>11, <2>1, OfIs DEF MergeScheme, TypeOK
  <2>3. QED
    BY <1>11, <2>2 DEF MergeScheme, TypeOK, paperVars
<1>12. CASE UNCHANGED vars
  BY <1>12 DEF vars, paperVars, schemeVars, TypeOK
<1>13. QED
  BY <1>1, <1>2, <1>3, <1>4, <1>5, <1>6, <1>7, <1>8, <1>9, <1>10, <1>11, <1>12
     DEF Next, Extract, ExtractMarkScheme

\* Whatever the replies say, what is kept of them is of its type.
THEOREM TypeCorrect == Spec => []TypeOK
<1>1. QED
  BY InitTypes, StepTypes, PTL DEF Spec

-------------------------------------------------------------------------------
(***************************************************************************)
(* The pages a call is sent.                                               *)
(***************************************************************************)

\* What is asked about is listed, and a listing is only replaced before anything is shown.
Sent ==
    /\ step = "shape" => DOMAIN shown = {}
    /\ step \in {"questions", "wording", "material"} => left \subseteq DOMAIN listing
    /\ QuestionsAreShownWhole

\* A batch's pages hold all of each of its questions: what comes before the last of them is
\* up to that one, and the last is up to the question after it.
LEMMA SpansAreWhole ==
    ASSUME NEW list, IsOver(list, Places, Stub), NEW batch \in SUBSET DOMAIN list,
           NEW i \in batch, NEW p \in 1..PageCount, Page(list[i]) <= p,
           \A j \in DOMAIN list : i < j => p <= Page(list[j])
    PROVE  p \in Span(list, batch)
<1>1. batch \in SUBSET Places /\ DOMAIN list \in SUBSET Places /\ Places \subseteq Nat
  BY DEF IsOver, Places
<1>2. Max(batch) \in batch /\ i <= Max(batch)
  BY <1>1, LastPlace
<1>3. PICK last : last = Max(batch)
  OBVIOUS
<1>4. last \in batch /\ last \in Nat /\ i \in Nat /\ i <= last
  BY <1>1, <1>2, <1>3
<1>5. CASE i < last
  <2>1. p <= Page(list[last])
    BY <1>4, <1>5
  <2>2. QED
    BY <1>4, <2>1 DEF Span, Reaches
<1>6. CASE i = last
  <2>1. PICK after : after = {j \in DOMAIN list : j > last}
    OBVIOUS
  <2>2. CASE after = {}
    <3>1. Following(list, last) = PageCount
      BY <2>1, <2>2 DEF Following
    <3>2. p <= PageCount
      BY ChunksAssumption
    <3>3. QED
      BY <1>3, <3>1, <3>2 DEF Span, Reaches
  <2>3. CASE after # {}
    <3>1. after \in SUBSET Places
      BY <1>1, <2>1
    <3>2. Min(after) \in after
      BY <2>3, <3>1, FirstPlace
    <3>3. Following(list, last) = Page(list[Min(after)])
      BY <2>1, <2>3 DEF Following
    <3>4. p <= Page(list[Min(after)])
      BY <1>1, <1>4, <1>6, <2>1, <3>2
    <3>5. QED
      BY <1>3, <3>3, <3>4 DEF Span, Reaches
  <2>4. QED
    BY <2>2, <2>3
<1>7. QED
  BY <1>4, <1>5, <1>6

LEMMA ShowsWhole ==
    ASSUME TypeOK, QuestionsAreShownWhole, left \subseteq DOMAIN listing, Show,
           listing' = listing
    PROVE  QuestionsAreShownWhole'
<1>1. Batch(left) \in SUBSET DOMAIN listing
  BY DEF Batch
<1>2. IsOver(listing, Places, Stub)
  BY DEF TypeOK
<1>3. PICK sent : sent = [i \in Batch(left) |-> Span(listing, Batch(left))]
  OBVIOUS
<1>4. /\ DOMAIN shown' = DOMAIN shown \cup Batch(left)
      /\ \A i \in Batch(left) : shown'[i] = Span(listing, Batch(left))
      /\ \A i \in DOMAIN shown \ Batch(left) : shown'[i] = shown[i]
  BY <1>3 DEF Show, Updated
<1>5. ASSUME NEW i \in DOMAIN shown', NEW p \in 1..PageCount, Page(listing[i]) <= p,
             \A j \in DOMAIN listing : i < j => p <= Page(listing[j])
      PROVE  p \in shown'[i]
  <2>1. CASE i \in Batch(left)
    BY <1>1, <1>2, <1>4, <1>5, <2>1, SpansAreWhole
  <2>2. CASE i \notin Batch(left)
    BY <1>4, <1>5, <2>2 DEF QuestionsAreShownWhole
  <2>3. QED
    BY <2>1, <2>2
<1>6. QED
  BY <1>5 DEF QuestionsAreShownWhole

LEMMA StepSends == TypeOK /\ Sent /\ [Next]_vars => Sent'
<1> SUFFICES ASSUME TypeOK, Sent, [Next]_vars PROVE Sent'
  OBVIOUS
<1> USE DEF Sent
<1>1. ASSUME UNCHANGED <<listing, shown>>, left' \subseteq left, step # "shape" => step' # "shape",
             step' \in {"questions", "wording", "material"} =>
                 step \in {"questions", "wording", "material"}
      PROVE  Sent'
  BY <1>1 DEF QuestionsAreShownWhole
<1>2. CASE Misfits \/ Fails
  BY <1>2 DEF Misfits, Fails, QuestionsAreShownWhole, paperVars
<1>3. ASSUME NEW stubs \in Shapes, ReadShape(stubs) PROVE Sent'
  BY <1>3 DEF ReadShape, QuestionsAreShownWhole
<1>4. ASSUME NEW reply \in Transcriptions, ReadQuestions(reply) PROVE Sent'
  <2>1. QuestionsAreShownWhole'
    BY <1>4, ShowsWhole DEF ReadQuestions
  <2>2. left' \subseteq left /\ step' \in {"questions", "wording"} /\ listing' = listing
    BY <1>4 DEF ReadQuestions, TakeQuestions
  <2>3. QED
    BY <1>4, <2>1, <2>2 DEF ReadQuestions
<1>5. ASSUME NEW reply \in Transcriptions, ReadWording(reply) PROVE Sent'
  BY <1>1, <1>5 DEF ReadWording, TakeQuestions
<1>6. CASE Settle
  BY <1>6, EmptyIsOver DEF Settle, QuestionsAreShownWhole
<1>7. ASSUME NEW numbers \in SUBSET Number, ReadMaterial(numbers) PROVE Sent'
  <2>1. QuestionsAreShownWhole'
    BY <1>7, ShowsWhole DEF ReadMaterial
  <2>2. QED
    BY <1>7, <2>1 DEF ReadMaterial
<1>8. CASE Merge
  BY <1>1, <1>8 DEF Merge
<1>9. CASE BeginScheme
  BY <1>9 DEF BeginScheme, paperVars, QuestionsAreShownWhole
<1>10. ASSUME NEW reply, ReadScheme(reply) \/ ReadAgain(reply) PROVE Sent'
  BY <1>1, <1>10 DEF ReadScheme, ReadAgain, TakeAnswers, paperVars
<1>11. CASE MergeScheme
  BY <1>1, <1>11 DEF MergeScheme, paperVars
<1>12. CASE UNCHANGED vars
  BY <1>12 DEF vars, paperVars, QuestionsAreShownWhole
<1>13. QED
  BY <1>2, <1>3, <1>4, <1>5, <1>6, <1>7, <1>8, <1>9, <1>10, <1>11, <1>12
     DEF Next, Extract, ExtractMarkScheme

\* Every call is sent all the pages of every question it asks about, for any pages the shape
\* may say and any batch size.
THEOREM CallsAreSentWholeQuestions == Spec => []QuestionsAreShownWhole
<1>1. Init => TypeOK /\ Sent
  BY InitTypes, EmptyIsOver DEF Init, Sent, QuestionsAreShownWhole
<1>2. TypeOK /\ Sent /\ [Next]_vars => (TypeOK /\ Sent)'
  BY StepTypes, StepSends
<1>3. Sent => QuestionsAreShownWhole
  BY DEF Sent
<1>4. QED
  BY <1>1, <1>2, <1>3, PTL DEF Spec

-------------------------------------------------------------------------------
(***************************************************************************)
(* The shape resettled.                                                    *)
(***************************************************************************)

\* A listing resettled on what was transcribed has nothing left to be taken: a question that
\* takes others is listed then, and one not listed takes nothing.
LEMMA NothingIsLeftToTake ==
    ASSUME NEW list, IsOver(list, Places, Stub), NEW given \in SUBSET Number
    PROVE  Taken(Reconciled(list, given), given) = {}
<1>1. PICK settled : settled = Reconciled(list, given)
  OBVIOUS
<1>2. SUFFICES ASSUME NEW i \in Taken(settled, given) PROVE FALSE
  BY <1>1
<1>3. i \in DOMAIN settled /\ settled[i].number \notin given
  BY <1>2 DEF Taken
<1>4. PICK n \in given \ Numbers(settled) : <<settled[i].number, n>> \in PartOf
  BY <1>2 DEF Taken, Takers
<1>5. CASE i \in Taken(list, given)
  <2>1. settled[i] = FoldedStub(list, given, i)
    BY <1>1, <1>3, <1>5, ReconciledIs
  <2>2. settled[i].number = Taker(list, given, i)
    BY <2>1 DEF FoldedStub
  <2>3. Taker(list, given, i) \in given
    BY <1>5, TakersAre DEF Takers
  <2>4. QED
    BY <1>3, <2>2, <2>3
<1>6. CASE i \notin Taken(list, given)
  <2>1. i \in DOMAIN list /\ settled[i] = list[i]
    BY <1>1, <1>3, <1>6, ReconciledIs
  \* What is transcribed and listed is listed still, so n was not.
  <2>2. n \notin Numbers(list)
    <3>1. SUFFICES ASSUME NEW j \in DOMAIN list, list[j].number = n PROVE FALSE
      BY DEF Numbers
    <3>2. j \notin Taken(list, given)
      BY <1>4, <3>1 DEF Taken
    <3>3. j \in DOMAIN settled /\ settled[j] = list[j]
      BY <1>1, <3>2, ReconciledIs
    <3>4. QED
      BY <1>4, <3>1, <3>3 DEF Numbers
  <2>3. n \in Takers(list, given, i)
    BY <1>4, <2>1, <2>2 DEF Takers
  <2>4. QED
    BY <1>3, <1>6, <2>1, <2>3 DEF Taken
<1>7. QED
  BY <1>5, <1>6

\* So resettling it again changes nothing.
LEMMA SettledOnce ==
    ASSUME NEW list, IsOver(list, Places, Stub), NEW given \in SUBSET Number
    PROVE  Reconciled(Reconciled(list, given), given) = Reconciled(list, given)
<1>1. PICK settled : settled = Reconciled(list, given)
  OBVIOUS
<1>2. Taken(settled, given) = {} /\ IsOver(settled, Places, Stub)
  BY <1>1, NothingIsLeftToTake, ReconciledIs
<1>3. PICK again : again = Reconciled(settled, given)
  OBVIOUS
<1>4. DOMAIN again = DOMAIN settled /\ \A i \in DOMAIN settled : again[i] = settled[i]
  BY <1>2, <1>3, ReconciledIs
<1>5. IsOver(again, Places, Stub)
  BY <1>2, <1>3, ReconciledIs
<1>6. again = settled
  BY <1>2, <1>4, <1>5 DEF IsOver
<1>7. QED
  BY <1>1, <1>3, <1>6

\* Where no number is listed twice, a question that takes others is listed, no later than any
\* it takes, on no later page, and with their material.
LEMMA TakersAreListed ==
    ASSUME NEW list, IsOver(list, Places, Stub), NEW given \in SUBSET Number,
           \A i, j \in DOMAIN list : list[i].number = list[j].number => i = j,
           NEW i \in Taken(list, given)
    PROVE  \E j \in DOMAIN Reconciled(list, given) :
               /\ Reconciled(list, given)[j].number = Taker(list, given, i)
               /\ j <= i /\ Reconciled(list, given)[j].page <= list[i].page
               /\ list[i].material => Reconciled(list, given)[j].material
<1>1. PICK group : group = Group(list, given, i)
  OBVIOUS
<1>2. i \in group /\ group \subseteq Taken(list, given)
  BY <1>1 DEF Group
<1>3. Taken(list, given) \subseteq DOMAIN list /\ DOMAIN list \subseteq Places
  BY DEF Taken, IsOver
<1>4. Min(group) \in group /\ Min(group) <= i
  BY <1>2, <1>3, FirstPlace
<1>5. PICK j \in group : j = Min(group)
  BY <1>4
<1>6. j \in Taken(list, given) /\ Taker(list, given, j) = Taker(list, given, i)
  BY <1>1, <1>5 DEF Group
<1>7. Group(list, given, j) = group
  BY <1>1, <1>6 DEF Group
<1>8. Leads(list, given, j)
  BY <1>3, <1>5, <1>6, <1>7 DEF Leads
<1>9. PICK settled : settled = Reconciled(list, given)
  OBVIOUS
<1>10. j \in DOMAIN settled /\ settled[j] = FoldedStub(list, given, j)
  BY <1>6, <1>8, <1>9, ReconciledIs
<1>11. FoldedStub(list, given, j).page <= list[i].page
  <2>1. FoldedStub(list, given, j).page = Min({list[k].page : k \in group})
    BY <1>7 DEF FoldedStub
  <2>2. group \in SUBSET DOMAIN list /\ group # {}
    BY <1>2, <1>3
  <2>3. \A k \in group : Min({list[q].page : q \in group}) <= list[k].page
    BY <2>2, FirstPage
  <2>4. QED
    BY <1>2, <2>1, <2>3
<1>12. list[i].material => FoldedStub(list, given, j).material
  BY <1>2, <1>7 DEF FoldedStub
<1>13. FoldedStub(list, given, j).number = Taker(list, given, i)
  BY <1>6 DEF FoldedStub
<1>14. QED
  BY <1>4, <1>5, <1>9, <1>10, <1>11, <1>12, <1>13

\* Nothing is lost of a shape that lists no number twice,
LEMMA ShapeStands ==
    ASSUME NEW list, IsOver(list, Places, Stub), NEW given \in SUBSET Number,
           \A i, j \in DOMAIN list : list[i].number = list[j].number => i = j,
           NEW i \in DOMAIN list
    PROVE  \E j \in DOMAIN Reconciled(list, given) :
               /\ Within(list[i].number, Reconciled(list, given)[j].number)
               /\ j <= i /\ Reconciled(list, given)[j].page <= list[i].page
               /\ list[i].material => Reconciled(list, given)[j].material
<1>1. CASE i \in Taken(list, given)
  <2>1. <<list[i].number, Taker(list, given, i)>> \in PartOf
    BY <1>1, TakersAre DEF Takers
  <2>2. QED
    BY <1>1, <2>1, TakersAreListed DEF Within
<1>2. CASE i \notin Taken(list, given)
  <2>1. i \in DOMAIN Reconciled(list, given) /\ Reconciled(list, given)[i] = list[i]
    BY <1>2, ReconciledIs
  <2>2. i \in Nat /\ list[i].page \in Int
    BY ChunksAssumption DEF IsOver, Stub, Places
  <2>3. QED
    BY <2>1, <2>2 DEF Within
<1>3. QED
  BY <1>1, <1>2

\* nor of what was transcribed, but what the shape has nowhere for.
LEMMA TranscriptionsStand ==
    ASSUME NEW list, IsOver(list, Places, Stub), NEW given \in SUBSET Number,
           \A i, j \in DOMAIN list : list[i].number = list[j].number => i = j,
           NEW n \in given, n \notin Numbers(list),
           NEW i \in DOMAIN list, <<list[i].number, n>> \in PartOf, list[i].number \notin given
    PROVE  \E j \in DOMAIN Reconciled(list, given) :
               Within(n, Reconciled(list, given)[j].number)
<1>1. n \in Takers(list, given, i)
  BY DEF Takers
<1>2. i \in Taken(list, given)
  BY <1>1 DEF Taken
<1>3. PICK m : m = Taker(list, given, i)
  OBVIOUS
<1>4. m \in Takers(list, given, i) /\ m <= n
  BY <1>1, <1>2, <1>3, TakersAre
<1>5. PICK j \in DOMAIN Reconciled(list, given) : Reconciled(list, given)[j].number = m
  BY <1>2, <1>3, TakersAreListed
<1>6. Within(n, m)
  <2>1. CASE m = n
    BY <2>1 DEF Within
  <2>2. CASE m # n
    <3>1. m \in Number /\ n \in Number /\ list[i].number \in Number
      BY <1>4 DEF Takers, IsOver, Stub
    <3>2. m < n
      BY <1>4, <2>2, <3>1, ChunksAssumption
    <3>3. <<list[i].number, m>> \in PartOf
      BY <1>4 DEF Takers
    <3>4. <<n, m>> \in PartOf
      BY <3>1, <3>2, <3>3, ChunksAssumption
    <3>5. QED
      BY <3>4 DEF Within
  <2>3. QED
    BY <2>1, <2>2
<1>7. QED
  BY <1>5, <1>6

\* A paper has the questions its material was asked under, each in its place: what the shape
\* was resettled on is not resettled again when the pieces are merged (reconciled, merge).
PaperIsAsAsked ==
    step = "read" => /\ DOMAIN paper = DOMAIN listing
                     /\ \A i \in DOMAIN paper : paper[i].number = listing[i].number

\* What is listed, once it is settled, is the shape resettled on what was transcribed.
Settling ==
    /\ step \in {"questions", "wording"} => listing = shape
    /\ step = "material" => listing = Reconciled(shape, DOMAIN read)
    /\ step = "read" => listing = Reconciled(shape, DOMAIN read)
    /\ PaperIsAsAsked

LEMMA ShapeIsOver == TypeOK => /\ IsOver(shape, Places, Stub) /\ DOMAIN read \in SUBSET Number
  BY ListsAre DEF TypeOK, Shapes, IsOver

LEMMA StepSettles == TypeOK /\ Settling /\ [Next]_vars => Settling'
<1> SUFFICES ASSUME TypeOK, Settling, [Next]_vars PROVE Settling'
  OBVIOUS
<1> USE DEF Settling, PaperIsAsAsked
<1>1. CASE Misfits \/ Fails
  BY <1>1 DEF Misfits, Fails, paperVars, Asking
<1>2. ASSUME NEW stubs \in Shapes, ReadShape(stubs) PROVE Settling'
  BY <1>2 DEF ReadShape
<1>3. ASSUME NEW reply, ReadQuestions(reply) \/ ReadWording(reply) PROVE Settling'
  BY <1>3 DEF ReadQuestions, ReadWording, TakeQuestions
<1>4. CASE Settle
  BY <1>4 DEF Settle
<1>5. ASSUME NEW numbers, ReadMaterial(numbers) PROVE Settling'
  BY <1>5 DEF ReadMaterial
<1>6. CASE Merge
  <2>1. Reconciled(listing, DOMAIN read) = listing
    BY <1>6, ShapeIsOver, SettledOnce DEF Merge
  <2>2. CASE step' = "read"
    <3>1. paper' = [i \in DOMAIN listing |->
              [number |-> listing[i].number, labels |-> read[listing[i].number],
               material |-> Printed(listing, i)]]
      BY <1>6, <2>1, <2>2 DEF Merge
    <3>2. QED
      BY <1>6, <2>2, <3>1 DEF Merge
  <2>3. QED
    BY <1>6, <2>2 DEF Merge
<1>7. CASE ExtractMarkScheme
  BY <1>7 DEF ExtractMarkScheme, BeginScheme, ReadScheme, ReadAgain, MergeScheme, TakeAnswers
<1>8. CASE UNCHANGED vars
  BY <1>8 DEF vars, paperVars
<1>9. QED
  BY <1>1, <1>2, <1>3, <1>4, <1>5, <1>6, <1>7, <1>8 DEF Next, Extract

LEMMA AlwaysSettling == Spec => [](TypeOK /\ Settling)
<1>1. Init => TypeOK /\ Settling
  BY InitTypes DEF Init, Settling, PaperIsAsAsked
<1>2. TypeOK /\ Settling /\ [Next]_vars => (TypeOK /\ Settling)'
  BY StepTypes, StepSettles
<1>3. QED
  BY <1>1, <1>2, PTL DEF Spec

\* A paper is numbered as its material was asked for: resettling settles.
THEOREM PapersAreAsAsked == Spec => []PaperIsAsAsked
<1>1. Settling => PaperIsAsAsked
  BY DEF Settling
<1>2. QED
  BY <1>1, AlwaysSettling, PTL

LEMMA SettledLosesNothing == TypeOK /\ Settling => NothingReadIsLost
<1> SUFFICES ASSUME TypeOK, Settling, step = "read", ListedOnce PROVE NothingReadIsLost
  BY DEF NothingReadIsLost
<1>1. PICK given : given = DOMAIN read
  OBVIOUS
<1>2. /\ IsOver(shape, Places, Stub) /\ given \in SUBSET Number
      /\ \A i, j \in DOMAIN shape : shape[i].number = shape[j].number => i = j
  BY <1>1, ShapeIsOver DEF ListedOnce
<1>3. /\ listing = Reconciled(shape, given) /\ DOMAIN paper = DOMAIN listing
      /\ \A j \in DOMAIN paper : paper[j].number = listing[j].number
  BY <1>1 DEF Settling, PaperIsAsAsked
<1>4. ASSUME NEW n \in given, ~Homeless(n)
      PROVE  \E i \in DOMAIN paper : Within(n, paper[i].number)
  <2>1. PICK i \in DOMAIN shape :
            /\ Within(shape[i].number, n)
            /\ shape[i].number = n \/ shape[i].number \notin given
    BY <1>1, <1>4 DEF Homeless
  <2>2. CASE n \in Numbers(shape)
    <3>1. PICK j \in DOMAIN shape : shape[j].number = n
      BY <2>2 DEF Numbers
    <3>2. j \notin Taken(shape, given)
      BY <3>1 DEF Taken
    <3>3. j \in DOMAIN listing /\ listing[j] = shape[j]
      BY <1>2, <1>3, <3>2, ReconciledIs
    <3>4. QED
      BY <1>3, <3>1, <3>3 DEF Within
  <2>3. CASE n \notin Numbers(shape)
    <3>1. shape[i].number # n
      BY <2>3 DEF Numbers
    <3>2. <<shape[i].number, n>> \in PartOf /\ shape[i].number \notin given
      BY <2>1, <3>1 DEF Within
    <3>3. PICK j \in DOMAIN listing : Within(n, listing[j].number)
      BY <1>2, <1>3, <2>3, <3>2, TranscriptionsStand
    <3>4. QED
      BY <1>3, <3>3
  <2>4. QED
    BY <2>2, <2>3
<1>5. ASSUME NEW i \in DOMAIN shape
      PROVE  \E j \in DOMAIN paper \cap DOMAIN listing :
                 /\ Within(shape[i].number, paper[j].number) /\ paper[j].number = listing[j].number
                 /\ j <= i /\ listing[j].page <= shape[i].page
                 /\ shape[i].material => listing[j].material
  <2>1. PICK j \in DOMAIN listing :
            /\ Within(shape[i].number, listing[j].number)
            /\ j <= i /\ listing[j].page <= shape[i].page
            /\ shape[i].material => listing[j].material
    BY <1>2, <1>3, ShapeStands
  <2>2. QED
    BY <1>3, <2>1
<1>6. QED
  BY <1>1, <1>4, <1>5 DEF NothingReadIsLost

\* However a shape and its transcription disagree, a paper whose shape lists no number twice
\* keeps every question of either, or one it is part of.
THEOREM NothingIsLost == Spec => []NothingReadIsLost
  BY AlwaysSettling, SettledLosesNothing, PTL

-------------------------------------------------------------------------------
(***************************************************************************)
(* A scheme's answers.                                                     *)
(***************************************************************************)

\* What an entry answered stands in another.
Stands(first, entry) ==
    /\ first.whole # "blank" => entry.whole = first.whole
    /\ \A l \in Given(first) : l \in Given(entry) /\ entry.parts[l] = first.parts[l]

\* Of a place whose batch is done, under a number no other batch answered: what its first
\* reply answered stands, and if both replies answered it between them it is answered.
Kept(i) ==
    paper[i].number \notin twice =>
        /\ i \in DOMAIN said => /\ paper[i].number \in DOMAIN answers
                                /\ Stands(said[i], answers[paper[i].number])
        /\ Alone(i) /\ Between(i) => /\ paper[i].number \in DOMAIN answers
                                     /\ Answered(paper[i], answers[paper[i].number])

\* Nothing is said of a place before its batch is asked; a first reply that is held is what is
\* said of the batch under way.
Answering ==
    /\ step \notin {"scheme", "again", "answered", "refused", "failed"} =>
           DOMAIN said = {} /\ DOMAIN more = {}
    /\ step \in {"scheme", "again"} =>
           /\ left \subseteq DOMAIN paper /\ DOMAIN said \subseteq DOMAIN paper
           /\ DOMAIN more \cap left = {}
           /\ \A i \in DOMAIN paper \ left : Kept(i)
    /\ step = "scheme" => DOMAIN said \cap left = {}
    /\ step = "again" =>
           /\ DOMAIN said \cap left \subseteq Batch(left)
           /\ \A i \in Batch(left) : i \in DOMAIN said <=> paper[i].number \in DOMAIN held
           /\ \A i \in Batch(left) \cap DOMAIN said : said[i] = held[paper[i].number]
    /\ AnswersStand /\ RefusedOnlyForGaps

LEMMA StandsItself == ASSUME NEW e PROVE Stands(e, e)
  BY DEF Stands

LEMMA FilledStands ==
    ASSUME NEW first \in Entry, NEW second \in Entry
    PROVE  Stands(first, Filled(first, second))
  BY FilledIs DEF Stands

\* Gaps filled are answered by the two entries' labels together.
LEMMA FilledAnswers ==
    ASSUME NEW q \in Question, NEW first \in Entry, NEW second \in Entry,
           IF q.labels = {} THEN first.whole # "blank" \/ second.whole # "blank"
           ELSE \A l \in q.labels : Covered(l, Given(first) \cup Given(second))
    PROVE  Answered(q, Filled(first, second))
<1>1. CASE q.labels = {}
  <2>1. CASE first.whole # "blank"
    BY <1>1, <2>1, FilledIs DEF Answered
  <2>2. CASE first.whole = "blank"
    BY <1>1, <2>2, FilledIs DEF Answered
  <2>3. QED
    BY <2>1, <2>2
<1>2. CASE q.labels # {}
  <2>1. Given(Filled(first, second)) = Given(first) \cup Given(second)
    BY FilledIs
  <2>2. \A l \in q.labels : Covered(l, Given(Filled(first, second)))
    BY <1>2, <2>1
  <2>3. QED
    BY <1>2, <2>2 DEF Answered
<1>3. QED
  BY <1>1, <1>2

\* Taking a batch's answers leaves what is kept of the batches before it.
LEMMA EarlierIsKept ==
    ASSUME TypeOK, NEW entries, IsOver(entries, Number, Entry), TakeAnswers(entries),
           UNCHANGED paper, NEW i \in DOMAIN paper, Kept(i),
           i \in DOMAIN said' <=> i \in DOMAIN said, i \in DOMAIN said => said'[i] = said[i],
           i \in DOMAIN more' <=> i \in DOMAIN more, i \in DOMAIN more => more'[i] = more[i]
    PROVE  Kept(i)'
<1>1. PICK n : n = paper[i].number
  OBVIOUS
<1>2. SUFFICES ASSUME n \notin twice' PROVE Kept(i)'
  BY <1>1 DEF Kept
<1>3. n \notin twice /\ ~(n \in DOMAIN answers /\ n \in DOMAIN entries)
  BY <1>2 DEF TakeAnswers
<1>4. n \in DOMAIN answers => n \in DOMAIN answers' /\ answers'[n] = answers[n]
  BY <1>3 DEF TakeAnswers, Updated
<1>5. i \in DOMAIN said' => n \in DOMAIN answers' /\ Stands(said'[i], answers'[n])
  BY <1>1, <1>3, <1>4 DEF Kept
<1>6. Alone(i)' = Alone(i)
  BY DEF Alone
<1>7. Between(i)' = Between(i)
  BY DEF Between
<1>8. Alone(i)' /\ Between(i)' => n \in DOMAIN answers' /\ Answered(paper[i], answers'[n])
  BY <1>1, <1>3, <1>4, <1>6, <1>7 DEF Kept
<1>9. QED
  BY <1>1, <1>5, <1>8 DEF Kept

\* What a batch is told under a number of its own is kept, if what was said of it stands there,
\* and if both replies answered it between them so does that.
LEMMA BatchIsKept ==
    ASSUME NEW entries, TakeAnswers(entries), UNCHANGED paper, NEW i \in DOMAIN paper,
           i \in DOMAIN said' => /\ paper[i].number \in DOMAIN entries
                                 /\ Stands(said'[i], entries[paper[i].number]),
           Alone(i) /\ Between(i)' => /\ paper[i].number \in DOMAIN entries
                                      /\ Answered(paper[i], entries[paper[i].number])
    PROVE  Kept(i)'
<1>1. \A n \in DOMAIN entries : n \in DOMAIN answers' /\ answers'[n] = entries[n]
  BY DEF TakeAnswers, Updated
<1>2. Alone(i)' = Alone(i)
  BY DEF Alone
<1>3. QED
  BY <1>1, <1>2 DEF Kept

LEMMA FirstReplyIsKept ==
    ASSUME TypeOK, Answering, NEW reply \in Over(Number, Entries("first")), ReadScheme(reply)
    PROVE  Answering'
<1>1. IsOver(reply, Number, Entry)
  BY EntriesAre
<1>2. PICK batch : batch = Batch(left)
  OBVIOUS
<1>3. batch \subseteq left /\ left \subseteq DOMAIN paper /\ step = "scheme" /\ UNCHANGED <<paper, more>>
  BY <1>2 DEF Batch, Answering, ReadScheme, paperVars
<1>4. /\ DOMAIN said' = DOMAIN said \cup {i \in batch : paper[i].number \in DOMAIN reply}
      /\ \A i \in batch : paper[i].number \in DOMAIN reply => said'[i] = reply[paper[i].number]
      /\ \A i \in DOMAIN said \ batch : said'[i] = said[i]
  <2>1. said' = Updated(said, Of(batch, reply))
    BY <1>2 DEF ReadScheme
  <2>2. QED
    BY <2>1 DEF Updated, Of
<1>5. /\ DOMAIN said \cap left = {} /\ DOMAIN said \subseteq DOMAIN paper
      /\ DOMAIN more \cap left = {} /\ \A i \in DOMAIN paper \ left : Kept(i)
  BY <1>3 DEF Answering
<1>6. AnswersStand' /\ RefusedOnlyForGaps'
  BY DEF AnswersStand, RefusedOnlyForGaps, ReadScheme, TakeAnswers
<1>7. CASE /\ Missing(batch, reply) \cup Gaps(batch, reply) = {} /\ TakeAnswers(reply)
  <2>1. left' = left \ batch /\ step' = "scheme"
    BY <1>2, <1>7 DEF TakeAnswers
  <2>2. ASSUME NEW i \in batch PROVE Kept(i)'
    <3>1. i \in DOMAIN paper
      BY <1>3
    <3>2. paper[i].number \in DOMAIN reply
      BY <1>7 DEF Missing
    <3>3. Answered(paper[i], reply[paper[i].number])
      BY <1>7, <3>2 DEF Gaps
    <3>4. Stands(said'[i], reply[paper[i].number])
      BY <1>4, <3>2, StandsItself
    <3>5. QED
      BY <1>3, <1>7, <3>1, <3>2, <3>3, <3>4, BatchIsKept
  <2>3. ASSUME NEW i \in DOMAIN paper \ left PROVE Kept(i)'
    <3>1. i \notin batch
      BY <1>3
    <3>2. /\ i \in DOMAIN said' <=> i \in DOMAIN said
          /\ i \in DOMAIN said => said'[i] = said[i]
      BY <1>4, <3>1
    <3>3. QED
      BY <1>1, <1>3, <1>5, <1>7, <3>2, EarlierIsKept
  <2>4. \A i \in DOMAIN paper' \ left' : Kept(i)'
    BY <1>3, <2>1, <2>2, <2>3
  <2>5. QED
    BY <1>3, <1>4, <1>5, <1>6, <2>1, <2>4 DEF Answering
<1>8. CASE held' = reply /\ step' = "again" /\ UNCHANGED <<left, answers, twice>>
  <2>1. ASSUME NEW i \in DOMAIN paper \ left PROVE Kept(i)'
    <3>1. i \notin batch
      BY <1>3
    <3>2. /\ i \in DOMAIN said' <=> i \in DOMAIN said
          /\ i \in DOMAIN said => said'[i] = said[i]
      BY <1>4, <3>1
    <3>3. Between(i)' = Between(i) /\ Alone(i)' = Alone(i)
      BY <1>3, <3>2 DEF Between, Alone
    <3>4. QED
      BY <1>3, <1>5, <1>8, <3>2, <3>3 DEF Kept
  <2>2. Batch(left)' = batch
    BY <1>2, <1>8 DEF Batch
  <2>3. DOMAIN said' \cap left' \subseteq batch
    BY <1>4, <1>5, <1>8
  <2>4. \A i \in batch : i \in DOMAIN said' <=> paper[i].number \in DOMAIN held'
    BY <1>3, <1>4, <1>5, <1>8
  <2>5. \A i \in batch \cap DOMAIN said' : said'[i] = held'[paper[i].number]
    BY <1>4, <1>8, <2>4
  <2>6. DOMAIN said' \subseteq DOMAIN paper
    BY <1>3, <1>4, <1>5
  <2>7. QED
    BY <1>3, <1>5, <1>6, <1>8, <2>1, <2>2, <2>3, <2>4, <2>5, <2>6 DEF Answering
<1>9. QED
  BY <1>2, <1>7, <1>8 DEF ReadScheme

LEMMA SecondReplyIsKept ==
    ASSUME TypeOK, Answering, NEW reply \in Over(Number, Entries("second")), ReadAgain(reply)
    PROVE  Answering'
<1>1. IsOver(reply, Number, Entry) /\ IsOver(held, Number, Entry)
  BY EntriesAre DEF TypeOK
<1>2. PICK batch : batch = Batch(left)
  OBVIOUS
<1>3. /\ batch \subseteq left /\ left \subseteq DOMAIN paper /\ step = "again"
      /\ UNCHANGED <<paper, said>>
  BY <1>2 DEF Batch, Answering, ReadAgain, paperVars
<1>4. /\ DOMAIN more' = DOMAIN more \cup {i \in batch : paper[i].number \in DOMAIN reply}
      /\ \A i \in batch : paper[i].number \in DOMAIN reply => more'[i] = reply[paper[i].number]
      /\ \A i \in DOMAIN more \ batch : more'[i] = more[i]
  <2>1. more' = Updated(more, Of(batch, reply))
    BY <1>2 DEF ReadAgain
  <2>2. QED
    BY <2>1 DEF Updated, Of
<1>5. /\ DOMAIN said \cap left \subseteq batch /\ DOMAIN said \subseteq DOMAIN paper
      /\ DOMAIN more \cap left = {} /\ \A i \in DOMAIN paper \ left : Kept(i)
      /\ \A i \in batch : i \in DOMAIN said <=> paper[i].number \in DOMAIN held
      /\ \A i \in batch \cap DOMAIN said : said[i] = held[paper[i].number]
  BY <1>2, <1>3 DEF Answering
<1>6. PICK whole : whole = Completed(held, reply)
  OBVIOUS
<1>7. /\ IsOver(whole, Number, Entry) /\ TakeAnswers(whole)
      /\ left' = left \ batch /\ step' = "scheme"
  BY <1>1, <1>2, <1>6, CompletedIs DEF ReadAgain, TakeAnswers
<1>8. ASSUME NEW i \in batch PROVE Kept(i)'
  <2>1. PICK n : n = paper[i].number
    OBVIOUS
  <2>2. i \in DOMAIN paper /\ paper[i] \in Question
    BY <1>3 DEF TypeOK, IsOver
  <2>3. CASE n \in DOMAIN held
    <3>1. i \in DOMAIN said /\ said[i] = held[n] /\ held[n] \in Entry /\ n \in DOMAIN whole
      BY <1>1, <1>5, <1>6, <2>1, <2>3, CompletedIs DEF IsOver
    <3>2. CASE n \in Gaps(batch, held) \cap DOMAIN reply
      <4>1. whole[n] = Filled(held[n], reply[n]) /\ reply[n] \in Entry
        BY <1>1, <1>2, <1>6, <3>2, CompletedIs DEF IsOver
      <4>2. Stands(said[i], whole[n])
        BY <3>1, <4>1, FilledStands
      <4>3. more'[i] = reply[n]
        BY <1>4, <2>1, <3>2
      <4>4. ASSUME Alone(i), Between(i)' PROVE Answered(paper[i], whole[n])
        <5>1. PICK j \in batch : paper[j].number = n /\ ~Answered(paper[j], held[n])
          BY <3>2 DEF Gaps
        <5>2. j = i
          BY <1>3, <2>1, <4>4, <5>1 DEF Alone
        <5>3. IF paper[i].labels = {} THEN reply[n].whole # "blank"
              ELSE \A l \in paper[i].labels : Covered(l, Given(held[n]) \cup Given(reply[n]))
          BY <1>3, <3>1, <4>3, <4>4, <5>1, <5>2 DEF Between
        <5>4. QED
          BY <2>2, <3>1, <4>1, <5>3, FilledAnswers
      <4>5. QED
        BY <1>3, <1>7, <2>1, <2>2, <3>1, <4>2, <4>4, BatchIsKept
    <3>3. CASE n \notin Gaps(batch, held) \cap DOMAIN reply
      <4>1. whole[n] = held[n]
        BY <1>1, <1>2, <1>6, <2>3, <3>3, CompletedIs
      <4>2. Stands(said[i], whole[n])
        BY <3>1, <4>1, StandsItself
      <4>3. ASSUME Alone(i), Between(i)' PROVE Answered(paper[i], whole[n])
        <5>1. CASE n \notin Gaps(batch, held)
          BY <2>1, <2>3, <4>1, <5>1 DEF Gaps
        <5>2. CASE n \notin DOMAIN reply
          <6>1. i \notin DOMAIN more'
            BY <1>3, <1>4, <1>5, <2>1, <5>2
          <6>2. QED
            BY <1>3, <3>1, <4>1, <4>3, <6>1 DEF Between
        <5>3. QED
          BY <3>3, <5>1, <5>2
      <4>4. QED
        BY <1>3, <1>7, <2>1, <2>2, <3>1, <4>2, <4>3, BatchIsKept
    <3>4. QED
      BY <3>2, <3>3
  <2>4. CASE n \notin DOMAIN held
    <3>1. i \notin DOMAIN said
      BY <1>5, <2>1, <2>4
    <3>2. n \in Missing(batch, held)
      BY <2>1, <2>4 DEF Missing
    <3>3. ASSUME Between(i)' PROVE n \in DOMAIN whole /\ Answered(paper[i], whole[n])
      <4>1. i \in DOMAIN more' /\ Answered(paper[i], more'[i])
        BY <1>3, <3>1, <3>3 DEF Between
      <4>2. n \in DOMAIN reply /\ more'[i] = reply[n]
        BY <1>3, <1>4, <1>5, <2>1, <4>1
      <4>3. n \in DOMAIN whole /\ whole[n] = reply[n]
        BY <1>1, <1>2, <1>6, <3>2, <4>2, CompletedIs
      <4>4. QED
        BY <4>1, <4>2, <4>3
    <3>4. QED
      BY <1>3, <1>7, <2>1, <2>2, <3>1, <3>3, BatchIsKept
  <2>5. QED
    BY <2>3, <2>4
<1>9. ASSUME NEW i \in DOMAIN paper \ left PROVE Kept(i)'
  <2>1. i \notin batch
    BY <1>3
  <2>2. /\ i \in DOMAIN more' <=> i \in DOMAIN more
        /\ i \in DOMAIN more => more'[i] = more[i]
    BY <1>4, <2>1
  <2>3. QED
    BY <1>3, <1>5, <1>7, <2>2, EarlierIsKept
<1>10. \A i \in DOMAIN paper' \ left' : Kept(i)'
  BY <1>3, <1>7, <1>8, <1>9
<1>11. DOMAIN said' \cap left' = {} /\ DOMAIN more' \cap left' = {}
  BY <1>3, <1>4, <1>5, <1>7
<1>12. AnswersStand' /\ RefusedOnlyForGaps'
  BY <1>7 DEF AnswersStand, RefusedOnlyForGaps
<1>13. QED
  BY <1>3, <1>5, <1>7, <1>10, <1>11, <1>12 DEF Answering

LEMMA MergedIsKept == TypeOK /\ Answering /\ MergeScheme => Answering'
<1> SUFFICES ASSUME TypeOK, Answering, MergeScheme PROVE Answering'
  OBVIOUS
<1>1. /\ \A i \in DOMAIN paper : Kept(i)
      /\ DOMAIN said \subseteq DOMAIN paper /\ UNCHANGED <<paper, answers, said, more, twice>>
  BY DEF Answering, MergeScheme, paperVars
<1>2. CASE /\ Missing(DOMAIN paper, answers) \cup Gaps(DOMAIN paper, answers) = {}
           /\ step' = "answered" /\ scheme' = Of(DOMAIN paper, answers)
  <2>1. \A i \in DOMAIN paper : scheme'[i] = answers[paper[i].number]
    BY <1>2 DEF Missing, Of
  <2>2. AnswersStand'
    BY <1>1, <1>2, <2>1 DEF AnswersStand, Kept, Stands
  <2>3. QED
    BY <1>2, <2>2 DEF Answering, RefusedOnlyForGaps
<1>3. CASE /\ Missing(DOMAIN paper, answers) \cup Gaps(DOMAIN paper, answers) # {}
           /\ step' = "refused"
  <2>1. SUFFICES ASSUME \A i \in DOMAIN paper :
                            paper[i].number \notin twice /\ Alone(i) /\ Between(i)
                 PROVE  FALSE
    <3>1. \A i \in DOMAIN paper : (Alone(i)' <=> Alone(i)) /\ (Between(i)' <=> Between(i))
      BY <1>1 DEF Alone, Between
    <3>2. QED
      BY <1>1, <1>3, <3>1 DEF Answering, AnswersStand, RefusedOnlyForGaps
  <2>2. \A i \in DOMAIN paper : /\ paper[i].number \in DOMAIN answers
                                /\ Answered(paper[i], answers[paper[i].number])
    BY <1>1, <2>1 DEF Kept
  <2>3. Missing(DOMAIN paper, answers) = {} /\ Gaps(DOMAIN paper, answers) = {}
    BY <2>2 DEF Missing, Gaps
  <2>4. QED
    BY <1>3, <2>3
<1>4. QED
  BY <1>2, <1>3 DEF MergeScheme

LEMMA StepAnswers == TypeOK /\ Answering /\ [Next]_vars => Answering'
<1> SUFFICES ASSUME TypeOK, Answering, [Next]_vars PROVE Answering'
  OBVIOUS
<1>1. ASSUME UNCHANGED <<said, more>>,
             step \notin {"scheme", "again", "answered", "refused", "failed"},
             step' \notin {"scheme", "again", "answered", "refused"}
      PROVE  Answering'
  BY <1>1 DEF Answering, AnswersStand, RefusedOnlyForGaps
<1>2. CASE UNCHANGED <<step, left, paper, schemeVars>>
  <2>1. \A i : Kept(i)' <=> Kept(i)
    BY <1>2 DEF Kept, Alone, Between, schemeVars
  <2>2. Batch(left)' = Batch(left)
    BY <1>2 DEF Batch
  <2>3. (AnswersStand' <=> AnswersStand) /\ (RefusedOnlyForGaps' <=> RefusedOnlyForGaps)
    BY <1>2 DEF AnswersStand, RefusedOnlyForGaps, Alone, Between, schemeVars
  <2>4. QED
    BY <1>2, <2>1, <2>2, <2>3 DEF Answering, schemeVars
<1>3. CASE Misfits
  BY <1>2, <1>3 DEF Misfits, paperVars
<1>4. CASE Fails
  BY <1>4 DEF Fails, Answering, AnswersStand, RefusedOnlyForGaps
<1>5. CASE Extract
  BY <1>1, <1>5 DEF Extract, ReadShape, ReadQuestions, ReadWording, TakeQuestions, Settle,
                    ReadMaterial, Merge, schemeVars
<1>6. CASE BeginScheme
  BY <1>6 DEF BeginScheme, Answering, AnswersStand, RefusedOnlyForGaps, paperVars, schemeVars
<1>7. CASE UNCHANGED vars
  BY <1>2, <1>7 DEF vars, paperVars
<1>8. QED
  BY <1>3, <1>4, <1>5, <1>6, <1>7, FirstReplyIsKept, SecondReplyIsKept, MergedIsKept
     DEF Next, ExtractMarkScheme

LEMMA AlwaysAnswering == Spec => []Answering
<1>1. Init => TypeOK /\ Answering
  BY InitTypes, EmptyIsOver DEF Init, Answering, AnswersStand, RefusedOnlyForGaps
<1>2. TypeOK /\ Answering /\ [Next]_vars => (TypeOK /\ Answering)'
  BY StepTypes, StepAnswers
<1>3. QED
  BY <1>1, <1>2, PTL DEF Spec

\* What a first reply answered stands in the scheme, for any questions, labels and replies.
THEOREM FirstAnswersStand == Spec => []AnswersStand
<1>1. Answering => AnswersStand
  BY DEF Answering
<1>2. QED
  BY <1>1, AlwaysAnswering, PTL

\* A scheme that its two replies answered between them is never refused.
THEOREM RefusalsAreForGaps == Spec => []RefusedOnlyForGaps
<1>1. Answering => RefusedOnlyForGaps
  BY DEF Answering
<1>2. QED
  BY <1>1, AlwaysAnswering, PTL
===============================================================================
