------------------------------ MODULE EditorProofs ------------------------------
(***************************************************************************)
(* Theorems about the paper editor, for every name, cap, bound, stored     *)
(* paper and figure.                                                       *)
(*                                                                         *)
(* The tree a draft is, whatever edits it has had, stays of the types of   *)
(* PaperDraft with every table of one width: SoundPaper, level by level.   *)
(* What builds is set, and cards stand alone, of any such paper.  What the *)
(* library calls recursive over lists (FlattenSeq) is reasoned about by    *)
(* the least place at which it would go wrong.                             *)
(***************************************************************************)
EXTENDS Editor, SequenceTheorems, FiniteSetTheorems, WellFoundedInduction, TLAPS

-------------------------------------------------------------------------------
(***************************************************************************)
(* Lists.                                                                  *)
(***************************************************************************)

\* What is in a list and what a list is, as the provers want them.
LEMMA ListIs ==
    ASSUME NEW S, NEW list \in Seq(S)
    PROVE  /\ Len(list) \in Nat /\ DOMAIN list = 1..Len(list)
           /\ \A i \in DOMAIN list : list[i] \in S
           /\ \A x \in Range(list) : x \in S
  BY DEF Range

\* A list made place by place.
LEMMA ListOf ==
    ASSUME NEW S, NEW n \in Nat, NEW f, f = [i \in 1..n |-> f[i]], \A i \in 1..n : f[i] \in S
    PROVE  f \in Seq(S)
<1>1. f \in [1..n -> S]
  OBVIOUS
<1>2. QED
  BY <1>1, SeqDef

\* Moving an item keeps a list a list of the same things.
LEMMA MovedKeeps ==
    ASSUME NEW S, NEW list \in Seq(S), NEW i \in DOMAIN list, NEW delta \in Int
    PROVE  Moved(list, i, delta) \in Seq(S)
<1>1. CASE i + delta \in DOMAIN list
  <2>1. PICK j \in DOMAIN list : j = i + delta
    BY <1>1
  <2>2. PICK once : once = [list EXCEPT ![i] = list[j]]
    OBVIOUS
  <2>3. once \in Seq(S) /\ DOMAIN once = DOMAIN list
    BY <2>2, ListIs, ExceptSeq
  <2>4. [once EXCEPT ![j] = list[i]] \in Seq(S)
    BY <2>3, ListIs, ExceptSeq
  <2>5. QED
    BY <1>1, <2>1, <2>2, <2>4 DEF Moved
<1>2. CASE i + delta \notin DOMAIN list
  BY <1>2 DEF Moved
<1>3. QED
  BY <1>1, <1>2

\* So does removing one,
LEMMA RemovedKeeps ==
    ASSUME NEW S, NEW list \in Seq(S), NEW i \in DOMAIN list
    PROVE  RemoveAt(list, i) \in Seq(S)
<1>1. i \in 1..Len(list) /\ Len(list) \in Nat
  BY ListIs
<1>2. SubSeq(list, 1, i - 1) \in Seq(S) /\ SubSeq(list, i + 1, Len(list)) \in Seq(S)
  BY <1>1, SubSeqProperties
<1>3. QED
  BY <1>2, ConcatProperties DEF RemoveAt

\* and every tool and addition.
LEMMA ToolsKeep ==
    ASSUME NEW S, NEW list \in Seq(S), NEW fresh, fresh \subseteq S,
           NEW next \in Tools(list) \cup Added(list, fresh)
    PROVE  next \in Seq(S)
<1>1. CASE next \in Tools(list)
  <2>1. CASE \E i \in DOMAIN list, delta \in {-1, 1} : next = Moved(list, i, delta)
    BY <2>1, MovedKeeps
  <2>2. CASE \E i \in DOMAIN list : next = RemoveAt(list, i)
    BY <2>2, RemovedKeeps
  <2>3. QED
    BY <1>1, <2>1, <2>2 DEF Tools
<1>2. CASE next \in Added(list, fresh)
  <2>1. PICK new \in fresh : next = Append(list, new)
    BY <1>2 DEF Added
  <2>2. QED
    BY <2>1, AppendProperties
<1>3. QED
  BY <1>1, <1>2

\* An item changed for another of its kind leaves a list of the kind.
LEMMA ChangedKeeps ==
    ASSUME NEW S, NEW list \in Seq(S), NEW i \in DOMAIN list, NEW e \in S
    PROVE  [list EXCEPT ![i] = e] \in Seq(S)
  BY ListIs, ExceptSeq

\* Every non-empty set of numbers has a least one.
LEMMA Least == ASSUME NEW S \in SUBSET Nat, S # {} PROVE \E m \in S : \A k \in S : m <= k
<1>1. IsWellFoundedOn(OpToRel(<, Nat), Nat)
  BY NatLessThanWellFounded
<1>2. PICK R : R = OpToRel(<, Nat)
  OBVIOUS
<1>3. IsWellFoundedOn(R, Nat)
  BY <1>1, <1>2
<1>4. \A x, y \in Nat : x < y => <<x, y>> \in R
  BY <1>2 DEF OpToRel
<1>5. \E x \in S : \A y \in S : <<y, x>> \notin R
  BY <1>3, WFMin
<1>6. PICK m \in S : \A y \in S : <<y, m>> \notin R
  BY <1>5
<1>7. ASSUME NEW k \in S PROVE m <= k
  <2>1. m \in Nat /\ k \in Nat
    OBVIOUS
  <2>2. ~(k < m)
    BY <1>4, <1>6, <2>1
  <2>3. QED
    BY <2>1, <2>2
<1>8. QED
  BY <1>7

\* The lists strung together up to each, which FlattenSeq is defined by.
Strung(seqs, n, flat) ==
    flat = [i \in 1..n |-> IF i = 1 THEN seqs[i] ELSE flat[i - 1] \o seqs[i]]

\* They exist, however many there are.
LEMMA StrungExists ==
    ASSUME NEW seqs, NEW n \in Nat
    PROVE  \E flat : Strung(seqs, n, flat)
<1>1. SUFFICES ASSUME ~ \E flat : Strung(seqs, n, flat) PROVE FALSE
  OBVIOUS
<1>2. PICK bad \in SUBSET Nat : bad = {m \in Nat : ~ \E flat : Strung(seqs, m, flat)}
  OBVIOUS
<1>3. PICK m \in bad : \A k \in bad : m <= k
  BY <1>1, <1>2, Least
<1>4. m \in Nat /\ ~ \E flat : Strung(seqs, m, flat)
  BY <1>2
<1>5. CASE m = 0
  <2>1. Strung(seqs, 0, [i \in 1..0 |-> i])
    BY DEF Strung
  <2>2. QED
    BY <1>4, <1>5, <2>1
<1>6. CASE m # 0
  <2>1. m - 1 \in Nat /\ m - 1 \notin bad
    BY <1>3, <1>4, <1>6
  <2>2. PICK flat : Strung(seqs, m - 1, flat)
    BY <1>2, <2>1
  <2>3. PICK more : more = [i \in 1..m |-> IF i < m THEN flat[i] ELSE
                                              IF m = 1 THEN seqs[m] ELSE flat[m - 1] \o seqs[m]]
    OBVIOUS
  <2>4. ASSUME NEW i \in 1..m
        PROVE  more[i] = IF i = 1 THEN seqs[i] ELSE more[i - 1] \o seqs[i]
    <3>1. CASE i < m
      <4>1. i \in 1..(m - 1) /\ (i # 1 => i - 1 \in 1..m /\ i - 1 < m)
        BY <3>1, <1>4
      <4>2. flat[i] = IF i = 1 THEN seqs[i] ELSE flat[i - 1] \o seqs[i]
        BY <2>2, <4>1 DEF Strung
      <4>3. QED
        BY <2>3, <3>1, <4>1, <4>2
    <3>2. CASE i = m
      <4>1. i # 1 => i - 1 \in 1..m /\ i - 1 < m
        BY <1>4, <3>2
      <4>2. QED
        BY <2>3, <3>2, <4>1
    <3>3. QED
      BY <1>4, <3>1, <3>2
  <2>5. more = [i \in 1..m |-> more[i]]
    BY <2>3
  <2>6. Strung(seqs, m, more)
    BY <2>4, <2>5 DEF Strung
  <2>7. QED
    BY <1>4, <2>6
<1>7. QED
  BY <1>5, <1>6

\* A list of lists with any in it, strung together, is what the last of the lists strung
\* together up to each is.
LEMMA FlattenBy ==
    ASSUME NEW S, NEW seqs \in Seq(Seq(S)), Len(seqs) # 0
    PROVE  \E flat : Strung(seqs, Len(seqs), flat) /\ FlattenSeq(seqs) = flat[Len(seqs)]
<1>1. PICK n \in Nat : n = Len(seqs) /\ n # 0
  BY ListIs
<1>2. PICK flat : flat = CHOOSE f : Strung(seqs, n, f)
  OBVIOUS
<1>3. Strung(seqs, n, flat)
  BY <1>2, StrungExists
<1>4. FlattenSeq(seqs) = flat[n]
  BY <1>1, <1>2 DEF FlattenSeq, Strung
<1>5. QED
  BY <1>1, <1>3, <1>4

\* A list is of the things in the first lists.
Gathers(S, seqs, list, n) ==
    list \in Seq(S) /\ \A x : x \in Range(list) <=> \E i \in 1..n : x \in Range(seqs[i])

\* A list of lists strung together is a list, of what is in any of them.
LEMMA FlattenIs ==
    ASSUME NEW S, NEW seqs \in Seq(Seq(S))
    PROVE  /\ FlattenSeq(seqs) \in Seq(S)
           /\ \A x : x \in Range(FlattenSeq(seqs)) <=> \E i \in DOMAIN seqs : x \in Range(seqs[i])
<1>a. /\ Len(seqs) \in Nat /\ DOMAIN seqs = 1..Len(seqs)
      /\ \A i \in DOMAIN seqs : seqs[i] \in Seq(S)
  BY ListIs
<1>1. CASE Len(seqs) = 0
  <2>1. seqs = <<>> /\ FlattenSeq(seqs) = <<>>
    BY <1>1, <1>a, EmptySeq DEF FlattenSeq
  <2>2. Range(<<>>) = {} /\ <<>> \in Seq(S)
    BY EmptySeq DEF Range
  <2>3. DOMAIN seqs = {}
    BY <1>a, <1>1
  <2>4. \A x : x \notin Range(FlattenSeq(seqs))
    BY <2>1, <2>2
  <2>5. QED
    BY <2>1, <2>2, <2>3, <2>4
<1>2. CASE Len(seqs) # 0
  <2>1. PICK n \in Nat : n = Len(seqs) /\ n # 0
    BY <1>2, <1>a
  <2>2. PICK flat : Strung(seqs, n, flat) /\ FlattenSeq(seqs) = flat[n]
    BY <2>1, FlattenBy
  <2>3. Strung(seqs, n, flat)
    BY <2>2
  <2>4. FlattenSeq(seqs) = flat[n]
    BY <2>2
  <2>5. PICK bad \in SUBSET Nat : bad = {m \in Nat : m \in 1..n /\ ~Gathers(S, seqs, flat[m], m)}
    OBVIOUS
  <2>6. bad = {}
    <3>1. SUFFICES ASSUME bad # {} PROVE FALSE
      OBVIOUS
    <3>2. PICK m \in bad : \A k \in bad : m <= k
      BY <3>1, Least
    <3>3. m \in 1..n /\ seqs[m] \in Seq(S)
      BY <2>1, <2>5, <1>a
    <3>4. CASE m = 1
      <4>1. flat[m] = seqs[1] /\ seqs[1] \in Seq(S)
        BY <2>3, <3>3, <3>4 DEF Strung
      <4>2. Gathers(S, seqs, seqs[1], 1)
        BY <4>1 DEF Gathers
      <4>3. QED
        BY <2>5, <3>2, <3>4, <4>1, <4>2
    <3>5. CASE m # 1
      <4>1. m - 1 \in 1..n /\ m - 1 \notin bad
        BY <3>2, <3>3, <3>5
      <4>2. flat[m] = flat[m - 1] \o seqs[m]
        BY <2>3, <3>3, <3>5 DEF Strung
      <4>3. /\ flat[m - 1] \in Seq(S)
            /\ \A x : x \in Range(flat[m - 1]) <=> \E i \in 1..(m - 1) : x \in Range(seqs[i])
        BY <2>5, <4>1 DEF Gathers
      <4>4. flat[m] \in Seq(S) /\ Range(flat[m]) = Range(flat[m - 1]) \cup Range(seqs[m])
        BY <3>3, <4>2, <4>3, ConcatProperties, RangeConcatenation
      <4>5. \A x : x \in Range(flat[m]) <=> \E i \in 1..m : x \in Range(seqs[i])
        <5>1. 1..m = (1..(m - 1)) \cup {m}
          BY <3>3
        <5>2. QED
          BY <5>1, <4>3, <4>4
      <4>6. QED
        BY <2>5, <3>2, <4>4, <4>5 DEF Gathers
    <3>6. QED
      BY <3>4, <3>5
  <2>7. n \in 1..n
    BY <2>1
  <2>8. Gathers(S, seqs, flat[n], n)
    BY <2>5, <2>6, <2>7
  <2>9. QED
    BY <2>1, <2>4, <2>8, <1>a DEF Gathers
<1>3. QED
  BY <1>1, <1>2

\* One list more comes after the others.
LEMMA FlattenAppend ==
    ASSUME NEW S, NEW seqs \in Seq(Seq(S)), NEW list \in Seq(S)
    PROVE  FlattenSeq(Append(seqs, list)) = FlattenSeq(seqs) \o list
<1>1. PICK n \in Nat : n = Len(seqs)
  BY ListIs
<1>2. PICK more \in Seq(Seq(S)) : more = Append(seqs, list)
  BY AppendProperties
<1>3. Len(more) = n + 1 /\ more[n + 1] = list /\ \A i \in 1..n : more[i] = seqs[i]
  BY <1>1, <1>2, AppendProperties
<1>4. PICK g : Strung(more, n + 1, g) /\ FlattenSeq(more) = g[n + 1]
  BY <1>1, <1>3, FlattenBy
<1>5. CASE n = 0
  <2>1. seqs = <<>>
    BY <1>1, <1>5, EmptySeq
  <2>2. FlattenSeq(seqs) = <<>>
    BY <2>1, <1>1, <1>5 DEF FlattenSeq
  <2>3. g[1] = more[1]
    BY <1>4, <1>5 DEF Strung
  <2>4. FlattenSeq(more) = list
    BY <1>3, <1>4, <1>5, <2>3
  <2>5. QED
    BY <1>2, <2>2, <2>4, ConcatEmptySeq
<1>6. CASE n # 0
  <2>1. PICK f : Strung(seqs, n, f) /\ FlattenSeq(seqs) = f[n]
    BY <1>1, <1>6, FlattenBy
  <2>2. PICK bad \in SUBSET Nat : bad = {m \in Nat : m \in 1..n /\ f[m] # g[m]}
    OBVIOUS
  <2>3. bad = {}
    <3>1. SUFFICES ASSUME bad # {} PROVE FALSE
      OBVIOUS
    <3>2. PICK m \in bad : \A k \in bad : m <= k
      BY <3>1, Least
    <3>3. m \in 1..n /\ m \in 1..(n + 1) /\ f[m] # g[m]
      BY <2>2
    <3>4. /\ f[m] = IF m = 1 THEN seqs[m] ELSE f[m - 1] \o seqs[m]
          /\ g[m] = IF m = 1 THEN more[m] ELSE g[m - 1] \o more[m]
      BY <1>4, <2>1, <3>3 DEF Strung
    <3>5. m # 1 /\ f[m - 1] # g[m - 1]
      BY <1>3, <3>3, <3>4
    <3>6. m - 1 \in bad
      BY <2>2, <3>3, <3>5
    <3>7. QED
      BY <3>2, <3>6
  <2>4. f[n] = g[n]
    <3>1. n \in 1..n
      BY <1>6
    <3>2. QED
      BY <2>2, <2>3, <3>1
  <2>5. g[n + 1] = g[n] \o more[n + 1]
    <3>1. n + 1 \in 1..(n + 1) /\ n + 1 # 1 /\ (n + 1) - 1 = n
      BY <1>6
    <3>2. g[n + 1] = IF n + 1 = 1 THEN more[n + 1] ELSE g[(n + 1) - 1] \o more[n + 1]
      BY <1>4, <3>1 DEF Strung
    <3>3. QED
      BY <3>1, <3>2
  <2>6. QED
    BY <1>2, <1>3, <1>4, <2>1, <2>4, <2>5
<1>7. QED
  BY <1>5, <1>6

\* It is all one which of three lists are put together first.
Associates(Lists) == \A f, g, h \in Lists : (f \o g) \o h = f \o (g \o h)
LEMMA JoiningAssociates == ASSUME NEW S PROVE Associates(Seq(S))
  BY ConcatAssociative DEF Associates

\* Lists of lists one after the other are strung together one after the other.
LEMMA FlattenConcat ==
    ASSUME NEW S, NEW seqs \in Seq(Seq(S)), NEW others \in Seq(Seq(S))
    PROVE  FlattenSeq(seqs \o others) = FlattenSeq(seqs) \o FlattenSeq(others)
<1>1. PICK bad \in SUBSET Nat :
        bad = {m \in Nat : \E t \in Seq(Seq(S)) :
                  Len(t) = m /\ FlattenSeq(seqs \o t) # FlattenSeq(seqs) \o FlattenSeq(t)}
  OBVIOUS
<1>2. bad = {}
  <2>1. SUFFICES ASSUME bad # {} PROVE FALSE
    OBVIOUS
  <2>2. PICK m \in bad : \A k \in bad : m <= k
    BY <2>1, Least
  <2>3. PICK t \in Seq(Seq(S)) :
          Len(t) = m /\ FlattenSeq(seqs \o t) # FlattenSeq(seqs) \o FlattenSeq(t)
    BY <1>1
  <2>4. FlattenSeq(seqs) \in Seq(S)
    BY FlattenIs
  <2>5. t # <<>>
    <3>1. SUFFICES ASSUME t = <<>> PROVE FALSE
      OBVIOUS
    <3>2. FlattenSeq(<<>>) = <<>>
      BY EmptySeq DEF FlattenSeq
    <3>3. seqs \o <<>> = seqs /\ FlattenSeq(seqs) \o <<>> = FlattenSeq(seqs)
      BY <2>4, ConcatEmptySeq
    <3>4. QED
      BY <2>3, <3>1, <3>2, <3>3
  <2>6. PICK u \in Seq(Seq(S)), list \in Seq(S) : t = Append(u, list)
    BY <2>5, SequenceEmptyOrAppend
  <2>7. Len(u) \in Nat /\ Len(t) = Len(u) + 1
    BY <2>6, AppendProperties, ListIs
  <2>8. Len(u) \notin bad
    BY <2>2, <2>3, <2>7
  <2>9. FlattenSeq(seqs \o u) = FlattenSeq(seqs) \o FlattenSeq(u)
    BY <1>1, <2>7, <2>8
  <2>10. FlattenSeq(u) \in Seq(S) /\ seqs \o u \in Seq(Seq(S))
    BY FlattenIs, ConcatProperties
  <2>11. seqs \o t = Append(seqs \o u, list)
    <3>1. <<list>> \in Seq(Seq(S))
      BY EmptySeq
    <3>2. t = u \o <<list>> /\ Append(seqs \o u, list) = (seqs \o u) \o <<list>>
      BY <2>6, <2>10, AppendIsConcat
    <3>3. QED
      BY <3>1, <3>2, ConcatAssociative
  <2>12. /\ FlattenSeq(t) = FlattenSeq(u) \o list
         /\ FlattenSeq(seqs \o t) = FlattenSeq(seqs \o u) \o list
    BY <2>6, <2>10, <2>11, FlattenAppend
  <2>13. (FlattenSeq(seqs) \o FlattenSeq(u)) \o list = FlattenSeq(seqs) \o (FlattenSeq(u) \o list)
    <3>1. PICK f \in Seq(S), g \in Seq(S) : f = FlattenSeq(seqs) /\ g = FlattenSeq(u)
      BY <2>4, <2>10
    <3>2. Associates(Seq(S))
      BY JoiningAssociates
    <3>3. (f \o g) \o list = f \o (g \o list)
      BY <3>2 DEF Associates
    <3>4. QED
      BY <3>1, <3>3
  <2>14. QED
    BY <2>3, <2>9, <2>12, <2>13
<1>3. Len(others) \in Nat /\ Len(others) \notin bad
  BY <1>2, ListIs
<1>4. QED
  BY <1>1, <1>3

\* One list strung together is itself.
LEMMA FlattenOne ==
    ASSUME NEW S, NEW list \in Seq(S)
    PROVE  <<list>> \in Seq(Seq(S)) /\ FlattenSeq(<<list>>) = list
<1>1. PICK none \in Seq(Seq(S)) : none = <<>>
  BY EmptySeq
<1>2. Append(none, list) = <<list>> /\ FlattenSeq(none) = <<>>
  BY <1>1, EmptySeq DEF FlattenSeq
<1>3. <<list>> \in Seq(Seq(S))
  BY EmptySeq
<1>4. FlattenSeq(Append(none, list)) = FlattenSeq(none) \o list
  BY FlattenAppend
<1>5. <<>> \o list = list
  BY ConcatEmptySeq
<1>6. QED
  BY <1>2, <1>3, <1>4, <1>5, Zenon

\* What comes before and after an item of a list.
Parted(list, n, i) == list = SubSeq(list, 1, i - 1) \o (<<list[i]>> \o SubSeq(list, i + 1, n))
LEMMA Around ==
    ASSUME NEW S, NEW list \in Seq(S), NEW n \in Nat, n = Len(list), NEW i \in 1..n
    PROVE  /\ SubSeq(list, 1, i - 1) \in Seq(S) /\ SubSeq(list, i + 1, n) \in Seq(S)
           /\ Len(SubSeq(list, 1, i - 1)) = i - 1 /\ Len(SubSeq(list, i + 1, n)) = n - i
           /\ \A k \in 1..(i - 1) : SubSeq(list, 1, i - 1)[k] = list[k]
           /\ \A k \in 1..(n - i) : SubSeq(list, i + 1, n)[k] = list[i + k]
           /\ Parted(list, n, i)
<1>1. \A k \in 1..n : list[k] \in S
  BY ListIs
<1>2. /\ SubSeq(list, 1, i - 1) \in Seq(S)
      /\ Len(SubSeq(list, 1, i - 1)) = i - 1
      /\ \A k \in 1..(i - 1) : SubSeq(list, 1, i - 1)[k] = list[k]
  <2>1. PICK to \in Int : to = i - 1 /\ to <= n /\ 0 <= to
    OBVIOUS
  <2>2. \A k \in 1..to : list[k] \in S
    BY <1>1, <2>1
  <2>3. /\ SubSeq(list, 1, to) \in Seq(S)
        /\ Len(SubSeq(list, 1, to)) = IF 1 <= to THEN to - 1 + 1 ELSE 0
        /\ \A k \in 1..(to - 1 + 1) : SubSeq(list, 1, to)[k] = list[1 + k - 1]
    BY <2>2, SubSeqProperties
  <2>4. Len(SubSeq(list, 1, to)) = to /\ \A k \in 1..to : SubSeq(list, 1, to)[k] = list[k]
    BY <2>1, <2>3
  <2>5. QED
    BY <2>1, <2>3, <2>4
<1>3. /\ SubSeq(list, i + 1, n) \in Seq(S)
      /\ Len(SubSeq(list, i + 1, n)) = n - i
      /\ \A k \in 1..(n - i) : SubSeq(list, i + 1, n)[k] = list[i + k]
  <2>1. PICK from \in Int : from = i + 1 /\ 1 <= from
    OBVIOUS
  <2>2. \A k \in from..n : list[k] \in S
    BY <1>1, <2>1
  <2>3. /\ SubSeq(list, from, n) \in Seq(S)
        /\ Len(SubSeq(list, from, n)) = IF from <= n THEN n - from + 1 ELSE 0
        /\ \A k \in 1..(n - from + 1) : SubSeq(list, from, n)[k] = list[from + k - 1]
    BY <2>2, SubSeqProperties
  <2>4. Len(SubSeq(list, from, n)) = n - i
    BY <2>1, <2>3
  <2>5. ASSUME NEW k \in 1..(n - i) PROVE SubSeq(list, from, n)[k] = list[i + k]
    <3>1. k \in 1..(n - from + 1) /\ from + k - 1 = i + k
      BY <2>1
    <3>2. QED
      BY <2>3, <3>1
  <2>6. QED
    BY <2>1, <2>3, <2>4, <2>5
<1>4. SubSeq(list, i, n) = <<list[i]>> \o SubSeq(list, i + 1, n)
  <2>1. i \in 1..Len(list) /\ n \in i..Len(list)
    OBVIOUS
  <2>2. QED
    BY <2>1, SubSeqRecursiveFirst
<1>5. SubSeq(list, 1, i - 1) \o SubSeq(list, i, n) = SubSeq(list, 1, n)
  <2>1. PICK k \in Nat : k = i - 1 /\ k + 1 = i
    OBVIOUS
  <2>2. 1 \in 1..(Len(list) + 1) /\ k \in (1 - 1)..Len(list) /\ n \in k..Len(list)
    BY <2>1
  <2>3. SubSeq(list, 1, k) \o SubSeq(list, k + 1, n) = SubSeq(list, 1, n)
    BY <2>2, ConcatAdjacentSubSeq
  <2>4. QED
    BY <2>1, <2>3
<1>6. SubSeq(list, 1, n) = list
  BY SubSeqFull
<1>7. QED
  BY <1>2, <1>3, <1>4, <1>5, <1>6 DEF Parted

\* Changing or removing one of the lists changes nothing before it or after it.
Spliced(S, seqs, i, before, after) ==
    /\ FlattenSeq(seqs) = before \o (seqs[i] \o after)
    /\ \A list \in Seq(S) : FlattenSeq([seqs EXCEPT ![i] = list]) = before \o (list \o after)
    /\ FlattenSeq(RemoveAt(seqs, i)) = before \o after
LEMMA FlattenChanged ==
    ASSUME NEW S, NEW seqs \in Seq(Seq(S)), NEW i \in 1..Len(seqs)
    PROVE  \E before, after \in Seq(S) : Spliced(S, seqs, i, before, after)
<1>1. PICK n \in Nat : n = Len(seqs) /\ i \in 1..n
  BY ListIs
<1>2. PICK head \in Seq(Seq(S)), tail \in Seq(Seq(S)) :
        head = SubSeq(seqs, 1, i - 1) /\ tail = SubSeq(seqs, i + 1, n)
  BY <1>1, Around
<1>4. ASSUME NEW other \in Seq(Seq(S)), Len(other) = n, \A k \in 1..n : k # i => other[k] = seqs[k]
      PROVE  other = head \o (<<other[i]>> \o tail)
  <2>1. head = SubSeq(other, 1, i - 1)
    <3>1. \A k \in 1..(i - 1) : k \in 1..n /\ k # i
      BY <1>1
    <3>2. QED
      BY <1>1, <1>2, <1>4, <3>1, Around, SeqEqual
  <2>2. tail = SubSeq(other, i + 1, n)
    <3>1. \A k \in 1..(n - i) : i + k \in 1..n /\ i + k # i
      BY <1>1
    <3>2. \A k \in 1..(n - i) : tail[k] = SubSeq(other, i + 1, n)[k]
      BY <1>1, <1>2, <1>4, <3>1, Around
    <3>3. QED
      BY <1>1, <1>2, <1>4, <3>2, Around, SeqEqual
  <2>3. other = SubSeq(other, 1, i - 1) \o (<<other[i]>> \o SubSeq(other, i + 1, n))
    <3>1. n = Len(other) /\ i \in 1..n
      BY <1>1, <1>4
    <3>2. Parted(other, n, i)
      BY <3>1, Around
    <3>3. QED
      BY <3>2 DEF Parted
  <2>4. QED
    BY <2>1, <2>2, <2>3, Zenon
<1>5. ASSUME NEW other \in Seq(Seq(S)), Len(other) = n, \A k \in 1..n : k # i => other[k] = seqs[k]
      PROVE  FlattenSeq(other) = FlattenSeq(head) \o (other[i] \o FlattenSeq(tail))
  <2>1. other[i] \in Seq(S)
    BY <1>1, <1>5, ListIs
  <2>2. PICK one \in Seq(Seq(S)) : one = <<other[i]>> /\ FlattenSeq(one) = other[i]
    BY <2>1, FlattenOne
  <2>3. other = head \o (one \o tail)
    BY <1>4, <1>5, <2>2
  <2>4. one \o tail \in Seq(Seq(S)) /\ FlattenSeq(one \o tail) = other[i] \o FlattenSeq(tail)
    BY <2>2, ConcatProperties, FlattenConcat
  <2>5. QED
    BY <2>3, <2>4, FlattenConcat
<1>6. PICK before \in Seq(S), after \in Seq(S) : before = FlattenSeq(head) /\ after = FlattenSeq(tail)
  BY FlattenIs
<1>7. FlattenSeq(seqs) = before \o (seqs[i] \o after)
  BY <1>1, <1>5, <1>6
<1>8. ASSUME NEW list \in Seq(S)
      PROVE  FlattenSeq([seqs EXCEPT ![i] = list]) = before \o (list \o after)
  <2>1. PICK other \in Seq(Seq(S)) : other = [seqs EXCEPT ![i] = list]
    BY <1>1, ExceptSeq
  <2>2. Len(other) = n /\ \A k \in 1..n : other[k] = IF k = i THEN list ELSE seqs[k]
    BY <1>1, <2>1, ExceptSeq
  <2>3. QED
    BY <1>1, <1>5, <1>6, <2>1, <2>2
<1>9. FlattenSeq(RemoveAt(seqs, i)) = before \o after
  BY <1>1, <1>2, <1>6, FlattenConcat DEF RemoveAt
<1>10. QED
  BY <1>6, <1>7, <1>8, <1>9 DEF Spliced

\* The cap and the range are numbers, and the range is no shorter.
LEMMA CapIs == Most \in Nat /\ Widest \in Nat /\ Most <= Widest
  BY EditorAssumption, Zenon

-------------------------------------------------------------------------------
(***************************************************************************)
(* Sound papers: of the right types, and every table a question has with   *)
(* as many cells in each row as in the next, and in the header if any.     *)
(***************************************************************************)
Shaped(block) ==
    block.type = "table" =>
        \E c \in Nat \ {0} : block.rows \in Seq({c}) /\ block.header \in {NoHeader, c}

SoundBlock == {block \in Block : Shaped(block)}
SoundSubPart == [said : BOOLEAN, marks : Number, lines : Number, answer : Answer,
                 blocks : Seq(SoundBlock)]
SoundPart == [said : BOOLEAN, marks : Number, lines : Number, answer : Answer,
              blocks : Seq(SoundBlock), parts : Seq(SoundSubPart)]
SoundQuestion == [number : Name \cup {NoName}, said : BOOLEAN, marks : Number, lines : Number,
                  answer : Answer, blocks : Seq(SoundBlock), parts : Seq(SoundPart)]
SoundSection == [choose : Number, questions : Seq(SoundQuestion)]
SoundPaper == [titled : BOOLEAN, year : Number, questions : Seq(SoundQuestion),
               sections : Seq(SoundSection), passages : Seq(Passage), scheme : Seq(SchemeQuestion)]

\* A new answer space, and no answer space, are answers.
LEMMA FreshAnswers ==
    /\ \A type \in AnswerKinds \cup {"unset"} : EmptyAnswer(type) \in Answer
    /\ NotSet \in Answer /\ Unset \in Number
<1>1. <<>> \in Seq(BOOLEAN) /\ Unset \in Number
  BY EmptySeq DEF Number
<1>2. QED
  BY <1>1 DEF EmptyAnswer, NotSet, Answer

\* A new block is sound.
LEMMA FreshBlocks == \A type \in BlockKinds : EmptyBlock(type) \in SoundBlock
<1>1. SUFFICES ASSUME NEW type \in BlockKinds PROVE EmptyBlock(type) \in SoundBlock
  OBVIOUS
<1>2. <<>> \in Seq(Nat) /\ <<2>> \in Seq(Nat) /\ <<2>> \in Seq({2}) /\ Unset \in Number
  BY EmptySeq DEF Number
<1>3. EmptyBlock(type) \in Block
  BY <1>2 DEF EmptyBlock, Block
<1>4. Shaped(EmptyBlock(type))
  BY <1>2 DEF EmptyBlock, Shaped
<1>5. QED
  BY <1>3, <1>4 DEF SoundBlock

\* So is every other new item.
LEMMA FreshItems ==
    /\ EmptySubPart \in SoundSubPart /\ EmptyPart \in SoundPart /\ EmptyQuestion \in SoundQuestion
    /\ EmptySection \in SoundSection /\ EmptyPassage \in Passage
    /\ EmptySchemePart \in SchemePart /\ EmptySchemeQuestion \in SchemeQuestion
<1>1. /\ <<>> \in Seq(SoundBlock) /\ <<>> \in Seq(SoundSubPart) /\ <<>> \in Seq(SoundPart)
      /\ <<>> \in Seq(SoundQuestion) /\ <<>> \in Seq(Block) /\ <<>> \in Seq(SchemePart)
  BY EmptySeq
<1>2. EmptySubPart \in SoundSubPart
  BY <1>1, FreshAnswers DEF EmptySubPart, SoundSubPart
<1>3. EmptyPart \in SoundPart
  BY <1>1, FreshAnswers DEF EmptyPart, SoundPart
<1>4. EmptyQuestion \in SoundQuestion
  BY <1>1, FreshAnswers DEF EmptyQuestion, SoundQuestion
<1>5. EmptySection \in SoundSection
  BY <1>1, FreshAnswers DEF EmptySection, SoundSection
<1>6. EmptyPassage \in Passage
  BY DEF EmptyPassage, Passage
<1>7. EmptySchemePart \in SchemePart
  BY <1>1, FreshAnswers DEF EmptySchemePart, SchemePart
<1>8. EmptySchemeQuestion \in SchemeQuestion
  BY <1>1 DEF EmptySchemeQuestion, SchemeQuestion
<1>9. QED
  BY <1>2, <1>3, <1>4, <1>5, <1>6, <1>7, <1>8

-------------------------------------------------------------------------------
(***************************************************************************)
(* What each control makes of a sound item is sound.                       *)
(***************************************************************************)

\* What the boxes of an answer space make of it,
LEMMA ExtentTypes ==
    ASSUME NEW answer \in Answer, NEW next \in Extent(answer)
    PROVE  next \in Answer
  BY DEF Extent, Answer, AnswerKinds

\* and the list of its options.
LEMMA OptionsTypes ==
    ASSUME NEW answer \in Answer, NEW next \in Options(answer)
    PROVE  next \in Answer
<1>1. PICK options \in ListEdits(answer.options, {FALSE}, LAMBDA said : BOOLEAN) :
        next = [answer EXCEPT !.options = options]
  BY DEF Options
<1>2. answer.options \in Seq(BOOLEAN)
  BY DEF Answer
<1>3. options \in Seq(BOOLEAN)
  <2>1. CASE options \in Tools(answer.options) \cup Added(answer.options, {FALSE})
    BY <2>1, <1>2, ToolsKeep
  <2>2. CASE \E i \in DOMAIN answer.options, said \in BOOLEAN :
               options = [answer.options EXCEPT ![i] = said]
    <3>1. PICK i \in DOMAIN answer.options, said \in BOOLEAN :
            options = [answer.options EXCEPT ![i] = said]
      BY <2>2
    <3>2. QED
      BY <3>1, <1>2, ChangedKeeps, ZenonT(30)
  <2>3. QED
    BY <1>1, <2>1, <2>2 DEF ListEdits
<1>4. QED
  BY <1>1, <1>3 DEF Answer

\* A change of a node's answer space sets an answer and leaves no lines.
LEMMA AnswerIsSet ==
    ASSUME NEW node, node.lines \in Number, node.answer \in Answer, NEW next \in AnswerEdits(node)
    PROVE  \E answer \in Answer : next = [node EXCEPT !.lines = Unset, !.answer = answer]
<1>1. PICK current : current = Shown(node.lines, node.answer)
  OBVIOUS
<1>2. current \in Answer
  BY <1>1, FreshAnswers DEF Shown, Answer, EmptyAnswer, AnswerKinds
<1>3. PICK answer \in {EmptyAnswer(type) : type \in AnswerKinds \cup {"unset"}}
                        \cup Extent(current) \cup Options(current) :
        next = [node EXCEPT !.lines = Unset, !.answer = answer]
  BY <1>1 DEF AnswerEdits
<1>4. answer \in Answer
  BY <1>2, <1>3, FreshAnswers, ExtentTypes, OptionsTypes
<1>5. QED
  BY <1>3, <1>4

\* The rows and columns of a table are added, moved and dropped together.
LEMMA TablesKeepShape ==
    ASSUME NEW block \in SoundBlock, block.type = "table", NEW next \in TableRows(block)
    PROVE  next \in SoundBlock
<1>1. PICK c \in Nat \ {0} : block.rows \in Seq({c}) /\ block.header \in {NoHeader, c}
  BY DEF SoundBlock, Shaped
<1>2. /\ block \in Block /\ block.rows \in Seq(Nat) /\ block.header \in Nat \cup {NoHeader}
      /\ Len(block.rows) \in Nat /\ DOMAIN block.rows = 1..Len(block.rows)
      /\ \A r \in DOMAIN block.rows : block.rows[r] = c
  BY <1>1, ListIs DEF SoundBlock, Block
<1>3. \/ Columns(block) = c
      \/ Columns(block) = 0 /\ block.rows = <<>> /\ block.header = NoHeader
  BY <1>1, <1>2, EmptySeq DEF Columns, NoHeader
<1>4. \A d \in Nat : Seq({d}) \subseteq Seq(Nat)
  BY SeqMonotonic
<1>5. ASSUME NEW rows, NEW header, NEW d \in Nat \ {0}, rows \in Seq({d}), header \in {NoHeader, d},
             next = [block EXCEPT !.header = header, !.rows = rows]
      PROVE  next \in SoundBlock
  <2>1. next \in Block /\ next.rows = rows /\ next.header = header
    BY <1>2, <1>4, <1>5 DEF Block
  <2>2. QED
    BY <2>1, <1>5 DEF SoundBlock, Shaped
<1>6. CASE \E rows \in Tools(block.rows) : next = [block EXCEPT !.rows = rows]
  <2>1. PICK rows \in Tools(block.rows) : next = [block EXCEPT !.rows = rows]
    BY <1>6
  <2>2. rows \in Seq({c})
    BY <1>1, <2>1, ToolsKeep
  <2>3. next = [block EXCEPT !.header = block.header, !.rows = rows]
    BY <1>2, <2>1 DEF Block
  <2>4. QED
    BY <1>1, <1>5, <2>2, <2>3
<1>7. CASE next = HeaderToggled(block)
  <2>1. PICK header : header = IF block.header = NoHeader THEN OneAtLeast(Columns(block)) ELSE NoHeader
    OBVIOUS
  <2>2. next = [block EXCEPT !.header = header, !.rows = block.rows]
    BY <1>2, <1>7, <2>1 DEF HeaderToggled, Block
  <2>3. CASE header = NoHeader
    BY <1>1, <1>5, <2>2, <2>3
  <2>4. CASE header = OneAtLeast(Columns(block))
    <3>1. CASE Columns(block) = c
      BY <1>1, <1>5, <2>2, <2>4, <3>1 DEF OneAtLeast
    <3>2. CASE Columns(block) = 0 /\ block.rows = <<>>
      <4>1. 1 \in Nat \ {0} /\ header \in {NoHeader, 1} /\ block.rows \in Seq({1})
        BY <2>4, <3>2, EmptySeq DEF OneAtLeast
      <4>2. QED
        BY <1>5, <2>2, <4>1
    <3>3. QED
      BY <1>3, <3>1, <3>2
  <2>5. QED
    BY <2>1, <2>3, <2>4
<1>8. CASE next = RowAdded(block)
  <2>1. PICK d : d = OneAtLeast(Columns(block))
    OBVIOUS
  <2>2. next = [block EXCEPT !.header = block.header, !.rows = Append(block.rows, d)]
    BY <1>2, <1>8, <2>1 DEF RowAdded, Block
  <2>3. d \in Nat \ {0} /\ block.rows \in Seq({d}) /\ block.header \in {NoHeader, d}
    BY <1>1, <1>3, <2>1, EmptySeq DEF OneAtLeast
  <2>4. Append(block.rows, d) \in Seq({d})
    BY <2>3, AppendProperties
  <2>5. QED
    BY <1>5, <2>2, <2>3, <2>4
<1>9. CASE next = ColumnAdded(block)
  <2>1. PICK header : header = IF block.header = NoHeader THEN NoHeader ELSE block.header + 1
    OBVIOUS
  <2>2. PICK rows : rows = [i \in DOMAIN block.rows |-> block.rows[i] + 1]
    OBVIOUS
  <2>3. next = [block EXCEPT !.header = header, !.rows = rows]
    BY <1>2, <1>9, <2>1, <2>2 DEF ColumnAdded, Block
  <2>4. c + 1 \in Nat \ {0} /\ header \in {NoHeader, c + 1}
    BY <1>1, <2>1
  <2>5. rows \in Seq({c + 1})
    <3>1. rows = [i \in 1..Len(block.rows) |-> rows[i]] /\ \A i \in 1..Len(block.rows) : rows[i] \in {c + 1}
      BY <1>2, <2>2
    <3>2. QED
      BY <3>1, <1>2, ListOf
  <2>6. QED
    BY <1>5, <2>3, <2>4, <2>5
<1>10. QED
  BY <1>6, <1>7, <1>8, <1>9 DEF TableRows

\* Whatever a control makes of a block,
LEMMA BlocksStaySound ==
    ASSUME NEW block \in SoundBlock, NEW passages \in Seq(Passage), NEW next \in BlockBody(block, passages)
    PROVE  next \in SoundBlock
<1>1. block \in Block /\ block.type \in BlockKinds
  BY DEF SoundBlock, Block
<1>2. CASE block.type = "table"
  BY <1>2, TablesKeepShape DEF BlockBody
<1>3. ASSUME block.type # "table", next \in Block, next.type = block.type PROVE next \in SoundBlock
  BY <1>3 DEF SoundBlock, Shaped
<1>4. CASE block.type \in {"passage", "code"}
  BY <1>1, <1>3, <1>4 DEF BlockBody, Block
<1>5. CASE block.type = "passage_ref"
  <2>1. PICK id \in {NoName} \cup {passages[p].id : p \in DOMAIN passages} : next = [block EXCEPT !.id = id]
    BY <1>5 DEF BlockBody
  <2>2. id \in Name \cup {NoName}
    <3>1. \A p \in DOMAIN passages : passages[p] \in Passage
      BY ListIs
    <3>2. QED
      BY <2>1, <3>1 DEF Passage
  <2>3. QED
    BY <1>1, <1>3, <1>5, <2>1, <2>2 DEF Block
<1>6. CASE block.type = "figure"
  BY <1>1, <1>3, <1>6 DEF BlockBody, Block
<1>7. QED
  BY <1>1, <1>2, <1>4, <1>5, <1>6 DEF BlockKinds

\* or of a list of them,
LEMMA BlockListsStaySound ==
    ASSUME NEW blocks \in Seq(SoundBlock), NEW passages \in Seq(Passage),
           NEW next \in BlocksEditor(blocks, passages)
    PROVE  next \in Seq(SoundBlock)
<1>1. PICK fresh : fresh = {EmptyBlock(type) : type \in BlockKinds}
  OBVIOUS
<1>2. CASE next \in Tools(blocks) \cup Added(blocks, fresh)
  BY <1>1, <1>2, FreshBlocks, ToolsKeep
<1>3. CASE \E i \in DOMAIN blocks : \E block \in BlockBody(blocks[i], passages) :
             next = [blocks EXCEPT ![i] = block]
  BY <1>3, ListIs, BlocksStaySound, ChangedKeeps
<1>4. QED
  BY <1>1, <1>2, <1>3 DEF BlocksEditor, ListEdits

\* What a row of controls changes of a node: its words, its blocks, its marks or its answer.
NodeEdit(node, next) ==
    \/ \E said \in BOOLEAN : next = [node EXCEPT !.said = said]
    \/ \E blocks \in Seq(SoundBlock) : next = [node EXCEPT !.blocks = blocks]
    \/ \E n \in Number : next = [node EXCEPT !.marks = n]
    \/ \E answer \in Answer : next = [node EXCEPT !.lines = Unset, !.answer = answer]

\* The rows change that and no more.
LEMMA RowsChangeNodes ==
    ASSUME NEW node, node.lines \in Number, node.answer \in Answer, node.blocks \in Seq(SoundBlock),
           NEW passages \in Seq(Passage), NEW next \in SubPartRow(node, passages)
    PROVE  NodeEdit(node, next)
<1>1. CASE next \in {[node EXCEPT !.said = said] : said \in BOOLEAN}
  BY <1>1, ZenonT(30) DEF NodeEdit
<1>2. CASE \E blocks \in BlocksEditor(node.blocks, passages) : next = [node EXCEPT !.blocks = blocks]
  BY <1>2, BlockListsStaySound DEF NodeEdit
<1>3. CASE \E n \in Number : next = [node EXCEPT !.marks = n]
  BY <1>3 DEF NodeEdit
<1>4. CASE next \in AnswerEdits(node)
  <2>1. \E answer \in Answer : next = [node EXCEPT !.lines = Unset, !.answer = answer]
    BY <1>4, AnswerIsSet
  <2>2. QED
    BY <2>1 DEF NodeEdit
<1>5. QED
  BY <1>1, <1>2, <1>3, <1>4 DEF SubPartRow, MarksAndAnswer

\* So a sub-part, a part and a question stay sound under them.
LEMMA NodesStaySound ==
    /\ \A sub \in SoundSubPart : \A next : NodeEdit(sub, next) => next \in SoundSubPart
    /\ \A part \in SoundPart : \A next : NodeEdit(part, next) => next \in SoundPart
    /\ \A question \in SoundQuestion : \A next : NodeEdit(question, next) => next \in SoundQuestion
<1>1. ASSUME NEW sub \in SoundSubPart, NEW next, NodeEdit(sub, next) PROVE next \in SoundSubPart
  BY <1>1, FreshAnswers DEF NodeEdit, SoundSubPart
<1>2. ASSUME NEW part \in SoundPart, NEW next, NodeEdit(part, next) PROVE next \in SoundPart
  BY <1>2, FreshAnswers DEF NodeEdit, SoundPart
<1>3. ASSUME NEW question \in SoundQuestion, NEW next, NodeEdit(question, next)
      PROVE  next \in SoundQuestion
  BY <1>3, FreshAnswers DEF NodeEdit, SoundQuestion
<1>4. QED
  BY <1>1, <1>2, <1>3

\* A part's row, with its list of sub-parts.
LEMMA PartsStaySound ==
    ASSUME NEW part \in SoundPart, NEW passages \in Seq(Passage), NEW next \in PartRow(part, passages)
    PROVE  next \in SoundPart
<1>1. CASE next \in SubPartRow(part, passages)
  <2>1. part.lines \in Number /\ part.answer \in Answer /\ part.blocks \in Seq(SoundBlock)
    BY DEF SoundPart
  <2>2. QED
    BY <1>1, <2>1, RowsChangeNodes, NodesStaySound
<1>2. CASE next \notin SubPartRow(part, passages)
  <2>1. PICK parts \in ListEdits(part.parts, {EmptySubPart}, LAMBDA sub : SubPartRow(sub, passages)) :
          next = [part EXCEPT !.parts = parts]
    BY <1>2 DEF PartRow
  <2>2. part.parts \in Seq(SoundSubPart)
    BY DEF SoundPart
  <2>3. ASSUME NEW sub \in SoundSubPart, NEW new \in SubPartRow(sub, passages)
        PROVE  new \in SoundSubPart
    <3>1. sub.lines \in Number /\ sub.answer \in Answer /\ sub.blocks \in Seq(SoundBlock)
      BY DEF SoundSubPart
    <3>2. QED
      BY <3>1, RowsChangeNodes, NodesStaySound
  <2>4. parts \in Seq(SoundSubPart)
    <3>1. CASE parts \in Tools(part.parts) \cup Added(part.parts, {EmptySubPart})
      <4>1. {EmptySubPart} \subseteq SoundSubPart
        BY FreshItems
      <4>2. QED
        BY <3>1, <4>1, <2>2, ToolsKeep
    <3>2. CASE \E i \in DOMAIN part.parts : \E sub \in SubPartRow(part.parts[i], passages) :
                 parts = [part.parts EXCEPT ![i] = sub]
      BY <3>2, <2>2, <2>3, ListIs, ChangedKeeps
    <3>3. QED
      BY <2>1, <3>1, <3>2 DEF ListEdits
  <2>5. QED
    BY <2>1, <2>4 DEF SoundPart
<1>3. QED
  BY <1>1, <1>2

\* A question's fields, with its list of parts.
LEMMA QuestionsStaySound ==
    ASSUME NEW question \in SoundQuestion, NEW passages \in Seq(Passage),
           NEW next \in QuestionFields(question, passages)
    PROVE  next \in SoundQuestion
<1>1. CASE next \in {[question EXCEPT !.number = number] : number \in Name \cup {NoName}}
  BY <1>1 DEF SoundQuestion
<1>2. CASE next \in SubPartRow(question, passages)
  <2>1. question.lines \in Number /\ question.answer \in Answer /\ question.blocks \in Seq(SoundBlock)
    BY DEF SoundQuestion
  <2>2. QED
    BY <1>2, <2>1, RowsChangeNodes, NodesStaySound
<1>3. CASE \E parts \in ListEdits(question.parts, {EmptyPart}, LAMBDA part : PartRow(part, passages)) :
             next = [question EXCEPT !.parts = parts]
  <2>1. PICK parts \in ListEdits(question.parts, {EmptyPart}, LAMBDA part : PartRow(part, passages)) :
          next = [question EXCEPT !.parts = parts]
    BY <1>3
  <2>2. question.parts \in Seq(SoundPart)
    BY DEF SoundQuestion
  <2>3. parts \in Seq(SoundPart)
    <3>1. CASE parts \in Tools(question.parts) \cup Added(question.parts, {EmptyPart})
      <4>1. {EmptyPart} \subseteq SoundPart
        BY FreshItems
      <4>2. QED
        BY <3>1, <4>1, <2>2, ToolsKeep
    <3>2. CASE \E i \in DOMAIN question.parts : \E part \in PartRow(question.parts[i], passages) :
                 parts = [question.parts EXCEPT ![i] = part]
      BY <3>2, <2>2, PartsStaySound, ListIs, ChangedKeeps
    <3>3. QED
      BY <2>1, <3>1, <3>2 DEF ListEdits
  <2>4. QED
    BY <2>1, <2>3 DEF SoundQuestion
<1>4. QED
  BY <1>1, <1>2, <1>3 DEF QuestionFields

\* A list of questions, the paper's own or a section's.
LEMMA QuestionListsStaySound ==
    ASSUME NEW questions \in Seq(SoundQuestion), NEW passages \in Seq(Passage),
           NEW next \in QuestionsEditor(questions, passages)
    PROVE  next \in Seq(SoundQuestion)
<1>1. CASE next \in Tools(questions) \cup Added(questions, {EmptyQuestion})
  <2>1. {EmptyQuestion} \subseteq SoundQuestion
    BY FreshItems
  <2>2. QED
    BY <1>1, <2>1, ToolsKeep
<1>2. CASE \E i \in DOMAIN questions : \E question \in QuestionFields(questions[i], passages) :
             next = [questions EXCEPT ![i] = question]
  BY <1>2, QuestionsStaySound, ListIs, ChangedKeeps
<1>3. QED
  BY <1>1, <1>2 DEF QuestionsEditor, ListEdits

\* The list of sections.
LEMMA SectionListsStaySound ==
    ASSUME NEW sections \in Seq(SoundSection), NEW passages \in Seq(Passage),
           NEW next \in SectionsEditor(sections, passages)
    PROVE  next \in Seq(SoundSection)
<1>1. CASE next \in Tools(sections) \cup Added(sections, {EmptySection})
  <2>1. {EmptySection} \subseteq SoundSection
    BY FreshItems
  <2>2. QED
    BY <1>1, <2>1, ToolsKeep
<1>2. ASSUME NEW i \in DOMAIN sections, NEW n \in Number,
             next = [sections EXCEPT ![i] = [sections[i] EXCEPT !.choose = n]]
      PROVE  next \in Seq(SoundSection)
  <2>1. sections[i] \in SoundSection
    BY ListIs
  <2>2. [sections[i] EXCEPT !.choose = n] \in SoundSection
    BY <2>1 DEF SoundSection
  <2>3. QED
    BY <1>2, <2>2, ChangedKeeps
<1>3. ASSUME NEW i \in DOMAIN sections, NEW questions \in QuestionsEditor(sections[i].questions, passages),
             next = [sections EXCEPT ![i] = [sections[i] EXCEPT !.questions = questions]]
      PROVE  next \in Seq(SoundSection)
  <2>1. sections[i] \in SoundSection
    BY ListIs
  <2>2. questions \in Seq(SoundQuestion)
    BY <2>1, QuestionListsStaySound DEF SoundSection
  <2>3. [sections[i] EXCEPT !.questions = questions] \in SoundSection
    BY <2>1, <2>2 DEF SoundSection
  <2>4. QED
    BY <1>3, <2>3, ChangedKeeps
<1>4. QED
  BY <1>1, <1>2, <1>3 DEF SectionsEditor, ListEdits

\* The passages.
LEMMA PassageListsStay ==
    ASSUME NEW passages \in Seq(Passage), NEW next \in PassagesEditor(passages)
    PROVE  next \in Seq(Passage)
<1>1. CASE next \in Tools(passages) \cup Added(passages, {EmptyPassage})
  <2>1. {EmptyPassage} \subseteq Passage
    BY FreshItems
  <2>2. QED
    BY <1>1, <2>1, ToolsKeep
<1>2. ASSUME NEW i \in DOMAIN passages,
             NEW passage \in {[passages[i] EXCEPT !.id = id] : id \in Name \cup {NoName}}
                             \cup {[passages[i] EXCEPT !.said = said] : said \in BOOLEAN},
             next = [passages EXCEPT ![i] = passage]
      PROVE  next \in Seq(Passage)
  <2>1. passages[i] \in Passage
    BY ListIs
  <2>2. passage \in Passage
    BY <2>1 DEF Passage
  <2>3. QED
    BY <1>2, <2>2, ChangedKeeps
<1>3. QED
  BY <1>1, <1>2 DEF PassagesEditor, ListEdits

\* The mark scheme.
LEMMA SchemesStay ==
    ASSUME NEW scheme \in Seq(SchemeQuestion), NEW next \in MarkSchemeEditor(scheme)
    PROVE  next \in Seq(SchemeQuestion)
<1>1. CASE next \in Tools(scheme) \cup Added(scheme, {EmptySchemeQuestion})
  <2>1. {EmptySchemeQuestion} \subseteq SchemeQuestion
    BY FreshItems
  <2>2. QED
    BY <1>1, <2>1, ToolsKeep
<1>2. ASSUME NEW i \in DOMAIN scheme, NEW entry \in SchemeFields(scheme[i]),
             next = [scheme EXCEPT ![i] = entry]
      PROVE  next \in Seq(SchemeQuestion)
  <2>1. PICK old \in SchemeQuestion : old = scheme[i]
    BY ListIs
  <2>2. CASE entry \in {[old EXCEPT !.number = number] : number \in Name \cup {NoName}}
    <3>1. entry \in SchemeQuestion
      BY <2>2 DEF SchemeQuestion
    <3>2. QED
      BY <1>2, <3>1, ChangedKeeps
  <2>3. ASSUME NEW parts \in ListEdits(old.parts, {EmptySchemePart},
                                LAMBDA part : {[part EXCEPT !.said = said] : said \in BOOLEAN}
                                              \cup {[part EXCEPT !.marks = n] : n \in Number}),
               entry = [old EXCEPT !.parts = parts]
        PROVE  next \in Seq(SchemeQuestion)
    <3>1. old.parts \in Seq(SchemePart)
      BY DEF SchemeQuestion
    <3>2. parts \in Seq(SchemePart)
      <4>1. CASE parts \in Tools(old.parts) \cup Added(old.parts, {EmptySchemePart})
        <5>1. {EmptySchemePart} \subseteq SchemePart
          BY FreshItems
        <5>2. QED
          BY <3>1, <4>1, <5>1, ToolsKeep
      <4>2. ASSUME NEW p \in DOMAIN old.parts,
                   NEW part \in {[old.parts[p] EXCEPT !.said = said] : said \in BOOLEAN}
                                \cup {[old.parts[p] EXCEPT !.marks = n] : n \in Number},
                   parts = [old.parts EXCEPT ![p] = part]
            PROVE  parts \in Seq(SchemePart)
        <5>1. PICK was \in SchemePart : was = old.parts[p]
          BY <3>1, ListIs
        <5>2. part \in SchemePart
          BY <5>1 DEF SchemePart
        <5>3. QED
          BY <3>1, <4>2, <5>2, ChangedKeeps
      <4>3. QED
        BY <2>3, <4>1, <4>2 DEF ListEdits
    <3>3. entry \in SchemeQuestion
      BY <2>3, <3>2 DEF SchemeQuestion
    <3>4. QED
      BY <1>2, <3>3, ChangedKeeps
  <2>4. QED
    BY <1>2, <2>1, <2>2, <2>3 DEF SchemeFields
<1>3. QED
  BY <1>1, <1>2 DEF MarkSchemeEditor, ListEdits

-------------------------------------------------------------------------------
(***************************************************************************)
(* The draft stays sound.                                                  *)
(***************************************************************************)

\* Every question of a paper is one of its own or one of a section's.
LEMMA AllQuestionsAre ==
    ASSUME NEW S, NEW T, NEW paper, paper.questions \in Seq(S), paper.sections \in Seq(T),
           \A section \in T : section.questions \in Seq(S)
    PROVE  /\ AllQuestions(paper) \in Seq(S)
           /\ \A x : x \in Range(AllQuestions(paper)) <=>
                 \/ x \in Range(paper.questions)
                 \/ \E s \in DOMAIN paper.sections : x \in Range(paper.sections[s].questions)
<1>1. PICK lists : lists = [s \in DOMAIN paper.sections |-> paper.sections[s].questions]
  OBVIOUS
<1>2. /\ Len(paper.sections) \in Nat /\ DOMAIN paper.sections = 1..Len(paper.sections)
      /\ \A s \in DOMAIN paper.sections : paper.sections[s] \in T
  BY ListIs
<1>3. /\ lists = [s \in 1..Len(paper.sections) |-> lists[s]]
      /\ \A s \in 1..Len(paper.sections) : lists[s] \in Seq(S)
  BY <1>1, <1>2
<1>4. lists \in Seq(Seq(S))
  BY <1>2, <1>3, ListOf
<1>5. AllQuestions(paper) = paper.questions \o FlattenSeq(lists)
  BY <1>1 DEF AllQuestions
<1>6. /\ FlattenSeq(lists) \in Seq(S)
      /\ \A x : x \in Range(FlattenSeq(lists)) <=> \E s \in DOMAIN lists : x \in Range(lists[s])
  BY <1>4, FlattenIs
<1>7. /\ AllQuestions(paper) \in Seq(S)
      /\ Range(AllQuestions(paper)) = Range(paper.questions) \cup Range(FlattenSeq(lists))
  BY <1>5, <1>6, ConcatProperties, RangeConcatenation
<1>8. QED
  BY <1>1, <1>6, <1>7

\* The numbers no entry has are numbers.
LEMMA MissingAreNumbers ==
    ASSUME NEW paper \in SoundPaper
    PROVE  Missing(paper) \in Seq(Name)
<1>1. PICK all \in Seq(SoundQuestion) : all = AllQuestions(paper)
  <2>1. /\ paper.questions \in Seq(SoundQuestion) /\ paper.sections \in Seq(SoundSection)
        /\ \A section \in SoundSection : section.questions \in Seq(SoundQuestion)
    BY DEF SoundPaper, SoundSection
  <2>2. QED
    BY <2>1, AllQuestionsAre
<1>2. PICK asked : asked =
        [q \in DOMAIN all |->
            LET number == all[q].number IN
            IF number = NoName \/ \E e \in DOMAIN paper.scheme : paper.scheme[e].number = number
            THEN <<>> ELSE <<number>>]
  OBVIOUS
<1>3. Len(all) \in Nat /\ DOMAIN all = 1..Len(all) /\ \A q \in DOMAIN all : all[q] \in SoundQuestion
  BY ListIs
<1>4. ASSUME NEW q \in 1..Len(all) PROVE asked[q] \in Seq(Name)
  <2>1. all[q].number \in Name \cup {NoName}
    BY <1>3 DEF SoundQuestion
  <2>2. \A number \in Name : <<>> \in Seq(Name) /\ <<number>> \in Seq(Name)
    BY EmptySeq
  <2>3. <<>> \in Seq(Name)
    BY EmptySeq
  <2>4. asked[q] = <<>> \/ (all[q].number # NoName /\ asked[q] = <<all[q].number>>)
    BY <1>2, <1>3
  <2>5. QED
    BY <2>1, <2>2, <2>3, <2>4
<1>5. asked = [q \in 1..Len(all) |-> asked[q]]
  BY <1>2, <1>3
<1>6. asked \in Seq(Seq(Name))
  BY <1>3, <1>4, <1>5, ListOf
<1>7. Missing(paper) = FlattenSeq(asked)
  BY <1>1, <1>2 DEF Missing
<1>8. QED
  BY <1>6, <1>7, FlattenIs

\* No edit of the tabs makes a sound draft unsound.
LEMMA EditsKeepSound ==
    ASSUME draft \in SoundPaper, EditDraft
    PROVE  draft' \in SoundPaper
<1>1. PICK d \in SoundPaper : d = draft
  OBVIOUS
<1>2. /\ d.questions \in Seq(SoundQuestion) /\ d.sections \in Seq(SoundSection)
      /\ d.passages \in Seq(Passage) /\ d.scheme \in Seq(SchemeQuestion)
  BY DEF SoundPaper
<1>3. CASE EditQuestions
  <2>1. PICK next \in QuestionsEditor(d.questions, d.passages) : draft' = [d EXCEPT !.questions = next]
    BY <1>1, <1>3 DEF EditQuestions
  <2>2. next \in Seq(SoundQuestion)
    BY <1>2, <2>1, QuestionListsStaySound
  <2>3. QED
    BY <2>1, <2>2 DEF SoundPaper
<1>4. CASE EditSections
  <2>1. PICK next \in SectionsEditor(d.sections, d.passages) : draft' = [d EXCEPT !.sections = next]
    BY <1>1, <1>4 DEF EditSections
  <2>2. next \in Seq(SoundSection)
    BY <1>2, <2>1, SectionListsStaySound
  <2>3. QED
    BY <2>1, <2>2 DEF SoundPaper
<1>5. CASE Group
  <2>1. PICK section : section = [EmptySection EXCEPT !.questions = d.questions]
    OBVIOUS
  <2>2. section \in SoundSection
    BY <1>2, <2>1, FreshItems DEF SoundSection
  <2>3. <<section>> \in Seq(SoundSection) /\ <<>> \in Seq(SoundQuestion)
    BY <2>2, EmptySeq
  <2>4. draft' = [d EXCEPT !.questions = <<>>, !.sections = <<section>>]
    BY <1>1, <1>5, <2>1 DEF Group
  <2>5. QED
    BY <2>3, <2>4 DEF SoundPaper
<1>6. CASE Ungroup
  <2>1. PICK s \in DOMAIN d.sections :
          draft' = [d EXCEPT !.questions = @ \o d.sections[s].questions, !.sections = RemoveAt(@, s)]
    BY <1>1, <1>6 DEF Ungroup
  <2>2. PICK questions : questions = d.questions \o d.sections[s].questions
    OBVIOUS
  <2>3. PICK sections : sections = RemoveAt(d.sections, s)
    OBVIOUS
  <2>4. draft' = [d EXCEPT !.questions = questions, !.sections = sections]
    BY <2>1, <2>2, <2>3 DEF SoundPaper
  <2>5. d.sections[s].questions \in Seq(SoundQuestion)
    <3>1. d.sections[s] \in SoundSection
      BY <1>2, <2>1, ListIs
    <3>2. QED
      BY <3>1 DEF SoundSection
  <2>6. questions \in Seq(SoundQuestion) /\ sections \in Seq(SoundSection)
    BY <1>2, <2>2, <2>3, <2>5, ConcatProperties, RemovedKeeps
  <2>7. QED
    BY <2>4, <2>6 DEF SoundPaper
<1>7. CASE EditPassages
  <2>1. PICK next \in PassagesEditor(d.passages) : draft' = [d EXCEPT !.passages = next]
    BY <1>1, <1>7 DEF EditPassages
  <2>2. next \in Seq(Passage)
    BY <1>2, <2>1, PassageListsStay
  <2>3. QED
    BY <2>1, <2>2 DEF SoundPaper
<1>8. CASE EditScheme
  <2>1. PICK next \in MarkSchemeEditor(d.scheme) : draft' = [d EXCEPT !.scheme = next]
    BY <1>1, <1>8 DEF EditScheme
  <2>2. next \in Seq(SchemeQuestion)
    BY <1>2, <2>1, SchemesStay
  <2>3. QED
    BY <2>1, <2>2 DEF SoundPaper
<1>9. CASE AddMissing
  <2>1. PICK missing \in Seq(Name) : missing = Missing(d)
    BY MissingAreNumbers
  <2>2. PICK entries : entries = [m \in DOMAIN missing |-> [EmptySchemeQuestion EXCEPT !.number = missing[m]]]
    OBVIOUS
  <2>3. PICK scheme : scheme = d.scheme \o entries
    OBVIOUS
  <2>4. draft' = [d EXCEPT !.scheme = scheme]
    BY <1>1, <1>9, <2>1, <2>2, <2>3 DEF AddMissing, SoundPaper
  <2>5. /\ Len(missing) \in Nat /\ DOMAIN missing = 1..Len(missing)
        /\ \A m \in DOMAIN missing : missing[m] \in Name
    BY ListIs
  <2>6. ASSUME NEW m \in 1..Len(missing) PROVE entries[m] \in SchemeQuestion
    BY <2>2, <2>5, FreshItems DEF SchemeQuestion
  <2>7. entries = [m \in 1..Len(missing) |-> entries[m]]
    BY <2>2, <2>5
  <2>8. entries \in Seq(SchemeQuestion)
    BY <2>5, <2>6, <2>7, ListOf
  <2>9. scheme \in Seq(SchemeQuestion)
    BY <1>2, <2>3, <2>8, ConcatProperties
  <2>10. QED
    BY <2>4, <2>9 DEF SoundPaper
<1>10. CASE EditDetails
  <2>1. CASE \E n \in Number : draft' = [d EXCEPT !.year = n]
    BY <2>1 DEF SoundPaper
  <2>2. CASE \E titled \in BOOLEAN : draft' = [d EXCEPT !.titled = titled]
    BY <2>2 DEF SoundPaper
  <2>3. QED
    BY <1>1, <1>10, <2>1, <2>2 DEF EditDetails
<1>11. QED
  BY <1>3, <1>4, <1>5, <1>6, <1>7, <1>8, <1>9, <1>10 DEF EditDraft

-------------------------------------------------------------------------------
(***************************************************************************)
(* What is stored is sound, and what is sound is as the properties say.    *)
(***************************************************************************)

\* The blocks of a paper are those of its questions, their parts and their sub-parts.
LEMMA BlocksAre ==
    ASSUME NEW paper
    PROVE  \A block : block \in Blocks(paper) <=>
              \E question \in Range(AllQuestions(paper)) :
                 \/ block \in Range(question.blocks)
                 \/ \E part \in Range(question.parts) :
                       \/ block \in Range(part.blocks)
                       \/ \E sub \in Range(part.parts) : block \in Range(sub.blocks)
<1>1. PICK questions : questions = Range(AllQuestions(paper))
  OBVIOUS
<1>2. PICK parts : parts = UNION {Range(question.parts) : question \in questions}
  OBVIOUS
<1>3. PICK subParts : subParts = UNION {Range(part.parts) : part \in parts}
  OBVIOUS
<1>4. Nodes(paper) = <<questions, parts, subParts>>
  BY <1>1, <1>2, <1>3 DEF Nodes
<1>5. /\ Nodes(paper)[1] = questions /\ Nodes(paper)[2] = parts /\ Nodes(paper)[3] = subParts
      /\ 1..3 = {1, 2, 3}
  BY <1>4
<1>6. \A block : block \in Blocks(paper) <=>
         \/ \E node \in questions : block \in Range(node.blocks)
         \/ \E node \in parts : block \in Range(node.blocks)
         \/ \E node \in subParts : block \in Range(node.blocks)
  BY <1>5 DEF Blocks
<1>7. \A part : part \in parts <=> \E question \in questions : part \in Range(question.parts)
  BY <1>2
<1>8. \A sub : sub \in subParts <=> \E part \in parts : sub \in Range(part.parts)
  BY <1>3
<1>9. QED
  BY <1>1, <1>6, <1>7, <1>8

\* A list of one kind whose items are all of another is a list of that one.
LEMMA ListUp ==
    ASSUME NEW S, NEW T, NEW list \in Seq(S), \A i \in DOMAIN list : list[i] \in T
    PROVE  list \in Seq(T)
<1>1. Len(list) \in Nat /\ DOMAIN list = 1..Len(list) /\ list = [i \in 1..Len(list) |-> list[i]]
  BY ListIs
<1>2. QED
  BY <1>1, ListOf

\* A block the service does not refuse as a table is sound, if its header has cells.
LEMMA SetTablesAreShaped ==
    ASSUME NEW block \in Block, NEW ids, NEW passage, "table" \notin RefusedBlock(block, ids, passage),
           block.header # 0
    PROVE  block \in SoundBlock
<1>1. CASE block.type # "table"
  BY <1>1 DEF SoundBlock, Shaped
<1>2. CASE block.type = "table"
  <2>1. PICK c : c = TableColumns(block)
    OBVIOUS
  <2>2. "table" \notin RefusedTable(block)
    BY <1>2 DEF RefusedBlock
  <2>3. c \in 1..Most /\ \A r \in DOMAIN block.rows : block.rows[r] = c
    <3>1. CASE /\ TableColumns(block) \in 1..Most /\ Len(block.rows) <= Most
               /\ \A r \in DOMAIN block.rows : block.rows[r] = TableColumns(block)
      BY <2>1, <3>1
    <3>2. CASE ~ /\ TableColumns(block) \in 1..Most /\ Len(block.rows) <= Most
                 /\ \A r \in DOMAIN block.rows : block.rows[r] = TableColumns(block)
      <4>1. RefusedTable(block) = {"table"}
        BY <3>2, Zenon DEF RefusedTable
      <4>2. QED
        BY <2>2, <4>1
    <3>3. QED
      BY <3>1, <3>2
  <2>4. c \in Nat \ {0}
    BY <2>3, CapIs
  <2>5. block.rows \in Seq(Nat) /\ block.header \in Nat \cup {NoHeader}
    BY DEF Block
  <2>6. block.rows \in Seq({c})
    BY <2>3, <2>5, ListUp
  <2>7. block.header \in {NoHeader, c}
    BY <2>1, <2>5 DEF TableColumns, NoHeader
  <2>8. QED
    BY <2>4, <2>6, <2>7 DEF SoundBlock, Shaped
<1>3. QED
  BY <1>1, <1>2

\* Nor is anything wrong with the blocks of a node then.
LEMMA SetNodesAreSound ==
    ASSUME NEW blocks \in Seq(Block), NEW ids, NEW passage,
           "table" \notin RefusedBlocks(blocks, ids, passage),
           \A block \in Range(blocks) : block.header # 0
    PROVE  blocks \in Seq(SoundBlock)
<1>1. ASSUME NEW b \in DOMAIN blocks PROVE blocks[b] \in SoundBlock
  <2>1. "table" \notin RefusedBlock(blocks[b], ids, passage)
    BY DEF RefusedBlocks
  <2>2. blocks[b].header # 0
    BY DEF Range
  <2>3. blocks[b] \in Block
    BY ListIs
  <2>4. QED
    BY <2>1, <2>2, <2>3, SetTablesAreShaped
<1>2. QED
  BY <1>1, ListUp

\* A question the service sets is sound.
LEMMA SetQuestionsAreSound ==
    ASSUME NEW question \in Question, NEW ids, "table" \notin RefusedQuestion(question, ids),
           \A block \in Range(question.blocks) : block.header # 0,
           \A part \in Range(question.parts) : \A block \in Range(part.blocks) : block.header # 0,
           \A part \in Range(question.parts) : \A sub \in Range(part.parts) :
              \A block \in Range(sub.blocks) : block.header # 0
    PROVE  question \in SoundQuestion
<1>1. question.blocks \in Seq(Block) /\ question.parts \in Seq(Part)
  BY DEF Question
<1>2. question.blocks \in Seq(SoundBlock)
  <2>1. "table" \notin RefusedBlocks(question.blocks, ids, "passage")
    BY DEF RefusedQuestion
  <2>2. QED
    BY <1>1, <2>1, SetNodesAreSound
<1>3. ASSUME NEW p \in DOMAIN question.parts PROVE question.parts[p] \in SoundPart
  <2>1. PICK part \in Part : part = question.parts[p]
    BY <1>1, ListIs
  <2>2. part \in Range(question.parts)
    BY <2>1 DEF Range
  <2>3. part.blocks \in Seq(Block) /\ part.parts \in Seq(SubPart)
    BY DEF Part
  <2>4. /\ "table" \notin RefusedPart(part, ids)
        /\ \A s \in DOMAIN part.parts : "table" \notin RefusedPart(part.parts[s], ids)
    BY <2>1 DEF RefusedQuestion
  <2>5. part.blocks \in Seq(SoundBlock)
    <3>1. "table" \notin RefusedBlocks(part.blocks, ids, "inner passage")
      BY <2>4 DEF RefusedPart
    <3>2. QED
      BY <2>2, <2>3, <3>1, SetNodesAreSound
  <2>6. ASSUME NEW s \in DOMAIN part.parts PROVE part.parts[s] \in SoundSubPart
    <3>1. PICK sub \in SubPart : sub = part.parts[s]
      BY <2>3, ListIs
    <3>2. sub \in Range(part.parts)
      BY <3>1 DEF Range
    <3>3. "table" \notin RefusedBlocks(sub.blocks, ids, "inner passage")
      BY <2>4, <3>1 DEF RefusedPart
    <3>4. sub.blocks \in Seq(Block)
      BY DEF SubPart
    <3>5. sub.blocks \in Seq(SoundBlock)
      BY <2>2, <3>2, <3>3, <3>4, SetNodesAreSound
    <3>6. QED
      BY <3>1, <3>5 DEF SubPart, SoundSubPart
  <2>7. part.parts \in Seq(SoundSubPart)
    BY <2>3, <2>6, ListUp
  <2>8. QED
    BY <2>1, <2>5, <2>7 DEF Part, SoundPart
<1>4. question.parts \in Seq(SoundPart)
  BY <1>1, <1>3, ListUp
<1>5. QED
  BY <1>2, <1>4 DEF Question, SoundQuestion

\* What the service refuses of a paper, it refuses of a section, a question or an entry.
LEMMA RefusedIs ==
    ASSUME NEW paper, NEW x
    PROVE  x \in Refused(paper) <=>
              \/ x \in Beyond(paper.year, "details")
              \/ \E s \in DOMAIN paper.sections : x \in RefusedSection(paper.sections[s])
              \/ \E q \in DOMAIN AllQuestions(paper) :
                    x \in RefusedQuestion(AllQuestions(paper)[q], Ids(paper.passages))
              \/ \E e \in DOMAIN paper.scheme : x \in RefusedSchemeQuestion(paper.scheme[e])
  BY DEF Refused

\* What is stored is sound.
LEMMA StoredAreSound == ASSUME NEW paper \in Stored PROVE paper \in SoundPaper
<1>1. /\ paper \in Paper /\ "table" \notin Refused(paper)
      /\ \A block \in Blocks(paper) : block.header # 0
  BY EditorAssumption
<1>2. paper.questions \in Seq(Question) /\ paper.sections \in Seq(Section)
  BY <1>1 DEF Paper
<1>3. PICK all \in Seq(Question) :
        /\ all = AllQuestions(paper)
        /\ \A x : x \in Range(all) <=>
              \/ x \in Range(paper.questions)
              \/ \E s \in DOMAIN paper.sections : x \in Range(paper.sections[s].questions)
  <2>1. \A section \in Section : section.questions \in Seq(Question)
    BY DEF Section
  <2>2. QED
    BY <1>2, <2>1, AllQuestionsAre
<1>4. ASSUME NEW question \in Range(all) PROVE question \in SoundQuestion
  <2>1. question \in Question
    BY ListIs
  <2>2. "table" \notin RefusedQuestion(question, Ids(paper.passages))
    <3>1. PICK q \in DOMAIN all : question = all[q]
      BY <1>4 DEF Range
    <3>2. \A x \in RefusedQuestion(all[q], Ids(paper.passages)) : x \in Refused(paper)
      BY <1>3, RefusedIs
    <3>3. QED
      BY <1>1, <3>1, <3>2
  <2>3. /\ \A block \in Range(question.blocks) : block.header # 0
        /\ \A part \in Range(question.parts) : \A block \in Range(part.blocks) : block.header # 0
        /\ \A part \in Range(question.parts) : \A sub \in Range(part.parts) :
              \A block \in Range(sub.blocks) : block.header # 0
    BY <1>1, <1>3, <1>4, BlocksAre
  <2>4. QED
    BY <2>1, <2>2, <2>3, SetQuestionsAreSound
<1>5. paper.questions \in Seq(SoundQuestion)
  <2>1. \A q \in DOMAIN paper.questions : paper.questions[q] \in Range(all)
    BY <1>3 DEF Range
  <2>2. QED
    BY <1>2, <1>4, <2>1, ListUp
<1>6. ASSUME NEW s \in DOMAIN paper.sections PROVE paper.sections[s] \in SoundSection
  <2>1. PICK section \in Section : section = paper.sections[s]
    BY <1>2, ListIs
  <2>2. section.questions \in Seq(Question)
    BY DEF Section
  <2>3. \A q \in DOMAIN section.questions : section.questions[q] \in Range(all)
    BY <1>3, <2>1 DEF Range
  <2>4. section.questions \in Seq(SoundQuestion)
    BY <1>4, <2>2, <2>3, ListUp
  <2>5. QED
    BY <2>1, <2>4 DEF Section, SoundSection
<1>7. paper.sections \in Seq(SoundSection)
  BY <1>2, <1>6, ListUp
<1>8. QED
  BY <1>1, <1>5, <1>7 DEF Paper, SoundPaper

\* What is sound has its types.
LEMMA SoundIsPaper == SoundPaper \subseteq Paper
<1>1. SoundBlock \subseteq Block
  BY DEF SoundBlock
<1>2. Seq(SoundBlock) \subseteq Seq(Block)
  BY <1>1, SeqMonotonic
<1>3. SoundSubPart \subseteq SubPart
  BY <1>2 DEF SoundSubPart, SubPart
<1>4. Seq(SoundSubPart) \subseteq Seq(SubPart)
  BY <1>3, SeqMonotonic
<1>5. SoundPart \subseteq Part
  BY <1>2, <1>4 DEF SoundPart, Part
<1>6. Seq(SoundPart) \subseteq Seq(Part)
  BY <1>5, SeqMonotonic
<1>7. SoundQuestion \subseteq Question
  BY <1>2, <1>6 DEF SoundQuestion, Question
<1>8. Seq(SoundQuestion) \subseteq Seq(Question)
  BY <1>7, SeqMonotonic
<1>9. SoundSection \subseteq Section
  BY <1>8 DEF SoundSection, Section
<1>10. Seq(SoundSection) \subseteq Seq(Section)
  BY <1>9, SeqMonotonic
<1>11. QED
  BY <1>8, <1>10 DEF SoundPaper, Paper

-------------------------------------------------------------------------------
(***************************************************************************)
(* What builds is set: the draft's checks leave the service nothing to     *)
(* refuse of a block, an answer space, a question or a scheme but zeros,   *)
(* the passages of parts, and numbers without a cap.                       *)
(***************************************************************************)
Gaps == {"zero", "inner passage", "marks", "details"}

\* A number within its cap is not over it,
LEMMA WholeIsNotOver ==
    ASSUME NEW n \in Number, NEW kind, Whole(n, Most)
    PROVE  Over(n, kind) = {}
  BY CapIs DEF Whole, Over, Number, Extents, Unset, Bad

\* and an extent that is there is at most zero.
LEMMA WholeExtents ==
    ASSUME NEW n \in Number, Whole(n, Most), n # Unset
    PROVE  RefusedExtent(n) \subseteq {"zero"}
  BY WholeIsNotOver DEF RefusedExtent

\* Nor is it past what its integer holds: of a node's numbers, only the marks may be.
LEMMA BuiltNumbersAreSet ==
    ASSUME NEW node, node.answer \in Answer, BuildsNode(node)
    PROVE  RefusedNumbers(node) \subseteq Gaps
<1>1. PICK answer \in Answer : answer = node.answer
  OBVIOUS
<1>2. ASSUME NEW n \in Number, Whole(n, Most) PROVE Beyond(n, "range") = {}
  BY <1>2, CapIs DEF Whole, Beyond, Number, Extents, Unset, Bad
<1>3. /\ answer.lines \in Number /\ answer.height \in Number
      /\ answer.rows \in Number /\ answer.cols \in Number
  BY DEF Answer
<1>4. /\ Whole(answer.lines, Most) /\ Whole(answer.height, Most)
      /\ Whole(answer.rows, Most) /\ Whole(answer.cols, Most)
  <2>1. CASE answer = NotSet
    BY <2>1 DEF NotSet, EmptyAnswer, Whole
  <2>2. CASE answer # NotSet
    BY <1>1, <2>2 DEF BuildsNode, BuildsAnswer
  <2>3. QED
    BY <2>1, <2>2
<1>5. /\ Beyond(answer.lines, "range") = {} /\ Beyond(answer.height, "range") = {}
      /\ Beyond(answer.rows, "range") = {} /\ Beyond(answer.cols, "range") = {}
  BY <1>2, <1>3, <1>4
<1>6. Beyond(node.marks, "marks") \subseteq {"marks"}
  BY DEF Beyond
<1>7. QED
  BY <1>1, <1>5, <1>6 DEF RefusedNumbers, Gaps

\* An answer space that builds.
LEMMA BuiltAnswersAreSet ==
    ASSUME NEW node, node.lines \in Number, node.answer \in Answer, BuildsNode(node)
    PROVE  RefusedAnswer(node) \subseteq Gaps
<1>1. PICK answer \in Answer : answer = node.answer
  OBVIOUS
<1>2. PICK lines \in Number : lines = node.lines
  OBVIOUS
<1>3. Unset \in Number /\ Whole(Unset, Most)
  BY DEF Number, Whole
<1>4. Over(lines, "lines") = {}
  BY <1>1, <1>2, <1>3, WholeIsNotOver DEF BuildsNode
<1>5. (IF answer # NotSet /\ lines # Unset THEN {"both"} ELSE {}) = {}
  BY <1>1, <1>2 DEF BuildsNode
<1>6. PICK rest : rest =
        CASE answer.type = "lines" -> Over(answer.lines, "lines")
          [] answer.type \in {"box", "essay"} -> Over(answer.height, "height")
          [] answer.type = "multiple_choice" ->
                 IF Len(answer.options) \in 1..Most THEN {} ELSE {"options"}
          [] answer.type \in {"grid", "table"} ->
                 RefusedExtent(answer.rows) \cup RefusedExtent(answer.cols)
          [] OTHER -> {}
  OBVIOUS
<1>7. RefusedAnswer(node) = {} \cup {} \cup rest
  BY <1>1, <1>2, <1>4, <1>5, <1>6 DEF RefusedAnswer
<1>8. /\ answer.lines \in Number /\ answer.height \in Number /\ answer.rows \in Number
      /\ answer.cols \in Number /\ answer.options \in Seq(BOOLEAN)
      /\ answer.type \in AnswerKinds \cup {"unset"}
  BY DEF Answer
<1>9. CASE answer = NotSet
  BY <1>6, <1>7, <1>9 DEF NotSet, EmptyAnswer
<1>10. CASE answer # NotSet
  <2>1. BuildsAnswer(answer)
    BY <1>1, <1>10 DEF BuildsNode
  <2>2. CASE answer.type = "lines"
    BY <1>6, <1>7, <1>8, <2>1, <2>2, WholeIsNotOver DEF BuildsAnswer
  <2>3. CASE answer.type \in {"box", "essay"}
    BY <1>6, <1>7, <1>8, <2>1, <2>3, WholeIsNotOver DEF BuildsAnswer
  <2>4. CASE answer.type = "multiple_choice"
    <3>1. Len(answer.options) \in 1..Most
      BY <1>8, <2>1, <2>4, EmptySeq, ListIs, CapIs DEF BuildsAnswer
    <3>2. QED
      BY <1>6, <1>7, <2>4, <3>1
  <2>5. CASE answer.type \in {"grid", "table"}
    <3>1. RefusedExtent(answer.rows) \subseteq {"zero"} /\ RefusedExtent(answer.cols) \subseteq {"zero"}
      BY <1>8, <2>1, <2>5, WholeExtents DEF BuildsAnswer
    <3>2. rest = RefusedExtent(answer.rows) \cup RefusedExtent(answer.cols)
      BY <1>6, <2>5
    <3>3. QED
      BY <1>7, <3>1, <3>2 DEF Gaps
  <2>6. CASE answer.type \in {"none", "unset"}
    BY <1>6, <1>7, <2>6
  <2>7. QED
    BY <1>8, <2>2, <2>3, <2>4, <2>5, <2>6 DEF AnswerKinds
<1>11. QED
  BY <1>9, <1>10

\* A table that builds.
LEMMA BuiltTablesAreSet ==
    ASSUME NEW block \in Block, BuildsTable(block)
    PROVE  RefusedTable(block) = {}
<1>1. block.header \in Nat \cup {NoHeader}
  BY DEF Block
<1>2. TableColumns(block) = Columns(block)
  BY <1>1, CapIs DEF BuildsTable, TableColumns, Columns, NoHeader
<1>3. QED
  BY <1>2, Zenon DEF BuildsTable, RefusedTable

\* A block that builds: all but where a reference points.
LEMMA BuiltBlocksAreSet ==
    ASSUME NEW block \in Block, NEW ids, NEW passage, BuildsBlock(block)
    PROVE  \/ RefusedBlock(block, ids, passage) \subseteq Gaps
           \/ /\ block.type = "passage_ref" /\ block.id \notin ids
              /\ RefusedBlock(block, ids, passage) = {passage}
<1>1. block.type \in BlockKinds /\ block.width \in Number
  BY DEF Block
<1>2. CASE block.type = "passage_ref"
  BY <1>2 DEF RefusedBlock
<1>3. CASE block.type = "table"
  <2>1. BuildsTable(block)
    BY <1>3 DEF BuildsBlock
  <2>2. QED
    BY <1>3, <2>1, BuiltTablesAreSet DEF RefusedBlock
<1>4. CASE block.type = "figure"
  <2>1. Whole(block.width, Most)
    BY <1>4 DEF BuildsBlock
  <2>2. QED
    BY <1>1, <1>4, <2>1, WholeIsNotOver DEF RefusedBlock, Gaps
<1>5. CASE block.type \in {"passage", "code"}
  BY <1>5 DEF RefusedBlock
<1>6. QED
  BY <1>1, <1>2, <1>3, <1>4, <1>5 DEF BlockKinds

\* The blocks of a part or of a scheme.
LEMMA BuiltInnerBlocksAreSet ==
    ASSUME NEW blocks \in Seq(Block), NEW ids, BuildsBlocks(blocks)
    PROVE  RefusedBlocks(blocks, ids, "inner passage") \subseteq Gaps
<1>1. ASSUME NEW b \in DOMAIN blocks
      PROVE  RefusedBlock(blocks[b], ids, "inner passage") \subseteq Gaps
  <2>1. blocks[b] \in Block /\ BuildsBlock(blocks[b])
    BY ListIs DEF BuildsBlocks
  <2>2. PICK passage : passage = "inner passage"
    OBVIOUS
  <2>3. \/ RefusedBlock(blocks[b], ids, passage) \subseteq Gaps
        \/ RefusedBlock(blocks[b], ids, passage) = {passage}
    BY <2>1, BuiltBlocksAreSet
  <2>4. passage \in Gaps
    BY <2>2 DEF Gaps
  <2>5. RefusedBlock(blocks[b], ids, passage) \subseteq Gaps
    BY <2>3, <2>4
  <2>6. QED
    BY <2>2, <2>5, Zenon
<1>2. QED
  BY <1>1 DEF RefusedBlocks

\* A part, or a sub-part.
LEMMA BuiltPartsAreSet ==
    ASSUME NEW node, node.lines \in Number, node.answer \in Answer, node.blocks \in Seq(Block),
           NEW ids, BuildsNode(node)
    PROVE  RefusedPart(node, ids) \subseteq Gaps
<1>1. RefusedBlocks(node.blocks, ids, "inner passage") \subseteq Gaps
  BY BuiltInnerBlocksAreSet DEF BuildsNode
<1>2. QED
  BY <1>1, BuiltAnswersAreSet, BuiltNumbersAreSet DEF RefusedPart

\* A question that builds and points only at passages that are there.
LEMMA BuiltQuestionsAreSet ==
    ASSUME NEW question \in Question, NEW passages, BuildsQuestion(question),
           PointsAtPassages(question, passages)
    PROVE  RefusedQuestion(question, Ids(passages)) \subseteq Gaps
<1>1. /\ question.lines \in Number /\ question.answer \in Answer /\ question.blocks \in Seq(Block)
      /\ question.parts \in Seq(Part) /\ BuildsNode(question)
  BY DEF Question, BuildsQuestion
<1>2. RefusedNumbers(question) \subseteq Gaps /\ RefusedAnswer(question) \subseteq Gaps
  BY <1>1, BuiltAnswersAreSet, BuiltNumbersAreSet
<1>3. RefusedBlocks(question.blocks, Ids(passages), "passage") \subseteq Gaps
  <2>1. ASSUME NEW b \in DOMAIN question.blocks
        PROVE  RefusedBlock(question.blocks[b], Ids(passages), "passage") \subseteq Gaps
    <3>1. question.blocks[b] \in Block /\ BuildsBlock(question.blocks[b])
      BY <1>1, ListIs DEF BuildsNode, BuildsBlocks
    <3>2. question.blocks[b].type = "passage_ref" => question.blocks[b].id \in Ids(passages)
      BY DEF PointsAtPassages
    <3>3. QED
      BY <3>1, <3>2, BuiltBlocksAreSet
  <2>2. QED
    BY <2>1 DEF RefusedBlocks
<1>4. ASSUME NEW p \in DOMAIN question.parts
      PROVE  /\ RefusedPart(question.parts[p], Ids(passages)) \subseteq Gaps
             /\ \A s \in DOMAIN question.parts[p].parts :
                   RefusedPart(question.parts[p].parts[s], Ids(passages)) \subseteq Gaps
  <2>1. PICK part \in Part : part = question.parts[p]
    BY <1>1, ListIs
  <2>2. /\ part.lines \in Number /\ part.answer \in Answer /\ part.blocks \in Seq(Block)
        /\ part.parts \in Seq(SubPart)
    BY DEF Part
  <2>3. BuildsPart(part)
    BY <2>1 DEF BuildsQuestion
  <2>4. RefusedPart(part, Ids(passages)) \subseteq Gaps
    BY <2>2, <2>3, BuiltPartsAreSet DEF BuildsPart
  <2>5. ASSUME NEW s \in DOMAIN part.parts
        PROVE  RefusedPart(part.parts[s], Ids(passages)) \subseteq Gaps
    <3>1. PICK sub \in SubPart : sub = part.parts[s]
      BY <2>2, ListIs
    <3>2. sub.lines \in Number /\ sub.answer \in Answer /\ sub.blocks \in Seq(Block)
      BY DEF SubPart
    <3>3. BuildsNode(sub)
      BY <2>3, <3>1 DEF BuildsPart, BuildsSubPart
    <3>4. QED
      BY <3>1, <3>2, <3>3, BuiltPartsAreSet
  <2>6. QED
    BY <2>1, <2>4, <2>5
<1>5. \A x \in RefusedQuestion(question, Ids(passages)) :
         \/ x \in RefusedNumbers(question)
         \/ x \in RefusedAnswer(question)
         \/ x \in RefusedBlocks(question.blocks, Ids(passages), "passage")
         \/ \E p \in DOMAIN question.parts :
               \/ x \in RefusedPart(question.parts[p], Ids(passages))
               \/ \E s \in DOMAIN question.parts[p].parts :
                     x \in RefusedPart(question.parts[p].parts[s], Ids(passages))
  BY DEF RefusedQuestion
<1>6. QED
  BY <1>2, <1>3, <1>4, <1>5

\* An entry of the mark scheme.
LEMMA BuiltEntriesAreSet ==
    ASSUME NEW entry \in SchemeQuestion, BuildsSchemeQuestion(entry)
    PROVE  RefusedSchemeQuestion(entry) \subseteq Gaps
<1>1. entry.blocks \in Seq(Block) /\ entry.parts \in Seq(SchemePart)
  BY DEF SchemeQuestion
<1>2. RefusedBlocks(entry.blocks, {}, "inner passage") \subseteq Gaps
  BY <1>1, BuiltInnerBlocksAreSet DEF BuildsSchemeQuestion
<1>3. ASSUME NEW p \in DOMAIN entry.parts
      PROVE  /\ Beyond(entry.parts[p].marks, "marks") \subseteq Gaps
             /\ RefusedBlocks(entry.parts[p].blocks, {}, "inner passage") \subseteq Gaps
  <2>1. entry.parts[p].blocks \in Seq(Block)
    <3>1. entry.parts[p] \in SchemePart
      BY <1>1, ListIs
    <3>2. QED
      BY <3>1 DEF SchemePart
  <2>2. BuildsBlocks(entry.parts[p].blocks)
    BY DEF BuildsSchemeQuestion
  <2>3. RefusedBlocks(entry.parts[p].blocks, {}, "inner passage") \subseteq Gaps
    BY <2>1, <2>2, BuiltInnerBlocksAreSet
  <2>4. QED
    BY <2>3 DEF Beyond, Gaps
<1>4. \A x \in RefusedSchemeQuestion(entry) :
         \/ x \in RefusedBlocks(entry.blocks, {}, "inner passage")
         \/ \E p \in DOMAIN entry.parts :
               \/ x \in Beyond(entry.parts[p].marks, "marks")
               \/ x \in RefusedBlocks(entry.parts[p].blocks, {}, "inner passage")
  BY DEF RefusedSchemeQuestion
<1>5. QED
  BY <1>2, <1>3, <1>4

\* A paper.
LEMMA BuiltPapersAreSet ==
    ASSUME NEW paper \in Paper, Builds(paper)
    PROVE  Refused(paper) \subseteq Gaps
<1>1. paper.questions \in Seq(Question) /\ paper.sections \in Seq(Section)
  BY DEF Paper
<1>2. PICK all \in Seq(Question) :
        /\ all = AllQuestions(paper)
        /\ \A x : x \in Range(all) <=>
              \/ x \in Range(paper.questions)
              \/ \E s \in DOMAIN paper.sections : x \in Range(paper.sections[s].questions)
  <2>1. \A section \in Section : section.questions \in Seq(Question)
    BY DEF Section
  <2>2. QED
    BY <1>1, <2>1, AllQuestionsAre
<1>3. ASSUME NEW s \in DOMAIN paper.sections PROVE RefusedSection(paper.sections[s]) = {}
  BY DEF Builds, BuildsSection, RefusedSection
<1>4. ASSUME NEW q \in DOMAIN all PROVE RefusedQuestion(all[q], Ids(paper.passages)) \subseteq Gaps
  <2>1. all[q] \in Question /\ all[q] \in Range(all)
    BY ListIs DEF Range
  <2>2. BuildsQuestion(all[q])
    <3>1. CASE all[q] \in Range(paper.questions)
      BY <3>1 DEF Range, Builds
    <3>2. ASSUME NEW s \in DOMAIN paper.sections, all[q] \in Range(paper.sections[s].questions)
          PROVE  BuildsQuestion(all[q])
      BY <3>2 DEF Range, Builds, BuildsSection
    <3>3. QED
      BY <1>2, <2>1, <3>1, <3>2
  <2>3. PointsAtPassages(all[q], paper.passages)
    BY <1>2 DEF Builds
  <2>4. QED
    BY <2>1, <2>2, <2>3, BuiltQuestionsAreSet
<1>5. ASSUME NEW e \in DOMAIN paper.scheme PROVE RefusedSchemeQuestion(paper.scheme[e]) \subseteq Gaps
  <2>1. paper.scheme[e] \in SchemeQuestion
    BY ListIs DEF Paper
  <2>2. QED
    BY <2>1, BuiltEntriesAreSet DEF Builds
<1>6. ASSUME NEW x \in Refused(paper)
      PROVE  \/ x \in Beyond(paper.year, "details")
             \/ \E s \in DOMAIN paper.sections : x \in RefusedSection(paper.sections[s])
             \/ \E q \in DOMAIN all : x \in RefusedQuestion(all[q], Ids(paper.passages))
             \/ \E e \in DOMAIN paper.scheme : x \in RefusedSchemeQuestion(paper.scheme[e])
  BY <1>2, <1>6, RefusedIs
<1>7. Beyond(paper.year, "details") \subseteq Gaps
  BY DEF Beyond, Gaps
<1>8. QED
  BY <1>3, <1>4, <1>5, <1>6, <1>7

-------------------------------------------------------------------------------
(***************************************************************************)
(* What a card sets stands alone: what it is made of points at nothing,    *)
(* and from a scheme's card has no space to answer in.                     *)
(***************************************************************************)
ApartBlock == {block \in Block : block.type # "passage_ref"}
ApartSubPart == [said : BOOLEAN, marks : Number, lines : Number, answer : Answer,
                 blocks : Seq(ApartBlock)]
ApartPart == [said : BOOLEAN, marks : Number, lines : Number, answer : Answer,
              blocks : Seq(ApartBlock), parts : Seq(ApartSubPart)]
ApartQuestion == [number : Name \cup {NoName}, said : BOOLEAN, marks : Number, lines : Number,
                  answer : Answer, blocks : Seq(ApartBlock), parts : Seq(ApartPart)]

Spaceless(node) == node.lines = Unset /\ node.answer = NotSet
BareSubPart == {sub \in ApartSubPart : Spaceless(sub)}
BarePart == {part \in ApartPart : Spaceless(part) /\ part.parts \in Seq(BareSubPart)}
BareQuestion == {question \in ApartQuestion : Spaceless(question) /\ question.parts \in Seq(BarePart)}

\* The blocks of a node with the passages set in their place.
LEMMA InlinedStandAlone ==
    ASSUME NEW blocks \in Seq(Block), NEW passages
    PROVE  Inlined(blocks, passages) \in Seq(ApartBlock)
<1>1. PICK passage : passage = [EmptyBlock("passage") EXCEPT !.said = TRUE]
  OBVIOUS
<1>2. passage \in ApartBlock
  <2>1. EmptyBlock("passage") \in Block
    BY FreshBlocks DEF SoundBlock, BlockKinds
  <2>2. EmptyBlock("passage").type = "passage"
    BY DEF EmptyBlock
  <2>3. QED
    BY <1>1, <2>1, <2>2 DEF Block, ApartBlock
<1>3. PICK inlined : inlined =
        [b \in DOMAIN blocks |->
            IF blocks[b].type # "passage_ref" THEN <<blocks[b]>>
            ELSE IF blocks[b].id \notin Ids(passages) THEN <<>> ELSE <<passage>>]
  OBVIOUS
<1>4. Inlined(blocks, passages) = FlattenSeq(inlined)
  BY <1>1, <1>3 DEF Inlined
<1>5. /\ Len(blocks) \in Nat /\ DOMAIN blocks = 1..Len(blocks)
      /\ \A b \in DOMAIN blocks : blocks[b] \in Block
  BY ListIs
<1>6. ASSUME NEW b \in 1..Len(blocks) PROVE inlined[b] \in Seq(ApartBlock)
  <2>1. <<>> \in Seq(ApartBlock) /\ <<passage>> \in Seq(ApartBlock)
    BY <1>2, EmptySeq
  <2>2. CASE blocks[b].type # "passage_ref"
    <3>1. blocks[b] \in ApartBlock
      BY <1>5, <2>2 DEF ApartBlock
    <3>2. <<blocks[b]>> \in Seq(ApartBlock)
      BY <3>1
    <3>3. QED
      BY <1>3, <1>5, <2>2, <3>2
  <2>3. CASE blocks[b].type = "passage_ref"
    BY <1>3, <1>5, <2>1, <2>3
  <2>4. QED
    BY <2>2, <2>3
<1>7. inlined = [b \in 1..Len(blocks) |-> inlined[b]]
  BY <1>3, <1>5
<1>8. inlined \in Seq(Seq(ApartBlock))
  BY <1>5, <1>6, <1>7, ListOf
<1>9. QED
  BY <1>4, <1>8, FlattenIs

\* A question made a fragment, its parts and sub-parts with it.
LEMMA FragmentsStandAlone ==
    ASSUME NEW question \in Question, NEW passages
    PROVE  FragmentQuestion(question, passages) \in ApartQuestion
<1>1. question.blocks \in Seq(Block) /\ question.parts \in Seq(Part)
  BY DEF Question
<1>2. PICK parts : parts =
        [p \in DOMAIN question.parts |->
            [WithPassages(question.parts[p], passages) EXCEPT !.parts =
                [s \in DOMAIN @ |-> WithPassages(@[s], passages)]]]
  OBVIOUS
<1>3. /\ Len(question.parts) \in Nat /\ DOMAIN question.parts = 1..Len(question.parts)
      /\ \A p \in DOMAIN question.parts : question.parts[p] \in Part
  BY <1>1, ListIs
<1>4. ASSUME NEW p \in 1..Len(question.parts) PROVE parts[p] \in ApartPart
  <2>1. PICK part \in Part : part = question.parts[p]
    BY <1>3
  <2>2. part.blocks \in Seq(Block) /\ part.parts \in Seq(SubPart)
    BY DEF Part
  <2>3. PICK blocks \in Seq(ApartBlock) : blocks = Inlined(part.blocks, passages)
    BY <2>2, InlinedStandAlone
  <2>4. WithPassages(part, passages) = [part EXCEPT !.blocks = blocks]
    BY <2>3 DEF WithPassages, Part
  <2>5. PICK subs : subs = [s \in DOMAIN part.parts |-> WithPassages(part.parts[s], passages)]
    OBVIOUS
  <2>6. parts[p] = [part EXCEPT !.blocks = blocks, !.parts = subs]
    <3>1. WithPassages(part, passages).parts = part.parts
      BY <2>4 DEF Part
    <3>2. parts[p] = [WithPassages(part, passages) EXCEPT !.parts =
                        [s \in DOMAIN @ |-> WithPassages(@[s], passages)]]
      BY <1>2, <1>3, <2>1
    <3>3. parts[p] = [[part EXCEPT !.blocks = blocks] EXCEPT !.parts = subs]
      BY <2>4, <2>5, <3>1, <3>2 DEF Part
    <3>4. QED
      BY <3>3 DEF Part
  <2>7. /\ Len(part.parts) \in Nat /\ DOMAIN part.parts = 1..Len(part.parts)
        /\ \A s \in DOMAIN part.parts : part.parts[s] \in SubPart
    BY <2>2, ListIs
  <2>8. ASSUME NEW s \in 1..Len(part.parts) PROVE subs[s] \in ApartSubPart
    <3>1. PICK sub \in SubPart : sub = part.parts[s]
      BY <2>7
    <3>2. sub.blocks \in Seq(Block)
      BY DEF SubPart
    <3>3. PICK inner \in Seq(ApartBlock) : inner = Inlined(sub.blocks, passages)
      BY <3>2, InlinedStandAlone
    <3>4. subs[s] = [sub EXCEPT !.blocks = inner]
      BY <2>5, <2>7, <3>1, <3>3 DEF WithPassages, SubPart
    <3>5. QED
      BY <3>4 DEF SubPart, ApartSubPart
  <2>9. subs = [s \in 1..Len(part.parts) |-> subs[s]]
    BY <2>5, <2>7
  <2>10. subs \in Seq(ApartSubPart)
    BY <2>7, <2>8, <2>9, ListOf
  <2>11. QED
    BY <2>6, <2>10 DEF Part, ApartPart
<1>5. parts = [p \in 1..Len(question.parts) |-> parts[p]]
  BY <1>2, <1>3
<1>6. parts \in Seq(ApartPart)
  BY <1>3, <1>4, <1>5, ListOf
<1>7. PICK blocks \in Seq(ApartBlock) : blocks = Inlined(question.blocks, passages)
  BY <1>1, InlinedStandAlone
<1>8. FragmentQuestion(question, passages) = [question EXCEPT !.blocks = blocks, !.parts = parts]
  <2>1. WithPassages(question, passages) = [question EXCEPT !.blocks = blocks]
    BY <1>7 DEF WithPassages, Question
  <2>2. FragmentQuestion(question, passages) = [WithPassages(question, passages) EXCEPT !.parts = parts]
    BY <1>2 DEF FragmentQuestion
  <2>3. QED
    BY <2>1, <2>2 DEF Question
<1>9. QED
  BY <1>6, <1>8 DEF Question, ApartQuestion

\* The fragment without the space to answer in, at every depth.
LEMMA DroppedIsBare ==
    ASSUME NEW question \in ApartQuestion
    PROVE  WithoutAnswerSpace(question) \in BareQuestion
<1>1. question.parts \in Seq(ApartPart)
  BY DEF ApartQuestion
<1>2. PICK parts : parts =
        [p \in DOMAIN question.parts |-> [DropAnswer(question.parts[p]) EXCEPT !.parts =
            [s \in DOMAIN @ |-> DropAnswer(@[s])]]]
  OBVIOUS
<1>3. /\ Len(question.parts) \in Nat /\ DOMAIN question.parts = 1..Len(question.parts)
      /\ \A p \in DOMAIN question.parts : question.parts[p] \in ApartPart
  BY <1>1, ListIs
<1>4. ASSUME NEW p \in 1..Len(question.parts) PROVE parts[p] \in BarePart
  <2>1. PICK part \in ApartPart : part = question.parts[p]
    BY <1>3
  <2>2. part.parts \in Seq(ApartSubPart)
    BY DEF ApartPart
  <2>3. PICK subs : subs = [s \in DOMAIN part.parts |-> DropAnswer(part.parts[s])]
    OBVIOUS
  <2>4. parts[p] = [part EXCEPT !.lines = Unset, !.answer = NotSet, !.parts = subs]
    <3>1. DropAnswer(part) = [part EXCEPT !.lines = Unset, !.answer = NotSet]
      BY DEF DropAnswer
    <3>2. parts[p] = [DropAnswer(part) EXCEPT !.parts = [s \in DOMAIN @ |-> DropAnswer(@[s])]]
      BY <1>2, <1>3, <2>1
    <3>3. DropAnswer(part).parts = part.parts
      BY <3>1 DEF ApartPart
    <3>4. parts[p] = [[part EXCEPT !.lines = Unset, !.answer = NotSet] EXCEPT !.parts = subs]
      BY <2>3, <3>1, <3>2, <3>3 DEF ApartPart
    <3>5. QED
      BY <3>4 DEF ApartPart
  <2>5. /\ Len(part.parts) \in Nat /\ DOMAIN part.parts = 1..Len(part.parts)
        /\ \A s \in DOMAIN part.parts : part.parts[s] \in ApartSubPart
    BY <2>2, ListIs
  <2>6. ASSUME NEW s \in 1..Len(part.parts) PROVE subs[s] \in BareSubPart
    <3>1. PICK sub \in ApartSubPart : sub = part.parts[s]
      BY <2>5
    <3>2. subs[s] = [sub EXCEPT !.lines = Unset, !.answer = NotSet]
      BY <2>3, <2>5, <3>1 DEF DropAnswer, ApartSubPart
    <3>3. QED
      BY <3>2, FreshAnswers DEF ApartSubPart, BareSubPart, Spaceless
  <2>7. subs = [s \in 1..Len(part.parts) |-> subs[s]]
    BY <2>3, <2>5
  <2>8. subs \in Seq(BareSubPart)
    BY <2>5, <2>6, <2>7, ListOf
  <2>9. subs \in Seq(ApartSubPart)
    BY <2>8, SeqMonotonic DEF BareSubPart
  <2>10. parts[p] \in ApartPart /\ parts[p].parts = subs /\ Spaceless(parts[p])
    BY <2>4, <2>9, FreshAnswers DEF ApartPart, Spaceless
  <2>11. QED
    BY <2>8, <2>10 DEF BarePart
<1>5. parts = [p \in 1..Len(question.parts) |-> parts[p]]
  BY <1>2, <1>3
<1>6. parts \in Seq(BarePart)
  BY <1>3, <1>4, <1>5, ListOf
<1>7. parts \in Seq(ApartPart)
  BY <1>6, SeqMonotonic DEF BarePart
<1>8. WithoutAnswerSpace(question) = [question EXCEPT !.lines = Unset, !.answer = NotSet, !.parts = parts]
  <2>1. DropAnswer(question) = [question EXCEPT !.lines = Unset, !.answer = NotSet]
    BY DEF DropAnswer
  <2>2. WithoutAnswerSpace(question) = [DropAnswer(question) EXCEPT !.parts = parts]
    BY <1>2 DEF WithoutAnswerSpace
  <2>3. QED
    BY <2>1, <2>2 DEF ApartQuestion
<1>9. /\ WithoutAnswerSpace(question) \in ApartQuestion /\ Spaceless(WithoutAnswerSpace(question))
      /\ WithoutAnswerSpace(question).parts = parts
  BY <1>7, <1>8, FreshAnswers DEF ApartQuestion, Spaceless
<1>10. QED
  BY <1>6, <1>9 DEF BareQuestion

\* An empty question, with or without a number, is bare.
LEMMA EmptyIsBare ==
    \A number \in Name \cup {NoName} : [EmptyQuestion EXCEPT !.number = number] \in BareQuestion
<1>1. SUFFICES ASSUME NEW number \in Name \cup {NoName}
               PROVE  [EmptyQuestion EXCEPT !.number = number] \in BareQuestion
  OBVIOUS
<1>2. <<>> \in Seq(ApartBlock) /\ <<>> \in Seq(ApartPart) /\ <<>> \in Seq(BarePart)
  BY EmptySeq
<1>3. PICK empty : empty = [EmptyQuestion EXCEPT !.number = number]
  OBVIOUS
<1>4. empty \in ApartQuestion /\ empty.parts = <<>> /\ Spaceless(empty)
  BY <1>2, <1>3, FreshAnswers DEF EmptyQuestion, ApartQuestion, Spaceless
<1>5. QED
  BY <1>2, <1>3, <1>4 DEF BareQuestion

\* What a question's card sets, and what an entry's does.
LEMMA CardsAreApart ==
    ASSUME NEW question \in Question, NEW passages
    PROVE  CardDocument(question, passages) \in ApartQuestion
<1>1. Nothing \in ApartQuestion
  BY EmptyIsBare DEF Nothing, BareQuestion
<1>2. QED
  BY <1>1, FragmentsStandAlone DEF CardDocument

\* and an entry's leaves no space to answer in besides.
LEMMA SchemeCardsAreBare ==
    ASSUME NEW paper \in Paper, NEW entry \in SchemeQuestion
    PROVE  SchemeDocument(paper, entry) \in BareQuestion
<1>1. CASE ~BuildsSchemeQuestion(entry)
  BY <1>1, EmptyIsBare DEF SchemeDocument, Nothing
<1>2. CASE BuildsSchemeQuestion(entry) /\ Asked(paper, entry) = {}
  <2>1. entry.number \in Name \cup {NoName}
    BY DEF SchemeQuestion
  <2>2. QED
    BY <1>2, <2>1, EmptyIsBare DEF SchemeDocument
<1>3. CASE BuildsSchemeQuestion(entry) /\ Asked(paper, entry) # {}
  <2>1. PICK all \in Seq(Question) : all = AllQuestions(paper)
    <3>1. /\ paper.questions \in Seq(Question) /\ paper.sections \in Seq(Section)
          /\ \A section \in Section : section.questions \in Seq(Question)
      BY DEF Paper, Section
    <3>2. QED
      BY <3>1, AllQuestionsAre
  <2>2. Len(all) \in Nat /\ DOMAIN all = 1..Len(all) /\ \A q \in DOMAIN all : all[q] \in Question
    BY ListIs
  <2>3. Asked(paper, entry) \subseteq DOMAIN all
    BY <2>1 DEF Asked
  <2>4. PICK asked \in SUBSET Nat : asked = Asked(paper, entry) /\ asked # {} /\ asked \subseteq DOMAIN all
    BY <1>3, <2>2, <2>3
  <2>5. \E q \in asked : \A p \in asked : q <= p
    BY <2>4, Least
  <2>6. Min(asked) \in asked
    BY <2>5 DEF Min
  <2>7. PICK question \in Question : question = AllQuestions(paper)[Min(Asked(paper, entry))]
    BY <2>1, <2>2, <2>4, <2>6
  <2>8. CardDocument(question, paper.passages) \in ApartQuestion
    BY CardsAreApart
  <2>9. WithoutAnswerSpace(CardDocument(question, paper.passages)) \in BareQuestion
    BY <2>8, DroppedIsBare
  <2>10. QED
    BY <1>3, <2>7, <2>9 DEF SchemeDocument
<1>4. QED
  BY <1>1, <1>2, <1>3

\* The paper of a single question has its nodes and no others.
LEMMA PaperOfOne ==
    ASSUME NEW question, NEW paper, paper.questions = <<question>>, paper.sections = <<>>
    PROVE  Range(AllQuestions(paper)) = {question}
<1>1. PICK S, T : S = {question} /\ T = {}
  OBVIOUS
<1>2. paper.questions \in Seq(S) /\ paper.sections \in Seq(T)
  BY <1>1, EmptySeq
<1>3. \A section \in T : section.questions \in Seq(S)
  BY <1>1
<1>4. \A x : x \in Range(AllQuestions(paper)) <=>
         \/ x \in Range(paper.questions)
         \/ \E s \in DOMAIN paper.sections : x \in Range(paper.sections[s].questions)
  BY <1>2, <1>3, AllQuestionsAre
<1>5. PICK one : one = <<question>>
  OBVIOUS
<1>6. PICK none : none = <<>>
  OBVIOUS
<1>7. Range(one) = {question} /\ DOMAIN none = {}
  BY <1>5, <1>6 DEF Range
<1>8. QED
  BY <1>4, <1>5, <1>6, <1>7

\* Such a question points at no passage.
LEMMA ApartPointsNowhere ==
    ASSUME NEW question \in ApartQuestion, NEW paper, paper.questions = <<question>>,
           paper.sections = <<>>, NEW block \in Blocks(paper)
    PROVE  block.type # "passage_ref"
<1>1. \/ block \in Range(question.blocks)
      \/ \E part \in Range(question.parts) :
            \/ block \in Range(part.blocks)
            \/ \E sub \in Range(part.parts) : block \in Range(sub.blocks)
  BY PaperOfOne, BlocksAre
<1>2. /\ question.blocks \in Seq(ApartBlock)
      /\ \A part \in Range(question.parts) : part \in ApartPart
  BY ListIs DEF ApartQuestion
<1>3. \A part \in ApartPart : /\ part.blocks \in Seq(ApartBlock)
                              /\ \A sub \in Range(part.parts) : sub \in ApartSubPart
  BY ListIs DEF ApartPart
<1>4. \A sub \in ApartSubPart : sub.blocks \in Seq(ApartBlock)
  BY DEF ApartSubPart
<1>5. block \in ApartBlock
  BY <1>1, <1>2, <1>3, <1>4, ListIs
<1>6. QED
  BY <1>5 DEF ApartBlock

\* A bare one has no space to answer in.
LEMMA BareHasNoSpace ==
    ASSUME NEW question \in BareQuestion, NEW paper, paper.questions = <<question>>,
           paper.sections = <<>>, NEW depth \in 1..3, NEW node \in Nodes(paper)[depth]
    PROVE  node.lines = Unset /\ node.answer = NotSet
<1>1. PICK parts : parts = UNION {Range(q.parts) : q \in {question}}
  OBVIOUS
<1>2. PICK subParts : subParts = UNION {Range(part.parts) : part \in parts}
  OBVIOUS
<1>3. Nodes(paper) = <<{question}, parts, subParts>>
  BY <1>1, <1>2, PaperOfOne DEF Nodes
<1>4. node \in {question} \/ node \in parts \/ node \in subParts
  BY <1>3
<1>5. \A part \in parts : part \in BarePart
  BY <1>1, ListIs DEF BareQuestion
<1>6. \A sub \in subParts : sub \in BareSubPart
  BY <1>2, <1>5, ListIs DEF BarePart
<1>7. Spaceless(node)
  BY <1>4, <1>5, <1>6 DEF BareQuestion, BarePart, BareSubPart
<1>8. QED
  BY <1>7 DEF Spaceless

-------------------------------------------------------------------------------
(***************************************************************************)
(* The preview.                                                            *)
(***************************************************************************)

\* A figure whose image says it could not be fetched was refused.
ImagesInv == \A f \in Figure : image[f] = "refused" => f \in refused

\* What the card sends is a request of its document, or none.
LEMMA AssetsAre ==
    ASSUME PreviewsTypeOK
    PROVE  RenderAssets \in Request \cup {NoRequest} /\ NoRequest \notin Request
<1>1. NoRequest \notin Request
  BY PreviewsAssumption DEF NoRequest, Request
<1>2. CASE settled # NoBody /\ \A f \in Names : Answered(f)
  <2>1. settled \in Body /\ Names = FigureOf[settled] /\ FigureOf[settled] \subseteq Figure
    BY <1>2, PreviewsAssumption DEF PreviewsTypeOK, Names
  <2>2. RenderAssets = [body |-> settled, without |-> {f \in Names : image[f] # "there"}]
    BY <1>2 DEF RenderAssets
  <2>3. QED
    BY <1>1, <2>1, <2>2 DEF Request
<1>3. CASE ~(settled # NoBody /\ \A f \in Names : Answered(f))
  <2>1. RenderAssets = NoRequest
    BY <1>3, Zenon DEF RenderAssets
  <2>2. QED
    BY <1>1, <2>1
<1>4. QED
  BY <1>2, <1>3

\* The queries of the cache keep their types.
LEMMA PreviewTypes ==
    ASSUME PreviewsTypeOK, PreviewsNext
    PROVE  PreviewsTypeOK'
<1>a. /\ want \in Body \cup {NoBody} /\ settled \in Body \cup {NoBody}
      /\ image \in [Figure -> Query] /\ mounted \subseteq Figure
      /\ render \in [Request -> Query] /\ observing \in Request \cup {NoRequest}
      /\ last \in Request \cup {NoRequest} /\ refused \subseteq Figure
  BY DEF PreviewsTypeOK
<1>b. \A query \in Query : Started(query) \in Query
  BY DEF Started, Query
<1>1. CASE Retype
  BY <1>1, <1>a DEF Retype, PreviewsTypeOK
<1>2. CASE Settle
  BY <1>2, <1>a DEF Settle, PreviewsTypeOK
<1>3. CASE Mount
  <2>1. PICK request \in Request \cup {NoRequest} : request = RenderAssets
    BY AssetsAre
  <2>2. Names \subseteq Figure
    BY <1>a, PreviewsAssumption DEF Names
  <2>3. image' \in [Figure -> Query] /\ mounted' \subseteq Figure /\ observing' \in Request \cup {NoRequest}
    BY <1>3, <1>a, <1>b, <2>1, <2>2 DEF Mount
  <2>4. render' \in [Request -> Query]
    BY <1>3, <1>a, <1>b, <2>1 DEF Mount
  <2>5. last' \in Request \cup {NoRequest}
    BY <1>3, <1>a, <2>1 DEF Mount
  <2>6. UNCHANGED <<want, settled, refused>>
    BY <1>3 DEF Mount
  <2>7. QED
    BY <1>a, <2>3, <2>4, <2>5, <2>6 DEF PreviewsTypeOK
<1>4. ASSUME NEW f \in Figure, FetchImage(f) PROVE PreviewsTypeOK'
  <2>1. image' \in [Figure -> Query] /\ refused' \subseteq Figure
    BY <1>4, <1>a DEF FetchImage, Query
  <2>2. QED
    BY <1>4, <1>a, <2>1 DEF FetchImage, PreviewsTypeOK
<1>5. ASSUME NEW r \in Request, RenderTypst(r) PROVE PreviewsTypeOK'
  <2>1. render' \in [Request -> Query] /\ last' \in Request \cup {NoRequest}
    BY <1>5, <1>a DEF RenderTypst, Query
  <2>2. QED
    BY <1>5, <1>a, <2>1 DEF RenderTypst, PreviewsTypeOK
<1>6. QED
  BY <1>1, <1>2, <1>3, <1>4, <1>5 DEF PreviewsNext

\* A request is sent without a figure only where its image was refused.
LEMMA FiguresStayAwaited ==
    ASSUME PreviewsTypeOK, ImagesInv, FiguresAreAwaited, PreviewsNext
    PROVE  ImagesInv' /\ FiguresAreAwaited'
<1>a. image \in [Figure -> Query] /\ render \in [Request -> Query]
  BY DEF PreviewsTypeOK
<1>1. CASE Retype \/ Settle
  BY <1>1 DEF Retype, Settle, ImagesInv, FiguresAreAwaited
<1>2. CASE Mount
  <2>1. PICK request \in Request \cup {NoRequest} : request = RenderAssets /\ NoRequest \notin Request
    BY AssetsAre
  <2>2. ImagesInv'
    BY <1>2, <1>a DEF Mount, ImagesInv, Started
  <2>3. request \in Request => request.without \subseteq refused
    <3>1. SUFFICES ASSUME request \in Request PROVE request.without \subseteq refused
      OBVIOUS
    <3>2. /\ settled # NoBody /\ \A f \in Names : Answered(f)
          /\ request = [body |-> settled, without |-> {f \in Names : image[f] # "there"}]
      BY <2>1, <3>1 DEF RenderAssets
    <3>3. Names \subseteq Figure
      BY PreviewsAssumption DEF PreviewsTypeOK, Names
    <3>4. QED
      BY <3>2, <3>3 DEF Answered, ImagesInv
  <2>4. \A r \in Request : render'[r] # "idle" => render[r] # "idle" \/ r = request
    BY <1>2, <1>a, <2>1 DEF Mount
  <2>5. refused' = refused
    BY <1>2 DEF Mount
  <2>6. FiguresAreAwaited'
    BY <2>3, <2>4, <2>5 DEF FiguresAreAwaited
  <2>7. QED
    BY <2>2, <2>6
<1>3. ASSUME NEW f \in Figure, FetchImage(f) PROVE ImagesInv' /\ FiguresAreAwaited'
  BY <1>3, <1>a DEF FetchImage, ImagesInv, FiguresAreAwaited
<1>4. ASSUME NEW r \in Request, RenderTypst(r) PROVE ImagesInv' /\ FiguresAreAwaited'
  BY <1>4, <1>a DEF RenderTypst, ImagesInv, FiguresAreAwaited
<1>5. QED
  BY <1>1, <1>2, <1>3, <1>4 DEF PreviewsNext

-------------------------------------------------------------------------------
(***************************************************************************)
(* Questions are kept: how far a list is from what an edit makes of it.    *)
(***************************************************************************)

\* All but one of what a list has is in another,
Within(from, to) == \E i \in Int : \A k \in DOMAIN from : k # i => from[k] \in Range(to)
\* and they are as close as one item taken and one brought leaves them.
Close(from, to) == Within(from, to) /\ Within(to, from) /\ Len(to) - Len(from) \in -1..1

\* What is in a list is what it has in some place.
LEMMA InRange ==
    ASSUME NEW S, NEW list \in Seq(S), NEW n \in Nat, n = Len(list)
    PROVE  /\ \A k \in 1..n : list[k] \in Range(list)
           /\ \A x \in Range(list) : \E k \in 1..n : x = list[k]
  BY ListIs DEF Range

\* What comes before two lists leaves all but one of the one in the other.
LEMMA WithinAfter ==
    ASSUME NEW S, NEW from \in Seq(S), NEW to \in Seq(S), NEW before \in Seq(S), Within(from, to)
    PROVE  Within(before \o from, before \o to)
<1>1. PICK n \in Nat, m \in Nat : n = Len(before) /\ m = Len(from)
  BY ListIs
<1>2. PICK i \in Int : \A k \in 1..m : k # i => from[k] \in Range(to)
  <2>1. DOMAIN from = 1..m
    BY <1>1, ListIs
  <2>2. QED
    BY <2>1 DEF Within
<1>3. PICK all \in Seq(S) : all = before \o from
  BY ConcatProperties
<1>4. /\ Len(all) = n + m /\ DOMAIN all = 1..(n + m)
      /\ \A k \in 1..(n + m) : all[k] = IF k <= n THEN before[k] ELSE from[k - n]
  BY <1>1, <1>3, ConcatProperties, ListIs
<1>5. Range(before \o to) = Range(before) \cup Range(to)
  BY RangeConcatenation
<1>6. PICK j \in Int : j = n + i
  OBVIOUS
<1>7. ASSUME NEW k \in 1..(n + m), k # j PROVE all[k] \in Range(before \o to)
  <2>1. CASE k <= n
    <3>1. k \in 1..n /\ all[k] = before[k]
      BY <1>4, <2>1
    <3>2. before[k] \in Range(before)
      BY <1>1, <3>1, InRange
    <3>3. QED
      BY <1>5, <3>1, <3>2
  <2>2. CASE k > n
    <3>1. PICK l \in 1..m : l = k - n /\ l # i
      BY <1>6, <1>7, <2>2
    <3>2. all[k] = from[l]
      BY <1>4, <2>2, <3>1
    <3>3. QED
      BY <1>2, <1>5, <3>1, <3>2
  <2>3. QED
    BY <2>1, <2>2
<1>8. QED
  BY <1>3, <1>4, <1>7 DEF Within

\* So does what comes after them,
LEMMA WithinBefore ==
    ASSUME NEW S, NEW from \in Seq(S), NEW to \in Seq(S), NEW after \in Seq(S), Within(from, to)
    PROVE  Within(from \o after, to \o after)
<1>1. PICK n \in Nat, m \in Nat : n = Len(after) /\ m = Len(from)
  BY ListIs
<1>2. PICK i \in Int : \A k \in 1..m : k # i => from[k] \in Range(to)
  <2>1. DOMAIN from = 1..m
    BY <1>1, ListIs
  <2>2. QED
    BY <2>1 DEF Within
<1>3. PICK all \in Seq(S) : all = from \o after
  BY ConcatProperties
<1>4. /\ Len(all) = m + n /\ DOMAIN all = 1..(m + n)
      /\ \A k \in 1..(m + n) : all[k] = IF k <= m THEN from[k] ELSE after[k - m]
  BY <1>1, <1>3, ConcatProperties, ListIs
<1>5. Range(to \o after) = Range(to) \cup Range(after)
  BY RangeConcatenation
<1>7. ASSUME NEW k \in 1..(m + n), k # i PROVE all[k] \in Range(to \o after)
  <2>1. CASE k <= m
    BY <1>2, <1>4, <1>5, <1>7, <2>1
  <2>2. CASE k > m
    <3>1. PICK l \in 1..n : l = k - m
      BY <2>2
    <3>2. all[k] = after[l]
      BY <1>4, <2>2, <3>1
    <3>3. after[l] \in Range(after)
      BY <1>1, InRange
    <3>4. QED
      BY <1>5, <3>2, <3>3
  <2>3. QED
    BY <2>1, <2>2
<1>8. QED
  BY <1>3, <1>4, <1>7 DEF Within

\* so that lists with the same around them are as close as without.
LEMMA CloseAround ==
    ASSUME NEW S, NEW from \in Seq(S), NEW to \in Seq(S), NEW other \in Seq(S), Close(from, to)
    PROVE  Close(other \o from, other \o to) /\ Close(from \o other, to \o other)
<1>1. /\ Len(from) \in Nat /\ Len(to) \in Nat /\ Len(other) \in Nat
      /\ Len(other \o from) = Len(other) + Len(from) /\ Len(other \o to) = Len(other) + Len(to)
      /\ Len(from \o other) = Len(from) + Len(other) /\ Len(to \o other) = Len(to) + Len(other)
  BY ListIs, ConcatProperties
<1>2. /\ Within(other \o from, other \o to) /\ Within(other \o to, other \o from)
      /\ Within(from \o other, to \o other) /\ Within(to \o other, from \o other)
  BY WithinAfter, WithinBefore DEF Close
<1>3. /\ Len(other \o to) - Len(other \o from) \in -1..1
      /\ Len(to \o other) - Len(from \o other) \in -1..1
  <2>1. Len(to) - Len(from) \in -1..1
    BY DEF Close
  <2>2. PICK n \in Nat, m \in Nat, k \in Nat :
          n = Len(from) /\ m = Len(to) /\ k = Len(other)
    BY <1>1
  <2>3. (k + m) - (k + n) \in -1..1 /\ (m + k) - (n + k) \in -1..1
    BY <2>1, <2>2
  <2>4. QED
    BY <1>1, <2>2, <2>3
<1>4. QED
  BY <1>2, <1>3 DEF Close

\* Lists of one length with the same in them are close.
LEMMA SameIsClose ==
    ASSUME NEW S, NEW from \in Seq(S), NEW to \in Seq(S), Len(from) = Len(to), Range(from) = Range(to)
    PROVE  Close(from, to)
<1>1. /\ Len(from) \in Nat /\ DOMAIN from = 1..Len(from) /\ DOMAIN to = 1..Len(to)
  BY ListIs
<1>2. /\ \A k \in DOMAIN from : from[k] \in Range(to)
      /\ \A k \in DOMAIN to : to[k] \in Range(from)
  BY DEF Range
<1>3. Within(from, to) /\ Within(to, from)
  BY <1>2 DEF Within
<1>4. QED
  BY <1>1, <1>3 DEF Close

\* An item moved leaves a list with what it had, once swapped and once written.
LEMMA MovedIsSame ==
    ASSUME NEW S, NEW list \in Seq(S), NEW i \in DOMAIN list, NEW delta \in {-1, 1}
    PROVE  Len(Moved(list, i, delta)) = Len(list) /\ Range(Moved(list, i, delta)) = Range(list)
<1>1. CASE i + delta \in DOMAIN list
  <2>1. PICK n \in Nat : n = Len(list) /\ DOMAIN list = 1..n /\ i \in 1..n
    BY ListIs
  <2>2. PICK j \in 1..n : j = i + delta /\ j # i
    BY <1>1, <2>1
  <2>3. PICK once \in Seq(S) : once = [list EXCEPT ![i] = list[j]]
    BY <2>1, ListIs, ExceptSeq
  <2>4. list[i] \in S /\ list[j] \in S
    BY <2>1, ListIs
  <2>5. Len(once) = n /\ \A k \in 1..n : once[k] = IF k = i THEN list[j] ELSE list[k]
    BY <2>1, <2>3, <2>4, ExceptSeq
  <2>6. PICK twice \in Seq(S) : twice = [once EXCEPT ![j] = list[i]]
    BY <2>4, <2>5, ExceptSeq
  <2>7. Len(twice) = n /\ \A k \in 1..n : twice[k] = IF k = j THEN list[i] ELSE once[k]
    BY <2>4, <2>5, <2>6, ExceptSeq
  <2>8. \A k \in 1..n : twice[k] = IF k = j THEN list[i] ELSE IF k = i THEN list[j] ELSE list[k]
    BY <2>5, <2>7
  <2>9. Moved(list, i, delta) = twice
    BY <1>1, <2>2, <2>3, <2>6 DEF Moved
  <2>10. Range(twice) = Range(list)
    <3>1. ASSUME NEW x \in Range(twice) PROVE x \in Range(list)
      <4>1. PICK k \in 1..n : x = twice[k]
        BY <2>7, InRange
      <4>2. \E l \in 1..n : x = list[l]
        BY <2>1, <2>8, <4>1
      <4>3. QED
        BY <2>1, <4>2, InRange
    <3>2. ASSUME NEW x \in Range(list) PROVE x \in Range(twice)
      <4>1. PICK k \in 1..n : x = list[k]
        BY <2>1, InRange
      <4>2. \E l \in 1..n : x = twice[l]
        BY <2>1, <2>2, <2>8, <4>1
      <4>3. QED
        BY <2>7, <4>2, InRange
    <3>3. QED
      BY <3>1, <3>2
  <2>11. QED
    BY <2>1, <2>7, <2>9, <2>10
<1>2. CASE i + delta \notin DOMAIN list
  BY <1>2 DEF Moved
<1>3. QED
  BY <1>1, <1>2

\* A list without one of its items is close to it.
LEMMA RemovedIsClose ==
    ASSUME NEW S, NEW list \in Seq(S), NEW i \in DOMAIN list
    PROVE  Close(list, RemoveAt(list, i))
<1>1. PICK n \in Nat : n = Len(list) /\ i \in 1..n
  BY ListIs
<1>2. PICK head \in Seq(S), tail \in Seq(S) :
        head = SubSeq(list, 1, i - 1) /\ tail = SubSeq(list, i + 1, n)
  BY <1>1, Around
<1>3. RemoveAt(list, i) = head \o tail
  BY <1>1, <1>2 DEF RemoveAt
<1>4. PICK one \in Seq(S) : one = <<list[i]>> /\ Len(one) = 1
  <2>1. PICK x \in S : x = list[i]
    BY ListIs
  <2>2. <<x>> \in Seq(S) /\ Len(<<x>>) = 1
    OBVIOUS
  <2>3. QED
    BY <2>1, <2>2
<1>5. PICK none \in Seq(S) : none = <<>> /\ Len(none) = 0
  BY EmptySeq
<1>6. list = head \o (one \o tail)
  <2>1. Parted(list, n, i)
    BY <1>1, Around
  <2>2. QED
    BY <1>2, <1>4, <2>1 DEF Parted
<1>7. tail = none \o tail
  BY <1>5, ConcatEmptySeq
<1>8. Close(one, none)
  <2>1. DOMAIN one = 1..1 /\ DOMAIN none = 1..0
    BY <1>4, <1>5, ListIs
  <2>2. Within(one, none) /\ Within(none, one)
    BY <2>1 DEF Within
  <2>3. QED
    BY <1>4, <1>5, <2>2 DEF Close
<1>9. Close(one \o tail, none \o tail)
  BY <1>8, CloseAround
<1>10. one \o tail \in Seq(S)
  BY ConcatProperties
<1>11. PICK with \in Seq(S) : with = one \o tail /\ Close(with, tail)
  BY <1>7, <1>9, <1>10
<1>12. Close(head \o with, head \o tail)
  BY <1>11, CloseAround
<1>13. QED
  BY <1>3, <1>6, <1>11, <1>12

\* So is what any of its tools leaves of it,
LEMMA ToolsAreClose ==
    ASSUME NEW S, NEW list \in Seq(S), NEW next \in Tools(list)
    PROVE  Close(list, next)
<1>1. CASE \E i \in DOMAIN list, delta \in {-1, 1} : next = Moved(list, i, delta)
  <2>1. PICK i \in DOMAIN list, delta \in {-1, 1} : next = Moved(list, i, delta)
    BY <1>1
  <2>2. next \in Seq(S)
    BY <2>1, MovedKeeps
  <2>3. Len(next) = Len(list) /\ Range(next) = Range(list)
    BY <2>1, MovedIsSame
  <2>4. QED
    BY <2>2, <2>3, SameIsClose
<1>2. CASE \E i \in DOMAIN list : next = RemoveAt(list, i)
  BY <1>2, RemovedIsClose
<1>3. QED
  BY <1>1, <1>2 DEF Tools

\* what an addition makes of it,
LEMMA AddedIsClose ==
    ASSUME NEW S, NEW list \in Seq(S), NEW new \in S
    PROVE  Close(list, Append(list, new))
<1>1. PICK n \in Nat : n = Len(list)
  BY ListIs
<1>2. PICK next \in Seq(S) : next = Append(list, new)
  BY AppendProperties
<1>3. /\ Len(next) = n + 1 /\ \A k \in 1..n : next[k] = list[k]
      /\ DOMAIN next = 1..(n + 1) /\ DOMAIN list = 1..n
  BY <1>1, <1>2, AppendProperties, ListIs
<1>4. \A k \in 1..n : list[k] \in Range(next)
  <2>1. \A k \in 1..n : k \in 1..(n + 1)
    OBVIOUS
  <2>2. \A k \in 1..(n + 1) : next[k] \in Range(next)
    BY <1>3, InRange
  <2>3. QED
    BY <1>3, <2>1, <2>2
<1>5. \A k \in 1..(n + 1) : k # n + 1 => next[k] \in Range(list)
  <2>1. \A k \in 1..n : list[k] \in Range(list)
    BY <1>1, InRange
  <2>2. \A k \in 1..(n + 1) : k # n + 1 => k \in 1..n
    OBVIOUS
  <2>3. QED
    BY <1>3, <2>1, <2>2
<1>6. Within(list, next) /\ Within(next, list)
  BY <1>3, <1>4, <1>5 DEF Within
<1>7. QED
  BY <1>1, <1>2, <1>3, <1>6 DEF Close

\* and what it is with one item changed.
LEMMA ChangedIsClose ==
    ASSUME NEW S, NEW list \in Seq(S), NEW i \in DOMAIN list, NEW new \in S
    PROVE  Close(list, [list EXCEPT ![i] = new])
<1>1. PICK n \in Nat : n = Len(list) /\ i \in 1..n /\ DOMAIN list = 1..n
  BY ListIs
<1>2. PICK next \in Seq(S) : next = [list EXCEPT ![i] = new]
  BY <1>1, ExceptSeq
<1>3. /\ Len(next) = n /\ DOMAIN next = 1..n
      /\ \A k \in 1..n : k # i => next[k] = list[k]
  BY <1>1, <1>2, ExceptSeq, ListIs
<1>4. /\ \A k \in 1..n : list[k] \in Range(list)
      /\ \A k \in 1..n : next[k] \in Range(next)
  BY <1>1, <1>3, InRange
<1>5. Within(list, next) /\ Within(next, list)
  BY <1>1, <1>3, <1>4 DEF Within
<1>6. QED
  BY <1>1, <1>2, <1>3, <1>5 DEF Close

\* So is whatever the editor of a list of questions makes of one.
LEMMA QuestionsStayClose ==
    ASSUME NEW questions \in Seq(SoundQuestion), NEW passages \in Seq(Passage),
           NEW next \in QuestionsEditor(questions, passages)
    PROVE  next \in Seq(SoundQuestion) /\ Close(questions, next)
<1>1. next \in Seq(SoundQuestion)
  BY QuestionListsStaySound
<1>2. CASE next \in Tools(questions)
  BY <1>1, <1>2, ToolsAreClose
<1>3. CASE next \in Added(questions, {EmptyQuestion})
  <2>1. next = Append(questions, EmptyQuestion)
    BY <1>3 DEF Added
  <2>2. QED
    BY <1>1, <2>1, FreshItems, AddedIsClose
<1>4. CASE \E q \in DOMAIN questions : \E new \in QuestionFields(questions[q], passages) :
              next = [questions EXCEPT ![q] = new]
  <2>1. PICK q \in DOMAIN questions : \E new \in QuestionFields(questions[q], passages) :
          next = [questions EXCEPT ![q] = new]
    BY <1>4
  <2>2. questions[q] \in SoundQuestion
    BY ListIs
  <2>3. PICK new \in QuestionFields(questions[q], passages) : next = [questions EXCEPT ![q] = new]
    BY <2>1
  <2>4. new \in SoundQuestion
    BY <2>2, <2>3, QuestionsStaySound
  <2>5. QED
    BY <1>1, <2>3, <2>4, ChangedIsClose
<1>5. QED
  BY <1>1, <1>2, <1>3, <1>4 DEF QuestionsEditor, ListEdits

\* A list put together of two has the items of the one and then those of the other.
Joins(c, a, b, m, l) ==
    Len(c) = m + l /\ \A k \in 1..(m + l) : c[k] = IF k <= m THEN a[k] ELSE b[k - m]
LEMMA PutTogether ==
    ASSUME NEW S, NEW a \in Seq(S), NEW b \in Seq(S), NEW m \in Nat, NEW l \in Nat,
           Len(a) = m, Len(b) = l, NEW c, c = a \o b
    PROVE  Joins(c, a, b, m, l)
  BY ConcatProperties DEF Joins

\* The lists of questions of the sections.
QuestionLists(sections) == [s \in DOMAIN sections |-> sections[s].questions]
LEMMA QuestionListsAre ==
    ASSUME NEW sections \in Seq(SoundSection), NEW n \in Nat, n = Len(sections)
    PROVE  /\ QuestionLists(sections) \in Seq(Seq(SoundQuestion))
           /\ Len(QuestionLists(sections)) = n
           /\ \A s \in 1..n : QuestionLists(sections)[s] = sections[s].questions
<1>1. PICK lists : lists = QuestionLists(sections)
  OBVIOUS
<1>2. DOMAIN sections = 1..n /\ \A s \in 1..n : sections[s] \in SoundSection
  BY ListIs
<1>3. lists = [s \in 1..n |-> lists[s]] /\ \A s \in 1..n : lists[s] = sections[s].questions
  BY <1>1, <1>2 DEF QuestionLists
<1>4. \A s \in 1..n : lists[s] \in Seq(SoundQuestion)
  BY <1>2, <1>3 DEF SoundSection
<1>5. lists \in Seq(Seq(SoundQuestion))
  BY <1>3, <1>4, ListOf
<1>6. Len(lists) = n
  BY <1>3, <1>5, LenProperties
<1>7. QED
  BY <1>1, <1>3, <1>5, <1>6

\* The same lists of questions are the same.
LEMMA SameQuestionLists ==
    ASSUME NEW sections \in Seq(SoundSection), NEW n \in Nat, n = Len(sections),
           NEW lists \in Seq(Seq(SoundQuestion)), Len(lists) = n,
           \A s \in 1..n : lists[s] = sections[s].questions
    PROVE  QuestionLists(sections) = lists
<1>1. PICK others \in Seq(Seq(SoundQuestion)) : others = QuestionLists(sections)
  BY QuestionListsAre
<1>2. Len(others) = n /\ \A s \in 1..n : others[s] = lists[s]
  BY <1>1, QuestionListsAre
<1>3. others = lists
  BY <1>2, SeqEqual
<1>4. QED
  BY <1>1, <1>3

\* The lists of sections of which one is changed, are the lists with one changed;
LEMMA ChangedQuestionLists ==
    ASSUME NEW sections \in Seq(SoundSection), NEW n \in Nat, n = Len(sections), NEW i \in 1..n,
           NEW new \in SoundSection
    PROVE  QuestionLists([sections EXCEPT ![i] = new]) =
               [QuestionLists(sections) EXCEPT ![i] = new.questions]
<1>1. PICK next \in Seq(SoundSection) : next = [sections EXCEPT ![i] = new]
  BY ExceptSeq
<1>2. Len(next) = n /\ \A s \in 1..n : next[s] = IF s = i THEN new ELSE sections[s]
  BY <1>1, ExceptSeq
<1>3. PICK lists \in Seq(Seq(SoundQuestion)) : lists = QuestionLists(sections)
  BY QuestionListsAre
<1>4. Len(lists) = n /\ \A s \in 1..n : lists[s] = sections[s].questions
  BY <1>3, QuestionListsAre
<1>5. new.questions \in Seq(SoundQuestion)
  BY DEF SoundSection
<1>6. PICK others \in Seq(Seq(SoundQuestion)) : others = [lists EXCEPT ![i] = new.questions]
  BY <1>4, <1>5, ExceptSeq
<1>7. /\ Len(others) = n
      /\ \A s \in 1..n : others[s] = IF s = i THEN new.questions ELSE lists[s]
  BY <1>4, <1>5, <1>6, ExceptSeq
<1>8. \A s \in 1..n : others[s] = next[s].questions
  BY <1>2, <1>4, <1>7
<1>9. QuestionLists(next) = others
  BY <1>2, <1>7, <1>8, SameQuestionLists
<1>10. QED
  BY <1>1, <1>3, <1>6, <1>9

\* of sections of which one is removed, the lists with one removed.
LEMMA RemovedQuestionLists ==
    ASSUME NEW sections \in Seq(SoundSection), NEW n \in Nat, n = Len(sections), NEW i \in 1..n
    PROVE  QuestionLists(RemoveAt(sections, i)) = RemoveAt(QuestionLists(sections), i)
<1>1. PICK head \in Seq(SoundSection), tail \in Seq(SoundSection) :
        head = SubSeq(sections, 1, i - 1) /\ tail = SubSeq(sections, i + 1, n)
  BY Around
<1>2. /\ Len(head) = i - 1 /\ \A k \in 1..(i - 1) : head[k] = sections[k]
      /\ Len(tail) = n - i /\ \A k \in 1..(n - i) : tail[k] = sections[i + k]
  BY <1>1, Around
<1>3. PICK lists \in Seq(Seq(SoundQuestion)) : lists = QuestionLists(sections)
  BY QuestionListsAre
<1>4. Len(lists) = n /\ \A s \in 1..n : lists[s] = sections[s].questions
  BY <1>3, QuestionListsAre
<1>5. PICK first \in Seq(Seq(SoundQuestion)), rest \in Seq(Seq(SoundQuestion)) :
        first = SubSeq(lists, 1, i - 1) /\ rest = SubSeq(lists, i + 1, n)
  BY <1>4, Around
<1>6. /\ Len(first) = i - 1 /\ \A k \in 1..(i - 1) : first[k] = lists[k]
      /\ Len(rest) = n - i /\ \A k \in 1..(n - i) : rest[k] = lists[i + k]
  BY <1>4, <1>5, Around
<1>7. PICK next \in Seq(SoundSection) : next = head \o tail
  BY ConcatProperties
<1>a. PICK m \in Nat : m = i - 1
  OBVIOUS
<1>b. PICK l \in Nat : l = n - i
  <2>1. n - i \in Nat
    OBVIOUS
  <2>2. QED
    BY <2>1, Zenon
<1>8. m = i - 1 /\ l = n - i /\ Len(head) = m /\ Len(tail) = l /\ Len(first) = m /\ Len(rest) = l
  BY <1>2, <1>6, <1>a, <1>b
<1>9. Len(next) = m + l /\ \A k \in 1..(m + l) : next[k] = IF k <= m THEN head[k] ELSE tail[k - m]
  <2>1. Joins(next, head, tail, m, l)
    BY <1>7, <1>8, PutTogether
  <2>2. QED
    BY <2>1 DEF Joins
<1>10. PICK others \in Seq(Seq(SoundQuestion)) : others = first \o rest
  BY ConcatProperties
<1>11. /\ Len(others) = m + l
       /\ \A k \in 1..(m + l) : others[k] = IF k <= m THEN first[k] ELSE rest[k - m]
  <2>1. Joins(others, first, rest, m, l)
    BY <1>8, <1>10, PutTogether
  <2>2. QED
    BY <2>1 DEF Joins
<1>12. ASSUME NEW k \in 1..(m + l) PROVE others[k] = next[k].questions
  <2>1. CASE k <= m
    <3>1. k \in 1..(i - 1) /\ k \in 1..n
      BY <1>8, <2>1
    <3>2. QED
      BY <1>2, <1>4, <1>6, <1>9, <1>11, <2>1, <3>1
  <2>2. CASE ~(k <= m)
    <3>1. PICK j \in 1..(n - i) : j = k - m
      BY <1>8, <2>2
    <3>2. i + j \in 1..n
      OBVIOUS
    <3>3. others[k] = rest[j] /\ next[k] = tail[j]
      BY <1>9, <1>11, <2>2, <3>1
    <3>4. QED
      BY <1>2, <1>4, <1>6, <3>2, <3>3
  <2>3. QED
    BY <2>1, <2>2
<1>13. m + l \in Nat
  OBVIOUS
<1>14. QuestionLists(next) = others
  BY <1>9, <1>11, <1>12, <1>13, SameQuestionLists
<1>15. RemoveAt(sections, i) = next /\ RemoveAt(lists, i) = others
  BY <1>1, <1>4, <1>5, <1>7, <1>10 DEF RemoveAt
<1>16. QED
  BY <1>3, <1>14, <1>15

\* A section moved leaves the questions of them all what they were, in another order.
LEMMA MovedSections ==
    ASSUME NEW sections \in Seq(SoundSection), NEW i \in DOMAIN sections, NEW delta \in {-1, 1},
           NEW next, next = Moved(sections, i, delta)
    PROVE  /\ Len(FlattenSeq(QuestionLists(next))) = Len(FlattenSeq(QuestionLists(sections)))
           /\ Range(FlattenSeq(QuestionLists(next))) = Range(FlattenSeq(QuestionLists(sections)))
<1>1. CASE i + delta \in DOMAIN sections
  <2>1. PICK n \in Nat : n = Len(sections) /\ DOMAIN sections = 1..n /\ i \in 1..n
    BY ListIs
  <2>2. PICK j \in 1..n : j = i + delta /\ j # i
    BY <1>1, <2>1
  <2>3. PICK a \in SoundSection, b \in SoundSection : a = sections[i] /\ b = sections[j]
    BY <2>1, ListIs
  <2>4. PICK once \in Seq(SoundSection) : once = [sections EXCEPT ![i] = b]
    BY <2>1, ExceptSeq
  <2>5. Len(once) = n /\ once[j] = b
    BY <2>1, <2>2, <2>3, <2>4, ExceptSeq
  <2>6. next = [once EXCEPT ![j] = a]
    BY <1>1, <2>1, <2>2, <2>3, <2>4 DEF Moved
  <2>7. PICK lists \in Seq(Seq(SoundQuestion)), more \in Seq(Seq(SoundQuestion)) :
          lists = QuestionLists(sections) /\ more = QuestionLists(once)
    BY <2>1, <2>5, QuestionListsAre
  <2>8. /\ Len(lists) = n /\ lists[i] = a.questions /\ Len(more) = n /\ more[j] = b.questions
        /\ \A s \in 1..n : lists[s] = sections[s].questions
    BY <2>1, <2>3, <2>5, <2>7, QuestionListsAre
  <2>9. more = [lists EXCEPT ![i] = b.questions] /\ QuestionLists(next) = [more EXCEPT ![j] = a.questions]
    <3>1. QuestionLists([sections EXCEPT ![i] = b]) = [QuestionLists(sections) EXCEPT ![i] = b.questions]
      BY <2>1, ChangedQuestionLists
    <3>2. QuestionLists([once EXCEPT ![j] = a]) = [QuestionLists(once) EXCEPT ![j] = a.questions]
      BY <2>5, ChangedQuestionLists
    <3>3. QED
      BY <2>4, <2>6, <2>7, <3>1, <3>2
  <2>10. a.questions \in Seq(SoundQuestion) /\ b.questions \in Seq(SoundQuestion)
    BY DEF SoundSection
  <2>11. PICK p \in Seq(SoundQuestion), q \in Seq(SoundQuestion) :
           /\ FlattenSeq(lists) = p \o (a.questions \o q)
           /\ FlattenSeq(more) = p \o (b.questions \o q)
    <3>1. i \in 1..Len(lists)
      BY <2>1, <2>8
    <3>2. PICK p \in Seq(SoundQuestion), q \in Seq(SoundQuestion) : Spliced(SoundQuestion, lists, i, p, q)
      BY <3>1, FlattenChanged
    <3>3. /\ FlattenSeq(lists) = p \o (a.questions \o q)
          /\ FlattenSeq(more) = p \o (b.questions \o q)
      BY <2>8, <2>9, <2>10, <3>2 DEF Spliced
    <3>4. QED
      BY <3>3
  <2>12. PICK r \in Seq(SoundQuestion), t \in Seq(SoundQuestion) :
           /\ FlattenSeq(more) = r \o (b.questions \o t)
           /\ FlattenSeq(QuestionLists(next)) = r \o (a.questions \o t)
    <3>1. j \in 1..Len(more)
      BY <2>8
    <3>2. PICK r \in Seq(SoundQuestion), t \in Seq(SoundQuestion) : Spliced(SoundQuestion, more, j, r, t)
      BY <3>1, FlattenChanged
    <3>3. /\ FlattenSeq(more) = r \o (b.questions \o t)
          /\ FlattenSeq(QuestionLists(next)) = r \o (a.questions \o t)
      BY <2>8, <2>9, <2>10, <3>2 DEF Spliced
    <3>4. QED
      BY <3>3
  <2>13. Len(FlattenSeq(QuestionLists(next))) = Len(FlattenSeq(lists))
    <3>1. PICK x \in Seq(SoundQuestion), y \in Seq(SoundQuestion) : x = a.questions /\ y = b.questions
      BY <2>10
    <3>2. \A u, v, w \in Seq(SoundQuestion) : /\ Len(u \o (v \o w)) = Len(u) + (Len(v) + Len(w))
                                              /\ Len(u) \in Nat
      BY ConcatProperties, ListIs
    <3>3. /\ Len(p \o (x \o q)) = Len(p) + (Len(x) + Len(q))
          /\ Len(p \o (y \o q)) = Len(p) + (Len(y) + Len(q))
          /\ Len(r \o (y \o t)) = Len(r) + (Len(y) + Len(t))
          /\ Len(r \o (x \o t)) = Len(r) + (Len(x) + Len(t))
          /\ Len(p) \in Nat /\ Len(q) \in Nat /\ Len(r) \in Nat /\ Len(t) \in Nat
          /\ Len(x) \in Nat /\ Len(y) \in Nat
      BY <3>2
    <3>4. p \o (y \o q) = r \o (y \o t)
      BY <2>11, <2>12, <3>1
    <3>5. Len(r \o (x \o t)) = Len(p \o (x \o q))
      BY <3>3, <3>4
    <3>6. QED
      BY <2>11, <2>12, <3>1, <3>5
  <2>14. PICK others \in Seq(Seq(SoundQuestion)) : others = [more EXCEPT ![j] = a.questions]
    BY <2>8, <2>10, ExceptSeq
  <2>15. /\ Len(others) = n
         /\ \A s \in 1..n : others[s] = IF s = j THEN lists[i] ELSE IF s = i THEN lists[j] ELSE lists[s]
    <3>1. Len(others) = n /\ \A s \in 1..n : others[s] = IF s = j THEN a.questions ELSE more[s]
      BY <2>8, <2>10, <2>14, ExceptSeq
    <3>2. \A s \in 1..n : more[s] = IF s = i THEN b.questions ELSE lists[s]
      BY <2>8, <2>9, <2>10, ExceptSeq
    <3>3. lists[j] = b.questions
      BY <2>3, <2>8
    <3>4. QED
      BY <2>8, <3>1, <3>2, <3>3
  <2>16. DOMAIN lists = 1..n /\ DOMAIN others = 1..n
    BY <2>8, <2>15, ListIs
  <2>17. ASSUME NEW x PROVE x \in Range(FlattenSeq(others)) <=> x \in Range(FlattenSeq(lists))
    <3>1. /\ x \in Range(FlattenSeq(others)) <=> \E s \in 1..n : x \in Range(others[s])
          /\ x \in Range(FlattenSeq(lists)) <=> \E s \in 1..n : x \in Range(lists[s])
      BY <2>16, FlattenIs
    <3>2. (\E s \in 1..n : x \in Range(others[s])) <=> \E s \in 1..n : x \in Range(lists[s])
      BY <2>1, <2>2, <2>15
    <3>3. QED
      BY <3>1, <3>2
  <2>18. Range(FlattenSeq(others)) = Range(FlattenSeq(lists))
    BY <2>17
  <2>19. QED
    BY <2>7, <2>9, <2>13, <2>14, <2>18
<1>2. CASE i + delta \notin DOMAIN sections
  BY <1>2 DEF Moved
<1>3. QED
  BY <1>1, <1>2

\* Lists that are close have at most one item each that the other has not.
LEMMA CloseLoseOne ==
    ASSUME NEW S, NEW from \in Seq(S), NEW to \in Seq(S), Close(from, to)
    PROVE  Cardinality(Gone(from, to)) <= 1 /\ Cardinality(Gone(to, from)) <= 1
<1>1. ASSUME NEW a \in Seq(S), NEW b \in Seq(S), Within(a, b)
      PROVE  Cardinality(Gone(a, b)) <= 1
  <2>1. PICK i \in Int : \A k \in DOMAIN a : k # i => a[k] \in Range(b)
    BY <1>1 DEF Within
  <2>2. Gone(a, b) \in SUBSET {i}
    BY <2>1 DEF Gone, Range
  <2>3. IsFiniteSet({i}) /\ Cardinality({i}) = 1
    BY FS_Singleton
  <2>4. Cardinality(Gone(a, b)) <= Cardinality({i})
    BY <2>2, <2>3, FS_Subset
  <2>5. QED
    BY <2>3, <2>4
<1>2. QED
  BY <1>1 DEF Close

\* A list is close to itself.
LEMMA SelfIsClose == ASSUME NEW S, NEW list \in Seq(S) PROVE Close(list, list)
  BY SameIsClose

\* The questions of a paper are its own and then those of its lists of them.
LEMMA AllQuestionsInOrder ==
    ASSUME NEW paper
    PROVE  AllQuestions(paper) = paper.questions \o FlattenSeq(QuestionLists(paper.sections))
  BY DEF AllQuestions, QuestionLists

\* An edit of the sections leaves the questions of them close to what they were, but for the
\* removal of one.
LEMMA SectionsStayClose ==
    ASSUME NEW sections \in Seq(SoundSection), NEW passages \in Seq(Passage),
           NEW next \in SectionsEditor(sections, passages)
    PROVE  \/ Len(next) = Len(sections) - 1
           \/ Close(FlattenSeq(QuestionLists(sections)), FlattenSeq(QuestionLists(next)))
<1>1. PICK n \in Nat : n = Len(sections) /\ DOMAIN sections = 1..n
  BY ListIs
<1>2. PICK lists \in Seq(Seq(SoundQuestion)) : lists = QuestionLists(sections)
  BY <1>1, QuestionListsAre
<1>3. Len(lists) = n /\ \A s \in 1..n : lists[s] = sections[s].questions
  BY <1>1, <1>2, QuestionListsAre
<1>4. FlattenSeq(lists) \in Seq(SoundQuestion)
  BY FlattenIs
<1>5. next \in Seq(SoundSection)
  BY SectionListsStaySound
<1>6. FlattenSeq(QuestionLists(next)) \in Seq(SoundQuestion)
  <2>1. PICK m \in Nat : m = Len(next)
    BY <1>5, ListIs
  <2>2. QuestionLists(next) \in Seq(Seq(SoundQuestion))
    BY <1>5, <2>1, QuestionListsAre
  <2>3. QED
    BY <2>2, FlattenIs
<1>7. CASE \E i \in DOMAIN sections, delta \in {-1, 1} : next = Moved(sections, i, delta)
  <2>1. /\ Len(FlattenSeq(QuestionLists(next))) = Len(FlattenSeq(QuestionLists(sections)))
        /\ Range(FlattenSeq(QuestionLists(next))) = Range(FlattenSeq(QuestionLists(sections)))
    BY <1>7, MovedSections
  <2>2. QED
    BY <1>2, <1>4, <1>6, <2>1, SameIsClose
<1>8. CASE \E i \in DOMAIN sections : next = RemoveAt(sections, i)
  <2>1. PICK i \in 1..n : next = RemoveAt(sections, i)
    BY <1>1, <1>8
  <2>2. PICK head \in Seq(SoundSection), tail \in Seq(SoundSection) :
          head = SubSeq(sections, 1, i - 1) /\ tail = SubSeq(sections, i + 1, n)
    BY <1>1, Around
  <2>3. Len(head) = i - 1 /\ Len(tail) = n - i
    BY <1>1, <2>2, Around
  <2>4. Len(head \o tail) = Len(head) + Len(tail)
    BY ConcatProperties
  <2>5. Len(head \o tail) = n - 1
    BY <2>3, <2>4
  <2>6. next = head \o tail
    BY <1>1, <2>1, <2>2 DEF RemoveAt
  <2>7. QED
    BY <1>1, <2>5, <2>6
<1>9. CASE next \in Added(sections, {EmptySection})
  <2>1. EmptySection \in SoundSection /\ EmptySection.questions = <<>>
    BY FreshItems DEF EmptySection
  <2>2. next = Append(sections, EmptySection)
    BY <1>9 DEF Added
  <2>3. /\ Len(next) = n + 1 /\ next[n + 1] = EmptySection
        /\ \A s \in 1..n : next[s] = sections[s]
    BY <1>1, <2>1, <2>2, AppendProperties
  <2>4. PICK none \in Seq(SoundQuestion) : none = <<>>
    BY EmptySeq
  <2>5. PICK more \in Seq(Seq(SoundQuestion)) : more = Append(lists, none)
    BY AppendProperties
  <2>6. Len(more) = n + 1 /\ more[n + 1] = none /\ \A s \in 1..n : more[s] = lists[s]
    BY <1>3, <2>5, AppendProperties
  <2>7. ASSUME NEW s \in 1..(n + 1) PROVE more[s] = next[s].questions
    <3>1. CASE s = n + 1
      BY <2>1, <2>3, <2>4, <2>6, <3>1
    <3>2. CASE s # n + 1
      <4>1. s \in 1..n
        BY <3>2
      <4>2. QED
        BY <1>3, <2>3, <2>6, <4>1
    <3>3. QED
      BY <3>1, <3>2
  <2>8. n + 1 \in Nat
    OBVIOUS
  <2>9. QuestionLists(next) = more
    BY <1>5, <2>3, <2>6, <2>7, <2>8, SameQuestionLists
  <2>10. FlattenSeq(more) = FlattenSeq(lists) \o none
    BY <2>5, FlattenAppend
  <2>11. FlattenSeq(lists) \o <<>> = FlattenSeq(lists)
    BY <1>4, ConcatEmptySeq
  <2>12. FlattenSeq(QuestionLists(next)) = FlattenSeq(lists)
    BY <2>4, <2>9, <2>10, <2>11
  <2>13. QED
    BY <1>2, <1>4, <2>12, SelfIsClose
<1>10. CASE \E s \in DOMAIN sections :
               \E new \in {[sections[s] EXCEPT !.choose = k] : k \in Number}
                         \cup {[sections[s] EXCEPT !.questions = questions] :
                                  questions \in QuestionsEditor(sections[s].questions, passages)} :
                  next = [sections EXCEPT ![s] = new]
  <2>1. PICK s \in 1..n :
               \E new \in {[sections[s] EXCEPT !.choose = k] : k \in Number}
                         \cup {[sections[s] EXCEPT !.questions = questions] :
                                  questions \in QuestionsEditor(sections[s].questions, passages)} :
                  next = [sections EXCEPT ![s] = new]
    BY <1>1, <1>10
  <2>2. PICK section \in SoundSection : section = sections[s]
    BY <1>1, ListIs
  <2>3. section.questions \in Seq(SoundQuestion) /\ lists[s] = section.questions
    BY <1>3, <2>2 DEF SoundSection
  <2>4. PICK new \in SoundSection :
          /\ next = [sections EXCEPT ![s] = new]
          /\ new.questions \in Seq(SoundQuestion) /\ Close(section.questions, new.questions)
    <3>1. PICK new \in {[section EXCEPT !.choose = k] : k \in Number}
                       \cup {[section EXCEPT !.questions = questions] :
                                questions \in QuestionsEditor(section.questions, passages)} :
            next = [sections EXCEPT ![s] = new]
      BY <2>1, <2>2
    <3>2. CASE \E k \in Number : new = [section EXCEPT !.choose = k]
      <4>1. new \in SoundSection /\ new.questions = section.questions
        BY <3>2 DEF SoundSection
      <4>2. Close(section.questions, section.questions)
        BY <2>3, SelfIsClose
      <4>3. QED
        BY <2>3, <3>1, <4>1, <4>2
    <3>3. CASE \E questions \in QuestionsEditor(section.questions, passages) :
                  new = [section EXCEPT !.questions = questions]
      <4>1. PICK questions \in QuestionsEditor(section.questions, passages) :
              new = [section EXCEPT !.questions = questions]
        BY <3>3
      <4>2. questions \in Seq(SoundQuestion) /\ Close(section.questions, questions)
        BY <2>3, QuestionsStayClose
      <4>3. new \in SoundSection /\ new.questions = questions
        BY <4>1, <4>2 DEF SoundSection
      <4>4. QED
        BY <3>1, <4>2, <4>3
    <3>4. QED
      BY <3>1, <3>2, <3>3
  <2>5. QuestionLists([sections EXCEPT ![s] = new]) = [QuestionLists(sections) EXCEPT ![s] = new.questions]
    BY <1>1, ChangedQuestionLists
  <2>6. QuestionLists(next) = [lists EXCEPT ![s] = new.questions]
    BY <1>2, <2>4, <2>5
  <2>7. s \in 1..Len(lists)
    BY <1>3
  <2>8. PICK p \in Seq(SoundQuestion), q \in Seq(SoundQuestion) : Spliced(SoundQuestion, lists, s, p, q)
    BY <2>7, FlattenChanged
  <2>9. /\ FlattenSeq(lists) = p \o (section.questions \o q)
        /\ FlattenSeq(QuestionLists(next)) = p \o (new.questions \o q)
    BY <2>3, <2>4, <2>6, <2>8 DEF Spliced
  <2>10. PICK x \in Seq(SoundQuestion), y \in Seq(SoundQuestion) :
           x = section.questions /\ y = new.questions /\ Close(x, y)
    BY <2>3, <2>4
  <2>11. Close(x \o q, y \o q)
    BY <2>10, CloseAround
  <2>12. x \o q \in Seq(SoundQuestion) /\ y \o q \in Seq(SoundQuestion)
    BY ConcatProperties
  <2>13. Close(p \o (x \o q), p \o (y \o q))
    BY <2>11, <2>12, CloseAround
  <2>14. QED
    BY <1>2, <2>9, <2>10, <2>13
<1>11. CASE next \in Tools(sections)
  BY <1>7, <1>8, <1>11 DEF Tools
<1>12. QED
  BY <1>9, <1>10, <1>11 DEF SectionsEditor, ListEdits

\* So no edit loses or repeats a question, but the removal of a section.
LEMMA QuestionsStayKept ==
    ASSUME draft \in SoundPaper, EditDraft
    PROVE  KeepsQuestions
<1>1. PICK d \in SoundPaper : d = draft
  OBVIOUS
<1>2. /\ d.questions \in Seq(SoundQuestion) /\ d.sections \in Seq(SoundSection)
      /\ d.passages \in Seq(Passage)
  BY DEF SoundPaper
<1>3. PICK e \in SoundPaper : e = draft'
  BY EditsKeepSound
<1>4. e.questions \in Seq(SoundQuestion) /\ e.sections \in Seq(SoundSection)
  BY DEF SoundPaper
<1>5. PICK p \in Seq(SoundQuestion), q \in Seq(SoundQuestion) : p = d.questions /\ q = e.questions
  BY <1>2, <1>4
<1>6. PICK f \in Seq(SoundQuestion) : f = FlattenSeq(QuestionLists(d.sections))
  <2>1. Len(d.sections) \in Nat
    BY <1>2, ListIs
  <2>2. QuestionLists(d.sections) \in Seq(Seq(SoundQuestion))
    BY <1>2, <2>1, QuestionListsAre
  <2>3. QED
    BY <2>2, FlattenIs
<1>7. PICK g \in Seq(SoundQuestion) : g = FlattenSeq(QuestionLists(e.sections))
  <2>1. Len(e.sections) \in Nat
    BY <1>4, ListIs
  <2>2. QuestionLists(e.sections) \in Seq(Seq(SoundQuestion))
    BY <1>4, <2>1, QuestionListsAre
  <2>3. QED
    BY <2>2, FlattenIs
<1>8. /\ AllQuestions(d) = p \o f /\ AllQuestions(e) = q \o g
      /\ p \o f \in Seq(SoundQuestion) /\ q \o g \in Seq(SoundQuestion)
  BY <1>5, <1>6, <1>7, AllQuestionsInOrder, ConcatProperties
<1>9. SUFFICES \/ Close(p \o f, q \o g)
               \/ Len(e.sections) = Len(d.sections) - 1 /\ e.questions = d.questions
  <2>1. CASE Close(p \o f, q \o g)
    <3>1. Cardinality(Gone(p \o f, q \o g)) <= 1 /\ Cardinality(Gone(q \o g, p \o f)) <= 1
      BY <1>8, <2>1, CloseLoseOne
    <3>2. Len(q \o g) - Len(p \o f) \in -1..1
      BY <2>1 DEF Close
    <3>3. QED
      BY <1>1, <1>3, <1>8, <3>1, <3>2 DEF KeepsQuestions
  <2>2. CASE Len(e.sections) = Len(d.sections) - 1 /\ e.questions = d.questions
    BY <1>1, <1>3, <2>2 DEF KeepsQuestions
  <2>3. QED
    BY <1>9, <2>1, <2>2
<1>10. CASE EditQuestions
  <2>1. PICK next \in QuestionsEditor(d.questions, d.passages) : e = [d EXCEPT !.questions = next]
    BY <1>1, <1>3, <1>10 DEF EditQuestions
  <2>2. next \in Seq(SoundQuestion) /\ Close(d.questions, next)
    BY <1>2, <2>1, QuestionsStayClose
  <2>3. e.questions = next /\ e.sections = d.sections
    BY <2>1 DEF SoundPaper
  <2>4. Close(p, q) /\ f = g
    BY <1>5, <1>6, <1>7, <2>2, <2>3
  <2>5. QED
    BY <2>4, CloseAround
<1>11. CASE EditSections
  <2>1. PICK next \in SectionsEditor(d.sections, d.passages) : e = [d EXCEPT !.sections = next]
    BY <1>1, <1>3, <1>11 DEF EditSections
  <2>2. e.questions = d.questions /\ e.sections = next
    BY <2>1 DEF SoundPaper
  <2>3. \/ Len(next) = Len(d.sections) - 1
        \/ Close(FlattenSeq(QuestionLists(d.sections)), FlattenSeq(QuestionLists(next)))
    BY <1>2, <2>1, SectionsStayClose
  <2>4. p = q /\ (Len(e.sections) = Len(d.sections) - 1 \/ Close(f, g))
    BY <1>5, <1>6, <1>7, <2>2, <2>3
  <2>5. QED
    BY <2>2, <2>4, CloseAround
<1>12. CASE Group
  <2>1. PICK section : section = [EmptySection EXCEPT !.questions = d.questions]
    OBVIOUS
  <2>2. e = [d EXCEPT !.questions = <<>>, !.sections = <<section>>] /\ d.sections = <<>>
    BY <1>1, <1>3, <1>12, <2>1 DEF Group, Grouped
  <2>3. section.questions = p
    BY <1>5, <2>1 DEF EmptySection
  <2>4. e.questions = <<>> /\ e.sections = <<section>>
    BY <2>2 DEF SoundPaper
  <2>5. g = p
    <3>1. <<p>> \in Seq(Seq(SoundQuestion)) /\ FlattenSeq(<<p>>) = p
      BY FlattenOne
    <3>2. PICK one \in Seq(Seq(SoundQuestion)) : one = <<p>> /\ FlattenSeq(one) = p
      BY <3>1
    <3>3. Len(one) = 1 /\ one[1] = p /\ Len(e.sections) = 1 /\ e.sections[1] = section
      BY <2>4, <3>2
    <3>4. \A s \in 1..1 : one[s] = e.sections[s].questions
      BY <2>3, <3>3
    <3>5. QuestionLists(e.sections) = one
      BY <1>4, <3>3, <3>4, SameQuestionLists
    <3>6. QED
      BY <1>7, <3>2, <3>5
  <2>6. f = <<>>
    <3>1. d.sections \in Seq(SoundSection) /\ Len(d.sections) = 0
      BY <1>2, <2>2, EmptySeq
    <3>2. PICK none \in Seq(Seq(SoundQuestion)) : none = <<>> /\ Len(none) = 0
      BY EmptySeq
    <3>3. 0 \in Nat /\ \A s \in 1..0 : none[s] = d.sections[s].questions
      OBVIOUS
    <3>4. QuestionLists(d.sections) = none
      BY <3>1, <3>2, <3>3, SameQuestionLists
    <3>5. QED
      BY <1>6, <3>2, <3>4 DEF FlattenSeq
  <2>7. p \o <<>> = p /\ <<>> \o p = p
    BY ConcatEmptySeq
  <2>8. p \o f = q \o g
    BY <1>5, <2>4, <2>5, <2>6, <2>7
  <2>9. QED
    BY <1>8, <2>8, SelfIsClose
<1>13. CASE Ungroup
  <2>1. PICK s \in DOMAIN d.sections :
          e = [d EXCEPT !.questions = @ \o d.sections[s].questions, !.sections = RemoveAt(@, s)]
    BY <1>1, <1>3, <1>13 DEF Ungroup
  <2>2. PICK n \in Nat : n = Len(d.sections) /\ s \in 1..n
    <3>1. Len(d.sections) \in Nat /\ DOMAIN d.sections = 1..Len(d.sections)
      BY <1>2, ListIs
    <3>2. QED
      BY <2>1, <3>1
  <2>3. PICK x \in Seq(SoundQuestion) : x = d.sections[s].questions
    <3>1. d.sections[s] \in SoundSection
      BY <1>2, <2>1, ListIs
    <3>2. QED
      BY <3>1 DEF SoundSection
  <2>4. e.questions = d.questions \o x /\ e.sections = RemoveAt(d.sections, s)
    BY <2>1, <2>3 DEF SoundPaper
  <2>5. PICK lists \in Seq(Seq(SoundQuestion)) : lists = QuestionLists(d.sections)
    BY <1>2, <2>2, QuestionListsAre
  <2>6. Len(lists) = n /\ lists[s] = x
    BY <1>2, <2>2, <2>3, <2>5, QuestionListsAre
  <2>7. QuestionLists(e.sections) = RemoveAt(lists, s)
    BY <1>2, <2>2, <2>4, <2>5, RemovedQuestionLists
  <2>8. s \in 1..Len(lists)
    BY <2>2, <2>6
  <2>9. PICK a \in Seq(SoundQuestion), b \in Seq(SoundQuestion) : Spliced(SoundQuestion, lists, s, a, b)
    BY <2>8, FlattenChanged
  <2>10. f = a \o (x \o b) /\ g = a \o b /\ q = p \o x
    BY <1>5, <1>6, <1>7, <2>4, <2>5, <2>6, <2>7, <2>9 DEF Spliced
  <2>11. /\ x \o b \in Seq(SoundQuestion) /\ a \o b \in Seq(SoundQuestion)
         /\ Len(x \o b) = Len(x) + Len(b) /\ Len(f) = Len(a) + Len(x \o b) /\ Len(g) = Len(a) + Len(b)
         /\ Len(q) = Len(p) + Len(x) /\ Len(p \o f) = Len(p) + Len(f) /\ Len(q \o g) = Len(q) + Len(g)
         /\ Len(p) \in Nat /\ Len(x) \in Nat /\ Len(a) \in Nat /\ Len(b) \in Nat
    BY <2>10, ConcatProperties, ListIs
  <2>12. Len(p \o f) = Len(q \o g)
    BY <2>11
  <2>13. /\ Range(x \o b) = Range(x) \cup Range(b) /\ Range(f) = Range(a) \cup Range(x \o b)
         /\ Range(g) = Range(a) \cup Range(b) /\ Range(q) = Range(p) \cup Range(x)
         /\ Range(p \o f) = Range(p) \cup Range(f) /\ Range(q \o g) = Range(q) \cup Range(g)
    <3>1. Range(x \o b) = Range(x) \cup Range(b) /\ Range(a \o b) = Range(a) \cup Range(b)
      BY RangeConcatenation
    <3>2. Range(p \o x) = Range(p) \cup Range(x) /\ Range(a \o (x \o b)) = Range(a) \cup Range(x \o b)
      <4>1. PICK y \in Seq(SoundQuestion) : y = x \o b
        BY <2>11
      <4>2. Range(p \o x) = Range(p) \cup Range(x)
        BY RangeConcatenation
      <4>3. Range(a \o y) = Range(a) \cup Range(y)
        BY RangeConcatenation
      <4>4. QED
        BY <4>1, <4>2, <4>3
    <3>3. Range(p \o f) = Range(p) \cup Range(f) /\ Range(q \o g) = Range(q) \cup Range(g)
      BY RangeConcatenation
    <3>4. QED
      BY <2>10, <3>1, <3>2, <3>3
  <2>14. Range(p \o f) = Range(q \o g)
    BY <2>13
  <2>15. QED
    BY <1>8, <2>12, <2>14, SameIsClose
<1>14. CASE EditPassages \/ EditScheme \/ AddMissing \/ EditDetails
  <2>1. e.questions = d.questions /\ e.sections = d.sections
    <3>1. \/ \E passages : e = [d EXCEPT !.passages = passages]
          \/ \E scheme : e = [d EXCEPT !.scheme = scheme]
          \/ \E n : e = [d EXCEPT !.year = n]
          \/ \E titled : e = [d EXCEPT !.titled = titled]
      BY <1>1, <1>3, <1>14 DEF EditPassages, EditScheme, AddMissing, EditDetails
    <3>2. QED
      BY <3>1 DEF SoundPaper
  <2>2. p \o f = q \o g
    BY <1>5, <1>6, <1>7, <2>1
  <2>3. QED
    BY <1>8, <2>2, SelfIsClose
<1>15. QED
  BY <1>10, <1>11, <1>12, <1>13, <1>14 DEF EditDraft

-------------------------------------------------------------------------------
(***************************************************************************)
(* Theorems.                                                               *)
(***************************************************************************)

IInv == /\ draft \in SoundPaper /\ edits \in 0..MaxEdits
        /\ PreviewsTypeOK /\ ImagesInv /\ FiguresAreAwaited

\* It holds of a page just loaded,
LEMMA InitHolds == Init => IInv
<1>1. SUFFICES ASSUME Init PROVE IInv
  OBVIOUS
<1>2. draft \in SoundPaper
  BY <1>1, StoredAreSound DEF Init, DraftInit
<1>3. edits \in 0..MaxEdits
  <2>1. MaxEdits \in Nat
    BY EditorAssumption, Zenon
  <2>2. QED
    BY <1>1, <2>1 DEF Init
<1>4. PreviewsTypeOK
  BY <1>1 DEF Init, PreviewsInit, PreviewsTypeOK, Query
<1>5. ImagesInv /\ FiguresAreAwaited
  BY <1>1 DEF Init, PreviewsInit, ImagesInv, FiguresAreAwaited
<1>6. QED
  BY <1>2, <1>3, <1>4, <1>5 DEF IInv

\* and after every edit and every step of the preview.
LEMMA StepHolds == IInv /\ [Next]_vars => IInv'
<1>1. SUFFICES ASSUME IInv, [Next]_vars PROVE IInv'
  OBVIOUS
<1>2. CASE Edit
  <2>1. draft' \in SoundPaper
    BY <1>1, <1>2, EditsKeepSound DEF IInv, Edit
  <2>2. edits' \in 0..MaxEdits
    <3>1. MaxEdits \in Nat
      BY EditorAssumption, Zenon
    <3>2. QED
      BY <1>1, <1>2, <3>1 DEF IInv, Edit
  <2>3. UNCHANGED previewVars
    BY <1>2 DEF Edit
  <2>4. (PreviewsTypeOK /\ ImagesInv /\ FiguresAreAwaited)'
    BY <1>1, <2>3 DEF previewVars, IInv, PreviewsTypeOK, ImagesInv, FiguresAreAwaited
  <2>5. QED
    BY <2>1, <2>2, <2>4 DEF IInv
<1>3. CASE Preview
  <2>1. UNCHANGED <<draft, edits>> /\ PreviewsNext
    BY <1>3 DEF Preview
  <2>2. QED
    BY <1>1, <2>1, PreviewTypes, FiguresStayAwaited DEF IInv
<1>4. CASE UNCHANGED vars
  BY <1>1, <1>4 DEF vars, previewVars, IInv, PreviewsTypeOK, ImagesInv, FiguresAreAwaited
<1>5. QED
  BY <1>1, <1>2, <1>3, <1>4 DEF Next

\* So it always holds.
LEMMA Invariance == Spec => []IInv
  BY InitHolds, StepHolds, PTL DEF Spec

\* The draft is a paper, and the preview's queries queries, whatever is edited: no control
\* of draft.ts or its components makes of a paper what is not one.
THEOREM TypeCorrect == Spec => []TypeOK
<1>1. IInv => TypeOK
  BY SoundIsPaper DEF IInv, TypeOK, DraftTypeOK
<1>2. QED
  BY <1>1, Invariance, PTL

\* A request for a render goes without a figure only where its image was refused, never
\* because it had not been fetched yet (useRenderAssets).
THEOREM FiguresAwaited == Spec => []FiguresAreAwaited
<1>1. IInv => FiguresAreAwaited
  BY DEF IInv
<1>2. QED
  BY <1>1, Invariance, PTL

\* A table whose rows, columns and header are added, moved and dropped one at a time has as
\* many cells in every row as it has columns (TableRows of BlocksEditor.tsx).
THEOREM TablesRectangular == Spec => []TablesStayRectangular
<1>1. IInv => TablesStayRectangular
  <2>1. SUFFICES ASSUME IInv, NEW block \in Blocks(draft), block.type = "table",
                        NEW r \in DOMAIN block.rows
                 PROVE  block.rows[r] = Columns(block)
    BY DEF TablesStayRectangular
  <2>2. \A question \in Range(AllQuestions(draft)) : question \in SoundQuestion
    <3>1. /\ draft.questions \in Seq(SoundQuestion) /\ draft.sections \in Seq(SoundSection)
          /\ \A section \in SoundSection : section.questions \in Seq(SoundQuestion)
      BY <2>1 DEF IInv, SoundPaper, SoundSection
    <3>2. AllQuestions(draft) \in Seq(SoundQuestion)
      BY <3>1, AllQuestionsAre
    <3>3. QED
      BY <3>2, ListIs
  <2>3. PICK question \in SoundQuestion :
          \/ block \in Range(question.blocks)
          \/ \E part \in Range(question.parts) :
                \/ block \in Range(part.blocks)
                \/ \E sub \in Range(part.parts) : block \in Range(sub.blocks)
    BY <2>2, BlocksAre
  <2>4. /\ question.blocks \in Seq(SoundBlock)
        /\ \A part \in Range(question.parts) : part \in SoundPart
    BY ListIs DEF SoundQuestion
  <2>5. \A part \in SoundPart : /\ part.blocks \in Seq(SoundBlock)
                                /\ \A sub \in Range(part.parts) : sub \in SoundSubPart
    BY ListIs DEF SoundPart
  <2>6. \A sub \in SoundSubPart : sub.blocks \in Seq(SoundBlock)
    BY DEF SoundSubPart
  <2>7. block \in SoundBlock
    BY <2>3, <2>4, <2>5, <2>6, ListIs
  <2>8. PICK c \in Nat \ {0} : block.rows \in Seq({c}) /\ block.header \in {NoHeader, c}
    BY <2>1, <2>7 DEF SoundBlock, Shaped
  <2>9. /\ Len(block.rows) \in Nat /\ DOMAIN block.rows = 1..Len(block.rows)
        /\ \A q \in DOMAIN block.rows : block.rows[q] = c
    BY <2>8, ListIs
  <2>10. 1 \in DOMAIN block.rows /\ block.rows # <<>>
    BY <2>1, <2>9
  <2>11. QED
    BY <2>1, <2>8, <2>9, <2>10 DEF Columns, NoHeader
<1>2. QED
  BY <1>1, Invariance, PTL

\* What buildPatch lets be saved, document.rs sets: of a draft that builds it refuses a zero
\* where it wants at least one, or a passage pointed at from below a question, and nothing
\* else.
THEOREM BuiltIsSet == Spec => []WhatBuildsIsSet
<1>1. IInv => WhatBuildsIsSet
  BY SoundIsPaper, BuiltPapersAreSet DEF IInv, WhatBuildsIsSet, Gaps
<1>2. QED
  BY <1>1, Invariance, PTL

\* A card's question points at no passage, at whatever depth, and from a mark scheme's card
\* leaves no space to answer in (fragmentQuestion, withoutAnswerSpace).
THEOREM CardsStandAlone == Spec => []PreviewsStandAlone
<1>1. IInv => PreviewsStandAlone
  <2>1. SUFFICES ASSUME IInv PROVE PreviewsStandAlone
    OBVIOUS
  <2>2. PICK d \in Paper : d = draft
    BY <2>1, SoundIsPaper DEF IInv
  <2>3. PICK cards : cards = {CardDocument(question, d.passages) : question \in Range(AllQuestions(d))}
    OBVIOUS
  <2>4. PICK schemes : schemes = {SchemeDocument(d, entry) : entry \in Range(d.scheme)}
    OBVIOUS
  <2>5. \A question \in cards : question \in ApartQuestion
    <3>1. /\ d.questions \in Seq(Question) /\ d.sections \in Seq(Section)
          /\ \A section \in Section : section.questions \in Seq(Question)
      BY DEF Paper, Section
    <3>2. AllQuestions(d) \in Seq(Question)
      BY <3>1, AllQuestionsAre
    <3>3. \A question \in Range(AllQuestions(d)) : question \in Question
      BY <3>2, ListIs
    <3>4. QED
      BY <2>3, <3>3, CardsAreApart
  <2>6. \A question \in schemes : question \in BareQuestion
    <3>1. \A entry \in Range(d.scheme) : entry \in SchemeQuestion
      BY ListIs DEF Paper
    <3>2. QED
      BY <2>4, <3>1, SchemeCardsAreBare
  <2>7. ASSUME NEW question \in cards \cup schemes,
               NEW block \in Blocks([d EXCEPT !.questions = <<question>>, !.sections = <<>>])
        PROVE  block.type # "passage_ref"
    <3>1. question \in ApartQuestion
      BY <2>5, <2>6 DEF BareQuestion
    <3>2. PICK paper : paper = [d EXCEPT !.questions = <<question>>, !.sections = <<>>]
      OBVIOUS
    <3>3. paper.questions = <<question>> /\ paper.sections = <<>>
      BY <3>2 DEF Paper
    <3>4. QED
      BY <2>7, <3>1, <3>2, <3>3, ApartPointsNowhere
  <2>8. ASSUME NEW question \in schemes, NEW depth \in 1..3,
               NEW node \in Nodes([d EXCEPT !.questions = <<question>>, !.sections = <<>>])[depth]
        PROVE  node.lines = Unset /\ node.answer = NotSet
    <3>1. question \in BareQuestion
      BY <2>6
    <3>2. PICK paper : paper = [d EXCEPT !.questions = <<question>>, !.sections = <<>>]
      OBVIOUS
    <3>3. paper.questions = <<question>> /\ paper.sections = <<>>
      BY <3>2 DEF Paper
    <3>4. QED
      BY <2>8, <3>1, <3>2, <3>3, BareHasNoSpace
  <2>9. QED
    BY <2>2, <2>3, <2>4, <2>7, <2>8 DEF PreviewsStandAlone
<1>2. QED
  BY <1>1, Invariance, PTL

\* Grouping, ungrouping, moving and editing questions and sections takes at most one question
\* from the paper and brings it at most one, but for the removal of a section
\* (QuestionsEditor, SectionsEditor, QuestionsTab).
THEOREM QuestionsKept == Spec => QuestionsAreKept
<1>1. IInv /\ [Next]_vars => [KeepsQuestions]_draft
  <2>1. SUFFICES ASSUME IInv, [Next]_vars, draft' # draft PROVE KeepsQuestions
    OBVIOUS
  <2>2. EditDraft /\ draft \in SoundPaper
    BY <2>1 DEF Next, Edit, Preview, vars, IInv
  <2>3. QED
    BY <2>2, QuestionsStayKept
<1>2. QED
  BY <1>1, Invariance, PTL DEF Spec, QuestionsAreKept
===============================================================================
