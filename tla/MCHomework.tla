------------------------------ MODULE MCHomework ------------------------------
(***************************************************************************)
(* Small homework: which of its sources compile, and the symmetry of what  *)
(* only differs by name.                                                   *)
(***************************************************************************)
EXTENDS Homework, TLC

CONSTANTS good, other, bad

MCCompiles == {good, other} \cap Sources
Symmetry == Permutations(Photos) \cup Permutations(Tabs) \cup Permutations(Pages)

\* A homework at its source, set without questions.
SourceInit == Init /\ ~asked
SourceSpec == SourceInit /\ [][Next]_vars
===============================================================================
