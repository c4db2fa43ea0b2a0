------------------------------- MODULE MCPapers -------------------------------
(***************************************************************************)
(* A small paper: one structure the compiler accepts, one it refuses that  *)
(* repairs into the first, and one with a question fewer; a scheme of each *)
(* kind for the two-question paper and one for the other.                  *)
(*                                                                         *)
(* Each behaviour is about one of two matters: two requests, with no page  *)
(* open; or one request and the pages, over one scheme and one question.   *)
(***************************************************************************)
EXTENDS Papers, FiniteSets, TLC

CONSTANTS q1, q2, sGood, sBad, sShort, mGood, mBad, mShort
VARIABLE cast

MCCompiles == {sGood, sShort, mGood, mShort} \cap (Structures \cup Schemes)
MCAsks == [s \in Structures |-> IF s = sShort THEN {q1} ELSE Numbers]
MCAnswers == [m \in Schemes |-> IF m = mShort THEN {q1} ELSE Numbers]

MCInit == Init /\ cast \in {"requests", "pages"}

Still ==
    CASE cast = "requests" -> behind' = behind /\ draft' = draft
      [] cast = "pages" -> /\ Cardinality({r \in Requests : at'[r] # "idle"}) <= 1
                           /\ scheme' \in {None, mGood} /\ filed' \subseteq {q1}
                           /\ \A e \in Editors : draft'[e].scheme \in {None, mGood}

MCNext == Next /\ Still /\ UNCHANGED cast
MCSpec == MCInit /\ [][MCNext]_<<vars, cast>>

Symmetry == Permutations(Requests)
===============================================================================
