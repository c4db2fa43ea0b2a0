--------------------------- MODULE MCStudentLogins ---------------------------
(***************************************************************************)
(* Small instances of StudentLogins: operations, logins and files are      *)
(* interchangeable.                                                        *)
(***************************************************************************)
EXTENDS StudentLogins, TLC

Symmetry == Permutations(Users) \cup Permutations(Files) \cup Permutations(Ops)
===============================================================================
