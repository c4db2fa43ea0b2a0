--------------------------- MODULE MCGenerationJobs ---------------------------
(***************************************************************************)
(* Small instances of GenerationJobs.  Job ids are interchangeable, and so *)
(* are processes, so the safety runs explore one of each orbit.            *)
(***************************************************************************)
EXTENDS GenerationJobs, TLC

Symmetry == Permutations(Jobs) \cup Permutations(Processes)
===============================================================================
