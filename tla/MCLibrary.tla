------------------------------- MODULE MCLibrary -------------------------------
(***************************************************************************)
(* Small libraries.  The hazards are pairwise, so each behaviour has a     *)
(* cast of two and one matter they meet over: two Topics pages over the    *)
(* topics; a page or dialog and another over the tags of an item; a dialog *)
(* and pages over what reads it; a viewer, which shares nothing, over      *)
(* files.  What is not the matter is held still: over tags no topic is     *)
(* added or described and only pasted text filed, over reading no topic is *)
(* chosen (nor is there a tree); a page beside a dialog shows what it      *)
(* files, and a dialog is sent while there is an id left to file under;    *)
(* and between two savers no request is lost.                              *)
(***************************************************************************)
EXTENDS Library, TLC

CONSTANTS i1, f1, t1
VARIABLE cast

MCFileOf == [i \in Old |-> f1]

AnEditor == CHOOSE e \in Editor : TRUE

Casts ==
    [about : {"topics"}, of : {Editor}]
    \cup [about : {"tags"}, of : {{AnEditor} \cup Reader, {AnEditor} \cup Adder, Saver}]
    \cup [about : {"reading"}, of : {Saver, Reader}]
    \cup [about : {"files"}, of : {Viewer}]

MCInit ==
    /\ Init
    /\ Known = Topic
    /\ \A row \in rows : row.parent \in {None, t1}
    /\ cast \in Casts
    /\ cast.about # "reading" => \A i \in Old : status[i] = "ready"
    /\ cast.about \in {"reading", "files"} => \A row \in rows : row.parent = None

Still ==
    /\ cast.about = "tags" =>
          /\ form' = form
          /\ typed' = typed /\ selected' = selected /\ Known' \subseteq Known
          /\ cast.of \cap Editor = {} => lost' = lost
    /\ cast.about = "reading" => choice' = choice
    /\ cast.of \cap Adder # {} => \A v \in Reader : at'[v] \notin Old
    /\ adding' # adding /\ (\A d \in Adder : adding[d] = "form") =>
          \E i \in Item : status[i] = "absent"

MCNext ==
    /\ \E a \in cast.of \cup IF cast.about = "reading" THEN Task ELSE {} : Act(a)
    /\ Still
    /\ UNCHANGED cast

MCSpec == MCInit /\ [][MCNext]_<<vars, cast>> /\ Fairness
===============================================================================
