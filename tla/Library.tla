-------------------------------- MODULE Library --------------------------------
(***************************************************************************)
(* Topics, material and the viewers of its files together: a topic is      *)
(* deleted under a dialog that is tagging with it, an item under a page    *)
(* that is saving its tags, a file under the lightbox that shows it.       *)
(***************************************************************************)
EXTENDS Documents, FileBlobs

ASSUME LibraryAssumption == Blob = File /\ NoFile = None

vars == <<documentVars, blobVars>>

Actor == Editor \cup Saver \cup Task \cup Viewer

TypeOK == TopicsTypeOK /\ DocumentsTypeOK /\ BlobsTypeOK

Init == TopicsInit /\ DocumentsInit /\ BlobsInit

\* Any file may be asked for; one deleted since is refused, or answered before.
Look(w) ==
    /\ \/ \E f \in Blob \cup {NoFile} : Ask(w, f)
       \/ Answer(w) \/ Refuse(w)
    /\ UNCHANGED documentVars

Act(a) ==
    \/ a \in Editor /\ EditTopics(a) /\ UNCHANGED <<ownVars, blobVars>>
    \/ a \in Saver /\ Tag(a) /\ UNCHANGED blobVars
    \/ a \in Adder /\ Dialog(a) /\ UNCHANGED blobVars
    \/ a \in Reader /\ MaterialPage(a) /\ UNCHANGED blobVars
    \/ a \in Task /\ (Run(a) \/ CutShort(a)) /\ UNCHANGED blobVars
    \/ a \in Viewer /\ Look(a)

Next == \E a \in Actor : Act(a)

\* The event loop goes on with a task that can, the service with an addition, and a
\* page's timer fires.
Fairness ==
    /\ \A t \in Task : WF_vars(Run(t) /\ UNCHANGED blobVars)
    /\ \A d \in Adder : WF_vars(Filing(d) /\ UNCHANGED blobVars)
    /\ \A v \in Reader : WF_vars(Poll(v) /\ UNCHANGED blobVars)

Spec == Init /\ [][Next]_vars /\ Fairness
===============================================================================
