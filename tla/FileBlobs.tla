------------------------------- MODULE FileBlobs -------------------------------
(***************************************************************************)
(* What a page shows of a stored file: useFileBlob fetches the bytes with  *)
(* the caller's token and holds them as an object URL, which lives until   *)
(* it is revoked.  The file asked for changes while an answer is under     *)
(* way: a tutor steps through a scan, a photo is replaced, a page closes.  *)
(*                                                                         *)
(* A change of the prop and the effect it runs are one step: the effect    *)
(* of a click is flushed before the next event.                            *)
(*                                                                         *)
(* source: lib/files.ts, components/material/ScanPages.tsx and             *)
(* components/ui/PdfView.tsx of the frontend                               *)
(***************************************************************************)
EXTENDS Naturals, FiniteSets

CONSTANTS
    Viewer,   \* places a file is shown
    Blob,     \* files
    MaxAsked, \* bound: how often a viewer asks
    NoFile    \* nothing to show

ASSUME FileBlobsAssumption == NoFile \notin Blob /\ MaxAsked \in Nat

VARIABLES
    wanted,  \* the file each viewer is asked to show
    url,     \* the file its object URL is of
    alive,   \* its object URLs not revoked, each by the file it is of
    loads,   \* its answers under way, by file and the asking they are of
    asked    \* which asking it is at

blobVars == <<wanted, url, alive, loads, asked>>

BlobsTypeOK ==
    /\ wanted \in [Viewer -> Blob \cup {NoFile}]
    /\ url \in [Viewer -> Blob \cup {NoFile}]
    /\ alive \in [Viewer -> SUBSET Blob]
    /\ loads \in [Viewer -> SUBSET (Blob \X (0..MaxAsked))]
    /\ asked \in [Viewer -> 0..MaxAsked]

BlobsInit ==
    /\ wanted = [v \in Viewer |-> NoFile]
    /\ url = [v \in Viewer |-> NoFile]
    /\ alive = [v \in Viewer |-> {}]
    /\ loads = [v \in Viewer |-> {}]
    /\ asked = [v \in Viewer |-> 0]

\* The file is another, or none as the viewer goes away: what is shown is taken down and
\* its URL revoked, the load under way cancelled, and a new one begun.
Ask(v, f) ==
    /\ asked[v] < MaxAsked /\ f # wanted[v]
    /\ wanted' = [wanted EXCEPT ![v] = f]
    /\ url' = [url EXCEPT ![v] = NoFile]
    /\ alive' = [alive EXCEPT ![v] = @ \ {url[v]}]
    /\ asked' = [asked EXCEPT ![v] = @ + 1]
    /\ loads' = IF f = NoFile THEN loads
                ELSE [loads EXCEPT ![v] = @ \cup {<<f, asked'[v]>>}]

\* Cancelled once a later asking has begun.
CancelledNever(v, load) == FALSE
Cancelled(v, load) == load[2] # asked[v]

\* The bytes arrive: a URL is made of them unless they were cancelled.
Answer(v) ==
    /\ \E load \in loads[v] :
          /\ loads' = [loads EXCEPT ![v] = @ \ {load}]
          /\ IF Cancelled(v, load)
             THEN UNCHANGED <<url, alive>>
             ELSE /\ url' = [url EXCEPT ![v] = load[1]]
                  /\ alive' = [alive EXCEPT ![v] = @ \cup {load[1]}]
    /\ UNCHANGED <<wanted, asked>>

\* Or are refused: nothing is shown.
Refuse(v) ==
    /\ \E load \in loads[v] : loads' = [loads EXCEPT ![v] = @ \ {load}]
    /\ UNCHANGED <<wanted, url, alive, asked>>

\* What a viewer shows is the file it is asked for, whatever order answers arrive in, and
\* it holds no object URL but that of what it shows.
BlobsAreOfTheFileAsked ==
    \A v \in Viewer :
        /\ url[v] \in {NoFile, wanted[v]}
        /\ alive[v] = {url[v]} \ {NoFile}
===============================================================================
