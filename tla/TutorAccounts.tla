----------------------------- MODULE TutorAccounts -----------------------------
(***************************************************************************)
(* The accounts of tutors, and what hangs on them: the students each       *)
(* teaches and the files each uploaded.  An admin adds, suspends and       *)
(* removes tutors and hands students over; a removal is several requests,  *)
(* under which tutors and admins go on working.                            *)
(*                                                                         *)
(* A deleted account is named by no student and no file any more: both     *)
(* columns fall to nobody.  A tutor's files all fit the one listing of     *)
(* MAX_UPLOADS.  Names, passwords and the account nobody signs in to, to   *)
(* which the page offers nothing, are left out.                            *)
(*                                                                         *)
(* source: sidereal_core/tutors.py and files.py, sidereal_app/api/         *)
(* routes.py, routes/admin, components/admin and lib/queries/admin.ts of   *)
(* the frontend                                                            *)
(***************************************************************************)
EXTENDS Naturals, FiniteSets

CONSTANTS
    Account,   \* ids of accounts,
    RoleOf,    \* and what each is: "tutor", "student" or "admin"
    Keeper,    \* the admin who removes tutors, to whom their files go
    Student,   \* ids of students
    Upload,    \* and of files
    Removal,   \* requests to remove a tutor that may be in progress at once
    MaxLost,   \* bound: requests refused or not answered for no reason here
    None

ASSUME TutorAccountsAssumption ==
    /\ RoleOf \in [Account -> {"tutor", "student", "admin"}]
    /\ Keeper \in Account /\ RoleOf[Keeper] = "admin"
    /\ None \notin Account
    /\ MaxLost \in Nat

VARIABLES
    standing,   \* an account's status, "absent" before it is created
    tutorOf,    \* the tutor of each student there is
    uploader,   \* and the account each file there is was uploaded by
    stage,      \* how far a removal has got,
    target,     \* the tutor it removes,
    listed,     \* the files it has listed and not handed over yet,
    disturbed,  \* history: whether the tutor was given a student or a file since
    lost        \* history: the requests that failed for no reason here

removalVars == <<stage, target, listed, disturbed>>
tutorVars == <<standing, tutorOf, uploader, removalVars, lost>>

Tutor == {a \in Account : RoleOf[a] = "tutor"}
Standing == {"absent", "active", "suspended", "removed"}
Present == {a \in Account : standing[a] \in {"active", "suspended"}}

TutorAccountsTypeOK ==
    /\ standing \in [Account -> Standing]
    /\ standing[Keeper] = "active"
    /\ DOMAIN tutorOf \subseteq Student /\ tutorOf \in [DOMAIN tutorOf -> Tutor \cup {None}]
    /\ DOMAIN uploader \subseteq Upload /\ uploader \in [DOMAIN uploader -> Account \cup {None}]
    /\ stage \in [Removal -> {"idle", "counted", "releasing"}]
    /\ target \in [Removal -> Tutor \cup {None}]
    /\ listed \in [Removal -> SUBSET Upload]
    /\ disturbed \in [Removal -> BOOLEAN]
    /\ lost \in 0..MaxLost

Lose == lost < MaxLost /\ lost' = lost + 1

TutorAccountsInit ==
    /\ standing \in [Account -> Standing] /\ standing[Keeper] = "active"
    /\ \E some \in SUBSET Student : tutorOf \in [some -> (Tutor \cap Present) \cup {None}]
    /\ \E some \in SUBSET Upload : uploader \in [some -> Present \cup {None}]
    /\ stage = [r \in Removal |-> "idle"]
    /\ target = [r \in Removal |-> None]
    /\ listed = [r \in Removal |-> {}]
    /\ disturbed = [r \in Removal |-> FALSE]
    /\ lost = 0

-------------------------------------------------------------------------------
(***************************************************************************)
(* What goes on meanwhile.                                                 *)
(***************************************************************************)

\* Whatever a tutor is given disturbs the removals of that tutor.
Given(a) == disturbed' = [r \in Removal |-> disturbed[r] \/ target[r] = a]

\* A tutor adds a student, who is theirs.
AddStudent(a) ==
    /\ a \in Tutor /\ standing[a] = "active"
    /\ \E s \in Student \ DOMAIN tutorOf :
          tutorOf' = [other \in DOMAIN tutorOf \cup {s} |-> IF other = s THEN a ELSE tutorOf[other]]
    /\ Given(a)
    /\ UNCHANGED <<standing, uploader, stage, target, listed, lost>>

AddFile(a) ==
    /\ standing[a] = "active"
    /\ \E f \in Upload \ DOMAIN uploader :
          uploader' = [other \in DOMAIN uploader \cup {f} |-> IF other = f THEN a ELSE uploader[other]]
    /\ Given(a)
    /\ UNCHANGED <<standing, tutorOf, stage, target, listed, lost>>

\* A file is deleted with what it was filed for.
DropFile ==
    /\ \E f \in DOMAIN uploader :
          uploader' = [other \in DOMAIN uploader \ {f} |-> uploader[other]]
    /\ UNCHANGED <<standing, tutorOf, removalVars, lost>>

\* The admin chooses another tutor for a student, or Nobody; one removed since the page
\* listed the tutors is refused.
HandOver ==
    \E s \in DOMAIN tutorOf, a \in (Tutor \cap Present) \cup {None} :
        /\ a # tutorOf[s]
        /\ tutorOf' = [tutorOf EXCEPT ![s] = a]
        /\ Given(a)
        /\ UNCHANGED <<standing, uploader, stage, target, listed, lost>>

Create ==
    /\ \E a \in Tutor :
          /\ standing[a] = "absent"
          /\ standing' = [standing EXCEPT ![a] = "active"]
    /\ UNCHANGED <<tutorOf, uploader, removalVars, lost>>

\* Suspends or reactivates.
SetStatus ==
    /\ \E a \in Tutor \cap Present, status \in {"active", "suspended"} :
          /\ status # standing[a]
          /\ standing' = [standing EXCEPT ![a] = status]
    /\ UNCHANGED <<tutorOf, uploader, removalVars, lost>>

-------------------------------------------------------------------------------
(***************************************************************************)
(* A removal.                                                              *)
(***************************************************************************)

StudentsOf(a) == {s \in DOMAIN tutorOf : tutorOf[s] = a}
FilesOf(a) == {f \in DOMAIN uploader : uploader[f] = a}
RemovableAlways(a) == TRUE
Removable(a) == StudentsOf(a) = {}

End(r) ==
    /\ stage' = [stage EXCEPT ![r] = "idle"]
    /\ target' = [target EXCEPT ![r] = None]
    /\ listed' = [listed EXCEPT ![r] = {}]

\* Finds the tutor and counts the students; one who has any is refused.
Count(r) ==
    /\ stage[r] = "idle"
    /\ \E a \in Tutor \cap Present :
          /\ Removable(a)
          /\ target' = [target EXCEPT ![r] = a]
    /\ stage' = [stage EXCEPT ![r] = "counted"]
    /\ disturbed' = [disturbed EXCEPT ![r] = FALSE]
    /\ UNCHANGED <<standing, tutorOf, uploader, listed, lost>>

ListFiles(r) ==
    /\ stage[r] = "counted"
    /\ stage' = [stage EXCEPT ![r] = "releasing"]
    /\ listed' = [listed EXCEPT ![r] = FilesOf(target[r])]
    /\ UNCHANGED <<standing, tutorOf, uploader, target, disturbed, lost>>

\* Hands a file to the admin, or to nobody where the admin is refused it.
Reassign(r) ==
    /\ stage[r] = "releasing"
    /\ \E f \in listed[r] \cap DOMAIN uploader :
          /\ listed' = [listed EXCEPT ![r] = @ \ {f}]
          /\ \/ uploader' = [uploader EXCEPT ![f] = Keeper] /\ UNCHANGED lost
             \/ uploader' = [uploader EXCEPT ![f] = None] /\ Lose
    /\ UNCHANGED <<standing, tutorOf, stage, target, disturbed>>

\* A file that is gone, or a request that fails, ends the removal where it is.
RemovalFails(r) ==
    /\ stage[r] # "idle"
    /\ IF stage[r] = "releasing" /\ ~(listed[r] \subseteq DOMAIN uploader)
       THEN UNCHANGED lost
       ELSE Lose
    /\ End(r)
    /\ UNCHANGED <<standing, tutorOf, uploader, disturbed>>

Forgotten(holder, a) == [x \in DOMAIN holder |-> IF holder[x] = a THEN None ELSE holder[x]]

\* Deletes the account, if another removal has not.
Delete(r) ==
    /\ stage[r] = "releasing" /\ listed[r] = {}
    /\ LET a == target[r] IN
          IF a \in Present
          THEN /\ standing' = [standing EXCEPT ![a] = "removed"]
               /\ tutorOf' = Forgotten(tutorOf, a)
               /\ uploader' = Forgotten(uploader, a)
          ELSE UNCHANGED <<standing, tutorOf, uploader>>
    /\ End(r)
    /\ UNCHANGED <<disturbed, lost>>

Remove(r) == Count(r) \/ ListFiles(r) \/ Reassign(r) \/ RemovalFails(r) \/ Delete(r)
Work(a) == AddStudent(a) \/ AddFile(a)
Administer == DropFile \/ HandOver \/ Create \/ SetStatus

-------------------------------------------------------------------------------
(***************************************************************************)
(* Properties.                                                             *)
(***************************************************************************)

\* A step that takes a student's tutor, or a file's uploader, away has a reason.
StudentsKept ==
    \A s \in DOMAIN tutorOf :
        tutorOf[s] # None /\ tutorOf'[s] = None =>
            HandOver \/ \E r \in Removal : target[r] = tutorOf[s] /\ disturbed[r]
FilesKept ==
    \A f \in DOMAIN uploader \cap DOMAIN uploader' :
        uploader[f] # None /\ uploader'[f] = None /\ lost' = lost =>
            \E r \in Removal : target[r] = uploader[f] /\ disturbed[r]
\* A removal leaves no student without a tutor and no file without an uploader, unless the
\* tutor was given one while it was in progress (remove_tutor counts, lists and deletes in
\* requests of their own), or the admin could not be given the file.
RemovalsLeaveNothing == [][StudentsKept /\ FilesKept]_tutorVars
================================================================================
