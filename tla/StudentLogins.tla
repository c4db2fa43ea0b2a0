----------------------------- MODULE StudentLogins -----------------------------
(***************************************************************************)
(* A student's way in: the students row, the Directus login it points at   *)
(* and the photos that login uploaded.  Archiving, unarchiving, giving a   *)
(* login, taking it away and deleting the student are each a read of the   *)
(* row and then a few requests to Directus; several callers may be at them *)
(* at once, and any request may be refused or its caller die.              *)
(*                                                                         *)
(* source: sidereal_core/students.py, logins.py, files.py                  *)
(***************************************************************************)
EXTENDS Naturals

CONSTANTS
    Users,   \* ids Directus may give a login
    Files,   \* ids it may give an upload
    Ops,     \* calls of the operations below, by tutors, admins and agents
    Caller,  \* whoever takes over the uploads of a login that goes
    None     \* a null column

Unfiled == "unfiled"  \* the owner of a file nobody has uploaded yet

ASSUME LoginsAssumption ==
    /\ None \notin Users \cup {Caller, Unfiled}
    /\ Users \cap {Caller, Unfiled} = {}

VARIABLES
    student,  \* the students row: "filed" or "deleted"
    status,   \* its status column
    user,     \* its user column, a SET NULL relation
    account,  \* each login: "none", "active", "suspended" or "deleted"
    owner,    \* each file's uploaded_by, Unfiled before the upload
    at,       \* how far each operation has got
    held,     \* the login it read on the row, or made
    listed,   \* the uploads it has yet to hand over
    moved,    \* history: whether others wrote the row or its login since it read
    refused,  \* history: the files a rule would not let be handed to the caller
    late      \* history: the files uploaded after their owner's were listed

rowVars == <<student, status, user>>
opVars == <<at, held, listed>>
vars == <<rowVars, account, owner, opVars, moved, refused, late>>

StudentStatus == {"active", "paused", "archived"}
Live == {"active", "suspended"}
Handing == {"removing files", "deleting files"}
Busy == {"archiving", "archiving row", "unarchiving", "unarchiving row", "creating",
         "removing", "removing link", "deleting", "deleting row"} \cup Handing
Done == {"archived", "unarchived", "created", "removed", "deleted"}

TypeOK ==
    /\ student \in {"filed", "deleted"}
    /\ status \in StudentStatus
    /\ user \in Users \cup {None}
    /\ account \in [Users -> Live \cup {"none", "deleted"}]
    /\ owner \in [Files -> Users \cup {Caller, None, Unfiled}]
    /\ at \in [Ops -> Busy \cup Done \cup {"idle", "failed"}]
    /\ held \in [Ops -> Users \cup {None}]
    /\ listed \in [Ops -> SUBSET Files]
    /\ moved \in [Ops -> BOOLEAN]
    /\ refused \subseteq Files
    /\ late \subseteq Files

Init ==
    /\ student = "filed"
    /\ status \in {"active", "paused"}
    /\ user = None
    /\ account = [u \in Users |-> "none"]
    /\ owner = [f \in Files |-> Unfiled]
    /\ at = [o \in Ops |-> "idle"]
    /\ held = [o \in Ops |-> None]
    /\ listed = [o \in Ops |-> {}]
    /\ moved = [o \in Ops |-> FALSE]
    /\ refused = {} /\ late = {}

GoTo(o, stage) == at' = [at EXCEPT ![o] = stage]
MovedBy(o) == moved' = [x \in Ops |-> x # o \/ moved[x]]

-------------------------------------------------------------------------------
(***************************************************************************)
(* Every operation begins by reading the row: one the caller cannot see is *)
(* refused, and so is a second login or the removal of none.               *)
(***************************************************************************)
Begin(o, stage) ==
    /\ at[o] \notin Busy
    /\ student = "filed"
    /\ GoTo(o, stage)
    /\ held' = [held EXCEPT ![o] = user]
    /\ listed' = [listed EXCEPT ![o] = {}]
    /\ moved' = [moved EXCEPT ![o] = FALSE]
    /\ UNCHANGED <<rowVars, account, owner, refused, late>>

\* A student without a login has only their row changed.
BeginArchive(o) == Begin(o, IF user = None THEN "archiving row" ELSE "archiving")
BeginUnarchive(o) == Begin(o, IF user = None THEN "unarchiving row" ELSE "unarchiving")
BeginCreateAgain(o) == Begin(o, "creating")
BeginCreate(o) == user = None /\ Begin(o, "creating")
BeginRemove(o) == user # None /\ Begin(o, "removing")
BeginDelete(o) == Begin(o, IF user = None THEN "deleting row" ELSE "deleting")

(***************************************************************************)
(* archive_student and unarchive_student: the login first, the row after.  *)
(***************************************************************************)
SuspendLogin(o) ==
    /\ at[o] = "archiving"
    /\ account[held[o]] \in Live
    /\ account' = [account EXCEPT ![held[o]] = "suspended"]
    /\ GoTo(o, "archiving row")
    /\ MovedBy(o)
    /\ UNCHANGED <<rowVars, owner, held, listed, refused, late>>

ArchiveRowOnly(o) ==
    /\ at[o] \in {"archiving", "archiving row"}
    /\ student = "filed"
    /\ status' = "archived"
    /\ GoTo(o, "archived")
    /\ MovedBy(o)
    /\ UNCHANGED <<student, user, account, owner, held, listed, refused, late>>
ArchiveRow(o) ==
    /\ at[o] = "archiving row"
    /\ student = "filed"
    /\ status' = "archived"
    /\ GoTo(o, "archived")
    /\ MovedBy(o)
    /\ UNCHANGED <<student, user, account, owner, held, listed, refused, late>>

RestoreLogin(o) ==
    /\ at[o] = "unarchiving"
    /\ account[held[o]] \in Live
    /\ account' = [account EXCEPT ![held[o]] = "active"]
    /\ GoTo(o, "unarchiving row")
    /\ MovedBy(o)
    /\ UNCHANGED <<rowVars, owner, held, listed, refused, late>>

UnarchiveRow(o) ==
    /\ at[o] = "unarchiving row"
    /\ student = "filed"
    /\ status' = "active"
    /\ GoTo(o, "unarchived")
    /\ MovedBy(o)
    /\ UNCHANGED <<student, user, account, owner, held, listed, refused, late>>

(***************************************************************************)
(* create_login: the login is made and linked in one write on the student, *)
(* over whatever login the row has come to point at since it was read.     *)
(***************************************************************************)
CreateLogin(o, u) ==
    /\ at[o] = "creating"
    /\ student = "filed"
    /\ account[u] = "none"
    /\ account' = [account EXCEPT ![u] = "active"]
    /\ user' = u
    /\ held' = [held EXCEPT ![o] = u]
    /\ GoTo(o, "created")
    /\ MovedBy(o)
    /\ UNCHANGED <<student, status, owner, listed, refused, late>>

(***************************************************************************)
(* remove_login and delete_student: the uploads are listed and handed over *)
(* one by one, the login is deleted, and then the row unlinked or deleted. *)
(***************************************************************************)
ToReleaseNone(o) == {}
ToRelease(o) == {f \in Files : owner[f] = held[o]}

ListUploads(o) ==
    /\ at[o] \in {"removing", "deleting"}
    /\ GoTo(o, IF at[o] = "removing" THEN "removing files" ELSE "deleting files")
    /\ listed' = [listed EXCEPT ![o] = ToRelease(o)]
    /\ UNCHANGED <<rowVars, account, owner, held, moved, refused, late>>

\* A file goes to the caller, or to nobody when a rule refuses them.
HandOver(o, f) ==
    /\ at[o] \in Handing
    /\ f \in listed[o]
    /\ listed' = [listed EXCEPT ![o] = @ \ {f}]
    /\ \/ /\ owner' = [owner EXCEPT ![f] = Caller]
          /\ UNCHANGED refused
       \/ /\ owner' = [owner EXCEPT ![f] = None]
          /\ refused' = refused \cup {f}
    /\ UNCHANGED <<rowVars, account, at, held, moved, late>>

\* Directus nulls what pointed at the login: the row's user, and uploaded_by.
DeleteUser(o) ==
    /\ at[o] \in Handing
    /\ listed[o] = {}
    /\ account[held[o]] \in Live
    /\ account' = [account EXCEPT ![held[o]] = "deleted"]
    /\ user' = IF user = held[o] THEN None ELSE user
    /\ owner' = [f \in Files |-> IF owner[f] = held[o] THEN None ELSE owner[f]]
    /\ GoTo(o, IF at[o] = "removing files" THEN "removing link" ELSE "deleting row")
    /\ MovedBy(o)
    /\ UNCHANGED <<student, status, held, listed, refused, late>>

\* The column is nulled again, whatever login it points at by now.
UnlinkRow(o) ==
    /\ at[o] = "removing link"
    /\ student = "filed"
    /\ user' = None
    /\ GoTo(o, "removed")
    /\ MovedBy(o)
    /\ UNCHANGED <<student, status, account, owner, held, listed, refused, late>>

DeleteRow(o) ==
    /\ at[o] = "deleting row"
    /\ student = "filed"
    /\ student' = "deleted"
    /\ user' = None
    /\ GoTo(o, "deleted")
    /\ MovedBy(o)
    /\ UNCHANGED <<status, account, owner, held, listed, refused, late>>

\* A request is refused or unanswered, or its caller dies: what was done stays done.
Fail(o) ==
    /\ at[o] \in Busy
    /\ GoTo(o, "failed")
    /\ UNCHANGED <<rowVars, account, owner, held, listed, moved, refused, late>>

\* The student, signed in, uploads a photo of their work.
Upload(f) ==
    /\ user # None
    /\ account[user] = "active"
    /\ owner[f] = Unfiled
    /\ owner' = [owner EXCEPT ![f] = user]
    /\ late' = IF \E o \in Ops : at[o] \in Handing /\ held[o] = user THEN late \cup {f} ELSE late
    /\ UNCHANGED <<rowVars, account, opVars, moved, refused>>

-------------------------------------------------------------------------------
Archive(o) ==
    BeginArchive(o) \/ SuspendLogin(o) \/ ArchiveRow(o)

Unarchive(o) ==
    BeginUnarchive(o) \/ RestoreLogin(o) \/ UnarchiveRow(o)

Create(o) ==
    BeginCreate(o) \/ \E u \in Users : CreateLogin(o, u)

Release(o) ==
    ListUploads(o) \/ (\E f \in Files : HandOver(o, f)) \/ DeleteUser(o)

Remove(o) ==
    BeginRemove(o) \/ UnlinkRow(o)

Delete(o) ==
    BeginDelete(o) \/ DeleteRow(o)

Next ==
    \/ \E o \in Ops :
          Archive(o) \/ Unarchive(o) \/ Create(o) \/ Release(o) \/ Remove(o) \/ Delete(o) \/ Fail(o)
    \/ \E f \in Files : Upload(f)

Spec == Init /\ [][Next]_vars

-------------------------------------------------------------------------------
(***************************************************************************)
(* Properties.                                                             *)
(***************************************************************************)

\* What an operation nobody else wrote under leaves behind: an archived student's
\* login is suspended and an unarchived one's works, a new login is theirs, and a
\* removed or deleted one is gone with nothing pointing at it.
OperationsDoWhatTheySay ==
    \A o \in Ops :
        ~moved[o] =>
            /\ at[o] = "archived" =>
                  /\ status = "archived" /\ user = held[o]
                  /\ user # None => account[user] = "suspended"
            /\ at[o] = "unarchived" =>
                  /\ status = "active" /\ user = held[o]
                  /\ user # None => account[user] = "active"
            /\ at[o] = "created" => user = held[o] /\ account[user] = "active"
            /\ at[o] = "removed" => user = None /\ account[held[o]] = "deleted"
            /\ at[o] = "deleted" =>
                  /\ student = "deleted"
                  /\ held[o] # None => account[held[o]] = "deleted"

\* A working login is taken off its student, and so left where nobody finds it, only by
\* an operation that somebody else wrote under since it read the row.
LoginsStayFindable ==
    [][\A u \in Users :
          account'[u] \in Live /\ user = u /\ user' # u
              => \E o \in Ops : moved[o] /\ at'[o] # at[o]]_vars

\* A login that goes leaves no photo without an owner, but for one a rule refused to
\* hand over and one uploaded while the others were being handed over.
UploadsAreKept == \A f \in Files : owner[f] = None => f \in refused \cup late

===============================================================================
