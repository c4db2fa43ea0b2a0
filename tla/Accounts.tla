-------------------------------- MODULE Accounts -------------------------------
(***************************************************************************)
(* The accounts, the tabs signed in to them, and the photo a user gives    *)
(* theirs: an upload, the account's own row, the deletion of the photo it  *)
(* named when the tab last asked, and then the user again, in requests of  *)
(* their own.                                                              *)
(*                                                                         *)
(* source: lib/queries/account.ts and components/account of the frontend   *)
(***************************************************************************)
EXTENDS Session

VARIABLES
    taken,    \* the photos ever uploaded,
    photos,   \* and by whom, those there are
    saving,   \* a tab's change of photo: how far it is, whose photo it was begun on, the
              \* photo before and the new one
    crossed   \* history: whether a change has gone on under another account's session

photoVars == <<taken, photos, saving, crossed>>
vars == <<sessionVars, photoVars>>

Saving == [step : {"idle", "uploading", "setting", "discarding"}, of : Account \cup {None},
           previous : Photo \cup {None}, new : Photo \cup {None}]
Idle == [step |-> "idle", of |-> None, previous |-> None, new |-> None]

TypeOK ==
    /\ TutorAccountsTypeOK
    /\ SessionTypeOK
    /\ taken \in Nat
    /\ DOMAIN photos \subseteq Photo /\ photos \in [DOMAIN photos -> Account]
    /\ saving \in [Tab -> Saving]
    /\ crossed \in BOOLEAN

Init ==
    /\ TutorAccountsInit
    /\ SessionInit
    /\ taken = 0 /\ photos = <<>>
    /\ saving = [t \in Tab |-> Idle]
    /\ crossed = FALSE

-------------------------------------------------------------------------------
\* One change of photo at a time in a tab.
Click(t, step) ==
    /\ user[t] # None /\ ~checking[t] /\ saving[t].step = "idle"
    /\ saving' = [saving EXCEPT ![t] = [step |-> step, of |-> user[t].of,
                                      previous |-> user[t].photo, new |-> None]]
    /\ UNCHANGED <<sessionVars, taken, photos, crossed>>

\* The requests of a change wait for a renewal to end.  One may go out under the session of
\* an account it was not begun on.
Cross(t) == crossed' = (crossed \/ owner[memory[t]] # saving[t].of)

ChoosePhoto(t) == Click(t, "uploading")
RemovePhoto(t) == user[t] # None /\ user[t].photo # None /\ Click(t, "setting")

UploadPhoto(t) ==
    /\ saving[t].step = "uploading" /\ MayAnswer(memory[t]) /\ ~Renewing(t)
    /\ taken + 1 \in Photo
    /\ taken' = taken + 1
    /\ photos' = [p \in DOMAIN photos \cup {taken + 1} |->
                     IF p = taken + 1 THEN owner[memory[t]] ELSE photos[p]]
    /\ saving' = [saving EXCEPT ![t].step = "setting", ![t].new = taken + 1]
    /\ Cross(t)
    /\ UNCHANGED sessionVars

SetPhoto(t) ==
    /\ saving[t].step = "setting" /\ MayAnswer(memory[t]) /\ ~Renewing(t)
    /\ photo' = [photo EXCEPT ![owner[memory[t]]] = saving[t].new]
    /\ saving' = [saving EXCEPT ![t].step = "discarding"]
    /\ Cross(t)
    /\ UNCHANGED <<tutorVars, owner, ended, tabVars, taken, photos>>

DiscardedNow(t) == IF user[t] = None THEN None ELSE user[t].photo
Discarded(t) == saving[t].previous
Without(p) == [q \in DOMAIN photos \ {p} |-> photos[q]]

\* The photo before goes, unless it is gone or the deletion is refused; either way the tab
\* then asks for the user.
DiscardPhoto(t) ==
    /\ saving[t].step = "discarding" /\ ~Renewing(t)
    /\ LET p == Discarded(t) IN
          \/ /\ p \in DOMAIN photos /\ MayAnswer(memory[t]) /\ photos[p] = owner[memory[t]]
             /\ photos' = Without(p)
             /\ Cross(t)
             /\ UNCHANGED lost
          \/ /\ IF p \in DOMAIN photos /\ ~MayRefuse(memory[t]) /\ photos[p] = owner[memory[t]]
                THEN Lose ELSE UNCHANGED lost
             /\ UNCHANGED <<photos, crossed>>
    /\ saving' = [saving EXCEPT ![t] = Idle]
    /\ calls' = [calls EXCEPT ![t] = Refreshing(t)]
    /\ UNCHANGED <<standing, tutorOf, uploader, removalVars, serverVars, stored, memory, lapsed,
                   user, me, checking, refused, mixed, taken>>

\* The upload or the row's change is refused, or is not answered, having landed or not.
PhotoFails(t) ==
    /\ saving[t].step \in {"uploading", "setting"} /\ ~Renewing(t)
    /\ IF MayRefuse(memory[t]) THEN UNCHANGED lost ELSE Lose
    /\ \/ UNCHANGED <<photo, crossed>>
       \/ /\ saving[t].step = "setting" /\ MayAnswer(memory[t])
          /\ photo' = [photo EXCEPT ![owner[memory[t]]] = saving[t].new]
          /\ Cross(t)
    /\ saving' = [saving EXCEPT ![t] = Idle]
    /\ UNCHANGED <<standing, tutorOf, uploader, removalVars, owner, ended, tabVars, taken, photos>>

ChangePhoto(t) ==
    ChoosePhoto(t) \/ RemovePhoto(t) \/ UploadPhoto(t) \/ SetPhoto(t) \/ DiscardPhoto(t) \/ PhotoFails(t)

\* A reload forgets a change of photo under way.
Reload(t) ==
    /\ Load(t)
    /\ saving' = [saving EXCEPT ![t] = Idle]
    /\ UNCHANGED <<taken, photos, crossed>>

Browse(t) ==
    \/ Reload(t)
    \/ (Restore(t) \/ Enter(t) \/ Leave(t) \/ Renew(t) \/ Renewed(t) \/ Refresh(t)) /\ UNCHANGED photoVars
    \/ ChangePhoto(t)

Manage ==
    /\ Administer \/ (\E a \in Account : Work(a)) \/ (\E r \in Removal : Remove(r))
    /\ UNCHANGED <<serverVars, tabVars, photoVars>>

Next == Manage \/ \E t \in Tab : Browse(t)

Spec == Init /\ [][Next]_vars

-------------------------------------------------------------------------------
\* The photo an account names is there, through changes in several tabs, each knowing only
\* the photo it was last answered, and through failures between a change's requests.  Only
\* a change that went on under another account's session may take it away.
PhotoIsThere == ~crossed => \A a \in Account : photo[a] # None => photo[a] \in DOMAIN photos
===============================================================================
