----------------------------- MODULE AccountsProofs -----------------------------
(***************************************************************************)
(* Theorems of Accounts, for any number of accounts, students, files,      *)
(* sessions, tabs and removals: the types; what a removal leaves; that a   *)
(* tab shows whom it holds a session of; what may cost the stored session; *)
(* and that the photo an account names is there.                           *)
(*                                                                         *)
(* Each of the three parts has an invariant that is inductive with the     *)
(* types: what an undisturbed removal has counted and listed is still so;  *)
(* what a call nothing overtook carries, or waits for, is of whom its tab  *)
(* holds or renews a session of; and every photo named anywhere was        *)
(* uploaded, one a change is about to discard being named nowhere, unless  *)
(* a change was carried on under another account.                          *)
(***************************************************************************)
EXTENDS Accounts, TLAPS

\* A removal that goes on is of somebody, who has no student and whose files are listed.
RemovalInv ==
    \A r \in Removal :
        stage[r] # "idle" =>
            /\ target[r] # None
            /\ ~disturbed[r] =>
                  /\ StudentsOf(target[r]) = {}
                  /\ stage[r] = "releasing" => FilesOf(target[r]) \subseteq listed[r]

\* A call carries a session there is or was, or none, or waits for one; a sign-in knows whose
\* it is to be, a restore has its user before it asks for the role, a renewal is of a
\* session, and a sign-out waits for none.
Carried == DOMAIN owner \cup {None, Awaited}
OpenCall == {c \in Call : /\ c.with \in Carried
                          /\ c.ask \in {"login", "place", "identify"} => c.got # None
                          /\ c.ask = "renew" => c.with \in DOMAIN owner
                          /\ c.ask = "leave" => c.with # Awaited}
CallInv == calls \in [Tab -> SUBSET OpenCall]

OwnersThere == \A n \in DOMAIN owner : standing[owner[n]] # "absent"

Entering == {"restore", "place", "identify", "enter"}
Carries(c) == c.with \notin {None, Awaited}

\* What a call that nothing overtook goes on from.
Goes(t, c) ==
    /\ c.ask \in Entering =>
         /\ user[t] = None /\ ~refused[t] /\ Held(t) # None
         /\ Carries(c) => owner[c.with] = owner[Held(t)]
         /\ c.ask \in {"place", "identify"} => c.got.of = owner[Held(t)]
         /\ c.ask = "enter" =>
               me[t] # None /\ me[t].of = owner[Held(t)] /\ me[t].role \in MayShow(me[t].of)
    /\ c.ask = "refresh" => user[t] # None /\ (Carries(c) => owner[c.with] = user[t].of)
    /\ c.ask = "renew" => memory[t] = None /\ lapsed[t] = c.with

\* A tab finds out who is signed in in one way at a time, and renews one session.
OneWayIn(t) ==
    \A c1, c2 \in calls[t] :
        \/ c1.ask \in Entering /\ ~c1.late /\ c2.ask \in Entering /\ ~c2.late
        \/ c1.ask = "renew" /\ c2.ask = "renew"
        => c1 = c2

CallsGo(t) == ~mixed[t] => \A c \in calls[t] : ~c.late => Goes(t, c)

Shown(t) ==
    ~mixed[t] /\ user[t] # None =>
        /\ ~refused[t]
        /\ Held(t) # None /\ owner[Held(t)] = user[t].of
        /\ me[t] # None /\ me[t].of = user[t].of /\ me[t].role \in MayShow(user[t].of)

TabInv(t) == OneWayIn(t) /\ CallsGo(t) /\ Shown(t)
TabsInv == OwnersThere /\ \A t \in Tab : TabInv(t)

\* The photos named anywhere: by an account, by what a tab shows or is being answered, or as
\* the one before a change.
Names(t, p) ==
    \/ user[t] # None /\ user[t].photo = p
    \/ \E c \in calls[t] : c.got # None /\ c.got.photo = p
Named(p) ==
    /\ p # None
    /\ \/ \E a \in Account : photo[a] = p
       \/ \E t \in Tab : Names(t, p) \/ saving[t].previous = p

PhotosKnown ==
    /\ \A p : Named(p) => p \in 1..taken
    /\ DOMAIN photos \subseteq 1..taken
    /\ \A t \in Tab : saving[t].new # None => saving[t].new \in 1..taken

\* One uploaded and not set yet is there, and named nowhere else.
Pending(t, p) == saving[t].step = "setting" /\ saving[t].new = p /\ p # None
UnsetInv ==
    \A t \in Tab : \A p : Pending(t, p) =>
        /\ p \in DOMAIN photos
        /\ ~crossed => photos[p] = saving[t].of
        /\ ~Named(p)
        /\ \A x \in Tab \ {t} : ~Pending(x, p)

\* The one before is named by its account no more once the change is set.
DiscardInv ==
    \A t \in Tab :
        /\ saving[t].step # "idle" => saving[t].of # None
        /\ ~crossed /\ saving[t].step = "discarding" /\ saving[t].previous # None =>
              photo[saving[t].of] # saving[t].previous

OwnPhoto ==
    ~crossed => \A a \in Account :
        photo[a] # None => photo[a] \in DOMAIN photos /\ photos[photo[a]] = a

PhotosInv == PhotosKnown /\ UnsetInv /\ DiscardInv /\ OwnPhoto

-------------------------------------------------------------------------------
\* The types, to begin with.
LEMMA InitTypes == Init => TypeOK
<1> SUFFICES ASSUME Init PROVE TypeOK
  OBVIOUS
<1> USE TutorAccountsAssumption, SessionAssumption
<1>1. TutorAccountsTypeOK
  BY DEF Init, TutorAccountsInit, TutorAccountsTypeOK, Standing, Tutor, Present
<1>2. SessionTypeOK
  <2>1. owner \in Seq(Account) /\ DOMAIN owner \subseteq SessionId
    <3>1. CASE owner = <<>>
      BY <3>1
    <3>2. ASSUME NEW a \in Account, owner = <<a>> PROVE owner \in Seq(Account) /\ DOMAIN owner = {1}
      BY <3>2
    <3>3. QED
      BY <3>1, <3>2 DEF Init, SessionInit, SessionId
  <2>2. calls \in [Tab -> SUBSET Call]
    BY <2>1 DEF Init, SessionInit, Restoring, Sent, Call, Ask, SessionId
  <2>3. QED
    BY <2>1, <2>2 DEF Init, SessionInit, SessionTypeOK
<1>3. DOMAIN photos \subseteq Photo /\ photos \in [DOMAIN photos -> Account]
  BY DEF Init
<1>4. QED
  BY <1>1, <1>2, <1>3 DEF Init, TypeOK, Saving, Idle

\* The admin's and the tutors' steps, and a removal's, keep the types.
LEMMA ManageTypes ==
    ASSUME TutorAccountsTypeOK,
           Administer \/ (\E a \in Account : Work(a)) \/ (\E r \in Removal : Remove(r))
    PROVE  TutorAccountsTypeOK'
<1> USE TutorAccountsAssumption DEF TutorAccountsTypeOK, Standing, Tutor, removalVars
<1>1. CASE DropFile
  BY <1>1 DEF DropFile
<1>2. CASE HandOver
  BY <1>2 DEF HandOver, Given, Present
<1>3. CASE Create
  BY <1>3 DEF Create
<1>4. CASE SetStatus
  BY <1>4 DEF SetStatus, Present
<1>5. ASSUME NEW a \in Account, AddStudent(a) PROVE TutorAccountsTypeOK'
  BY <1>5 DEF AddStudent, Given
<1>6. ASSUME NEW a \in Account, AddFile(a) PROVE TutorAccountsTypeOK'
  BY <1>6 DEF AddFile, Given
<1>7. ASSUME NEW r \in Removal, Count(r) PROVE TutorAccountsTypeOK'
  BY <1>7 DEF Count
<1>8. ASSUME NEW r \in Removal, ListFiles(r) PROVE TutorAccountsTypeOK'
  BY <1>8 DEF ListFiles, FilesOf
<1>9. ASSUME NEW r \in Removal, Reassign(r) PROVE TutorAccountsTypeOK'
  BY <1>9 DEF Reassign, Lose
<1>10. ASSUME NEW r \in Removal, RemovalFails(r) PROVE TutorAccountsTypeOK'
  BY <1>10 DEF RemovalFails, Lose, End
<1>11. ASSUME NEW r \in Removal, Delete(r) PROVE TutorAccountsTypeOK'
  BY <1>11 DEF Delete, End, Forgotten, Present
<1>12. QED
  BY <1>1, <1>2, <1>3, <1>4, <1>5, <1>6, <1>7, <1>8, <1>9, <1>10, <1>11
     DEF Administer, Work, Remove


\* Nobody is no user.
LEMMA UserTypes == \A got \in User : got # None
  BY SessionAssumption

\* What becomes of a call is a call.
LEMMA CallTypes ==
    ASSUME DOMAIN owner \subseteq SessionId
    PROVE  /\ \A ask \in Ask \ {"login", "place", "identify", "renew"}, s \in DOMAIN owner \cup {None} :
                 Sent(ask, s) \in OpenCall
           /\ \A s \in DOMAIN owner : Sent("renew", s) \in OpenCall
           /\ \A ask \in {"login", "identify"}, s \in Carried, got \in User :
                 [Sent(ask, s) EXCEPT !.got = got] \in OpenCall
           /\ \A c \in OpenCall :
                 /\ c.with \in Carried /\ c.got \in User \cup {None}
                 /\ c.ask \in {"login", "place", "identify"} => c.got \in User
                 /\ c.ask = "renew" => c.with \in DOMAIN owner
                 /\ [c EXCEPT !.late = TRUE] \in OpenCall
                 /\ \A s \in Carried :
                       /\ c.ask \notin {"renew", "leave"} => [c EXCEPT !.with = s] \in OpenCall
                       /\ [c EXCEPT !.ask = "enter", !.with = s] \in OpenCall
                       /\ \A got \in User : [c EXCEPT !.ask = "place", !.with = s, !.got = got] \in OpenCall
<1>0. Carried \subseteq SessionId \cup {None, Awaited}
  BY DEF Carried
<1>1. \A ask \in Ask \ {"login", "place", "identify", "renew"}, s \in DOMAIN owner \cup {None} :
          Sent(ask, s) \in OpenCall
  <2>1. Awaited \notin DOMAIN owner \cup {None}
    BY SessionAssumption DEF SessionId, Awaited
  <2>2. QED
    BY <2>1 DEF OpenCall, Carried, Call, Sent
<1>2. \A s \in DOMAIN owner : Sent("renew", s) \in OpenCall
  BY SessionAssumption DEF OpenCall, Call, Ask, Sent, Carried
<1>3. \A ask \in {"login", "identify"}, s \in Carried, got \in User :
          [Sent(ask, s) EXCEPT !.got = got] \in OpenCall
  BY <1>0, UserTypes DEF OpenCall, Call, Ask, Sent
<1>4. ASSUME NEW c \in OpenCall
      PROVE  /\ c.with \in Carried /\ c.got \in User \cup {None}
             /\ c.ask \in {"login", "place", "identify"} => c.got \in User
             /\ c.ask = "renew" => c.with \in DOMAIN owner
             /\ [c EXCEPT !.late = TRUE] \in OpenCall
             /\ \A s \in Carried :
                   /\ c.ask \notin {"renew", "leave"} => [c EXCEPT !.with = s] \in OpenCall
                   /\ [c EXCEPT !.ask = "enter", !.with = s] \in OpenCall
                   /\ \A got \in User : [c EXCEPT !.ask = "place", !.with = s, !.got = got] \in OpenCall
  <2>1. /\ c \in Call /\ c.with \in Carried
        /\ c.ask \in {"login", "place", "identify"} => c.got # None
        /\ c.ask = "renew" => c.with \in DOMAIN owner
    BY DEF OpenCall
  <2>2. c.got \in User \cup {None} /\ (c.ask \in {"login", "place", "identify"} => c.got \in User)
    BY <2>1 DEF Call
  <2>3. [c EXCEPT !.late = TRUE] \in OpenCall
    BY <2>1 DEF OpenCall, Call
  <2>4. \A s \in Carried : c.ask \notin {"renew", "leave"} => [c EXCEPT !.with = s] \in OpenCall
    BY <1>0, <2>1 DEF OpenCall, Call
  <2>5. \A s \in Carried : [c EXCEPT !.ask = "enter", !.with = s] \in OpenCall
    BY <1>0, <2>1 DEF OpenCall, Call, Ask
  <2>6. \A s \in Carried, got \in User : [c EXCEPT !.ask = "place", !.with = s, !.got = got] \in OpenCall
    BY <1>0, <2>1, UserTypes DEF OpenCall, Call, Ask
  <2>7. QED
    BY ONLY <2>1, <2>2, <2>3, <2>4, <2>5, <2>6
<1>5. QED
  BY ONLY <1>1, <1>2, <1>3, <1>4

\* The calls that have gone out carry a session or none.
LEMMA OutTypes ==
    ASSUME NEW t \in Tab, calls[t] \subseteq OpenCall, NEW ask, NEW c \in Out(t, ask)
    PROVE  c \in calls[t] /\ c \in OpenCall /\ c.ask = ask /\ c.with \in DOMAIN owner \cup {None}
  BY DEF Out, OpenCall, Carried

\* The user is asked for again in the session the tab holds.
LEMMA RefreshTypes ==
    ASSUME NEW t \in Tab, DOMAIN owner \subseteq SessionId, memory[t] \in DOMAIN owner \cup {None},
           calls[t] \subseteq OpenCall
    PROVE  Refreshing(t) \subseteq OpenCall
<1>1. Sent("refresh", memory[t]) \in OpenCall
  BY CallTypes DEF Ask, Carried
<1>2. [Sent("refresh", memory[t]) EXCEPT !.late = (user[t] = None)] \in OpenCall
  BY <1>1 DEF OpenCall, Call, Sent
<1>3. QED
  BY <1>2 DEF Refreshing

\* A row is a user, of the account whose session asked for it.
LEMMA AnswerTypes ==
    ASSUME SessionTypeOK, NEW s \in DOMAIN owner
    PROVE  Row(s) \in User /\ Nobody(s) \in User /\ Row(s).of = owner[s] /\ Nobody(s).of = owner[s]
<1>1. owner[s] \in Account
  BY DEF SessionTypeOK
<1>2. photo[owner[s]] \in Photo \cup {None}
  BY <1>1 DEF SessionTypeOK
<1>3. QED
  BY <1>1, <1>2 DEF Row, Nobody, User

\* An answer changes nothing of the accounts but, where it is lost, the count of losses.
LEMMA LoseTypes ==
    ASSUME TutorAccountsTypeOK, UNCHANGED <<standing, tutorOf, uploader, removalVars>>,
           Lose \/ UNCHANGED lost
    PROVE  TutorAccountsTypeOK'
  BY TutorAccountsAssumption DEF TutorAccountsTypeOK, removalVars, Lose

\* A tab's requests about its session keep the types.
LEMMA EnterTypes ==
    ASSUME TutorAccountsTypeOK, SessionTypeOK, CallInv, NEW t \in Tab,
           Load(t) \/ Restore(t) \/ Enter(t)
    PROVE  TutorAccountsTypeOK' /\ SessionTypeOK' /\ CallInv'
<1>a. /\ owner \in Seq(Account) /\ DOMAIN owner \subseteq SessionId
      /\ ended \subseteq DOMAIN owner /\ stored \in DOMAIN owner \cup {None}
      /\ photo \in [Account -> Photo \cup {None}]
  BY DEF SessionTypeOK
<1>b. /\ memory \in [Tab -> DOMAIN owner \cup {None}]
      /\ lapsed \in [Tab -> DOMAIN owner \cup {None}] /\ user \in [Tab -> User \cup {None}]
      /\ me \in [Tab -> Me \cup {None}] /\ checking \in [Tab -> BOOLEAN]
      /\ refused \in [Tab -> BOOLEAN] /\ mixed \in [Tab -> BOOLEAN]
  BY DEF SessionTypeOK
<1>c. calls \in [Tab -> SUBSET OpenCall] /\ \A c \in calls[t] : c \in OpenCall
  BY DEF CallInv
<1>d. (DOMAIN owner \subseteq DOMAIN owner' /\ CallInv') => calls' \in [Tab -> SUBSET Call]
  BY DEF CallInv, OpenCall, Carried
<1>e. ASSUME NEW ask, NEW c \in Out(t, ask)
      PROVE  c \in calls[t] /\ c \in OpenCall /\ c.ask = ask /\ c.with \in DOMAIN owner \cup {None}
  BY <1>c, OutTypes
<1>f. /\ Token(t, memory[t]) \in Carried /\ memory[t] \in Carried
      /\ \A n \in DOMAIN owner : n \in Carried
  BY <1>b DEF Carried, Token
<1>1. CASE Load(t)
  <2>1. CallInv'
    <3>1. Restoring(stored) \subseteq OpenCall
      <4>1. Sent("restore", stored) \in OpenCall
        BY <1>a, CallTypes DEF Ask
      <4>2. QED
        BY <4>1 DEF Restoring
    <3>2. OpenCall' = OpenCall
      BY <1>1 DEF Load, OpenCall, Carried
    <3>3. QED
      BY <1>1, <1>c, <3>1, <3>2 DEF Load, CallInv
  <2>2. TutorAccountsTypeOK'
    BY <1>1, LoseTypes DEF Load, tutorVars
  <2>3. ended' \subseteq DOMAIN owner
    <3>1. \A c \in calls[t] : c.ask \in {"leave", "renew"} => c.with \in DOMAIN owner \cup {None}
      BY <1>c DEF OpenCall, Carried
    <3>2. QED
      BY <1>1, <1>a, <3>1 DEF Load
  <2>4. QED
    BY <1>1, <1>a, <1>b, <1>d, <2>1, <2>2, <2>3 DEF Load, SessionTypeOK
<1>2. CASE RestoreUser(t)
  <2>1. TutorAccountsTypeOK'
    BY <1>2, LoseTypes DEF RestoreUser, Discard
  <2>2. PICK c \in Out(t, "restore") : RestoreUser(t)!1!(c)
    BY <1>2 DEF RestoreUser
  <2>3. CallInv'
    <3>1. [c EXCEPT !.ask = "place", !.with = Token(t, memory[t]), !.got = Row(c.with)] \in OpenCall
          \/ ~MayAnswer(c.with)
      BY <1>a, <1>e, <1>f, CallTypes, AnswerTypes DEF MayAnswer
    <3>2. OpenCall' = OpenCall
      BY <1>2 DEF RestoreUser, serverVars, OpenCall, Carried
    <3>3. QED
      BY <2>2, <1>c, <3>1, <3>2 DEF Discard, Over, CallInv
  <2>4. QED
    BY <1>2, <1>a, <1>b, <1>d, <2>1, <2>3 DEF RestoreUser, Discard, Mix, Hold, serverVars, SessionTypeOK
<1>3. CASE RestoreIdentity(t)
  <2>1. TutorAccountsTypeOK'
    BY <1>3, LoseTypes DEF RestoreIdentity, Discard, Placed
  <2>2. CallInv'
    BY <1>3, <1>c DEF RestoreIdentity, Discard, Over, CallInv, OpenCall, Carried, serverVars
  <2>3. user' \in [Tab -> User \cup {None}] /\ me' \in [Tab -> Me \cup {None}]
    <3>1. PICK c \in Out(t, "place") : RestoreIdentity(t)!1!(c)
      BY <1>3 DEF RestoreIdentity
    <3>2. c.got \in User
      BY <1>a, <1>e, CallTypes
    <3>3. CASE Discard(t, c)
      BY <3>3, <1>b DEF Discard
    <3>4. CASE \E answer \in Me : user' = [user EXCEPT ![t] = c.got] /\ me' = [me EXCEPT ![t] = answer]
      BY <3>4, <3>2, <1>b
    <3>5. QED
      BY <3>1, <3>3, <3>4
  <2>4. QED
    BY <1>3, <1>a, <1>b, <1>d, <2>1, <2>2, <2>3
       DEF RestoreIdentity, Discard, Mix, Hold, serverVars, SessionTypeOK
<1>4. CASE Submit(t)
  <2>1. TutorAccountsTypeOK'
    BY <1>4, LoseTypes DEF Submit, tutorVars
  <2>2. \A a \in Present : [Sent("login", None) EXCEPT !.got = As(a)] \in OpenCall
    BY <1>a, CallTypes DEF User, Present, As, Carried
  <2>3. OpenCall' = OpenCall
    BY <1>4 DEF Submit, serverVars, OpenCall, Carried
  <2>4. Overtaken(calls[t]) \subseteq OpenCall
    BY <1>a, <1>c, CallTypes DEF Overtaken
  <2>5. CallInv'
    BY <1>4, <1>c, <2>2, <2>3, <2>4 DEF Submit, CallInv
  <2>6. QED
    BY <1>4, <1>a, <1>b, <1>d, <2>1, <2>5 DEF Submit, Hold, serverVars, SessionTypeOK
<1>5. CASE SignIn(t)
  <2>1. TutorAccountsTypeOK'
    BY <1>5, LoseTypes DEF SignIn
  <2>2. PICK c \in calls[t] : SignIn(t)!1!(c)
    BY <1>5 DEF SignIn
  <2>3. CASE Over(t, c, {}) /\ UNCHANGED <<owner, stored, memory, lapsed, refused, mixed>>
    <3>1. CallInv'
      BY <2>2, <2>3, <1>a, <1>c DEF Over, CallInv, OpenCall, Carried
    <3>2. QED
      BY <1>5, <2>2, <2>3, <1>a, <1>b, <1>d, <2>1, <3>1 DEF SignIn, SessionTypeOK
  <2>4. CASE /\ Len(owner) < MaxSessions /\ owner' = Append(owner, c.got.of)
             /\ Hold(t, Len(owner) + 1)
             /\ lapsed' = [lapsed EXCEPT ![t] = None]
             /\ refused' = [refused EXCEPT ![t] = FALSE]
             /\ mixed' = [mixed EXCEPT ![t] = @ \/ user[t] # None]
             /\ calls' = [calls EXCEPT ![t] = Overtaken(@ \ {c})
                    \cup {[Sent(AsksFirst, Token(t, Len(owner) + 1)) EXCEPT !.got = c.got]}]
    <3>1. c.got \in User /\ c.got.of \in Account
      BY <1>a, <1>c, <2>2, CallTypes DEF User
    <3>2. owner' \in Seq(Account) /\ DOMAIN owner' = DOMAIN owner \cup {Len(owner) + 1}
      BY <1>a, <2>4, <3>1
    <3>3. DOMAIN owner' \subseteq SessionId
      BY <1>a, <2>4, <3>2, SessionAssumption DEF SessionId
    <3>4. CallInv'
      <4> DEFINE d == [Sent("identify", Token(t, Len(owner) + 1)) EXCEPT !.got = c.got]
      <4>1. OpenCall \subseteq OpenCall'
        BY <3>2 DEF OpenCall, Carried
      <4>2. d \in OpenCall'
        BY <3>1, <3>2, <3>3, UserTypes DEF OpenCall, Carried, Token, Sent, Call, Ask
      <4>3. Overtaken(calls[t] \ {c}) \subseteq OpenCall
        BY <1>a, <1>c, CallTypes DEF Overtaken
      <4>4. calls' = [calls EXCEPT ![t] = Overtaken(@ \ {c}) \cup {d}]
        BY <2>4 DEF AsksFirst
      <4>5. QED
        BY <1>c, <4>1, <4>2, <4>3, <4>4 DEF CallInv
    <3>5. stored' = Len(owner) + 1 /\ memory' = [memory EXCEPT ![t] = Len(owner) + 1]
      BY <2>4 DEF Hold
    <3>6. QED
      BY <1>5, <2>2, <2>4, <1>a, <1>b, <1>d, <2>1, <3>2, <3>3, <3>4, <3>5 DEF SignIn, SessionTypeOK
  <2>5. QED
    BY <2>2, <2>3, <2>4
<1>6. CASE LoginIdentity(t)
  <2>1. TutorAccountsTypeOK'
    BY <1>6, LoseTypes DEF LoginIdentity, Placed
  <2>2. \A c \in calls[t] : [c EXCEPT !.ask = "enter", !.with = Token(t, memory[t])] \in OpenCall
    BY <1>a, <1>c, <1>f, CallTypes
  <2>3. CallInv'
    <3>1. OpenCall' = OpenCall
      BY <1>6 DEF LoginIdentity, serverVars, OpenCall, Carried
    <3>2. PICK c \in Out(t, "identify") : LoginIdentity(t)!1!(c)
      BY <1>6 DEF LoginIdentity
    <3>3. \E next \in SUBSET OpenCall : calls' = [calls EXCEPT ![t] = (@ \ {c}) \cup next]
      <4>1. c \in calls[t]
        BY <1>e
      <4>2. QED
        BY <3>2, <4>1, <2>2 DEF Over
    <3>4. QED
      BY <3>1, <3>3, <1>c DEF CallInv
  <2>4. QED
    BY <1>6, <1>a, <1>b, <1>d, <2>1, <2>3 DEF LoginIdentity, Mix, Hold, serverVars, SessionTypeOK
<1>7. CASE LoginUser(t)
  <2>1. TutorAccountsTypeOK'
    BY <1>7, LoseTypes DEF LoginUser, ShowUser
  <2>2. CallInv'
    BY <1>7, <1>c DEF LoginUser, ShowUser, Over, CallInv, OpenCall, Carried, serverVars
  <2>3. user' \in [Tab -> User \cup {None}]
    BY <1>7, <1>b, <1>e, AnswerTypes DEF LoginUser, ShowUser, MayAnswer, MayBeNobody
  <2>4. QED
    BY <1>7, <1>a, <1>b, <1>d, <2>1, <2>2, <2>3 DEF LoginUser, ShowUser, Mix, serverVars, SessionTypeOK
<1>8. QED
  BY <1>1, <1>2, <1>3, <1>4, <1>5, <1>6, <1>7 DEF Restore, Enter

\* So do those it sends while it is signed in.
LEMMA LeaveTypes ==
    ASSUME TutorAccountsTypeOK, SessionTypeOK, CallInv, NEW t \in Tab,
           Leave(t) \/ Renew(t) \/ Renewed(t) \/ Refresh(t)
    PROVE  TutorAccountsTypeOK' /\ SessionTypeOK' /\ CallInv'
<1>a. /\ owner \in Seq(Account) /\ DOMAIN owner \subseteq SessionId
      /\ ended \subseteq DOMAIN owner /\ stored \in DOMAIN owner \cup {None}
      /\ photo \in [Account -> Photo \cup {None}]
  BY DEF SessionTypeOK
<1>b. /\ memory \in [Tab -> DOMAIN owner \cup {None}]
      /\ lapsed \in [Tab -> DOMAIN owner \cup {None}] /\ user \in [Tab -> User \cup {None}]
      /\ me \in [Tab -> Me \cup {None}] /\ checking \in [Tab -> BOOLEAN]
      /\ refused \in [Tab -> BOOLEAN] /\ mixed \in [Tab -> BOOLEAN]
  BY DEF SessionTypeOK
<1>c. calls \in [Tab -> SUBSET OpenCall] /\ \A c \in calls[t] : c \in OpenCall
  BY DEF CallInv
<1>d. (DOMAIN owner \subseteq DOMAIN owner' /\ CallInv') => calls' \in [Tab -> SUBSET Call]
  BY DEF CallInv, OpenCall, Carried
<1>e. ASSUME NEW ask, NEW c \in Out(t, ask)
      PROVE  c \in calls[t] /\ c \in OpenCall /\ c.ask = ask /\ c.with \in DOMAIN owner \cup {None}
  BY <1>c, OutTypes
<1>f. /\ Token(t, memory[t]) \in Carried /\ memory[t] \in Carried
      /\ \A n \in DOMAIN owner : n \in Carried
  BY <1>b DEF Carried, Token
<1>1. CASE SignOut(t)
  <2>1. TutorAccountsTypeOK'
    BY <1>1, LoseTypes DEF SignOut, tutorVars
  <2>2. Sent("leave", memory[t]) \in OpenCall
    BY <1>a, <1>b, CallTypes DEF Ask
  <2>3. OpenCall' = OpenCall
    BY <1>1 DEF SignOut, serverVars, OpenCall, Carried
  <2>4. CallInv'
    BY <1>1, <1>c, <2>2, <2>3 DEF SignOut, CallInv
  <2>5. QED
    BY <1>1, <1>a, <1>b, <1>d, <2>1, <2>4 DEF SignOut, serverVars, SessionTypeOK
<1>2. CASE SignedOut(t)
  <2>1. TutorAccountsTypeOK'
    BY <1>2, LoseTypes DEF SignedOut
  <2>2. PICK c \in calls[t] : SignedOut(t)!1!(c)
    BY <1>2 DEF SignedOut
  <2>3. CallInv'
    <3>1. OpenCall' = OpenCall
      BY <1>2 DEF SignedOut, OpenCall, Carried
    <3>2. Overtaken(calls[t] \ {c}) \subseteq OpenCall
      BY <1>a, <1>c, CallTypes DEF Overtaken
    <3>3. QED
      BY <2>2, <1>c, <3>1, <3>2 DEF CallInv
  <2>4. ended' \subseteq DOMAIN owner
    <3>1. c.with \in DOMAIN owner \cup {None}
      BY <1>c, <2>2 DEF OpenCall, Carried
    <3>2. ended' = ended \cup ({c.with} \ {None}) \/ ended' = ended
      BY <2>2
    <3>3. QED
      BY <3>1, <3>2, <1>a
  <2>5. QED
    BY <1>2, <1>a, <1>b, <1>d, <2>1, <2>3, <2>4 DEF SignedOut, Hold, SessionTypeOK
<1>3. CASE Renew(t)
  <2>1. TutorAccountsTypeOK'
    BY <1>3, LoseTypes DEF Renew, tutorVars
  <2>2. memory[t] \in DOMAIN owner
    BY <1>3, <1>b DEF Renew
  <2>3. PICK waiting \in SUBSET {c \in calls[t] : c.ask # "leave" /\ c.with = memory[t]} :
            calls' = [calls EXCEPT ![t] = (@ \ waiting)
                         \cup {[c EXCEPT !.with = Awaited] : c \in waiting} \cup {Sent("renew", memory[t])}]
    BY <1>3 DEF Renew
  <2>4. \A c \in waiting : [c EXCEPT !.with = Awaited] \in OpenCall
    <3>1. \A c \in waiting : c.ask \notin {"renew", "leave"}
      BY <1>3, <2>3 DEF Renew, Renewing, Asking
    <3>2. Awaited \in Carried
      BY DEF Carried
    <3>3. QED
      BY <1>a, <1>c, <2>3, <3>1, <3>2, CallTypes
  <2>5. Sent("renew", memory[t]) \in OpenCall
    BY <1>a, <2>2, CallTypes
  <2>6. OpenCall' = OpenCall
    BY <1>3 DEF Renew, serverVars, OpenCall, Carried
  <2>7. CallInv'
    BY <1>c, <2>3, <2>4, <2>5, <2>6 DEF CallInv
  <2>8. QED
    BY <1>3, <1>a, <1>b, <1>d, <2>1, <2>2, <2>7 DEF Renew, Hold, serverVars, SessionTypeOK
<1>4. CASE Renewed(t)
  <2>1. TutorAccountsTypeOK'
    BY <1>4, LoseTypes DEF Renewed
  <2>2. PICK c \in Out(t, "renew") : Renewed(t)!1!(c)
    BY <1>4 DEF Renewed
  <2>3. c \in calls[t] /\ c.with \in DOMAIN owner
    BY <1>e DEF OpenCall
  <2>4. ASSUME OpenCall \subseteq OpenCall', NEW s \in Carried', DOMAIN owner' \subseteq SessionId,
               calls' = [calls EXCEPT ![t] = Resumed(@ \ {c}, s)]
        PROVE  CallInv'
    <3>1. \A d \in OpenCall : d.with = Awaited => d.ask \notin {"renew", "leave"}
      BY <1>a DEF OpenCall, SessionId, Awaited
    <3>2. \A d \in OpenCall : d.with = Awaited => [d EXCEPT !.with = s] \in OpenCall'
      BY <3>1, <2>4 DEF OpenCall, Carried, Call, Awaited
    <3>3. Resumed(calls[t] \ {c}, s) \subseteq OpenCall'
      BY <1>c, <2>4, <3>2 DEF Resumed
    <3>4. QED
      BY <1>c, <2>4, <3>3 DEF CallInv
  <2>5. CASE /\ Len(owner) < MaxSessions /\ owner' = Append(owner, owner[c.with])
             /\ ended' = ended \cup {c.with}
             /\ Hold(t, Len(owner) + 1)
             /\ lapsed' = [lapsed EXCEPT ![t] = None]
             /\ calls' = [calls EXCEPT ![t] = Resumed(@ \ {c}, Len(owner) + 1)]
             /\ Mix(t, c)
    <3>1. owner' \in Seq(Account) /\ DOMAIN owner' = DOMAIN owner \cup {Len(owner) + 1}
      BY <1>a, <2>3, <2>5
    <3>2. DOMAIN owner' \subseteq SessionId
      BY <1>a, <2>5, <3>1, SessionAssumption DEF SessionId
    <3>3. CallInv'
      BY <2>4, <2>5, <3>1, <3>2 DEF OpenCall, Carried
    <3>4. stored' = Len(owner) + 1 /\ memory' = [memory EXCEPT ![t] = Len(owner) + 1]
      BY <2>5 DEF Hold
    <3>5. QED
      BY <1>4, <2>3, <2>5, <1>a, <1>b, <1>d, <2>1, <3>1, <3>2, <3>3, <3>4 DEF Renewed, Mix, SessionTypeOK
  <2>6. CASE /\ ended' \in {ended, ended \cup {c.with}}
             /\ calls' = [calls EXCEPT ![t] = Resumed(@ \ {c}, memory[t])]
             /\ UNCHANGED <<owner, stored, memory, lapsed, mixed>>
    <3>1. CallInv'
      BY <2>4, <2>6, <1>a, <1>f DEF OpenCall, Carried
    <3>2. QED
      BY <1>4, <2>3, <2>6, <1>a, <1>b, <1>d, <2>1, <3>1 DEF Renewed, SessionTypeOK
  <2>7. QED
    BY <2>2, <2>5, <2>6
<1>5. CASE SaveProfile(t)
  <2>1. TutorAccountsTypeOK'
    BY <1>5, LoseTypes DEF SaveProfile, tutorVars
  <2>2. Refreshing(t) \subseteq OpenCall
    BY <1>a, <1>b, <1>c, RefreshTypes
  <2>3. OpenCall' = OpenCall
    BY <1>5 DEF SaveProfile, serverVars, OpenCall, Carried
  <2>4. CallInv'
    BY <1>5, <1>c, <2>2, <2>3 DEF SaveProfile, CallInv
  <2>5. QED
    BY <1>5, <1>a, <1>b, <1>d, <2>1, <2>4 DEF SaveProfile, serverVars, SessionTypeOK
<1>6. CASE RefreshUser(t)
  <2>1. TutorAccountsTypeOK'
    BY <1>6, LoseTypes DEF RefreshUser, ShowUser
  <2>2. CallInv'
    BY <1>6, <1>c DEF RefreshUser, ShowUser, Over, CallInv, OpenCall, Carried, serverVars
  <2>3. user' \in [Tab -> User \cup {None}]
    BY <1>6, <1>b, <1>e, AnswerTypes DEF RefreshUser, ShowUser, MayAnswer, MayBeNobody
  <2>4. QED
    BY <1>6, <1>a, <1>b, <1>d, <2>1, <2>2, <2>3 DEF RefreshUser, ShowUser, Mix, serverVars, SessionTypeOK
<1>7. QED
  BY <1>1, <1>2, <1>3, <1>4, <1>5, <1>6 DEF Leave, Refresh

\* A change of photo keeps the types, and leaves whose the sessions are.
LEMMA PhotoTypes ==
    ASSUME TypeOK, CallInv, NEW t \in Tab, ChangePhoto(t)
    PROVE  TypeOK' /\ CallInv' /\ UNCHANGED <<owner, memory, user>>
<1>a. /\ TutorAccountsTypeOK /\ SessionTypeOK
      /\ taken \in Nat /\ DOMAIN photos \subseteq Photo /\ photos \in [DOMAIN photos -> Account]
      /\ saving \in [Tab -> Saving] /\ crossed \in BOOLEAN
  BY DEF TypeOK
<1>b. /\ owner \in Seq(Account) /\ DOMAIN owner \subseteq SessionId
      /\ photo \in [Account -> Photo \cup {None}]
      /\ memory \in [Tab -> DOMAIN owner \cup {None}] /\ user \in [Tab -> User \cup {None}]
  BY <1>a DEF SessionTypeOK
<1>c. calls \in [Tab -> SUBSET OpenCall] /\ \A c \in calls[t] : c \in OpenCall
  BY DEF CallInv
<1>d. /\ saving[t].previous \in Photo \cup {None} /\ saving[t].new \in Photo \cup {None}
      /\ saving[t].of \in Account \cup {None} /\ Idle \in Saving
  BY <1>a DEF Saving, Idle
<1>e. MayAnswer(memory[t]) => owner[memory[t]] \in Account
  BY <1>b DEF MayAnswer
<1>1. CASE \E step \in {"uploading", "setting"} : Click(t, step)
  <2>1. PICK step \in {"uploading", "setting"} : Click(t, step)
    BY <1>1
  <2>2. [step |-> step, of |-> user[t].of, previous |-> user[t].photo, new |-> None] \in Saving
    BY <2>1, <1>b DEF Click, User, Saving
  <2>3. saving' \in [Tab -> Saving] /\ UNCHANGED <<sessionVars, taken, photos, crossed>>
    BY <2>1, <2>2, <1>a DEF Click
  <2>4. TutorAccountsTypeOK'
    BY <2>3, <1>a, LoseTypes DEF sessionVars, tutorVars
  <2>5. SessionTypeOK' /\ CallInv'
    BY <2>3, <1>a DEF sessionVars, serverVars, tabVars, SessionTypeOK, CallInv, OpenCall, Carried
  <2>6. QED
    BY <2>3, <2>4, <2>5, <1>a DEF sessionVars, serverVars, tabVars, TypeOK
<1>2. CASE UploadPhoto(t)
  <2>1. TutorAccountsTypeOK'
    BY <1>2, <1>a, LoseTypes DEF UploadPhoto, sessionVars, tutorVars
  <2>2. SessionTypeOK' /\ CallInv' /\ UNCHANGED <<owner, memory, user>>
    BY <1>2, <1>a DEF UploadPhoto, sessionVars, serverVars, tabVars, SessionTypeOK, CallInv, OpenCall, Carried
  <2>3. [saving[t] EXCEPT !.step = "setting", !.new = taken + 1] \in Saving
    BY <1>2, <1>a DEF UploadPhoto, Saving
  <2>4. saving' \in [Tab -> Saving]
    BY <1>2, <2>3, <1>a DEF UploadPhoto
  <2>5. DOMAIN photos' \subseteq Photo /\ photos' \in [DOMAIN photos' -> Account]
    BY <1>2, <1>a, <1>e DEF UploadPhoto
  <2>6. taken' \in Nat /\ crossed' \in BOOLEAN
    BY <1>2, <1>a DEF UploadPhoto, Cross
  <2>7. QED
    BY <2>1, <2>2, <2>4, <2>5, <2>6 DEF TypeOK
<1>3. CASE SetPhoto(t)
  <2>1. TutorAccountsTypeOK'
    BY <1>3, <1>a, LoseTypes DEF SetPhoto, tutorVars
  <2>2. photo' \in [Account -> Photo \cup {None}]
    BY <1>3, <1>b, <1>d DEF SetPhoto
  <2>3. SessionTypeOK' /\ CallInv' /\ UNCHANGED <<owner, memory, user>>
    BY <1>3, <2>2, <1>a DEF SetPhoto, tabVars, SessionTypeOK, CallInv, OpenCall, Carried
  <2>4. saving' \in [Tab -> Saving]
    BY <1>3, <1>a DEF SetPhoto, Saving
  <2>5. QED
    BY <1>3, <2>1, <2>3, <2>4, <1>a DEF SetPhoto, Cross, TypeOK
<1>4. CASE DiscardPhoto(t)
  <2>1. TutorAccountsTypeOK'
    BY <1>4, <1>a, LoseTypes DEF DiscardPhoto
  <2>2. OpenCall' = OpenCall
    BY <1>4 DEF DiscardPhoto, serverVars, OpenCall, Carried
  <2>3. CallInv'
    BY <1>4, <2>2, <1>b, <1>c, RefreshTypes DEF DiscardPhoto, CallInv
  <2>4. SessionTypeOK' /\ UNCHANGED <<owner, memory, user>>
    BY <1>4, <2>3, <1>a DEF DiscardPhoto, serverVars, SessionTypeOK, CallInv, OpenCall, Carried
  <2>5. saving' \in [Tab -> Saving]
    BY <1>4, <1>a, <1>d DEF DiscardPhoto
  <2>6. DOMAIN photos' \subseteq Photo /\ photos' \in [DOMAIN photos' -> Account]
    BY <1>4, <1>a DEF DiscardPhoto, Without
  <2>7. taken' \in Nat /\ crossed' \in BOOLEAN
    BY <1>4, <1>a DEF DiscardPhoto, Cross
  <2>8. QED
    BY <2>1, <2>3, <2>4, <2>5, <2>6, <2>7 DEF TypeOK
<1>5. CASE PhotoFails(t)
  <2>1. TutorAccountsTypeOK'
    BY <1>5, <1>a, LoseTypes DEF PhotoFails
  <2>2. photo' \in [Account -> Photo \cup {None}]
    BY <1>5, <1>b, <1>d DEF PhotoFails
  <2>3. SessionTypeOK' /\ CallInv' /\ UNCHANGED <<owner, memory, user>>
    BY <1>5, <2>2, <1>a DEF PhotoFails, tabVars, SessionTypeOK, CallInv, OpenCall, Carried
  <2>4. saving' \in [Tab -> Saving] /\ crossed' \in BOOLEAN
    BY <1>5, <1>a, <1>d DEF PhotoFails, Cross
  <2>5. QED
    BY <1>5, <2>1, <2>3, <2>4, <1>a DEF PhotoFails, TypeOK
<1>6. QED
  BY <1>1, <1>2, <1>3, <1>4, <1>5 DEF ChangePhoto, ChoosePhoto, RemovePhoto

\* What the session of a tab does, and what its change of photo does, are the two halves of
\* what a tab does.
LEMMA BrowseTypes ==
    ASSUME TypeOK, CallInv, NEW t \in Tab, Browse(t)
    PROVE  TypeOK' /\ CallInv'
<1>1. CASE Reload(t)
  <2>1. TutorAccountsTypeOK' /\ SessionTypeOK' /\ CallInv'
    BY <1>1, EnterTypes DEF Reload, TypeOK
  <2>2. QED
    BY <1>1, <2>1 DEF Reload, TypeOK, Saving, Idle
<1>2. CASE (Restore(t) \/ Enter(t) \/ Leave(t) \/ Renew(t) \/ Renewed(t) \/ Refresh(t)) /\ UNCHANGED photoVars
  <2>1. TutorAccountsTypeOK' /\ SessionTypeOK' /\ CallInv'
    BY <1>2, EnterTypes, LeaveTypes DEF TypeOK
  <2>2. QED
    BY <1>2, <2>1 DEF photoVars, TypeOK
<1>3. CASE ChangePhoto(t)
  BY <1>3, PhotoTypes
<1>4. QED
  BY <1>1, <1>2, <1>3 DEF Browse

\* The types: every session named is one there was, every file has an uploader there is or
\* nobody, and a request answered with a user was answered one.
THEOREM TypeCorrect == Spec => [](TypeOK /\ CallInv)
<1>1. Init => TypeOK /\ CallInv
  <2>1. ASSUME Init PROVE CallInv
    <3>1. DOMAIN owner \subseteq SessionId
      BY <2>1, InitTypes DEF TypeOK, SessionTypeOK
    <3>2. stored \in DOMAIN owner \cup {None} /\ calls = [t \in Tab |-> Restoring(stored)]
      BY <2>1 DEF Init, SessionInit
    <3>3. Restoring(stored) \subseteq OpenCall
      BY <3>1, <3>2, CallTypes DEF Restoring, Ask, Carried
    <3>4. QED
      BY <3>2, <3>3 DEF CallInv
  <2>2. QED
    BY <2>1, InitTypes
<1>2. TypeOK /\ CallInv /\ [Next]_vars => (TypeOK /\ CallInv)'
  <2> SUFFICES ASSUME TypeOK, CallInv, [Next]_vars PROVE TypeOK' /\ CallInv'
    OBVIOUS
  <2>1. CASE Manage
    <3>1. TutorAccountsTypeOK'
      BY <2>1, ManageTypes DEF Manage, TypeOK
    <3>2. SessionTypeOK' /\ CallInv'
      BY <2>1 DEF Manage, TypeOK, serverVars, tabVars, SessionTypeOK, CallInv, OpenCall, Carried
    <3>3. QED
      BY <2>1, <3>1, <3>2 DEF Manage, photoVars, TypeOK
  <2>2. CASE \E t \in Tab : Browse(t)
    BY <2>2, BrowseTypes
  <2>3. CASE UNCHANGED vars
    <3>1. SessionTypeOK' /\ CallInv'
      BY <2>3 DEF TypeOK, vars, sessionVars, serverVars, tabVars, SessionTypeOK, CallInv, OpenCall, Carried
    <3>2. TutorAccountsTypeOK'
      BY <2>3, LoseTypes DEF TypeOK, vars, sessionVars, tutorVars
    <3>3. QED
      BY <2>3, <3>1, <3>2 DEF vars, photoVars, TypeOK
  <2>4. QED
    BY <2>1, <2>2, <2>3 DEF Next
<1>3. QED
  BY <1>1, <1>2, PTL DEF Spec

-------------------------------------------------------------------------------
\* What a tab does is nothing to a removal.
LEMMA BrowseLeavesRemovals ==
    ASSUME NEW t \in Tab, Browse(t)
    PROVE  UNCHANGED <<tutorOf, uploader, removalVars>>
<1>1. CASE Reload(t)
  BY <1>1 DEF Reload, Load, tutorVars
<1>2. CASE Restore(t)
  BY <1>2 DEF Restore, RestoreUser, RestoreIdentity
<1>3. CASE Enter(t)
  BY <1>3 DEF Enter, Submit, SignIn, LoginIdentity, LoginUser, ShowUser, tutorVars
<1>4. CASE Leave(t)
  BY <1>4 DEF Leave, SignOut, SignedOut, tutorVars
<1>5. CASE Renew(t) \/ Renewed(t)
  BY <1>5 DEF Renew, Renewed, tutorVars
<1>6. CASE Refresh(t)
  BY <1>6 DEF Refresh, SaveProfile, RefreshUser, ShowUser, tutorVars
<1>7. CASE ChangePhoto(t)
  BY <1>7 DEF ChangePhoto, ChoosePhoto, RemovePhoto, Click, UploadPhoto, SetPhoto, DiscardPhoto,
              PhotoFails, sessionVars, tutorVars
<1>8. QED
  BY <1>1, <1>2, <1>3, <1>4, <1>5, <1>6, <1>7 DEF Browse

\* While a removal goes on undisturbed its tutor has no student, and once it has listed
\* their files no file but those it has still to hand over.
LEMMA RemovalStep ==
    ASSUME TypeOK, RemovalInv, Manage
    PROVE  RemovalInv'
<1> USE TutorAccountsAssumption DEF StudentsOf, FilesOf
<1>a. /\ DOMAIN tutorOf \subseteq Student /\ tutorOf \in [DOMAIN tutorOf -> Tutor \cup {None}]
      /\ DOMAIN uploader \subseteq Upload /\ uploader \in [DOMAIN uploader -> Account \cup {None}]
      /\ stage \in [Removal -> {"idle", "counted", "releasing"}]
      /\ target \in [Removal -> Tutor \cup {None}]
      /\ listed \in [Removal -> SUBSET Upload]
      /\ disturbed \in [Removal -> BOOLEAN]
      /\ Keeper \notin Tutor /\ None \notin Tutor
  BY DEF TypeOK, TutorAccountsTypeOK, Tutor
<1> SUFFICES ASSUME NEW r \in Removal, stage'[r] # "idle"
             PROVE  /\ target'[r] # None
                    /\ ~disturbed'[r] =>
                          /\ StudentsOf(target[r])' = {}
                          /\ stage'[r] = "releasing" => FilesOf(target[r])' \subseteq listed'[r]
  BY DEF RemovalInv
<1>b. stage[r] # "idle" => /\ target[r] # None
                           /\ ~disturbed[r] =>
                                 /\ StudentsOf(target[r]) = {}
                                 /\ stage[r] = "releasing" => FilesOf(target[r]) \subseteq listed[r]
  BY DEF RemovalInv
<1> DEFINE Kept == /\ target'[r] # None
                   /\ ~disturbed'[r] =>
                         /\ StudentsOf(target[r])' = {}
                         /\ stage'[r] = "releasing" => FilesOf(target[r])' \subseteq listed'[r]
<1>1. CASE DropFile
  BY <1>1, <1>a, <1>b DEF DropFile, removalVars
<1>2. CASE HandOver
  <2>1. PICK s \in DOMAIN tutorOf, a \in (Tutor \cap Present) \cup {None} :
            tutorOf' = [tutorOf EXCEPT ![s] = a] /\ Given(a) /\ UNCHANGED <<uploader, stage, target, listed>>
    BY <1>2 DEF HandOver
  <2>2. target[r] # a => StudentsOf(target[r])' \subseteq StudentsOf(target[r])
    BY <2>1, <1>a
  <2>3. disturbed'[r] = (disturbed[r] \/ target[r] = a)
    BY <2>1 DEF Given
  <2>4. QED
    BY <2>1, <2>2, <2>3, <1>b
<1>3. CASE Create \/ SetStatus
  BY <1>3, <1>a, <1>b DEF Create, SetStatus, removalVars
<1>4. ASSUME NEW a \in Account, AddStudent(a) PROVE Kept
  <2>1. PICK s \in Student \ DOMAIN tutorOf :
            tutorOf' = [other \in DOMAIN tutorOf \cup {s} |-> IF other = s THEN a ELSE tutorOf[other]]
    BY <1>4 DEF AddStudent
  <2>2. target[r] # a => StudentsOf(target[r])' \subseteq StudentsOf(target[r])
    BY <1>4, <2>1 DEF AddStudent
  <2>3. disturbed'[r] = (disturbed[r] \/ target[r] = a)
    BY <1>4 DEF AddStudent, Given
  <2>4. QED
    BY <1>4, <2>2, <2>3, <1>b DEF AddStudent
<1>5. ASSUME NEW a \in Account, AddFile(a) PROVE Kept
  <2>1. PICK f \in Upload \ DOMAIN uploader :
            uploader' = [other \in DOMAIN uploader \cup {f} |-> IF other = f THEN a ELSE uploader[other]]
    BY <1>5 DEF AddFile
  <2>2. target[r] # a => FilesOf(target[r])' \subseteq FilesOf(target[r])
    BY <1>5, <2>1 DEF AddFile
  <2>3. disturbed'[r] = (disturbed[r] \/ target[r] = a)
    BY <1>5 DEF AddFile, Given
  <2>4. QED
    BY <1>5, <2>2, <2>3, <1>b DEF AddFile
<1>6. ASSUME NEW q \in Removal, Count(q) PROVE Kept
  BY <1>6, <1>a, <1>b DEF Count, Removable
<1>7. ASSUME NEW q \in Removal, ListFiles(q) PROVE Kept
  BY <1>7, <1>a, <1>b DEF ListFiles
<1>8. ASSUME NEW q \in Removal, Reassign(q) PROVE Kept
  BY <1>8, <1>a, <1>b DEF Reassign
<1>9. ASSUME NEW q \in Removal, RemovalFails(q) PROVE Kept
  BY <1>9, <1>a, <1>b DEF RemovalFails, End
<1>10. ASSUME NEW q \in Removal, Delete(q) PROVE Kept
  BY <1>10, <1>a, <1>b DEF Delete, End, Forgotten
<1>11. QED
  BY <1>1, <1>2, <1>3, <1>4, <1>5, <1>6, <1>7, <1>8, <1>9, <1>10
     DEF Manage, Administer, Work, Remove

\* Only the deletion of an account that was given something takes a student's tutor or a
\* file's uploader away, but for what the admin does.
LEMMA RemovalLoses ==
    ASSUME TypeOK, RemovalInv, Manage
    PROVE  StudentsKept /\ FilesKept
<1>a. /\ tutorOf \in [DOMAIN tutorOf -> Tutor \cup {None}]
      /\ uploader \in [DOMAIN uploader -> Account \cup {None}]
      /\ listed \in [Removal -> SUBSET Upload] /\ lost \in Nat
      /\ Keeper # None
  BY TutorAccountsAssumption DEF TypeOK, TutorAccountsTypeOK
<1>1. CASE DropFile
  BY <1>1, <1>a DEF DropFile, StudentsKept, FilesKept
<1>2. CASE HandOver
  BY <1>2, <1>a DEF HandOver, StudentsKept, FilesKept
<1>3. CASE Create \/ SetStatus
  BY <1>3 DEF Create, SetStatus, StudentsKept, FilesKept
<1>4. ASSUME NEW a \in Account, AddStudent(a) PROVE StudentsKept /\ FilesKept
  BY <1>4, <1>a DEF AddStudent, StudentsKept, FilesKept
<1>5. ASSUME NEW a \in Account, AddFile(a) PROVE StudentsKept /\ FilesKept
  BY <1>5, <1>a DEF AddFile, StudentsKept, FilesKept
<1>6. ASSUME NEW r \in Removal, Count(r) \/ ListFiles(r) \/ RemovalFails(r)
      PROVE  StudentsKept /\ FilesKept
  BY <1>6 DEF Count, ListFiles, RemovalFails, StudentsKept, FilesKept
<1>7. ASSUME NEW r \in Removal, Reassign(r) PROVE StudentsKept /\ FilesKept
  BY <1>7, <1>a DEF Reassign, Lose, StudentsKept, FilesKept
<1>8. ASSUME NEW r \in Removal, Delete(r) PROVE StudentsKept /\ FilesKept
  <2>1. ~disturbed[r] => StudentsOf(target[r]) = {} /\ FilesOf(target[r]) = {}
    BY <1>8 DEF RemovalInv, Delete
  <2>2. QED
    BY <1>8, <2>1, <1>a DEF Delete, Forgotten, StudentsOf, FilesOf, StudentsKept, FilesKept
<1>9. QED
  BY <1>1, <1>2, <1>3, <1>4, <1>5, <1>6, <1>7, <1>8 DEF Manage, Administer, Work, Remove

\* An empty pair of columns is all that falls to nobody: what a removal that was not
\* disturbed leaves, students and files, has a tutor and an uploader.
THEOREM Removals == Spec => RemovalsLeaveNothing
<1>1. Init => RemovalInv
  BY DEF Init, TutorAccountsInit, RemovalInv
<1>2. TypeOK /\ CallInv /\ RemovalInv /\ [Next]_vars => RemovalInv'
  <2> SUFFICES ASSUME TypeOK, RemovalInv, [Next]_vars PROVE RemovalInv'
    OBVIOUS
  <2>1. CASE Manage
    BY <2>1, RemovalStep
  <2>2. CASE UNCHANGED <<tutorOf, uploader, removalVars>>
    BY <2>2 DEF removalVars, RemovalInv, StudentsOf, FilesOf
  <2>3. QED
    BY <2>1, <2>2, BrowseLeavesRemovals DEF Next, vars, sessionVars, tutorVars
<1>3. TypeOK /\ RemovalInv /\ [Next]_vars => [StudentsKept /\ FilesKept]_tutorVars
  BY RemovalLoses, BrowseLeavesRemovals DEF Next, vars, sessionVars, StudentsKept, FilesKept
<1>4. QED
  BY <1>1, <1>2, <1>3, TypeCorrect, PTL DEF Spec, RemovalsLeaveNothing

-------------------------------------------------------------------------------
\* What becomes of the sessions and the accounts leaves them whose they are, and an account
\* as it may be shown.
Grows ==
    /\ DOMAIN owner \subseteq DOMAIN owner' /\ \A n \in DOMAIN owner : owner'[n] = owner[n]
    /\ \A a \in Account : MayShow(a) \subseteq MayShow(a)'
Still(t) ==
    /\ memory'[t] = memory[t] /\ lapsed'[t] = lapsed[t] /\ user'[t] = user[t] /\ me'[t] = me[t]
    /\ refused'[t] = refused[t] /\ calls'[t] = calls[t] /\ mixed'[t] = mixed[t]

\* A tab that does nothing keeps what it knows.
LEMMA Elsewhere ==
    ASSUME TypeOK, CallInv, NEW t \in Tab, TabInv(t), Grows, Still(t)
    PROVE  TabInv(t)'
<1>a. /\ memory[t] \in DOMAIN owner \cup {None} /\ lapsed[t] \in DOMAIN owner \cup {None}
      /\ user[t] \in User \cup {None} /\ me[t] \in Me \cup {None}
      /\ \A c \in calls[t] : Carries(c) => c.with \in DOMAIN owner
  BY DEF TypeOK, SessionTypeOK, CallInv, OpenCall, Carried, Carries
<1>b. /\ user[t] # None => user[t].of \in Account
      /\ me[t] # None => me[t].of \in Account
  BY <1>a DEF User, Me
<1>c. /\ Held(t)' = Held(t) /\ Held(t) \in DOMAIN owner \cup {None}
      /\ Held(t) # None => owner'[Held(t)] = owner[Held(t)]
  BY <1>a DEF Held, Still, Grows
<1>1. OneWayIn(t)'
  BY DEF TabInv, OneWayIn, Still
<1>2. CallsGo(t)'
  <2>1. ASSUME NEW c \in calls[t], Goes(t, c) PROVE Goes(t, c)'
    BY <2>1, <1>a, <1>b, <1>c DEF Goes, Carries, Still, Grows
  <2>2. QED
    BY <2>1 DEF TabInv, CallsGo, Still
<1>3. Shown(t)'
  BY <1>a, <1>b, <1>c DEF TabInv, Shown, Still, Grows
<1>4. QED
  BY <1>1, <1>2, <1>3 DEF TabInv

\* What a tab does is done in that tab, and to the sessions there are only adds one of an
\* account there is.
LEMMA BrowseGrows ==
    ASSUME TypeOK, CallInv, OwnersThere, NEW t \in Tab, Browse(t)
    PROVE  Grows /\ OwnersThere' /\ \A x \in Tab \ {t} : Still(x)
<1>a. /\ owner \in Seq(Account)
      /\ memory \in [Tab -> DOMAIN owner \cup {None}] /\ user \in [Tab -> User \cup {None}]
      /\ lapsed \in [Tab -> DOMAIN owner \cup {None}]
      /\ me \in [Tab -> Me \cup {None}] /\ refused \in [Tab -> BOOLEAN]
      /\ mixed \in [Tab -> BOOLEAN] /\ calls \in [Tab -> SUBSET Call]
  BY DEF TypeOK, SessionTypeOK
<1>b. (standing' = standing /\ owner' = owner) => Grows /\ OwnersThere'
  BY DEF Grows, MayShow, OwnersThere
<1>c. ASSUME NEW a \in Account, standing[a] # "absent", standing' = standing, owner' = Append(owner, a)
      PROVE  Grows /\ OwnersThere'
  <2>1. /\ DOMAIN owner' = DOMAIN owner \cup {Len(owner) + 1}
        /\ owner'[Len(owner) + 1] = a
        /\ \A n \in DOMAIN owner : owner'[n] = owner[n]
    BY <1>a, <1>c
  <2>2. QED
    BY <1>c, <2>1 DEF Grows, MayShow, OwnersThere
<1>1. CASE Reload(t)
  BY <1>1, <1>a, <1>b DEF Reload, Load, tutorVars, Still
<1>2. CASE RestoreUser(t)
  BY <1>2, <1>a, <1>b DEF RestoreUser, Discard, Mix, Over, Hold, serverVars, Still
<1>3. CASE RestoreIdentity(t)
  BY <1>3, <1>a, <1>b DEF RestoreIdentity, Discard, Mix, Over, Hold, serverVars, Still
<1>4. CASE Submit(t)
  BY <1>4, <1>a, <1>b DEF Submit, Hold, tutorVars, serverVars, Still
<1>5. CASE SignIn(t)
  <2>1. PICK c \in calls[t] : SignIn(t)!1!(c)
    BY <1>5 DEF SignIn
  <2>2. \A x \in Tab \ {t} : Still(x)
    BY <1>5, <2>1, <1>a DEF SignIn, Over, Hold, Still
  <2>3. CASE owner' = owner
    BY <1>5, <2>2, <2>3, <1>b DEF SignIn
  <2>4. CASE standing[c.got.of] = "active" /\ owner' = Append(owner, c.got.of)
    <3>1. c.got.of \in Account
      <4>1. c \in OpenCall /\ c.got \in User
        BY <2>1 DEF CallInv, OpenCall, Call
      <4>2. QED
        BY <4>1 DEF User
    <3>2. QED
      BY <1>5, <2>2, <2>4, <3>1, <1>c DEF SignIn
  <2>5. QED
    BY <2>1, <2>3, <2>4
<1>6. CASE LoginIdentity(t)
  BY <1>6, <1>a, <1>b DEF LoginIdentity, Mix, Over, Hold, serverVars, Still
<1>7. CASE LoginUser(t) \/ RefreshUser(t)
  BY <1>7, <1>a, <1>b DEF LoginUser, RefreshUser, ShowUser, Mix, Over, serverVars, Still
<1>8. CASE SignOut(t) \/ SaveProfile(t)
  BY <1>8, <1>a, <1>b DEF SignOut, SaveProfile, tutorVars, serverVars, Still
<1>9. CASE SignedOut(t)
  BY <1>9, <1>a, <1>b DEF SignedOut, Hold, Still
<1>10. CASE Renew(t)
  BY <1>10, <1>a, <1>b DEF Renew, Hold, tutorVars, serverVars, Still
<1>12. CASE Renewed(t)
  <2>1. PICK c \in Out(t, "renew") : Renewed(t)!1!(c)
    BY <1>12 DEF Renewed
  <2>2. c.with \in DOMAIN owner
    BY DEF Out, CallInv, OpenCall
  <2>3. \A x \in Tab \ {t} : Still(x)
    BY <1>12, <2>1, <1>a DEF Renewed, Hold, Mix, Still
  <2>4. CASE owner' = owner
    BY <1>12, <2>3, <2>4, <1>b DEF Renewed
  <2>5. CASE owner' = Append(owner, owner[c.with])
    <3>1. owner[c.with] \in Account /\ standing[owner[c.with]] # "absent"
      BY <1>a, <2>2 DEF OwnersThere
    <3>2. QED
      BY <1>12, <2>3, <2>5, <3>1, <1>c DEF Renewed
  <2>6. QED
    BY <2>1, <2>4, <2>5
<1>11. CASE ChangePhoto(t)
  BY <1>11, <1>a, <1>b DEF ChangePhoto, ChoosePhoto, RemovePhoto, Click, UploadPhoto, SetPhoto,
         DiscardPhoto, PhotoFails, sessionVars, tutorVars, serverVars, tabVars, Still
<1>13. QED
  BY <1>1, <1>2, <1>3, <1>4, <1>5, <1>6, <1>7, <1>8, <1>9, <1>10, <1>11, <1>12
     DEF Browse, Restore, Enter, Leave, Refresh

\* Nor does anything done about the accounts take from how one may be shown.
LEMMA ManageGrows ==
    ASSUME TypeOK, OwnersThere, Manage
    PROVE  Grows /\ OwnersThere' /\ \A x \in Tab : Still(x)
<1>a. standing \in [Account -> Standing] /\ owner \in Seq(Account)
  BY DEF TypeOK, TutorAccountsTypeOK, SessionTypeOK
<1>1. \A x \in Tab : Still(x)
  BY DEF Manage, tabVars, Still
<1>2. owner' = owner
  BY DEF Manage, serverVars
<1>3. \A a \in Account : /\ standing[a] # "absent" => standing'[a] # "absent"
                         /\ standing[a] = "removed" => standing'[a] = "removed"
  <2>1. CASE UNCHANGED standing
    BY <2>1
  <2>2. CASE Create \/ SetStatus
    BY <2>2, <1>a DEF Create, SetStatus, Present
  <2>3. CASE \E r \in Removal : Delete(r)
    BY <2>3, <1>a DEF Delete, Present
  <2>4. QED
    BY <2>1, <2>2, <2>3 DEF Manage, Administer, Work, Remove, DropFile, HandOver, AddStudent, AddFile,
       Count, ListFiles, Reassign, RemovalFails
<1>4. QED
  BY <1>a, <1>1, <1>2, <1>3 DEF Grows, MayShow, OwnersThere

\* What the app answers of an account that is or was there may be shown of it.
LEMMA PlacedMayShow ==
    ASSUME OwnersThere, TypeOK, NEW c, c.with \in DOMAIN owner \cup {None}, c.got \in User,
           c.with # None => owner[c.with] = c.got.of,
           standing[c.got.of] # "absent", NEW answer \in Me, Placed(c, answer)
    PROVE  answer # None /\ answer.of = c.got.of /\ answer.role \in MayShow(answer.of)
<1>1. c.got.of \in Account /\ standing[c.got.of] \in Standing
  BY DEF TypeOK, TutorAccountsTypeOK, User
<1>2. answer # None
  BY SessionAssumption
<1>3. QED
  BY <1>1, <1>2 DEF Placed, Role, MayShow, Present, Standing

\* A refusal that lands for a tab that nothing mixed up finds nobody shown.
LEMMA DiscardKeeps ==
    ASSUME TypeOK, NEW t \in Tab, TabInv(t), NEW c \in calls[t], c.ask \in Entering,
           Over(t, c, {}), Mix(t, c), Hold(t, None), UNCHANGED <<user, lapsed>>
    PROVE  TabInv(t)'
<1>a. /\ calls'[t] = calls[t] \ {c} /\ mixed'[t] = (mixed[t] \/ c.late) /\ user'[t] = user[t]
      /\ memory'[t] = None /\ lapsed'[t] = lapsed[t]
  BY DEF TypeOK, SessionTypeOK, Over, Mix, Hold
<1>1. OneWayIn(t)'
  BY <1>a DEF TabInv, OneWayIn
<1>2. ~mixed'[t] => /\ user[t] = None
                    /\ \A d \in calls'[t] : ~d.late =>
                          d.ask \notin Entering /\ d.ask # "refresh" /\ (d.ask = "renew" => lapsed[t] = d.with)
  BY <1>a DEF TabInv, OneWayIn, CallsGo, Goes, Entering
<1>3. CallsGo(t)'
  BY <1>a, <1>2 DEF CallsGo, Goes
<1>4. Shown(t)'
  BY <1>a, <1>2 DEF Shown
<1>5. QED
  BY <1>1, <1>3, <1>4 DEF TabInv

\* Whom a tab holds a session of is or was there.
LEMMA HeldThere ==
    ASSUME TypeOK, OwnersThere, NEW t \in Tab, Held(t) # None
    PROVE  Held(t) \in DOMAIN owner /\ owner[Held(t)] \in Account /\ standing[owner[Held(t)]] # "absent"
  BY DEF TypeOK, SessionTypeOK, Held, OwnersThere

\* What a call goes on from stays while the tab holds what it did.
LEMMA GoesStays ==
    ASSUME NEW t \in Tab, UNCHANGED <<owner, standing, memory, lapsed, user, me, refused>>
    PROVE  /\ Held(t)' = Held(t)
           /\ \A c : Goes(t, c)' = Goes(t, c)
           /\ mixed' = mixed => Shown(t)' = Shown(t)
<1>1. Held(t)' = Held(t)
  BY DEF Held
<1>2. QED
  BY <1>1 DEF Goes, Carries, Shown, MayShow

\* A request that ends and changes nothing else, and one sent that says nothing of who is
\* signed in, leave what a tab knows.
LEMMA EndKeeps ==
    ASSUME TypeOK, NEW t \in Tab, TabInv(t), NEW c, Over(t, c, {}),
           UNCHANGED <<owner, standing, memory, lapsed, user, me, refused, mixed>>
    PROVE  TabInv(t)'
<1>a. calls'[t] \subseteq calls[t]
  BY DEF TypeOK, SessionTypeOK, Over
<1>1. QED
  BY <1>a, GoesStays DEF TabInv, OneWayIn, CallsGo

\* or a call sent that goes on from what the tab holds.
LEMMA SendKeeps ==
    ASSUME TypeOK, NEW t \in Tab, TabInv(t), NEW c,
           calls' = [calls EXCEPT ![t] = @ \cup {c}], c.ask \notin Entering \cup {"renew"},
           ~mixed[t] /\ ~c.late => Goes(t, c),
           UNCHANGED <<owner, standing, memory, lapsed, user, me, refused, mixed>>
    PROVE  TabInv(t)'
<1>a. calls'[t] = calls[t] \cup {c}
  BY DEF TypeOK, SessionTypeOK
<1>1. OneWayIn(t)'
  BY <1>a DEF TabInv, OneWayIn
<1>2. CallsGo(t)'
  BY <1>a, GoesStays DEF TabInv, CallsGo
<1>3. QED
  BY <1>1, <1>2, GoesStays DEF TabInv

\* A tab loads anew, and knows nothing but the session stored.
LEMMA LoadKeeps ==
    ASSUME TypeOK, NEW t \in Tab, Load(t)
    PROVE  TabInv(t)'
<1>1. /\ user'[t] = None /\ ~refused'[t] /\ memory'[t] = stored
      /\ calls'[t] = Restoring(stored)
  BY DEF Load, TypeOK, SessionTypeOK
<1>2. calls'[t] \subseteq {Sent("restore", stored)} /\ (calls'[t] # {} => stored # None)
  BY <1>1 DEF Restoring
<1>3. OneWayIn(t)'
  BY <1>2 DEF OneWayIn
<1>4. \A c \in calls'[t] : Goes(t, c)'
  BY <1>1, <1>2 DEF Goes, Entering, Sent, Held
<1>5. QED
  BY <1>1, <1>3, <1>4 DEF TabInv, CallsGo, Shown

\* The restore of a stored session.
LEMMA RestoreKeeps ==
    ASSUME TypeOK, CallInv, OwnersThere, NEW t \in Tab, TabInv(t), Restore(t)
    PROVE  TabInv(t)'
<1>a. /\ calls \in [Tab -> SUBSET OpenCall] /\ mixed \in [Tab -> BOOLEAN]
      /\ user \in [Tab -> User \cup {None}] /\ me \in [Tab -> Me \cup {None}]
      /\ DOMAIN owner \subseteq SessionId
  BY DEF TypeOK, SessionTypeOK, CallInv
<1>b. ASSUME NEW ask, NEW c \in Out(t, ask)
      PROVE  c \in calls[t] /\ c \in OpenCall /\ c.ask = ask /\ c.with \in DOMAIN owner \cup {None}
  BY <1>a, OutTypes
<1>1. CASE RestoreUser(t)
  <2>1. PICK c \in Out(t, "restore") : RestoreUser(t)!1!(c)
    BY <1>1 DEF RestoreUser
  <2>2. /\ UNCHANGED <<owner, standing>> /\ c \in calls[t] /\ c \in OpenCall
        /\ c.ask = "restore" /\ c.ask \in Entering
    BY <1>1, <2>1, <1>b DEF RestoreUser, serverVars, Entering
  <2>3. CASE /\ MayAnswer(c.with)
             /\ Over(t, c, {[c EXCEPT !.ask = "place", !.with = Token(t, memory[t]), !.got = Row(c.with)]})
             /\ UNCHANGED <<memory, lapsed, user, me, refused, mixed>>
    <3>0. PICK d : d = [c EXCEPT !.ask = "place", !.with = Token(t, memory[t]), !.got = Row(c.with)]
      OBVIOUS
    <3>1. calls'[t] = (calls[t] \ {c}) \cup {d}
      BY <3>0, <2>3, <1>a DEF Over
    <3>2. /\ d.ask = "place" /\ d.with = Token(t, memory[t]) /\ d.got.of = owner[c.with]
          /\ d.late = c.late
      BY <3>0, <2>2 DEF OpenCall, Call, Row
    <3>3. OneWayIn(t)'
      BY <3>1, <3>2, <2>2 DEF TabInv, OneWayIn, Entering
    <3>4. ~c.late /\ Goes(t, c) => Goes(t, d)
      <4>1. Carries(c)
        BY <2>3, <1>b DEF Carries, MayAnswer, Out
      <4>2. Carries(d) => d.with = memory[t] /\ memory[t] # None
        BY <3>2 DEF Carries, Token
      <4>3. QED
        BY <2>2, <3>2, <4>1, <4>2 DEF Goes, Held, Entering
    <3>5. CallsGo(t)'
      BY <2>2, <2>3, <3>1, <3>2, <3>4, GoesStays DEF TabInv, CallsGo
    <3>6. QED
      BY <2>2, <2>3, <3>3, <3>5, GoesStays DEF TabInv
  <2>4. CASE Discard(t, c)
    BY <2>2, <2>4, DiscardKeeps DEF Discard
  <2>5. CASE Over(t, c, {}) /\ UNCHANGED <<stored, memory, lapsed, user, me, refused, mixed>>
    BY <2>2, <2>5, EndKeeps
  <2>6. QED
    BY <2>1, <2>3, <2>4, <2>5
<1>2. CASE RestoreIdentity(t)
  <2>1. PICK c \in Out(t, "place") : RestoreIdentity(t)!1!(c)
    BY <1>2 DEF RestoreIdentity
  <2>2. /\ UNCHANGED <<owner, standing>> /\ c \in calls[t] /\ c \in OpenCall
        /\ c.ask = "place" /\ c.ask \in Entering
    BY <1>2, <2>1, <1>b DEF RestoreIdentity, serverVars, Entering
  <2>3. ASSUME NEW answer \in Me, Placed(c, answer),
               user' = [user EXCEPT ![t] = c.got], me' = [me EXCEPT ![t] = answer],
               Over(t, c, {}), Mix(t, c), UNCHANGED <<stored, memory, lapsed, refused>>
        PROVE  TabInv(t)'
    <3>1. /\ calls'[t] = calls[t] \ {c} /\ mixed'[t] = (mixed[t] \/ c.late)
          /\ user'[t] = c.got /\ me'[t] = answer
          /\ memory'[t] = memory[t] /\ lapsed'[t] = lapsed[t] /\ Held(t)' = Held(t)
      BY <2>3, <1>a DEF Over, Mix, Held
    <3>2. OneWayIn(t)'
      BY <3>1 DEF TabInv, OneWayIn
    <3>3. ASSUME ~mixed'[t]
          PROVE  /\ \A d \in calls'[t] : ~d.late =>
                       d.ask \notin Entering /\ d.ask # "refresh" /\ Goes(t, d)
                 /\ Goes(t, c)
      BY <3>1, <3>3, <2>2 DEF TabInv, OneWayIn, CallsGo, Goes
    <3>4. CallsGo(t)'
      BY <3>1, <3>3 DEF CallsGo, Goes
    <3>5. Shown(t)'
      <4>1. SUFFICES ASSUME ~mixed'[t] PROVE Shown(t)'
        BY DEF Shown
      <4>2. /\ ~refused[t] /\ Held(t) # None /\ c.got.of = owner[Held(t)]
            /\ Carries(c) => owner[c.with] = c.got.of
        BY <2>2, <3>3, <4>1 DEF Goes
      <4>3. c.got \in User /\ c.with \in DOMAIN owner \cup {None} /\ c.with # Awaited
        BY <1>a, <1>b, <2>2, CallTypes DEF Out
      <4>4. standing[c.got.of] # "absent"
        BY <4>2, HeldThere
      <4>5. answer # None /\ answer.of = c.got.of /\ answer.role \in MayShow(answer.of)
        BY <2>3, <4>2, <4>3, <4>4, PlacedMayShow DEF Carries
      <4>6. QED
        BY <2>2, <2>3, <3>1, <4>2, <4>5 DEF Shown, MayShow
    <3>6. QED
      BY <3>2, <3>4, <3>5 DEF TabInv
  <2>4. CASE Discard(t, c)
    BY <2>2, <2>4, DiscardKeeps DEF Discard
  <2>5. QED
    BY <2>1, <2>3, <2>4
<1>3. QED
  BY <1>1, <1>2 DEF Restore

\* The user, answered: to a sign-in, or again to a tab that shows one.
LEMMA ShowKeeps ==
    ASSUME TypeOK, CallInv, OwnersThere, NEW t \in Tab, TabInv(t),
           ShowUser(t, "enter") \/ ShowUser(t, "refresh")
    PROVE  TabInv(t)'
<1>a. /\ calls \in [Tab -> SUBSET OpenCall] /\ mixed \in [Tab -> BOOLEAN]
      /\ user \in [Tab -> User \cup {None}] /\ owner \in Seq(Account)
  BY DEF TypeOK, SessionTypeOK, CallInv
<1>1. PICK ask \in {"enter", "refresh"} : ShowUser(t, ask)
  OBVIOUS
<1>2. PICK c \in Out(t, ask) : ShowUser(t, ask)!1!(c)
  BY <1>1 DEF ShowUser
<1>3. /\ UNCHANGED <<owner, standing, memory, lapsed, me, refused>> /\ Over(t, c, {})
      /\ c \in calls[t] /\ c.ask \in {"enter", "refresh"} /\ c.with \in DOMAIN owner \cup {None}
      /\ c.with # Awaited /\ Held(t)' = Held(t)
  BY <1>1, <1>2, <1>a, OutTypes DEF ShowUser, serverVars, Out, Held
<1>4. CASE UNCHANGED <<user, mixed>>
  BY <1>3, <1>4, EndKeeps
<1>5. CASE /\ MayAnswer(c.with) \/ MayBeNobody(c.with)
           /\ user' = [user EXCEPT ![t] = IF MayAnswer(c.with) THEN Row(c.with) ELSE Nobody(c.with)]
           /\ Mix(t, c)
  <2>1. calls'[t] = calls[t] \ {c} /\ mixed'[t] = (mixed[t] \/ c.late)
    BY <1>3, <1>5, <1>a DEF Over, Mix
  <2>2. user'[t].of = owner[c.with] /\ user'[t] # None /\ Carries(c)
    <3>1. c.with \in DOMAIN owner
      BY <1>3, <1>5 DEF MayAnswer, MayBeNobody
    <3>2. QED
      BY <1>3, <1>5, <3>1, <1>a, AnswerTypes, UserTypes DEF TypeOK, MayAnswer, MayBeNobody, Carries
  <2>3. OneWayIn(t)'
    BY <2>1 DEF TabInv, OneWayIn
  <2>4. ASSUME ~mixed'[t]
        PROVE  /\ Goes(t, c)
               /\ \A d \in calls'[t] : ~d.late =>
                     Goes(t, d) /\ (c.ask = "enter" => d.ask \notin Entering /\ d.ask # "refresh")
    BY <2>1, <2>4, <1>3 DEF TabInv, OneWayIn, CallsGo, Goes, Entering
  <2>5. CASE c.ask = "enter"
    <3>1. CallsGo(t)'
      BY <2>4, <2>5, <1>3 DEF CallsGo, Goes
    <3>2. Shown(t)'
      BY <2>2, <2>4, <2>5, <1>3 DEF Shown, Goes, Entering, MayShow
    <3>3. QED
      BY <2>3, <3>1, <3>2 DEF TabInv
  <2>6. CASE c.ask = "refresh"
    <3>1. ~mixed'[t] => user[t] # None /\ owner[c.with] = user[t].of
      BY <2>2, <2>4, <2>6 DEF Goes
    <3>2. CallsGo(t)'
      BY <2>2, <2>4, <3>1, <1>3 DEF CallsGo, Goes, Carries
    <3>3. Shown(t)'
      BY <2>1, <2>2, <3>1, <1>3 DEF TabInv, Shown, MayShow
    <3>4. QED
      BY <2>3, <3>2, <3>3 DEF TabInv
  <2>7. QED
    BY <1>3, <2>5, <2>6
<1>6. QED
  BY <1>2, <1>4, <1>5

\* The user asked for again, under the session of whoever is shown.
LEMMA RefreshingKeeps ==
    ASSUME TypeOK, NEW t \in Tab, TabInv(t), calls' = [calls EXCEPT ![t] = Refreshing(t)],
           UNCHANGED <<owner, standing, memory, lapsed, user, me, refused, mixed>>
    PROVE  TabInv(t)'
<1> DEFINE c == [Sent("refresh", memory[t]) EXCEPT !.late = (user[t] = None)]
<1>1. c.ask = "refresh" /\ c.with = memory[t] /\ c.late = (user[t] = None)
  BY DEF Sent
<1>2. ~mixed[t] /\ ~c.late => Goes(t, c)
  BY <1>1 DEF TabInv, Shown, Goes, Entering, Carries, Held
<1>3. QED
  BY <1>1, <1>2, SendKeeps DEF Refreshing, Entering

\* A change of photo says who is signed in only where it asks for the user.
LEMMA ChangeKeeps ==
    ASSUME TypeOK, NEW t \in Tab, TabInv(t), ChangePhoto(t)
    PROVE  TabInv(t)'
<1>1. UNCHANGED <<owner, standing, memory, lapsed, user, me, refused, mixed>>
  BY DEF ChangePhoto, ChoosePhoto, RemovePhoto, Click, UploadPhoto, SetPhoto, DiscardPhoto, PhotoFails,
         sessionVars, tutorVars, serverVars, tabVars
<1>2. CASE calls' = [calls EXCEPT ![t] = Refreshing(t)]
  BY <1>1, <1>2, RefreshingKeeps
<1>3. CASE calls' = calls
  BY <1>1, <1>3, GoesStays DEF TabInv, OneWayIn, CallsGo
<1>4. QED
  BY <1>2, <1>3 DEF ChangePhoto, ChoosePhoto, RemovePhoto, Click, UploadPhoto, SetPhoto, DiscardPhoto,
         PhotoFails, sessionVars, tabVars

\* Overtaken, the calls a tab had say nothing of who is signed in now.
LEMMA OvertakenLate ==
    ASSUME CallInv, NEW t \in Tab, NEW some \in SUBSET calls[t]
    PROVE  \A e \in Overtaken(some) : e.late /\ \E d \in some : e = [d EXCEPT !.late = TRUE] /\ e.ask = d.ask
  BY DEF CallInv, Overtaken, OpenCall, Call

\* What a call sent to sign in goes on from is known, and the rest overtaken.
LEMMA AnewKeeps ==
    ASSUME CallInv, NEW t \in Tab, TabInv(t), NEW some \in SUBSET calls[t], NEW c,
           calls'[t] \subseteq Overtaken(some) \cup {c}, c.ask # "renew",
           ~mixed'[t] => user'[t] = None /\ Goes(t, c)'
    PROVE  TabInv(t)'
<1>1. \A e \in calls'[t] : e # c => e.late /\ \E d \in some : e = [d EXCEPT !.late = TRUE] /\ e.ask = d.ask
  BY OvertakenLate
<1>2. ASSUME NEW e1 \in calls'[t], NEW e2 \in calls'[t], e1.ask = "renew", e2.ask = "renew" PROVE e1 = e2
  <2>1. e1 # c /\ e2 # c
    BY <1>2
  <2>2. PICK d1 \in some : e1 = [d1 EXCEPT !.late = TRUE] /\ d1.ask = "renew"
    BY <1>1, <1>2, <2>1
  <2>3. PICK d2 \in some : e2 = [d2 EXCEPT !.late = TRUE] /\ d2.ask = "renew"
    BY <1>1, <1>2, <2>1
  <2>4. d1 = d2
    BY <2>2, <2>3 DEF TabInv, OneWayIn
  <2>5. QED
    BY <2>2, <2>3, <2>4
<1>3. OneWayIn(t)'
  <2>1. \A e1, e2 \in calls'[t] : ~e1.late /\ ~e2.late => e1 = e2
    BY <1>1
  <2>2. QED
    BY <1>2, <2>1 DEF OneWayIn
<1>4. QED
  BY <1>1, <1>3 DEF TabInv, CallsGo, Shown

\* Signing in.
LEMMA EnterKeeps ==
    ASSUME TypeOK, CallInv, OwnersThere, NEW t \in Tab, TabInv(t), Enter(t)
    PROVE  TabInv(t)'
<1>a. /\ calls \in [Tab -> SUBSET OpenCall] /\ mixed \in [Tab -> BOOLEAN]
      /\ user \in [Tab -> User \cup {None}] /\ me \in [Tab -> Me \cup {None}]
      /\ memory \in [Tab -> DOMAIN owner \cup {None}] /\ refused \in [Tab -> BOOLEAN]
      /\ lapsed \in [Tab -> DOMAIN owner \cup {None}]
      /\ owner \in Seq(Account) /\ DOMAIN owner \subseteq SessionId
  BY DEF TypeOK, SessionTypeOK, CallInv
<1>b. ASSUME NEW ask, NEW c \in Out(t, ask)
      PROVE  c \in calls[t] /\ c \in OpenCall /\ c.ask = ask /\ c.with \in DOMAIN owner \cup {None}
  BY <1>a, OutTypes
<1>1. CASE Submit(t)
  <2>1. PICK a \in Present : calls' = [calls EXCEPT ![t] =
            Overtaken(@) \cup {[Sent("login", None) EXCEPT !.got = As(a)]}]
    BY <1>1 DEF Submit
  <2>2. PICK c : c = [Sent("login", None) EXCEPT !.got = As(a)]
    OBVIOUS
  <2>3. c.ask = "login" /\ calls'[t] = Overtaken(calls[t]) \cup {c} /\ user'[t] = None
    BY <1>1, <1>a, <2>1, <2>2 DEF Submit, Sent
  <2>4. Goes(t, c)'
    BY <2>3 DEF Goes, Entering
  <2>5. QED
    BY <2>3, <2>4, AnewKeeps
<1>2. CASE SignIn(t)
  <2>1. PICK c \in calls[t] : SignIn(t)!1!(c)
    BY <1>2 DEF SignIn
  <2>2. CASE Over(t, c, {}) /\ UNCHANGED <<owner, stored, memory, lapsed, refused, mixed>>
    BY <1>2, <2>2, EndKeeps DEF SignIn
  <2>3. CASE /\ owner' = Append(owner, c.got.of)
             /\ Hold(t, Len(owner) + 1)
             /\ lapsed' = [lapsed EXCEPT ![t] = None]
             /\ refused' = [refused EXCEPT ![t] = FALSE]
             /\ mixed' = [mixed EXCEPT ![t] = @ \/ user[t] # None]
             /\ calls' = [calls EXCEPT ![t] = Overtaken(@ \ {c})
                    \cup {[Sent(AsksFirst, Token(t, Len(owner) + 1)) EXCEPT !.got = c.got]}]
    <3>0. PICK d : d = [Sent("identify", Token(t, Len(owner) + 1)) EXCEPT !.got = c.got]
      OBVIOUS
    <3>1. /\ calls'[t] = Overtaken(calls[t] \ {c}) \cup {d}
          /\ mixed'[t] = (mixed[t] \/ user[t] # None) /\ memory'[t] = Len(owner) + 1
          /\ ~refused'[t] /\ user'[t] = user[t]
      BY <3>0, <1>2, <2>3, <1>a DEF SignIn, Hold, AsksFirst
    <3>2. /\ d.ask = "identify" /\ d.with \in {Awaited, Len(owner) + 1} /\ d.got = c.got
      BY <3>0 DEF Sent, Token
    <3>3. Len(owner) + 1 # None
      BY <1>a, SessionAssumption
    <3>4. Held(t)' = Len(owner) + 1 /\ owner'[Len(owner) + 1] = c.got.of
      <4>1. c.got.of \in Account
        BY <1>a, <2>1, CallTypes DEF User
      <4>2. QED
        BY <1>a, <2>3, <3>1, <3>3, <4>1 DEF Held
    <3>5. ~mixed'[t] => user'[t] = None /\ Goes(t, d)'
      BY <3>1, <3>2, <3>3, <3>4 DEF Goes, Carries, Entering
    <3>6. QED
      BY <3>1, <3>2, <3>5, AnewKeeps
  <2>4. QED
    BY <2>1, <2>2, <2>3
<1>3. CASE LoginIdentity(t)
  <2>1. PICK c \in Out(t, "identify") : LoginIdentity(t)!1!(c)
    BY <1>3 DEF LoginIdentity
  <2>2. /\ UNCHANGED <<owner, standing, lapsed, user, refused>> /\ c \in calls[t] /\ c \in OpenCall
        /\ c.ask = "identify" /\ c.ask \in Entering /\ Mix(t, c)
    BY <1>3, <2>1, <1>b DEF LoginIdentity, serverVars, Entering
  <2>3. ASSUME NEW answer \in Me, Placed(c, answer), me' = [me EXCEPT ![t] = answer],
               Over(t, c, {[c EXCEPT !.ask = "enter", !.with = Token(t, memory[t])]}),
               UNCHANGED <<stored, memory>>
        PROVE  TabInv(t)'
    <3>0. PICK d : d = [c EXCEPT !.ask = "enter", !.with = Token(t, memory[t])]
      OBVIOUS
    <3>1. /\ calls'[t] = (calls[t] \ {c}) \cup {d}
          /\ mixed'[t] = (mixed[t] \/ c.late) /\ me'[t] = answer
          /\ Held(t)' = Held(t) /\ user'[t] = user[t]
      BY <3>0, <2>2, <2>3, <1>a DEF Over, Mix, Held
    <3>2. d.ask = "enter" /\ d.with = Token(t, memory[t]) /\ d.late = c.late
      BY <3>0, <2>2 DEF OpenCall, Call
    <3>3. OneWayIn(t)'
      BY <3>1, <3>2, <2>2 DEF TabInv, OneWayIn, Entering
    <3>4. ASSUME ~mixed'[t]
          PROVE  /\ Goes(t, c) /\ user[t] = None
                 /\ \A e \in calls[t] \ {c} : ~e.late =>
                       Goes(t, e) /\ e.ask \notin Entering /\ e.ask # "refresh"
      <4>1. Goes(t, c) /\ ~c.late /\ ~mixed[t]
        BY <3>1, <3>4, <2>2 DEF TabInv, CallsGo
      <4>2. user[t] = None
        BY <4>1, <2>2 DEF Goes
      <4>3. \A e \in calls[t] \ {c} : ~e.late => Goes(t, e) /\ e.ask \notin Entering
        BY <4>1, <2>2 DEF TabInv, OneWayIn, CallsGo
      <4>4. QED
        BY <4>1, <4>2, <4>3 DEF Goes
    <3>5. ~mixed'[t] => Goes(t, d)'
      <4>1. SUFFICES ASSUME ~mixed'[t] PROVE Goes(t, d)'
        OBVIOUS
      <4>2. /\ ~refused[t] /\ Held(t) # None /\ c.got.of = owner[Held(t)]
            /\ Carries(c) => owner[c.with] = c.got.of
        BY <2>2, <3>4, <4>1 DEF Goes
      <4>3. c.got \in User /\ c.with \in DOMAIN owner \cup {None} /\ c.with # Awaited
        BY <1>a, <1>b, <2>2, CallTypes DEF Out
      <4>4. standing[c.got.of] # "absent"
        BY <4>2, HeldThere
      <4>5. answer # None /\ answer.of = c.got.of /\ answer.role \in MayShow(answer.of)
        BY <2>3, <4>2, <4>3, <4>4, PlacedMayShow DEF Carries
      <4>6. Carries(d) => d.with = Held(t)
        BY <3>2 DEF Carries, Token, Held
      <4>7. QED
        BY <2>2, <2>3, <3>1, <3>2, <3>4, <4>1, <4>2, <4>5, <4>6 DEF Goes, Carries, Entering, MayShow
    <3>6. CallsGo(t)'
      <4>1. \A e : Goes(t, e) /\ e.ask \notin Entering /\ e.ask # "refresh" => Goes(t, e)'
        BY <2>2, <2>3 DEF Goes
      <4>2. QED
        BY <3>1, <3>4, <3>5, <4>1 DEF CallsGo
    <3>7. Shown(t)'
      BY <3>1, <3>4 DEF Shown
    <3>8. QED
      BY <3>3, <3>6, <3>7 DEF TabInv
  <2>4. CASE Over(t, c, {}) /\ Hold(t, None)
    BY <2>2, <2>4, DiscardKeeps
  <2>5. QED
    BY <2>1, <2>3, <2>4
<1>4. CASE LoginUser(t)
  BY <1>4, ShowKeeps DEF LoginUser
<1>5. QED
  BY <1>1, <1>2, <1>3, <1>4 DEF Enter

\* Signing out, the session renewed, and the user asked for again.
LEMMA LeaveKeeps ==
    ASSUME TypeOK, CallInv, OwnersThere, NEW t \in Tab, TabInv(t), Leave(t) \/ Refresh(t)
    PROVE  TabInv(t)'
<1>a. calls \in [Tab -> SUBSET OpenCall] /\ user \in [Tab -> User \cup {None}]
  BY DEF TypeOK, SessionTypeOK, CallInv
<1>1. CASE SignOut(t)
  <2>1. Sent("leave", memory[t]).ask = "leave"
    BY DEF Sent
  <2>2. QED
    BY <1>1, <2>1, SendKeeps DEF SignOut, tutorVars, serverVars, Entering, Goes
<1>2. CASE SignedOut(t)
  <2>1. PICK c \in calls[t] : SignedOut(t)!1!(c)
    BY <1>2 DEF SignedOut
  <2>2. calls'[t] = Overtaken(calls[t] \ {c}) /\ user'[t] = None
    BY <1>2, <2>1, <1>a DEF SignedOut
  <2>3. c.ask = "leave" /\ Goes(t, c)'
    BY <2>1 DEF Goes, Entering
  <2>4. QED
    BY <2>2, <2>3, AnewKeeps
<1>3. CASE SaveProfile(t)
  <2>1. UNCHANGED <<owner, standing, memory, lapsed, user, me, refused, mixed>>
    BY <1>3 DEF SaveProfile, tutorVars, serverVars
  <2>2. calls' = [calls EXCEPT ![t] = Refreshing(t)]
    BY <1>3 DEF SaveProfile
  <2>3. QED
    BY <2>1, <2>2, RefreshingKeeps
<1>4. CASE RefreshUser(t)
  BY <1>4, ShowKeeps DEF RefreshUser
<1>5. QED
  BY <1>1, <1>2, <1>3, <1>4 DEF Leave, Refresh

\* A session taken out to be renewed is the one the tab held, and what waits for it goes on
\* from that.
LEMMA RenewKeeps ==
    ASSUME TypeOK, CallInv, OwnersThere, NEW t \in Tab, TabInv(t), Renew(t)
    PROVE  TabInv(t)'
<1>a. calls[t] \subseteq OpenCall /\ memory[t] \in DOMAIN owner /\ memory[t] # None
  BY DEF TypeOK, SessionTypeOK, CallInv, Renew
<1>b. /\ UNCHANGED <<owner, standing, user, me, refused, mixed>>
      /\ memory'[t] = None /\ lapsed'[t] = memory[t] /\ Held(t)' = Held(t)
  BY <1>a DEF Renew, Hold, Held, TypeOK, SessionTypeOK, tutorVars, serverVars
<1>1. PICK waiting \in SUBSET calls[t] :
          calls' = [calls EXCEPT ![t] = (@ \ waiting)
                       \cup {[c EXCEPT !.with = Awaited] : c \in waiting} \cup {Sent("renew", memory[t])}]
  BY DEF Renew
<1>2. PICK r : r = Sent("renew", memory[t])
  OBVIOUS
<1>3. r.ask = "renew" /\ r.with = memory[t]
  BY <1>2 DEF Sent
<1>4. calls'[t] = (calls[t] \ waiting) \cup {[c EXCEPT !.with = Awaited] : c \in waiting} \cup {r}
  BY <1>1, <1>2 DEF TypeOK, SessionTypeOK
<1>5. \A c \in waiting : /\ [c EXCEPT !.with = Awaited].ask = c.ask
                          /\ [c EXCEPT !.with = Awaited].late = c.late
                          /\ [c EXCEPT !.with = Awaited].got = c.got
                          /\ [c EXCEPT !.with = Awaited].with = Awaited
  BY <1>a DEF OpenCall, Call
<1>6. \A e \in calls'[t] :
          \/ e = r
          \/ e \in calls[t] \ waiting
          \/ \E c \in waiting : /\ e = [c EXCEPT !.with = Awaited] /\ e.ask = c.ask /\ e.late = c.late
                                /\ e.got = c.got /\ e.with = Awaited
  BY <1>4, <1>5
<1>7. \A c \in calls[t] : c.ask # "renew"
  BY DEF Renew, Renewing, Asking
<1>8. OneWayIn(t)'
  BY <1>3, <1>6, <1>7 DEF TabInv, OneWayIn, Entering
<1>9. CallsGo(t)'
  <2>1. Goes(t, r)'
    BY <1>3, <1>b DEF Goes, Entering
  <2>2. ASSUME NEW c \in calls[t], Goes(t, c) PROVE Goes(t, c)'
    BY <2>2, <1>b, <1>7 DEF Goes, Carries, MayShow
  <2>3. ASSUME NEW c \in calls[t], Goes(t, c), NEW e, e.ask = c.ask, e.got = c.got, e.with = Awaited
        PROVE  Goes(t, e)'
    BY <2>3, <1>b, <1>7 DEF Goes, Carries, MayShow
  <2>4. QED
    BY <1>b, <1>6, <2>1, <2>2, <2>3 DEF TabInv, CallsGo
<1>10. QED
  BY <1>8, <1>9, <1>b DEF TabInv, Shown, MayShow

\* Renewed or not, what waited goes on with the session the tab then holds.
LEMMA RenewedKeeps ==
    ASSUME TypeOK, CallInv, OwnersThere, NEW t \in Tab, TabInv(t), Renewed(t)
    PROVE  TabInv(t)'
<1>a. /\ calls[t] \subseteq OpenCall /\ owner \in Seq(Account) /\ DOMAIN owner \subseteq SessionId
      /\ memory[t] \in DOMAIN owner \cup {None} /\ lapsed[t] \in DOMAIN owner \cup {None}
      /\ Held(t) \in DOMAIN owner \cup {None}
  BY DEF TypeOK, SessionTypeOK, CallInv, Held
<1>b. UNCHANGED <<standing, user, me, refused>>
  BY DEF Renewed
<1>1. PICK c \in Out(t, "renew") : Renewed(t)!1!(c)
  BY DEF Renewed
<1>2. c \in calls[t] /\ c.ask = "renew" /\ c.with \in DOMAIN owner
  BY <1>a DEF Out, OpenCall
<1>3. ASSUME NEW s, calls'[t] = Resumed(calls[t] \ {c}, s)
      PROVE  \A e \in calls'[t] : \E d \in calls[t] \ {c} :
                 /\ e = (IF d.with = Awaited THEN [d EXCEPT !.with = s] ELSE d)
                 /\ e.ask = d.ask /\ e.late = d.late /\ e.got = d.got
                 /\ e.with = (IF d.with = Awaited THEN s ELSE d.with)
  BY <1>3, <1>a DEF Resumed, OpenCall, Call
<1>4. ASSUME NEW s, calls'[t] = Resumed(calls[t] \ {c}, s) PROVE OneWayIn(t)'
  BY <1>3, <1>4 DEF TabInv, OneWayIn
<1>5. \A d \in calls[t] \ {c} : d.ask # "renew"
  BY <1>2 DEF TabInv, OneWayIn
<1>6. ASSUME NEW s, calls'[t] = Resumed(calls[t] \ {c}, s), \A n \in DOMAIN owner : owner'[n] = owner[n],
             ~mixed'[t] => ~mixed[t],
             ~mixed'[t] /\ Held(t) # None => Held(t)' # None /\ owner'[Held(t)'] = owner[Held(t)],
             s \in {None, Held(t)'}
      PROVE  TabInv(t)'
  <2>1. SUFFICES ASSUME ~mixed'[t] PROVE CallsGo(t)' /\ Shown(t)'
    BY <1>4, <1>6 DEF TabInv, CallsGo, Shown
  <2>2. Shown(t)'
    BY <1>6, <1>b, <2>1 DEF TabInv, Shown, MayShow
  <2>3. ASSUME NEW d \in calls[t], Goes(t, d), d.ask # "renew", NEW e, e.ask = d.ask, e.got = d.got,
               e.with = (IF d.with = Awaited THEN s ELSE d.with)
        PROVE  Goes(t, e)'
    <3>1. Carries(e) => \/ e.with = d.with /\ Carries(d) /\ d.with \in DOMAIN owner
                        \/ e.with = Held(t)'
      BY <1>6, <1>a, <2>3 DEF Carries, OpenCall, Carried
    <3>2. Carries(e) /\ d.ask \in Entering => owner'[e.with] = owner'[Held(t)']
      BY <1>6, <2>1, <2>3, <3>1 DEF Goes
    <3>3. Carries(e) /\ d.ask = "refresh" => owner'[e.with] = user[t].of
      BY <1>6, <2>1, <2>3, <3>1 DEF Goes, TabInv, Shown
    <3>4. QED
      BY <1>6, <1>b, <2>1, <2>3, <3>2, <3>3 DEF Goes, Carries, MayShow
  <2>4. CallsGo(t)'
    BY <1>3, <1>5, <1>6, <2>1, <2>3 DEF TabInv, CallsGo
  <2>5. QED
    BY <2>2, <2>4
<1>7. CASE /\ owner' = Append(owner, owner[c.with])
           /\ Hold(t, Len(owner) + 1)
           /\ calls' = [calls EXCEPT ![t] = Resumed(@ \ {c}, Len(owner) + 1)]
           /\ Mix(t, c)
  <2>1. /\ owner'[Len(owner) + 1] = owner[c.with] /\ \A n \in DOMAIN owner : owner'[n] = owner[n]
        /\ Len(owner) + 1 # None
    BY <1>7, <1>a, <1>2, SessionAssumption
  <2>2. /\ memory'[t] = Len(owner) + 1 /\ calls'[t] = Resumed(calls[t] \ {c}, Len(owner) + 1)
        /\ mixed'[t] = (mixed[t] \/ c.late)
    BY <1>7 DEF Hold, Mix, TypeOK, SessionTypeOK
  <2>3. Held(t)' = Len(owner) + 1
    BY <2>1, <2>2 DEF Held
  <2>4. ~mixed'[t] => owner[c.with] = owner[Held(t)]
    BY <1>2, <2>2 DEF TabInv, CallsGo, Goes, Held
  <2>5. QED
    BY <1>6, <2>1, <2>2, <2>3, <2>4
<1>8. CASE /\ calls' = [calls EXCEPT ![t] = Resumed(@ \ {c}, memory[t])]
           /\ UNCHANGED <<owner, stored, memory, lapsed, mixed>>
  <2>1. calls'[t] = Resumed(calls[t] \ {c}, memory[t])
    BY <1>8 DEF TypeOK, SessionTypeOK
  <2>2. Held(t)' = Held(t) /\ memory[t] \in {None, Held(t)'}
    BY <1>8 DEF Held
  <2>3. QED
    BY <1>6, <1>8, <2>1, <2>2
<1>9. QED
  BY <1>1, <1>7, <1>8

\* Who a tab shows is who it holds a session of, or did until a renewal that has not
\* succeeded, in a role that was answered for them.
THEOREM SignedIn == Spec => []SignedInAsAnswered
<1>1. Init => TabsInv
  <2>1. ASSUME Init PROVE OwnersThere
    BY <2>1 DEF Init, SessionInit, OwnersThere
  <2>2. ASSUME Init, NEW t \in Tab PROVE TabInv(t)
    <3>1. user[t] = None /\ ~refused[t] /\ memory[t] = stored /\ calls[t] = Restoring(stored)
      BY <2>2 DEF Init, SessionInit
    <3>2. calls[t] \subseteq {Sent("restore", stored)} /\ (calls[t] # {} => stored # None)
      BY <3>1 DEF Restoring
    <3>3. \A c \in calls[t] : Goes(t, c)
      BY <3>1, <3>2 DEF Goes, Entering, Sent, Held
    <3>4. QED
      BY <3>1, <3>2, <3>3 DEF TabInv, OneWayIn, CallsGo, Shown
  <2>3. QED
    BY <2>1, <2>2 DEF TabsInv
<1>2. TypeOK /\ CallInv /\ TabsInv /\ [Next]_vars => TabsInv'
  <2> SUFFICES ASSUME TypeOK, CallInv, TabsInv, [Next]_vars PROVE TabsInv'
    OBVIOUS
  <2>1. CASE Manage
    BY <2>1, ManageGrows, Elsewhere DEF TabsInv
  <2>2. ASSUME NEW t \in Tab, Browse(t) PROVE TabsInv'
    <3>1. TabInv(t)'
      <4>1. CASE ChangePhoto(t)
        BY <4>1, ChangeKeeps DEF TabsInv
      <4>2. QED
        BY <2>2, <4>1, LoadKeeps, RestoreKeeps, EnterKeeps, LeaveKeeps, RenewKeeps, RenewedKeeps
           DEF TabsInv, Browse, Reload
    <3>2. QED
      BY <2>2, <3>1, BrowseGrows, Elsewhere DEF TabsInv
  <2>3. CASE UNCHANGED vars
    <3>1. Grows /\ OwnersThere' /\ \A t \in Tab : Still(t)
      BY <2>3 DEF vars, sessionVars, tutorVars, serverVars, tabVars, Grows, Still, MayShow, TabsInv, OwnersThere
    <3>2. QED
      BY <3>1, Elsewhere DEF TabsInv
  <2>4. QED
    BY <2>1, <2>2, <2>3 DEF Next
<1>3. TabsInv => SignedInAsAnswered
  BY DEF TabsInv, TabInv, Shown, SignedInAsAnswered
<1>4. QED
  BY <1>1, <1>2, <1>3, TypeCorrect, PTL DEF Spec

\* The stored session goes with a sign-out or a refusal, or is taken out to sign in or to be
\* renewed.
THEOREM RefusedSessionsGo == Spec => OnlyRefusedSessionsGo
<1>1. TypeOK /\ [Next]_vars => [RefusedOnly]_sessionVars
  <2> SUFFICES ASSUME TypeOK, Next PROVE RefusedOnly
    BY DEF vars
  <2>a. Len(owner) + 1 # None
    BY SessionAssumption DEF TypeOK, SessionTypeOK
  <2>1. CASE Manage
    BY <2>1 DEF Manage, tabVars, RefusedOnly
  <2>2. ASSUME NEW t \in Tab, Browse(t) PROVE RefusedOnly
    <3>1. CASE RestoreUser(t)
      BY <3>1 DEF RestoreUser, Refuses, RefusedOnly
    <3>2. CASE RestoreIdentity(t)
      BY <3>2 DEF RestoreIdentity, Discard, Refuses, RefusedOnly
    <3>3. CASE SignIn(t)
      BY <3>3, <2>a DEF SignIn, Hold, RefusedOnly
    <3>4. CASE LoginIdentity(t)
      BY <3>4 DEF LoginIdentity, Refuses, RefusedOnly
    <3>5. CASE SignedOut(t)
      BY <3>5 DEF RefusedOnly
    <3>6. CASE Submit(t) \/ Renew(t)
      BY <3>6 DEF RefusedOnly
    <3>7. CASE Renewed(t)
      BY <3>7, <2>a DEF Renewed, Hold, RefusedOnly
    <3>8. CASE UNCHANGED stored
      BY <3>8 DEF RefusedOnly
    <3>9. QED
      BY <2>2, <3>1, <3>2, <3>3, <3>4, <3>5, <3>6, <3>7, <3>8
         DEF Browse, Reload, Load, Restore, Enter, LoginUser, Leave, SignOut, Refresh, SaveProfile,
             RefreshUser, ShowUser, ChangePhoto, ChoosePhoto, RemovePhoto, Click, UploadPhoto, SetPhoto,
             DiscardPhoto, PhotoFails, sessionVars, tabVars
  <2>3. QED
    BY <2>1, <2>2 DEF Next
<1>2. QED
  BY <1>1, TypeCorrect, PTL DEF Spec, OnlyRefusedSessionsGo

-------------------------------------------------------------------------------
\* What a tab comes to name it named, or an account does.
LEMMA SessionNames ==
    ASSUME TypeOK, CallInv, NEW t \in Tab,
           Load(t) \/ Restore(t) \/ Enter(t) \/ Leave(t) \/ Renew(t) \/ Renewed(t) \/ Refresh(t)
    PROVE  /\ UNCHANGED photo
           /\ \A x \in Tab : \A p : p # None /\ Names(x, p)' =>
                 Names(x, p) \/ \E a \in Account : photo[a] = p
<1>a. /\ calls \in [Tab -> SUBSET OpenCall] /\ user \in [Tab -> User \cup {None}]
      /\ owner \in Seq(Account) /\ photo \in [Account -> Photo \cup {None}]
  BY DEF TypeOK, SessionTypeOK, CallInv
<1>b. \A c \in calls[t] : /\ c.got \in User \cup {None}
                          /\ c.ask \in {"login", "place", "identify"} => c.got # None
  BY <1>a DEF OpenCall, Call
<1>c. ASSUME NEW ask, NEW c \in Out(t, ask)
      PROVE  c \in calls[t] /\ c \in OpenCall /\ c.ask = ask /\ c.with \in DOMAIN owner \cup {None}
  BY <1>a, OutTypes
<1>1. UNCHANGED photo
  BY DEF Load, Restore, RestoreUser, RestoreIdentity, Enter, Submit, SignIn, LoginIdentity, LoginUser,
         ShowUser, Leave, SignOut, SignedOut, Renew, Renewed, Refresh, SaveProfile, RefreshUser, serverVars
<1> DEFINE FromUser(x) ==
               \/ user'[x] \in {user[x], None} \/ user'[x].photo = None
               \/ \E d \in calls[x] : d.got # None /\ user'[x].photo = d.got.photo
               \/ \E a \in Account : user'[x].photo = photo[a]
           FromCalls(x) ==
               \A c \in calls'[x] :
                   \/ c.got = None \/ c.got.photo = None
                   \/ \E d \in calls[x] : c.got = d.got
                   \/ \E a \in Account : c.got.photo = photo[a]
<1>2. \A x \in Tab : FromUser(x)
  <2>1. CASE UNCHANGED user
    BY <2>1
  <2>2. CASE Load(t) \/ SignedOut(t)
    BY <2>2, <1>a DEF Load, SignedOut
  <2>3. CASE RestoreUser(t)
    BY <2>3 DEF RestoreUser, Discard
  <2>4. CASE RestoreIdentity(t)
    <3>1. PICK c \in Out(t, "place") : RestoreIdentity(t)!1!(c)
      BY <2>4 DEF RestoreIdentity
    <3>2. user' = user \/ user' = [user EXCEPT ![t] = c.got]
      BY <3>1 DEF Discard
    <3>3. QED
      BY <3>1, <3>2, <1>a, <1>b, <1>c
  <2>5. CASE LoginUser(t) \/ RefreshUser(t)
    <3>1. PICK s \in DOMAIN owner \cup {None} :
              user' = user \/ user' = [user EXCEPT ![t] = Nobody(s)]
                \/ (s # None /\ user' = [user EXCEPT ![t] = Row(s)])
      BY <2>5, <1>c DEF LoginUser, RefreshUser, ShowUser, MayAnswer
    <3>2. CASE user' = [user EXCEPT ![t] = Nobody(s)]
      BY <3>2, <1>a DEF Nobody
    <3>3. CASE s # None /\ user' = [user EXCEPT ![t] = Row(s)]
      BY <3>3, <1>a DEF Row
    <3>4. QED
      BY <3>1, <3>2, <3>3
  <2>6. QED
    BY <2>1, <2>2, <2>3, <2>4, <2>5 DEF Restore, Enter, Submit, SignIn, LoginIdentity, Leave, SignOut,
       Renew, Renewed, Refresh, SaveProfile
<1>3. \A x \in Tab : FromCalls(x)
  <2>1. CASE \E next : /\ calls' = [calls EXCEPT ![t] = next]
                       /\ \A c \in next :
                             \/ c.got = None \/ c.got.photo = None
                             \/ \E d \in calls[t] : c.got = d.got
                             \/ \E a \in Account : c.got.photo = photo[a]
    BY <2>1, <1>a
  <2>2. CASE Load(t)
    BY <2>1, <2>2 DEF Load, Restoring, Sent
  <2>3. CASE RestoreUser(t)
    <3>1. PICK c \in Out(t, "restore") : RestoreUser(t)!1!(c)
      BY <2>3 DEF RestoreUser
    <3>2. CASE Over(t, c, {})
      BY <2>1, <3>2 DEF Over
    <3>3. CASE /\ MayAnswer(c.with)
               /\ Over(t, c, {[c EXCEPT !.ask = "place", !.with = Token(t, memory[t]), !.got = Row(c.with)]})
      <4>1. PICK d : d = [c EXCEPT !.ask = "place", !.with = Token(t, memory[t]), !.got = Row(c.with)]
        OBVIOUS
      <4>2. d.got.photo = photo[owner[c.with]] /\ owner[c.with] \in Account
        BY <4>1, <3>3, <1>a, <1>c DEF OpenCall, Call, Row, MayAnswer
      <4>3. calls' = [calls EXCEPT ![t] = (@ \ {c}) \cup {d}]
        BY <4>1, <3>3 DEF Over
      <4>4. QED
        BY <2>1, <4>2, <4>3
    <3>4. QED
      BY <3>1, <3>2, <3>3 DEF Discard
  <2>4. CASE RestoreIdentity(t) \/ LoginUser(t) \/ RefreshUser(t)
    <3>1. \E c \in calls[t] : Over(t, c, {})
      <4>1. CASE RestoreIdentity(t)
        BY <4>1, <1>c DEF RestoreIdentity, Discard
      <4>2. CASE LoginUser(t) \/ RefreshUser(t)
        BY <4>2, <1>c DEF LoginUser, RefreshUser, ShowUser
      <4>3. QED
        BY <2>4, <4>1, <4>2
    <3>2. QED
      BY <2>1, <3>1 DEF Over
  <2>5. CASE Submit(t)
    <3>1. PICK a \in Present : calls' = [calls EXCEPT ![t] =
              Overtaken(@) \cup {[Sent("login", None) EXCEPT !.got = As(a)]}]
      BY <2>5 DEF Submit
    <3>2. \A e \in Overtaken(calls[t]) : \E d \in calls[t] : e.got = d.got
      BY <1>a DEF Overtaken, OpenCall, Call
    <3>3. [Sent("login", None) EXCEPT !.got = As(a)].got.photo = None
      BY DEF Sent, As
    <3>4. PICK next : next = Overtaken(calls[t]) \cup {[Sent("login", None) EXCEPT !.got = As(a)]}
      OBVIOUS
    <3>5. \A e \in next : e.got.photo = None \/ \E d \in calls[t] : e.got = d.got
      BY <3>2, <3>3, <3>4
    <3>6. calls' = [calls EXCEPT ![t] = next]
      BY <3>1, <3>4
    <3>7. QED
      BY <2>1, <3>5, <3>6
  <2>6. CASE SignIn(t)
    <3>1. PICK c \in calls[t] : SignIn(t)!1!(c)
      BY <2>6 DEF SignIn
    <3>2. \A e \in Overtaken(calls[t] \ {c}) : \E d \in calls[t] : e.got = d.got
      BY <1>a DEF Overtaken, OpenCall, Call
    <3>3. PICK d : d = [Sent(AsksFirst, Token(t, Len(owner) + 1)) EXCEPT !.got = c.got]
      OBVIOUS
    <3>4. CASE calls' = [calls EXCEPT ![t] = Overtaken(@ \ {c}) \cup {d}]
      <4>1. PICK next : next = Overtaken(calls[t] \ {c}) \cup {d}
        OBVIOUS
      <4>2. d.got = c.got
        BY <3>3 DEF Sent
      <4>3. \A e \in next : \E other \in calls[t] : e.got = other.got
        BY <4>1, <4>2, <3>1, <3>2
      <4>4. calls' = [calls EXCEPT ![t] = next]
        BY <4>1, <3>4
      <4>5. QED
        BY <2>1, <4>3, <4>4
    <3>5. CASE Over(t, c, {})
      BY <2>1, <3>5 DEF Over
    <3>6. QED
      BY <3>1, <3>3, <3>4, <3>5
  <2>7. CASE LoginIdentity(t)
    <3>1. PICK c \in Out(t, "identify") : LoginIdentity(t)!1!(c)
      BY <2>7 DEF LoginIdentity
    <3>2. [c EXCEPT !.ask = "enter", !.with = Token(t, memory[t])].got = c.got
      BY <1>c DEF OpenCall, Call
    <3>3. CASE Over(t, c, {[c EXCEPT !.ask = "enter", !.with = Token(t, memory[t])]})
      <4>1. PICK next : next = (calls[t] \ {c}) \cup {[c EXCEPT !.ask = "enter", !.with = Token(t, memory[t])]}
        OBVIOUS
      <4>2. \A e \in next : \E d \in calls[t] : e.got = d.got
        BY <4>1, <3>2, <1>c
      <4>3. calls' = [calls EXCEPT ![t] = next]
        BY <4>1, <3>3 DEF Over
      <4>4. QED
        BY <2>1, <4>2, <4>3
    <3>4. CASE Over(t, c, {})
      BY <2>1, <3>4 DEF Over
    <3>5. QED
      BY <3>1, <3>3, <3>4
  <2>8. CASE SignOut(t)
    BY <2>1, <2>8 DEF SignOut, Sent
  <2>9. CASE SignedOut(t)
    <3>1. PICK c \in calls[t] : SignedOut(t)!1!(c)
      BY <2>9 DEF SignedOut
    <3>2. \A e \in Overtaken(calls[t] \ {c}) : \E d \in calls[t] : e.got = d.got
      BY <1>a DEF Overtaken, OpenCall, Call
    <3>3. QED
      BY <2>1, <3>1, <3>2
  <2>10. CASE Renew(t)
    <3>1. PICK waiting \in SUBSET calls[t] :
              calls' = [calls EXCEPT ![t] = (@ \ waiting)
                           \cup {[c EXCEPT !.with = Awaited] : c \in waiting} \cup {Sent("renew", memory[t])}]
      BY <2>10 DEF Renew
    <3>2. PICK next : next = (calls[t] \ waiting)
                                \cup {[c EXCEPT !.with = Awaited] : c \in waiting} \cup {Sent("renew", memory[t])}
      OBVIOUS
    <3>3. \A c \in waiting : [c EXCEPT !.with = Awaited].got = c.got
      BY <1>a DEF OpenCall, Call
    <3>4. Sent("renew", memory[t]).got = None
      BY DEF Sent
    <3>5. \A e \in next : e.got = None \/ \E d \in calls[t] : e.got = d.got
      <4>. SUFFICES ASSUME NEW e \in next
                    PROVE  e.got = None \/ \E d \in calls[t] : e.got = d.got
        OBVIOUS
      <4>1. CASE e \in calls[t]
        BY <4>1
      <4>2. CASE \E c \in waiting : e = [c EXCEPT !.with = Awaited]
        BY <4>2, <3>3
      <4>3. CASE e = Sent("renew", memory[t])
        BY <4>3, <3>4
      <4>4. e \in calls[t] \/ (\E c \in waiting : e = [c EXCEPT !.with = Awaited]) \/ e = Sent("renew", memory[t])
        BY <3>2
      <4>5. QED
        BY <4>1, <4>2, <4>3, <4>4
    <3>6. calls' = [calls EXCEPT ![t] = next]
      BY <3>1, <3>2
    <3>7. QED
      BY <2>1, <3>5, <3>6
  <2>11. CASE Renewed(t)
    <3>1. PICK c \in Out(t, "renew") : Renewed(t)!1!(c)
      BY <2>11 DEF Renewed
    <3>2. PICK s : calls' = [calls EXCEPT ![t] = Resumed(@ \ {c}, s)]
      BY <3>1
    <3>3. \A e \in Resumed(calls[t] \ {c}, s) : \E d \in calls[t] : e.got = d.got
      BY <1>a DEF Resumed, OpenCall, Call
    <3>4. QED
      BY <2>1, <3>2, <3>3
  <2>12. CASE SaveProfile(t)
    BY <2>1, <2>12 DEF SaveProfile, Refreshing, Sent
  <2>13. QED
    BY <2>2, <2>3, <2>4, <2>5, <2>6, <2>7, <2>8, <2>9, <2>10, <2>11, <2>12 DEF Restore, Enter, Leave, Refresh
<1>4. QED
  BY <1>1, <1>2, <1>3 DEF Names

\* What does nothing to photos, and names none that was not named, keeps what is known of
\* them; a change of photo under way may be forgotten.
LEMMA PhotosStand ==
    ASSUME PhotosInv, UNCHANGED <<photo, taken, photos>>, crossed => crossed',
           \A p : Named(p)' => Named(p),
           \A t \in Tab : saving'[t] = saving[t] \/ saving'[t] = Idle
    PROVE  PhotosInv'
<1>1. \A t \in Tab : \A p : Pending(t, p)' => Pending(t, p) /\ saving'[t] = saving[t]
  BY DEF Pending, Idle
<1>2. PhotosKnown'
  BY DEF PhotosInv, PhotosKnown, Idle
<1>3. UnsetInv'
  BY <1>1 DEF PhotosInv, UnsetInv
<1>4. DiscardInv'
  BY DEF PhotosInv, DiscardInv, Idle
<1>5. OwnPhoto'
  BY DEF PhotosInv, OwnPhoto
<1>6. QED
  BY <1>2, <1>3, <1>4, <1>5 DEF PhotosInv

\* A click begins a change from the photo the tab knows of.
LEMMA ClickKeeps ==
    ASSUME TypeOK, PhotosInv, NEW t \in Tab, NEW step \in {"uploading", "setting"}, Click(t, step)
    PROVE  PhotosInv'
<1>a. /\ saving \in [Tab -> Saving] /\ user[t] \in User
      /\ \A x \in Tab \ {t} : saving'[x] = saving[x]
      /\ saving'[t] = [step |-> step, of |-> user[t].of, previous |-> user[t].photo, new |-> None]
      /\ UNCHANGED <<user, calls, photo, taken, photos, crossed>>
  BY DEF TypeOK, SessionTypeOK, Click, sessionVars, serverVars, tabVars
<1>1. \A p : Named(p)' => Named(p)
  <2>1. \A x \in Tab : \A p : Names(x, p)' => Names(x, p)
    BY <1>a DEF Names
  <2>2. Names(t, user[t].photo)
    BY <1>a, UserTypes DEF Names
  <2>3. QED
    BY <1>a, <2>1, <2>2 DEF Named
<1>2. \A p : ~Pending(t, p)' /\ \A x \in Tab \ {t} : Pending(x, p)' = Pending(x, p)
  BY <1>a DEF Pending
<1>3. PhotosKnown'
  BY <1>a, <1>1 DEF PhotosInv, PhotosKnown
<1>4. UnsetInv'
  BY <1>a, <1>1, <1>2 DEF PhotosInv, UnsetInv
<1>5. DiscardInv'
  <2>1. user[t].of # None
    BY <1>a, TutorAccountsAssumption DEF User
  <2>2. QED
    BY <1>a, <2>1 DEF PhotosInv, DiscardInv
<1>6. OwnPhoto'
  BY <1>a DEF PhotosInv, OwnPhoto
<1>7. QED
  BY <1>3, <1>4, <1>5, <1>6 DEF PhotosInv

\* A photo uploaded is new, and named by nothing yet.
LEMMA UploadKeeps ==
    ASSUME TypeOK, PhotosInv, NEW t \in Tab, UploadPhoto(t)
    PROVE  PhotosInv'
<1>a. /\ saving \in [Tab -> Saving] /\ taken \in Nat
      /\ saving'[t] = [saving[t] EXCEPT !.step = "setting", !.new = taken + 1]
      /\ \A x \in Tab \ {t} : saving'[x] = saving[x]
      /\ UNCHANGED <<user, calls, photo, owner, memory>> /\ taken' = taken + 1
      /\ crossed' = (crossed \/ owner[memory[t]] # saving[t].of)
  BY DEF TypeOK, UploadPhoto, Cross, sessionVars, serverVars, tabVars
<1>b. /\ saving'[t].step = "setting" /\ saving'[t].new = taken + 1
      /\ saving'[t].of = saving[t].of /\ saving'[t].previous = saving[t].previous
  BY <1>a DEF Saving
<1>c. /\ DOMAIN photos' = DOMAIN photos \cup {taken + 1}
      /\ photos'[taken + 1] = owner[memory[t]]
      /\ \A p \in DOMAIN photos : p # taken + 1 => photos'[p] = photos[p]
  BY DEF UploadPhoto
<1>1. \A p : Named(p)' => Named(p)
  <2>1. \A x \in Tab : \A p : Names(x, p)' => Names(x, p)
    BY <1>a DEF Names
  <2>2. QED
    BY <1>a, <1>b, <2>1 DEF Named
<1>2. /\ ~Named(taken + 1) /\ taken + 1 \notin DOMAIN photos
      /\ \A x \in Tab : saving[x].new # taken + 1
      /\ 1..taken \subseteq 1..taken' /\ taken + 1 \in 1..taken'
  BY <1>a, SessionAssumption DEF PhotosInv, PhotosKnown
<1>3. PhotosKnown'
  BY <1>a, <1>b, <1>c, <1>1, <1>2 DEF PhotosInv, PhotosKnown
<1>4. UnsetInv'
  <2>1. \A p : Pending(t, p)' => p = taken + 1
    BY <1>b DEF Pending
  <2>2. \A x \in Tab \ {t} : \A p : Pending(x, p)' => Pending(x, p) /\ p # taken + 1
    BY <1>a, <1>2 DEF Pending
  <2>3. ASSUME NEW x \in Tab \ {t}, NEW p, Pending(x, p)'
        PROVE  /\ p \in DOMAIN photos'
               /\ ~crossed' => photos'[p] = saving'[x].of
               /\ ~Named(p)'
               /\ \A y \in Tab \ {x} : ~Pending(y, p)'
    <3>1. Pending(x, p) /\ p # taken + 1
      BY <2>2, <2>3
    <3>2. p \in DOMAIN photos /\ (~crossed => photos[p] = saving[x].of) /\ ~Named(p)
          /\ \A y \in Tab \ {x} : ~Pending(y, p)
      BY <3>1 DEF PhotosInv, UnsetInv
    <3>3. \A y \in Tab \ {x} : ~Pending(y, p)'
      BY <2>1, <2>2, <3>1, <3>2
    <3>4. QED
      BY <3>1, <3>2, <3>3, <1>a, <1>c, <1>1
  <2>4. ASSUME NEW p, Pending(t, p)'
        PROVE  /\ p \in DOMAIN photos'
               /\ ~crossed' => photos'[p] = saving'[t].of
               /\ ~Named(p)'
               /\ \A y \in Tab \ {t} : ~Pending(y, p)'
    BY <2>1, <2>2, <2>4, <1>a, <1>b, <1>c, <1>1, <1>2
  <2>5. QED
    BY <2>3, <2>4 DEF UnsetInv
<1>5. DiscardInv'
  BY <1>a, <1>b DEF PhotosInv, DiscardInv, UploadPhoto
<1>6. OwnPhoto'
  BY <1>a, <1>c, <1>2 DEF PhotosInv, OwnPhoto
<1>7. QED
  BY <1>3, <1>4, <1>5, <1>6 DEF PhotosInv

\* The account names the new photo, which is the account's own and named by nothing else.
LEMMA SetKeeps ==
    ASSUME TypeOK, PhotosInv, NEW t \in Tab, saving[t].step = "setting", MayAnswer(memory[t]), Cross(t),
           photo' = [photo EXCEPT ![owner[memory[t]]] = saving[t].new],
           \/ saving' = [saving EXCEPT ![t].step = "discarding"]
           \/ saving' = [saving EXCEPT ![t] = Idle],
           UNCHANGED <<user, calls, taken, photos>>
    PROVE  PhotosInv'
<1> DEFINE a == owner[memory[t]]
<1>a. /\ saving \in [Tab -> Saving] /\ a \in Account
      /\ saving'[t] = [saving[t] EXCEPT !.step = "discarding"] \/ saving'[t] = Idle
      /\ \A x \in Tab \ {t} : saving'[x] = saving[x]
      /\ photo'[a] = saving[t].new /\ \A b \in Account \ {a} : photo'[b] = photo[b]
      /\ crossed' = (crossed \/ a # saving[t].of)
      /\ \A x \in Tab : saving[x].of \in Account \cup {None}
  BY DEF TypeOK, SessionTypeOK, MayAnswer, Present, Cross, Saving
<1>b. saving'[t].step # "idle" =>
          /\ saving'[t].step = "discarding" /\ saving'[t].new = saving[t].new
          /\ saving'[t].of = saving[t].of /\ saving'[t].previous = saving[t].previous
  BY <1>a DEF Saving, Idle
<1>c. saving'[t].step = "idle" => saving'[t].new = None /\ saving'[t].previous = None
  BY <1>a DEF Saving, Idle
<1>1. \A p : Named(p)' => Named(p) \/ (p # None /\ p = saving[t].new)
  <2>1. \A x \in Tab : \A p : Names(x, p)' => Names(x, p)
    BY DEF Names
  <2>2. \A x \in Tab : saving'[x].previous \in {saving[x].previous, None}
    BY <1>a, <1>b, <1>c
  <2>3. QED
    BY <1>a, <2>1, <2>2 DEF Named
<1>2. \A p : ~Pending(t, p)' /\ \A x \in Tab \ {t} : Pending(x, p)' = Pending(x, p)
  BY <1>a, <1>b DEF Pending
<1>3. \A p : p # None /\ p = saving[t].new =>
          /\ p \in DOMAIN photos /\ ~Named(p)
          /\ ~crossed => photos[p] = saving[t].of
          /\ \A x \in Tab \ {t} : ~Pending(x, p)
  BY DEF Pending, PhotosInv, UnsetInv
<1>4. PhotosKnown'
  BY <1>a, <1>b, <1>c, <1>1 DEF PhotosInv, PhotosKnown
<1>5. UnsetInv'
  <2> SUFFICES ASSUME NEW x \in Tab, NEW p, Pending(x, p)'
               PROVE  /\ p \in DOMAIN photos'
                      /\ ~crossed' => photos'[p] = saving'[x].of
                      /\ ~Named(p)'
                      /\ \A y \in Tab \ {x} : ~Pending(y, p)'
    BY DEF UnsetInv
  <2>1. x # t /\ Pending(x, p) /\ saving'[x] = saving[x]
    BY <1>a, <1>2
  <2>2. /\ p \in DOMAIN photos /\ (~crossed => photos[p] = saving[x].of) /\ ~Named(p)
        /\ \A y \in Tab \ {x} : ~Pending(y, p)
    BY <2>1 DEF PhotosInv, UnsetInv
  <2>3. p # None /\ p # saving[t].new
    BY <2>1, <1>3 DEF Pending
  <2>4. QED
    BY <2>1, <2>2, <2>3, <1>a, <1>1, <1>2
<1>6. DiscardInv'
  <2>1. ASSUME NEW x \in Tab, saving[x].previous # None, saving[x].of \in Account,
               ~crossed', x = t \/ photo[saving[x].of] # saving[x].previous
        PROVE  photo'[saving[x].of] # saving[x].previous
    <3>1. Named(saving[x].previous)
      BY <2>1 DEF Named
    <3>2. saving[x].previous # saving[t].new
      BY <2>1, <3>1, <1>3
    <3>3. QED
      BY <2>1, <3>2, <1>a
  <2>2. ASSUME NEW x \in Tab, saving'[x].step # "idle"
        PROVE  /\ saving'[x].of = saving[x].of /\ saving'[x].previous = saving[x].previous
               /\ saving[x].step # "idle"
               /\ x = t \/ saving[x].step = saving'[x].step
    BY <2>2, <1>a, <1>b
  <2>3. \A x \in Tab : saving[x].step # "idle" => saving[x].of \in Account
    BY <1>a DEF PhotosInv, DiscardInv
  <2>4. ASSUME NEW x \in Tab, ~crossed', saving'[x].step = "discarding", saving'[x].previous # None
        PROVE  photo'[saving'[x].of] # saving'[x].previous
    <3>1. /\ saving'[x].of = saving[x].of /\ saving'[x].previous = saving[x].previous
          /\ saving[x].of \in Account /\ (x = t \/ saving[x].step = "discarding")
      BY <2>2, <2>3, <2>4
    <3>2. x = t \/ photo[saving[x].of] # saving[x].previous
      BY <2>4, <3>1, <1>a DEF PhotosInv, DiscardInv
    <3>3. QED
      BY <2>1, <2>4, <3>1, <3>2
  <2>5. QED
    BY <2>2, <2>3, <2>4, TutorAccountsAssumption DEF DiscardInv
<1>7. OwnPhoto'
  BY <1>a, <1>3 DEF PhotosInv, OwnPhoto
<1>8. QED
  BY <1>4, <1>5, <1>6, <1>7 DEF PhotosInv

\* The photo deleted is not one a change has yet to set, and not the account's any more.
LEMMA DiscardPhotoKeeps ==
    ASSUME TypeOK, PhotosInv, NEW t \in Tab, DiscardPhoto(t)
    PROVE  PhotosInv'
<1>a. /\ saving \in [Tab -> Saving] /\ UNCHANGED <<user, photo, taken, owner>>
      /\ saving' = [saving EXCEPT ![t] = Idle] /\ calls \in [Tab -> SUBSET Call]
      /\ calls' = [calls EXCEPT ![t] = Refreshing(t)] /\ saving[t].step = "discarding"
  BY DEF TypeOK, SessionTypeOK, DiscardPhoto, serverVars
<1>1. \A p : Named(p)' => Named(p)
  <2>1. \A x \in Tab : \A c \in calls'[x] : c \in calls[x] \/ c.got = None
    BY <1>a DEF Refreshing, Sent
  <2>2. \A x \in Tab : \A p : Names(x, p)' => Names(x, p)
    BY <1>a, <2>1 DEF Names
  <2>3. QED
    BY <1>a, <2>2 DEF Named, Idle
<1>2. CASE UNCHANGED <<photos, crossed>>
  BY <1>a, <1>1, <1>2, PhotosStand
<1>3. CASE /\ saving[t].previous \in DOMAIN photos /\ photos[saving[t].previous] = owner[memory[t]]
           /\ photos' = Without(saving[t].previous) /\ Cross(t)
  <2> DEFINE p == saving[t].previous
  <2>1. /\ DOMAIN photos' = DOMAIN photos \ {p} /\ \A q \in DOMAIN photos' : photos'[q] = photos[q]
        /\ crossed' = (crossed \/ photos[p] # saving[t].of) /\ p # None
    <3>1. p # None
      BY <1>3, SessionAssumption DEF TypeOK
    <3>2. QED
      BY <1>3, <3>1 DEF Without, Cross
  <2>2. Named(p)
    BY <2>1 DEF Named
  <2>3. \A x \in Tab : \A q : Pending(x, q)' => Pending(x, q) /\ saving'[x] = saving[x]
    BY <1>a DEF Pending, Idle
  <2>4. PhotosKnown'
    BY <1>a, <1>1, <2>1 DEF PhotosInv, PhotosKnown, Idle
  <2>5. UnsetInv'
    <3> SUFFICES ASSUME NEW x \in Tab, NEW q, Pending(x, q)'
                 PROVE  /\ q \in DOMAIN photos'
                        /\ ~crossed' => photos'[q] = saving'[x].of
                        /\ ~Named(q)'
                        /\ \A y \in Tab \ {x} : ~Pending(y, q)'
      BY DEF UnsetInv
    <3>1. Pending(x, q) /\ saving'[x] = saving[x]
      BY <2>3
    <3>2. /\ q \in DOMAIN photos /\ (~crossed => photos[q] = saving[x].of) /\ ~Named(q)
          /\ \A y \in Tab \ {x} : ~Pending(y, q)
      BY <3>1 DEF PhotosInv, UnsetInv
    <3>3. q # p
      BY <2>2, <3>2
    <3>4. QED
      BY <1>1, <2>1, <2>3, <3>1, <3>2, <3>3
  <2>6. DiscardInv'
    BY <1>a, <2>1 DEF PhotosInv, DiscardInv, Idle
  <2>7. OwnPhoto'
    <3>1. ~crossed' => photo[saving[t].of] # p /\ photos[p] = saving[t].of
      BY <1>a, <2>1 DEF PhotosInv, DiscardInv
    <3>2. ASSUME ~crossed', NEW a \in Account, photo[a] # None
          PROVE  photo[a] \in DOMAIN photos' /\ photos'[photo[a]] = a
      <4>1. photo[a] \in DOMAIN photos /\ photos[photo[a]] = a
        BY <2>1, <3>2 DEF PhotosInv, OwnPhoto
      <4>2. photo[a] # p
        BY <3>1, <3>2, <4>1
      <4>3. QED
        BY <2>1, <4>1, <4>2
    <3>3. QED
      BY <1>a, <3>2 DEF OwnPhoto
  <2>8. QED
    BY <2>4, <2>5, <2>6, <2>7 DEF PhotosInv
<1>4. QED
  BY <1>2, <1>3 DEF DiscardPhoto, Discarded

\* A photo an account names is there, unless a change crossed over to another account.
THEOREM PhotosAreThere == Spec => []PhotoIsThere
<1>1. Init => PhotosInv
  <2> SUFFICES ASSUME Init PROVE PhotosInv
    OBVIOUS
  <2>1. /\ \A a \in Account : photo[a] = None
        /\ \A t \in Tab : user[t] = None /\ saving[t] = Idle /\ \A c \in calls[t] : c.got = None
        /\ photos = <<>> /\ taken = 0
    BY DEF Init, SessionInit, Restoring, Sent
  <2>2. \A p : ~Named(p)
    BY <2>1 DEF Named, Names, Idle
  <2>3. QED
    BY <2>1, <2>2 DEF PhotosInv, PhotosKnown, UnsetInv, Pending, DiscardInv, OwnPhoto, Idle
<1>2. TypeOK /\ CallInv /\ PhotosInv /\ [Next]_vars => PhotosInv'
  <2> SUFFICES ASSUME TypeOK, CallInv, PhotosInv, [Next]_vars PROVE PhotosInv'
    OBVIOUS
  <2>1. CASE UNCHANGED <<user, calls, photo, photoVars>>
    <3>1. \A p : Named(p)' => Named(p)
      BY <2>1 DEF photoVars, Named, Names
    <3>2. QED
      BY <2>1, <3>1, PhotosStand DEF photoVars
  <2>2. ASSUME NEW t \in Tab, Browse(t) PROVE PhotosInv'
    <3>1. CASE \/ Reload(t)
               \/ (Restore(t) \/ Enter(t) \/ Leave(t) \/ Renew(t) \/ Renewed(t) \/ Refresh(t)) /\ UNCHANGED photoVars
      <4>1. /\ UNCHANGED <<photo, taken, photos, crossed>>
            /\ saving' = saving \/ saving' = [saving EXCEPT ![t] = Idle]
            /\ \A x \in Tab : \A p : p # None /\ Names(x, p)' => Names(x, p) \/ \E a \in Account : photo[a] = p
        BY <3>1, SessionNames DEF Reload, photoVars
      <4>2. \A x \in Tab : saving'[x] = saving[x] \/ saving'[x] = Idle
        BY <4>1 DEF TypeOK
      <4>3. \A p : Named(p)' => Named(p)
        BY <4>1, <4>2 DEF Named, Idle
      <4>4. QED
        BY <4>1, <4>2, <4>3, PhotosStand
    <3>2. CASE ChoosePhoto(t) \/ RemovePhoto(t)
      BY <3>2, ClickKeeps DEF ChoosePhoto, RemovePhoto
    <3>3. CASE UploadPhoto(t)
      BY <3>3, UploadKeeps
    <3>4. CASE SetPhoto(t)
      BY <3>4, SetKeeps DEF SetPhoto, tabVars
    <3>5. CASE DiscardPhoto(t)
      BY <3>5, DiscardPhotoKeeps
    <3>6. CASE PhotoFails(t)
      <4>1. CASE UNCHANGED <<photo, crossed>>
        <5>1. /\ UNCHANGED <<user, calls, taken, photos>>
              /\ \A x \in Tab : saving'[x] = saving[x] \/ saving'[x] = Idle
          BY <3>6 DEF PhotoFails, tabVars, TypeOK
        <5>2. \A p : Named(p)' => Named(p)
          BY <4>1, <5>1 DEF Named, Names, Idle
        <5>3. QED
          BY <4>1, <5>1, <5>2, PhotosStand
      <4>2. QED
        BY <3>6, <4>1, SetKeeps DEF PhotoFails, tabVars
    <3>7. QED
      BY <2>2, <3>1, <3>2, <3>3, <3>4, <3>5, <3>6 DEF Browse, ChangePhoto
  <2>3. QED
    BY <2>1, <2>2 DEF Next, Manage, serverVars, tabVars, vars, sessionVars
<1>3. PhotosInv => PhotoIsThere
  BY DEF PhotosInv, OwnPhoto, PhotoIsThere
<1>4. QED
  BY <1>1, <1>2, <1>3, TypeCorrect, PTL DEF Spec
===============================================================================
