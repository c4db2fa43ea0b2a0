-------------------------------- MODULE Session --------------------------------
(***************************************************************************)
(* Who a browser tab is signed in as.  A tab holds a Directus session,     *)
(* kept in storage that all tabs share and that a reload reads; the user   *)
(* it shows, which Directus answers; and the role it shows the user in,    *)
(* which the app answers and which is unknown where it does not.           *)
(*                                                                         *)
(* Each request carries the session held when it is sent.  It is answered  *)
(* or refused later, in any order with the tab's other requests and with   *)
(* what becomes of the account: a session that was ended, or of an account *)
(* suspended or removed, may go on being accepted for a while, and the row *)
(* of a removed account then has an id and nothing else.                   *)
(*                                                                         *)
(* Signing in, and renewing a session that runs out, are the SDK's: it     *)
(* empties the storage before its request and fills it with what it is     *)
(* answered, and a request sent meanwhile waits for a renewal to end.      *)
(*                                                                         *)
(* source: lib/auth.tsx, auth-context.ts, auth-storage.ts and api.ts,      *)
(* App.tsx, LoginPage and the account page of the frontend                 *)
(***************************************************************************)
EXTENDS TutorAccounts, Sequences

CONSTANTS
    Tab,
    MaxSessions,   \* bound: sessions opened or renewed
    Photo          \* ids of photos

VARIABLES
    owner,      \* the accounts of the sessions there were, in order
    ended,      \* the sessions ended by a sign-out or a renewal
    photo,      \* the photo each account names
    stored,     \* the session in the storage tabs share
    memory,     \* the session a tab holds,
    lapsed,     \* history: the one taken out to be renewed and not brought back since,
    user,       \* the user it shows,
    me,         \* what it was answered of their role, None if it was not,
    checking,   \* whether it is still to find out who is signed in,
    refused,    \* whether it was told the session is worth nothing,
    calls,      \* and its requests in flight
    mixed       \* history: whether one has landed that a sign-in or sign-out overtook, or
                \* that asked for the user again with nobody shown signed in

serverVars == <<owner, ended, photo>>
tabVars == <<stored, memory, lapsed, user, me, checking, refused, calls, mixed>>
sessionVars == <<tutorVars, serverVars, tabVars>>

SessionId == 1..MaxSessions
Awaited == 0
User == [of : Account, photo : Photo \cup {None}]
Me == [of : Account, role : {"tutor", "student", "admin", "unknown"}]

ASSUME SessionAssumption ==
    /\ MaxSessions \in Nat \ {0} /\ Photo \subseteq Nat
    /\ None \notin Nat \cup User \cup Me

\* A call sent while a session is renewed is `with` the one awaited.
Ask == {"restore", "place", "login", "identify", "enter", "refresh", "leave", "renew"}
Call == [ask : Ask, with : SessionId \cup {None, Awaited}, got : User \cup {None}, late : BOOLEAN]

SessionTypeOK ==
    /\ owner \in Seq(Account) /\ DOMAIN owner \subseteq SessionId
    /\ ended \subseteq DOMAIN owner
    /\ photo \in [Account -> Photo \cup {None}]
    /\ stored \in DOMAIN owner \cup {None}
    /\ memory \in [Tab -> DOMAIN owner \cup {None}]
    /\ lapsed \in [Tab -> DOMAIN owner \cup {None}]
    /\ user \in [Tab -> User \cup {None}]
    /\ me \in [Tab -> Me \cup {None}]
    /\ checking \in [Tab -> BOOLEAN]
    /\ refused \in [Tab -> BOOLEAN]
    /\ calls \in [Tab -> SUBSET Call]
    /\ mixed \in [Tab -> BOOLEAN]

Sent(ask, s) == [ask |-> ask, with |-> s, got |-> None, late |-> FALSE]
Restoring(s) == IF s = None THEN {} ELSE {Sent("restore", s)}
Asking(t, asks) == \E c \in calls[t] : c.ask \in asks
Renewing(t) == Asking(t, {"renew"})
\* The calls that have gone out,
Out(t, ask) == {c \in calls[t] : c.ask = ask /\ c.with # Awaited}
\* and what one sent now goes out with, the tab holding session s.
Token(t, s) == IF Renewing(t) THEN Awaited ELSE s

\* Tabs loaded with whatever the storage held, a session of an account by now suspended or
\* removed included.
SessionInit ==
    /\ owner \in {<<>>} \cup {<<a>> : a \in {b \in Account : standing[b] # "absent"}}
    /\ stored \in DOMAIN owner \cup {None}
    /\ ended \in SUBSET DOMAIN owner
    /\ photo = [a \in Account |-> None]
    /\ memory = [t \in Tab |-> stored]
    /\ lapsed = [t \in Tab |-> None]
    /\ user = [t \in Tab |-> None]
    /\ me = [t \in Tab |-> None]
    /\ checking = [t \in Tab |-> stored # None]
    /\ refused = [t \in Tab |-> FALSE]
    /\ calls = [t \in Tab |-> Restoring(stored)]
    /\ mixed = [t \in Tab |-> FALSE]

-------------------------------------------------------------------------------
(***************************************************************************)
(* What a request is answered.                                             *)
(***************************************************************************)

\* 401, 403, or the row of nobody.
MayRefuse(s) == s # None => (s \in ended \/ standing[owner[s]] # "active")
MayRefuseLost(s) == TRUE
Refuses(s) == MayRefuse(s)

MayAnswer(s) == s # None /\ owner[s] \in Present
MayBeNobody(s) == s # None /\ standing[owner[s]] = "removed"
Row(s) == [of |-> owner[s], photo |-> photo[owner[s]]]
Nobody(s) == [of |-> owner[s], photo |-> None]

\* The app answers the role, of a caller it cannot place "tutor";
Role(s) == [of |-> owner[s], role |-> IF owner[s] \in Present THEN RoleOf[owner[s]] ELSE "tutor"]
\* or it does not answer, which the tab takes for no reason to keep them out.
Placed(c, answer) ==
    \/ c.with # None /\ answer = Role(c.with) /\ UNCHANGED lost
    \/ answer = [of |-> c.got.of, role |-> "unknown"] /\ Lose

Over(t, c, next) == calls' = [calls EXCEPT ![t] = (@ \ {c}) \cup next]
Mix(t, c) == mixed' = [mixed EXCEPT ![t] = @ \/ c.late]
Overtaken(some) == {[c EXCEPT !.late = TRUE] : c \in some}
Hold(t, s) == memory' = [memory EXCEPT ![t] = s] /\ stored' = s

-------------------------------------------------------------------------------
(***************************************************************************)
(* A reload restores the session stored.                                   *)
(***************************************************************************)

\* A sign-out or a renewal in flight may have reached Directus.
Load(t) ==
    /\ memory' = [memory EXCEPT ![t] = stored]
    /\ lapsed' = [lapsed EXCEPT ![t] = None]
    /\ user' = [user EXCEPT ![t] = None]
    /\ me' = [me EXCEPT ![t] = None]
    /\ checking' = [checking EXCEPT ![t] = stored # None]
    /\ refused' = [refused EXCEPT ![t] = FALSE]
    /\ calls' = [calls EXCEPT ![t] = Restoring(stored)]
    /\ mixed' = [mixed EXCEPT ![t] = FALSE]
    /\ \/ UNCHANGED ended
       \/ ended' = ended \cup ({c.with : c \in {d \in calls[t] : d.ask \in {"leave", "renew"}}} \ {None})
    /\ UNCHANGED <<tutorVars, owner, photo, stored>>

\* A refused session is dropped, here and from the storage.
Discard(t, c) ==
    /\ Hold(t, None)
    /\ refused' = [refused EXCEPT ![t] = TRUE]
    /\ checking' = [checking EXCEPT ![t] = FALSE]
    /\ Over(t, c, {})
    /\ Mix(t, c)
    /\ UNCHANGED <<lost, lapsed, user, me>>

RestoreUser(t) ==
    /\ \E c \in Out(t, "restore") :
          \/ /\ MayAnswer(c.with)
             /\ Over(t, c, {[c EXCEPT !.ask = "place", !.with = Token(t, memory[t]),
                                      !.got = Row(c.with)]})
             /\ UNCHANGED <<lost, stored, memory, lapsed, user, me, checking, refused, mixed>>
          \/ /\ Refuses(c.with)
             /\ Discard(t, c)
          \/ /\ Lose
             /\ Over(t, c, {})
             /\ checking' = [checking EXCEPT ![t] = FALSE]
             /\ UNCHANGED <<stored, memory, lapsed, user, me, refused, mixed>>
    /\ UNCHANGED <<standing, tutorOf, uploader, removalVars, serverVars>>

RestoreIdentity(t) ==
    /\ \E c \in Out(t, "place") :
          \/ \E answer \in Me :
                /\ Placed(c, answer)
                /\ user' = [user EXCEPT ![t] = c.got]
                /\ me' = [me EXCEPT ![t] = answer]
                /\ checking' = [checking EXCEPT ![t] = FALSE]
                /\ Over(t, c, {})
                /\ Mix(t, c)
                /\ UNCHANGED <<stored, memory, lapsed, refused>>
          \/ /\ Refuses(c.with)
             /\ Discard(t, c)
    /\ UNCHANGED <<standing, tutorOf, uploader, removalVars, serverVars>>

-------------------------------------------------------------------------------
(***************************************************************************)
(* Signing in and out.                                                     *)
(***************************************************************************)

As(a) == [of |-> a, photo |-> None]

\* The sign-in page is anybody's who is not shown signed in, restoring or not.
Submit(t) ==
    /\ user[t] = None /\ ~Asking(t, {"login", "identify", "enter"})
    /\ \E a \in Present :
          calls' = [calls EXCEPT ![t] =
                       Overtaken(@) \cup {[Sent("login", None) EXCEPT !.got = As(a)]}]
    /\ Hold(t, None)
    /\ lapsed' = [lapsed EXCEPT ![t] = None]
    /\ UNCHANGED <<tutorVars, serverVars, user, me, checking, refused, mixed>>

\* What a sign-in asks first: the role, and the user after it.
AsksUserFirst == "enter"
AsksFirst == "identify"

SignIn(t) ==
    /\ \E c \in calls[t] :
          /\ c.ask = "login"
          /\ \/ /\ standing[c.got.of] = "active" /\ Len(owner) < MaxSessions
                /\ owner' = Append(owner, c.got.of)
                /\ Hold(t, Len(owner) + 1)
                /\ lapsed' = [lapsed EXCEPT ![t] = None]
                /\ refused' = [refused EXCEPT ![t] = FALSE]
                /\ calls' = [calls EXCEPT ![t] =
                       Overtaken(@ \ {c})
                       \cup {[Sent(AsksFirst, Token(t, Len(owner) + 1)) EXCEPT !.got = c.got]}]
                /\ mixed' = [mixed EXCEPT ![t] = @ \/ user[t] # None]
                /\ UNCHANGED lost
             \/ /\ IF standing[c.got.of] = "active" THEN Lose ELSE UNCHANGED lost
                /\ Over(t, c, {})
                /\ UNCHANGED <<owner, stored, memory, lapsed, refused, mixed>>
    /\ UNCHANGED <<standing, tutorOf, uploader, removalVars, ended, photo, user, me, checking>>

LoginIdentity(t) ==
    /\ \E c \in Out(t, "identify") :
          /\ \/ \E answer \in Me :
                   /\ Placed(c, answer)
                   /\ me' = [me EXCEPT ![t] = answer]
                   /\ Over(t, c, {[c EXCEPT !.ask = "enter", !.with = Token(t, memory[t])]})
                   /\ UNCHANGED <<stored, memory>>
             \/ /\ Refuses(c.with)
                /\ Hold(t, None)
                /\ Over(t, c, {})
                /\ UNCHANGED <<lost, me>>
          /\ Mix(t, c)
    /\ UNCHANGED <<standing, tutorOf, uploader, removalVars, serverVars, lapsed, user, checking,
                   refused>>

\* The user is shown as answered, were it nobody's row; a failure leaves everything.
ShowUser(t, ask) ==
    /\ \E c \in Out(t, ask) :
          /\ \/ /\ MayAnswer(c.with) \/ MayBeNobody(c.with)
                /\ user' = [user EXCEPT ![t] = IF MayAnswer(c.with) THEN Row(c.with) ELSE Nobody(c.with)]
                /\ Mix(t, c)
                /\ UNCHANGED lost
             \/ /\ IF MayRefuse(c.with) THEN UNCHANGED lost ELSE Lose
                /\ UNCHANGED <<user, mixed>>
          /\ Over(t, c, {})
    /\ UNCHANGED <<standing, tutorOf, uploader, removalVars, serverVars, stored, memory, lapsed, me,
                   checking, refused>>

LoginUser(t) == ShowUser(t, "enter")
RefreshUser(t) == ShowUser(t, "refresh")

\* From the account page, behind the guard of its route.
SignOut(t) ==
    /\ user[t] # None /\ ~checking[t] /\ ~Asking(t, {"leave"})
    /\ calls' = [calls EXCEPT ![t] = @ \cup {Sent("leave", memory[t])}]
    /\ UNCHANGED <<tutorVars, serverVars, stored, memory, lapsed, user, me, checking, refused, mixed>>

\* Whether or not Directus hears of it.
SignedOut(t) ==
    /\ \E c \in calls[t] :
          /\ c.ask = "leave"
          /\ \/ ended' = ended \cup ({c.with} \ {None}) /\ UNCHANGED lost
             \/ UNCHANGED ended /\ Lose
          /\ calls' = [calls EXCEPT ![t] = Overtaken(@ \ {c})]
    /\ Hold(t, None)
    /\ lapsed' = [lapsed EXCEPT ![t] = None]
    /\ user' = [user EXCEPT ![t] = None]
    /\ me' = [me EXCEPT ![t] = None]
    /\ refused' = [refused EXCEPT ![t] = FALSE]
    /\ mixed' = [mixed EXCEPT ![t] = FALSE]
    /\ UNCHANGED <<standing, tutorOf, uploader, removalVars, owner, photo, checking>>

-------------------------------------------------------------------------------
(***************************************************************************)
(* The SDK renews a session that runs out.                                 *)
(***************************************************************************)

\* It takes the session out of the storage first.  A timer makes it, or a request about to
\* go out, which waits with whatever else is sent until then.
Renew(t) ==
    LET s == memory[t]
        unsent == {c \in calls[t] : c.ask # "leave" /\ c.with = s}
    IN
    /\ s # None /\ ~Renewing(t)
    /\ \E waiting \in SUBSET unsent :
          calls' = [calls EXCEPT ![t] =
              (@ \ waiting) \cup {[c EXCEPT !.with = Awaited] : c \in waiting} \cup {Sent("renew", s)}]
    /\ Hold(t, None)
    /\ lapsed' = [lapsed EXCEPT ![t] = s]
    /\ UNCHANGED <<tutorVars, serverVars, user, me, checking, refused, mixed>>

\* The renewal over, what waited for it goes out with session s.
Resumed(some, s) == {IF c.with = Awaited THEN [c EXCEPT !.with = s] ELSE c : c \in some}

\* Renewed, the session before is over, also where the answer is lost; a session that is over
\* or whose account is not active is not renewed, and the storage stays empty.
Renewed(t) ==
    /\ \E c \in Out(t, "renew") :
          \/ /\ ~MayRefuse(c.with) /\ Len(owner) < MaxSessions
             /\ owner' = Append(owner, owner[c.with])
             /\ ended' = ended \cup {c.with}
             /\ Hold(t, Len(owner) + 1)
             /\ lapsed' = [lapsed EXCEPT ![t] = None]
             /\ calls' = [calls EXCEPT ![t] = Resumed(@ \ {c}, Len(owner) + 1)]
             /\ Mix(t, c)
             /\ UNCHANGED lost
          \/ /\ \/ MayRefuse(c.with) /\ UNCHANGED <<lost, ended>>
                \/ Lose /\ ended' \in {ended, ended \cup {c.with}}
             /\ calls' = [calls EXCEPT ![t] = Resumed(@ \ {c}, memory[t])]
             /\ UNCHANGED <<owner, stored, memory, lapsed, mixed>>
    /\ UNCHANGED <<standing, tutorOf, uploader, removalVars, photo, user, me, checking, refused>>

-------------------------------------------------------------------------------
\* The user is asked for again after their own profile has been saved.
Refreshing(t) == calls[t] \cup {[Sent("refresh", memory[t]) EXCEPT !.late = (user[t] = None)]}
SaveProfile(t) ==
    /\ user[t] # None /\ ~checking[t] /\ MayAnswer(memory[t])
    /\ ~Asking(t, {"refresh", "renew"})
    /\ calls' = [calls EXCEPT ![t] = Refreshing(t)]
    /\ UNCHANGED <<tutorVars, serverVars, stored, memory, lapsed, user, me, checking, refused, mixed>>

Enter(t) == Submit(t) \/ SignIn(t) \/ LoginIdentity(t) \/ LoginUser(t)
Restore(t) == RestoreUser(t) \/ RestoreIdentity(t)
Leave(t) == SignOut(t) \/ SignedOut(t)
Refresh(t) == SaveProfile(t) \/ RefreshUser(t)

-------------------------------------------------------------------------------
(***************************************************************************)
(* Properties.                                                             *)
(***************************************************************************)

\* The roles a tab may show an account in: its own, or, where the app did not answer or
\* could not place it, what callerRole falls back to.
MayShow(a) == {RoleOf[a], "unknown"} \cup IF standing[a] = "removed" THEN {"tutor"} ELSE {}

\* The session a tab holds, or held until it was taken out to be renewed.
Held(t) == IF memory[t] # None THEN memory[t] ELSE lapsed[t]

\* Unless an answer has landed that a sign-in or sign-out overtook, or to a change of photo
\* that went on after one (`mixed`), a tab shows nobody but whom it holds a session of, or
\* did until a renewal that has not succeeded, in a role the app was asked for under a
\* session of theirs, and nobody at all once it is refused; whatever the other tabs, the
\* admin and the renewals do.
SignedInAsAnswered ==
    \A t \in Tab :
        ~mixed[t] /\ user[t] # None =>
            /\ ~refused[t]
            /\ Held(t) # None /\ owner[Held(t)] = user[t].of
            /\ me[t] # None /\ me[t].of = user[t].of /\ me[t].role \in MayShow(user[t].of)

\* A step that drops the stored session has a reason.
RefusedOnly ==
    stored # None /\ stored' = None =>
        \E t \in Tab :
            \/ SignedOut(t)
            \/ \E ask \in {"restore", "place", "identify"} : \E c \in Out(t, ask) : MayRefuse(c.with)
            \/ Submit(t) \/ Renew(t)
\* "Only a rejection means the stored session is worthless": the app drops the stored
\* session but for a sign-out only when a request is in flight whose session was ended, or
\* is of an account no longer active, or which has none; a request of the app's that is lost
\* does not cost it.  The SDK takes it out to sign in and to renew, whatever comes of that.
OnlyRefusedSessionsGo == [][RefusedOnly]_sessionVars

\* "A route guard runs as soon as `user` is set, and it must not see a signed-in caller
\* whose role is still unknown": not asked for, that is.
UserHasARole == \A t \in Tab : user[t] # None => me[t] # None
===============================================================================
