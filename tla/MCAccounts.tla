------------------------------ MODULE MCAccounts ------------------------------
(***************************************************************************)
(* A practice of an admin, two tutors and a student account, and two tabs. *)
(* The hazards are pairwise, so each behaviour is about one of four        *)
(* matters and the rest is held still: tutors, two removals and what is    *)
(* given to tutors meanwhile; the session two tabs share, which both       *)
(* restore, renew and end while one of them signs in anew to either of     *)
(* two accounts, or a tab's sign-ins to a tutor while the admin suspends   *)
(* or removes the tutor; the photo of one account, changed in two tabs     *)
(* that stay signed in to it; and a change of photo that goes on in a tab  *)
(* that switches accounts.  A tab has at most two calls in flight.         *)
(***************************************************************************)
EXTENDS Accounts, FiniteSets, TLC

CONSTANTS k, a1, a2, a3
VARIABLE cast

MCRoleOf == (k :> "admin") @@ (a1 :> "tutor") @@ (a2 :> "tutor") @@ (a3 :> "student")

ATab == CHOOSE t \in Tab : TRUE
ARemoval == CHOOSE r \in Removal : TRUE

Casts ==
    {[about |-> "tutors", of |-> Removal], [about |-> "session", of |-> Tab],
     [about |-> "session", of |-> {ATab, ARemoval}], [about |-> "photo", of |-> Tab],
     [about |-> "switch", of |-> {ATab}]}

\* Whose accounts a matter is about.
Players == CASE cast.about = "tutors" -> {a1, a2}
             [] cast = [about |-> "session", of |-> Tab] \/ cast.about = "switch" -> {a1, a3}
             [] OTHER -> {a1}

MCInit ==
    /\ cast \in Casts
    /\ Init
    /\ \A a \in Account \ Players : standing[a] = IF a = k THEN "active" ELSE "absent"
    /\ \A n \in DOMAIN owner : owner[n] \in Players
    /\ \/ /\ cast.about = "tutors" /\ standing[a2] = "active" /\ owner = <<>>
          /\ \A f \in DOMAIN uploader : uploader[f] = a1
       \/ /\ cast.about # "tutors" /\ tutorOf = <<>> /\ uploader = <<>>
          /\ cast.of \in {Tab, {ATab}} => \A a \in Players : standing[a] = "active"
          /\ cast.about \in {"photo", "switch"} => stored # None /\ ended = {}

Still ==
    /\ cast.about = "tutors" => \A f \in DOMAIN uploader' : uploader'[f] # a2
    /\ cast.about = "session" => tutorOf' = tutorOf /\ uploader' = uploader /\ photoVars' = photoVars
    /\ \A t \in Tab : Cardinality(calls'[t]) <= 2
    /\ cast = [about |-> "session", of |-> Tab] =>
          /\ lost' = lost
          /\ \A t \in Tab : \A c \in calls'[t] :
                c.ask # "refresh" /\ (c.ask = "login" => t = ATab)
    /\ cast.about = "photo" => stored' = stored
    /\ cast.about = "photo" => \A t \in Tab : \A c \in calls'[t] \ calls[t] :
          /\ c.ask \notin {"login", "leave", "renew"}
          /\ c.ask = "refresh" => saving' # saving
    /\ cast.about = "switch" =>
          /\ tutorVars' = tutorVars
          /\ taken' < 3
          /\ \A t \in Tab : \A c \in calls'[t] \ calls[t] : c.ask = "refresh" => saving' # saving
          /\ \A t \in Tab : \A c \in calls'[t] : c.ask # "renew"

MCNext ==
    /\ \/ cast.of \cap Removal # {} /\ Manage /\ \A r \in Removal \ cast.of : target'[r] = None
       \/ /\ \E t \in Tab \cap cast.of : Browse(t)
          /\ Len(owner') > Len(owner) => owner'[Len(owner')] \in Players
    /\ Still
    /\ UNCHANGED cast

MCSpec == MCInit /\ [][MCNext]_<<vars, cast>>
===============================================================================
