-------------------------- MODULE StudentLoginsProofs --------------------------
(***************************************************************************)
(* What StudentLogins guarantees for any number of operations, logins and  *)
(* files.  The argument is local to an operation: while nobody else has    *)
(* written, what it read still holds (UnderWay), so what it leaves behind  *)
(* is what it says.  The uploads need the list an operation works off      *)
(* (Released), whoever else is writing.                                    *)
(***************************************************************************)
EXTENDS StudentLogins, TLAPS

\* The login an operation is at work on.
Holds == {"archiving", "unarchiving", "removing", "deleting", "removing link"} \cup Handing

LinkInv ==
    /\ user # None => account[user] \in Live
    /\ student = "deleted" => user = None

\* What an operation nobody has written under finds when it comes to each step.
UnderWay(o) ==
    /\ at[o] \in Holds => held[o] # None
    /\ ~moved[o] =>
        /\ at[o] \in Holds \ {"removing link"} => user = held[o]
        /\ at[o] \in {"creating", "removing link", "deleting row"} => user = None
        /\ at[o] \in {"removing link", "deleting row"} =>
              (held[o] # None => account[held[o]] = "deleted")
        /\ at[o] \in {"archiving row", "unarchiving row"} => user = held[o]
        /\ at[o] = "archiving row" => (user # None => account[user] = "suspended")
        /\ at[o] = "unarchiving row" => (user # None => account[user] = "active")

Outcome(o) ==
    ~moved[o] =>
        /\ at[o] = "archived" =>
              /\ status = "archived" /\ user = held[o]
              /\ user # None => account[user] = "suspended"
        /\ at[o] = "unarchived" =>
              /\ status = "active" /\ user = held[o]
              /\ user # None => account[user] = "active"
        /\ at[o] = "created" => user = held[o] /\ account[user] = "active"
        /\ at[o] = "removed" => user = None /\ account[held[o]] = "deleted"
        /\ at[o] = "deleted" =>
              /\ student = "deleted"
              /\ held[o] # None => account[held[o]] = "deleted"

\* What is still the login's is on the list, or was refused, or came too late for it.
Released(o) ==
    at[o] \in Handing => \A f \in Files : owner[f] = held[o] => f \in listed[o] \cup refused \cup late

IInv ==
    /\ TypeOK
    /\ LinkInv
    /\ \A o \in Ops : UnderWay(o) /\ Outcome(o) /\ Released(o)
    /\ UploadsAreKept

LEMMA InitEstablishes == ASSUME Init PROVE IInv
<1> USE LoginsAssumption DEF Init
<1>1. TypeOK
  BY DEF TypeOK, Busy, Done, Handing, Live, StudentStatus, Unfiled
<1>2. LinkInv
  BY DEF LinkInv
<1>3. ASSUME NEW o \in Ops PROVE UnderWay(o) /\ Outcome(o) /\ Released(o)
  BY DEF UnderWay, Outcome, Released, Holds, Handing
<1>4. UploadsAreKept
  BY DEF UploadsAreKept, Unfiled
<1> QED BY <1>1, <1>2, <1>3, <1>4 DEF IInv

LEMMA ArchivePreserves == ASSUME NEW o \in Ops, IInv, Archive(o) PROVE IInv'
<1> USE LoginsAssumption
    DEF IInv, GoTo, MovedBy, rowVars, opVars, Handing, Live
<1>1. CASE BeginArchive(o)
  <2>1. TypeOK'
    BY <1>1 DEF BeginArchive, Begin, Busy, Done, TypeOK, StudentStatus
  <2>2. LinkInv'
    BY <1>1 DEF BeginArchive, Begin, Busy, Done, TypeOK, LinkInv, UnderWay, Holds
  <2>3. ASSUME NEW x \in Ops PROVE UnderWay(x)'
    BY <1>1 DEF BeginArchive, Begin, Busy, Done, TypeOK, LinkInv, UnderWay, Holds
  <2>4. ASSUME NEW x \in Ops PROVE Outcome(x)'
    BY <1>1 DEF BeginArchive, Begin, Busy, Done, TypeOK, LinkInv, UnderWay, Holds,
       Outcome
  <2>5. ASSUME NEW x \in Ops PROVE Released(x)'
    BY <1>1 DEF BeginArchive, Begin, Busy, Done, TypeOK, UnderWay, Holds, Released
  <2>6. UploadsAreKept'
    BY <1>1 DEF BeginArchive, Begin, Busy, Done, TypeOK, Released, UploadsAreKept,
       UnderWay, Holds
  <2> QED BY <2>1, <2>2, <2>3, <2>4, <2>5, <2>6
<1>2. CASE SuspendLogin(o)
  <2>1. TypeOK'
    BY <1>2 DEF SuspendLogin, TypeOK, StudentStatus, Busy, Done
  <2>2. LinkInv'
    BY <1>2 DEF SuspendLogin, TypeOK, LinkInv, UnderWay, Holds
  <2>3. ASSUME NEW x \in Ops PROVE UnderWay(x)'
    BY <1>2 DEF SuspendLogin, TypeOK, LinkInv, UnderWay, Holds
  <2>4. ASSUME NEW x \in Ops PROVE Outcome(x)'
    BY <1>2 DEF SuspendLogin, TypeOK, LinkInv, UnderWay, Holds, Outcome
  <2>5. ASSUME NEW x \in Ops PROVE Released(x)'
    <3> SUFFICES ASSUME at'[x] \in Handing, NEW f0 \in Files, owner'[f0] = held'[x]
                 PROVE  f0 \in listed'[x] \cup refused' \cup late'
      BY DEF Released
    <3>1. at[x] \in Handing /\ held'[x] = held[x]
      BY <1>2 DEF SuspendLogin, TypeOK
    <3>2. owner[f0] = held[x]
      BY <1>2, <3>1 DEF SuspendLogin, TypeOK, UnderWay, Holds
    <3>3. f0 \in listed[x] \cup refused \cup late
      BY <3>1, <3>2 DEF Released
    <3> QED BY <1>2, <3>1, <3>2, <3>3 DEF SuspendLogin, TypeOK, UnderWay, Holds
  <2>6. UploadsAreKept'
    BY <1>2 DEF SuspendLogin, TypeOK, Released, UploadsAreKept, UnderWay, Holds
  <2> QED BY <2>1, <2>2, <2>3, <2>4, <2>5, <2>6
<1>3. CASE ArchiveRow(o)
  <2>1. TypeOK'
    BY <1>3 DEF ArchiveRow, TypeOK, StudentStatus, Busy, Done
  <2>2. LinkInv'
    BY <1>3 DEF ArchiveRow, TypeOK, LinkInv, UnderWay, Holds
  <2>3. ASSUME NEW x \in Ops PROVE UnderWay(x)'
    BY <1>3 DEF ArchiveRow, TypeOK, LinkInv, UnderWay, Holds
  <2>4. ASSUME NEW x \in Ops PROVE Outcome(x)'
    BY <1>3 DEF ArchiveRow, TypeOK, LinkInv, UnderWay, Holds, Outcome
  <2>5. ASSUME NEW x \in Ops PROVE Released(x)'
    BY <1>3 DEF ArchiveRow, TypeOK, UnderWay, Holds, Released
  <2>6. UploadsAreKept'
    BY <1>3 DEF ArchiveRow, TypeOK, Released, UploadsAreKept, UnderWay, Holds
  <2> QED BY <2>1, <2>2, <2>3, <2>4, <2>5, <2>6
<1> QED BY <1>1, <1>2, <1>3 DEF Archive

LEMMA UnarchivePreserves == ASSUME NEW o \in Ops, IInv, Unarchive(o) PROVE IInv'
<1> USE LoginsAssumption
    DEF IInv, GoTo, MovedBy, rowVars, opVars, Handing, Live
<1>1. CASE BeginUnarchive(o)
  <2>1. TypeOK'
    BY <1>1 DEF BeginUnarchive, Begin, Busy, Done, TypeOK, StudentStatus
  <2>2. LinkInv'
    BY <1>1 DEF BeginUnarchive, Begin, Busy, Done, TypeOK, LinkInv, UnderWay, Holds
  <2>3. ASSUME NEW x \in Ops PROVE UnderWay(x)'
    BY <1>1 DEF BeginUnarchive, Begin, Busy, Done, TypeOK, LinkInv, UnderWay, Holds
  <2>4. ASSUME NEW x \in Ops PROVE Outcome(x)'
    BY <1>1 DEF BeginUnarchive, Begin, Busy, Done, TypeOK, LinkInv, UnderWay, Holds,
       Outcome
  <2>5. ASSUME NEW x \in Ops PROVE Released(x)'
    BY <1>1 DEF BeginUnarchive, Begin, Busy, Done, TypeOK, UnderWay, Holds, Released
  <2>6. UploadsAreKept'
    BY <1>1 DEF BeginUnarchive, Begin, Busy, Done, TypeOK, Released, UploadsAreKept,
       UnderWay, Holds
  <2> QED BY <2>1, <2>2, <2>3, <2>4, <2>5, <2>6
<1>2. CASE RestoreLogin(o)
  <2>1. TypeOK'
    BY <1>2 DEF RestoreLogin, TypeOK, StudentStatus, Busy, Done
  <2>2. LinkInv'
    BY <1>2 DEF RestoreLogin, TypeOK, LinkInv, UnderWay, Holds
  <2>3. ASSUME NEW x \in Ops PROVE UnderWay(x)'
    BY <1>2 DEF RestoreLogin, TypeOK, LinkInv, UnderWay, Holds
  <2>4. ASSUME NEW x \in Ops PROVE Outcome(x)'
    BY <1>2 DEF RestoreLogin, TypeOK, LinkInv, UnderWay, Holds, Outcome
  <2>5. ASSUME NEW x \in Ops PROVE Released(x)'
    <3> SUFFICES ASSUME at'[x] \in Handing, NEW f0 \in Files, owner'[f0] = held'[x]
                 PROVE  f0 \in listed'[x] \cup refused' \cup late'
      BY DEF Released
    <3>1. at[x] \in Handing /\ held'[x] = held[x]
      BY <1>2 DEF RestoreLogin, TypeOK
    <3>2. owner[f0] = held[x]
      BY <1>2, <3>1 DEF RestoreLogin, TypeOK, UnderWay, Holds
    <3>3. f0 \in listed[x] \cup refused \cup late
      BY <3>1, <3>2 DEF Released
    <3> QED BY <1>2, <3>1, <3>2, <3>3 DEF RestoreLogin, TypeOK, UnderWay, Holds
  <2>6. UploadsAreKept'
    BY <1>2 DEF RestoreLogin, TypeOK, Released, UploadsAreKept, UnderWay, Holds
  <2> QED BY <2>1, <2>2, <2>3, <2>4, <2>5, <2>6
<1>3. CASE UnarchiveRow(o)
  <2>1. TypeOK'
    BY <1>3 DEF UnarchiveRow, TypeOK, StudentStatus, Busy, Done
  <2>2. LinkInv'
    BY <1>3 DEF UnarchiveRow, TypeOK, LinkInv, UnderWay, Holds
  <2>3. ASSUME NEW x \in Ops PROVE UnderWay(x)'
    BY <1>3 DEF UnarchiveRow, TypeOK, LinkInv, UnderWay, Holds
  <2>4. ASSUME NEW x \in Ops PROVE Outcome(x)'
    BY <1>3 DEF UnarchiveRow, TypeOK, LinkInv, UnderWay, Holds, Outcome
  <2>5. ASSUME NEW x \in Ops PROVE Released(x)'
    BY <1>3 DEF UnarchiveRow, TypeOK, UnderWay, Holds, Released
  <2>6. UploadsAreKept'
    BY <1>3 DEF UnarchiveRow, TypeOK, Released, UploadsAreKept, UnderWay, Holds
  <2> QED BY <2>1, <2>2, <2>3, <2>4, <2>5, <2>6
<1> QED BY <1>1, <1>2, <1>3 DEF Unarchive

LEMMA CreatePreserves == ASSUME NEW o \in Ops, IInv, Create(o) PROVE IInv'
<1> USE LoginsAssumption
    DEF IInv, GoTo, MovedBy, rowVars, opVars, Handing, Live
<1>1. CASE BeginCreate(o)
  <2>1. TypeOK'
    BY <1>1 DEF BeginCreate, Begin, Busy, Done, TypeOK, StudentStatus
  <2>2. LinkInv'
    BY <1>1 DEF BeginCreate, Begin, Busy, Done, TypeOK, LinkInv, UnderWay, Holds
  <2>3. ASSUME NEW x \in Ops PROVE UnderWay(x)'
    BY <1>1 DEF BeginCreate, Begin, Busy, Done, TypeOK, LinkInv, UnderWay, Holds
  <2>4. ASSUME NEW x \in Ops PROVE Outcome(x)'
    BY <1>1 DEF BeginCreate, Begin, Busy, Done, TypeOK, LinkInv, UnderWay, Holds,
       Outcome
  <2>5. ASSUME NEW x \in Ops PROVE Released(x)'
    BY <1>1 DEF BeginCreate, Begin, Busy, Done, TypeOK, UnderWay, Holds, Released
  <2>6. UploadsAreKept'
    BY <1>1 DEF BeginCreate, Begin, Busy, Done, TypeOK, Released, UploadsAreKept,
       UnderWay, Holds
  <2> QED BY <2>1, <2>2, <2>3, <2>4, <2>5, <2>6
<1>2. ASSUME NEW u \in Users, CreateLogin(o, u) PROVE IInv'
  <2>1. TypeOK'
    BY <1>2 DEF CreateLogin, TypeOK, StudentStatus, Busy, Done
  <2>2. LinkInv'
    BY <1>2 DEF CreateLogin, TypeOK, LinkInv, UnderWay, Holds
  <2>3. ASSUME NEW x \in Ops PROVE UnderWay(x)'
    BY <1>2 DEF CreateLogin, TypeOK, LinkInv, UnderWay, Holds
  <2>4. ASSUME NEW x \in Ops PROVE Outcome(x)'
    BY <1>2 DEF CreateLogin, TypeOK, LinkInv, UnderWay, Holds, Outcome
  <2>5. ASSUME NEW x \in Ops PROVE Released(x)'
    BY <1>2 DEF CreateLogin, TypeOK, UnderWay, Holds, Released, LinkInv
  <2>6. UploadsAreKept'
    BY <1>2 DEF CreateLogin, TypeOK, Released, UploadsAreKept, UnderWay, Holds
  <2> QED BY <2>1, <2>2, <2>3, <2>4, <2>5, <2>6
<1> QED BY <1>1, <1>2 DEF Create

LEMMA ReleasePreserves == ASSUME NEW o \in Ops, IInv, Release(o) PROVE IInv'
<1> USE LoginsAssumption
    DEF IInv, GoTo, MovedBy, rowVars, opVars, Handing, Live
<1>1. CASE ListUploads(o)
  <2>1. TypeOK'
    BY <1>1 DEF ListUploads, ToRelease, TypeOK, StudentStatus, Busy, Done
  <2>2. LinkInv'
    BY <1>1 DEF ListUploads, ToRelease, TypeOK, LinkInv, UnderWay, Holds
  <2>3. ASSUME NEW x \in Ops PROVE UnderWay(x)'
    BY <1>1 DEF ListUploads, ToRelease, TypeOK, LinkInv, UnderWay, Holds
  <2>4. ASSUME NEW x \in Ops PROVE Outcome(x)'
    BY <1>1 DEF ListUploads, ToRelease, TypeOK, LinkInv, UnderWay, Holds, Outcome
  <2>5. ASSUME NEW x \in Ops PROVE Released(x)'
    BY <1>1 DEF ListUploads, ToRelease, TypeOK, UnderWay, Holds, Released
  <2>6. UploadsAreKept'
    BY <1>1 DEF ListUploads, ToRelease, TypeOK, Released, UploadsAreKept, UnderWay,
       Holds
  <2> QED BY <2>1, <2>2, <2>3, <2>4, <2>5, <2>6
<1>2. ASSUME NEW f \in Files, HandOver(o, f) PROVE IInv'
  <2>1. TypeOK'
    BY <1>2 DEF HandOver, TypeOK, StudentStatus, Busy, Done
  <2>2. LinkInv'
    BY <1>2 DEF HandOver, TypeOK, LinkInv, UnderWay, Holds
  <2>3. ASSUME NEW x \in Ops PROVE UnderWay(x)'
    BY <1>2 DEF HandOver, TypeOK, LinkInv, UnderWay, Holds
  <2>4. ASSUME NEW x \in Ops PROVE Outcome(x)'
    BY <1>2 DEF HandOver, TypeOK, LinkInv, UnderWay, Holds, Outcome
  <2>5. ASSUME NEW x \in Ops PROVE Released(x)'
    <3> SUFFICES ASSUME at'[x] \in Handing, NEW f0 \in Files, owner'[f0] = held'[x]
                 PROVE  f0 \in listed'[x] \cup refused' \cup late'
      BY DEF Released
    <3>1. /\ at[x] \in Handing
          /\ held'[x] = held[x]
          /\ held[x] \in Users
      BY <1>2 DEF HandOver, TypeOK, UnderWay, Holds
    <3>2. owner' \in {[owner EXCEPT ![f] = Caller], [owner EXCEPT ![f] = None]}
      BY <1>2 DEF HandOver
    <3>3. owner'[f] \in {Caller, None}
      BY <3>2 DEF TypeOK
    <3>4. f0 # f
      BY <3>1, <3>3
    <3>5. owner[f0] = held[x]
      BY <3>1, <3>2, <3>4 DEF TypeOK
    <3>6. f0 \in listed[x] \cup refused \cup late
      BY <3>1, <3>5 DEF Released
    <3>7. listed[x] \ {f} \subseteq listed'[x] /\ refused \subseteq refused' /\ late' = late
      BY <1>2 DEF HandOver, TypeOK
    <3> QED BY <3>4, <3>6, <3>7
  <2>6. UploadsAreKept'
    BY <1>2 DEF HandOver, TypeOK, Released, UploadsAreKept, UnderWay, Holds
  <2> QED BY <2>1, <2>2, <2>3, <2>4, <2>5, <2>6
<1>3. CASE DeleteUser(o)
  <2>1. TypeOK'
    BY <1>3 DEF DeleteUser, TypeOK, StudentStatus, Busy, Done
  <2>2. LinkInv'
    BY <1>3 DEF DeleteUser, TypeOK, LinkInv, UnderWay, Holds
  <2>3. ASSUME NEW x \in Ops PROVE UnderWay(x)'
    BY <1>3 DEF DeleteUser, TypeOK, LinkInv, UnderWay, Holds
  <2>4. ASSUME NEW x \in Ops PROVE Outcome(x)'
    BY <1>3 DEF DeleteUser, TypeOK, LinkInv, UnderWay, Holds, Outcome
  <2>5. ASSUME NEW x \in Ops PROVE Released(x)'
    <3> SUFFICES ASSUME at'[x] \in Handing, NEW f0 \in Files, owner'[f0] = held'[x]
                 PROVE  f0 \in listed'[x] \cup refused' \cup late'
      BY DEF Released
    <3>1. at[x] \in Handing /\ held'[x] = held[x]
      BY <1>3 DEF DeleteUser, TypeOK
    <3>2. owner[f0] = held[x]
      BY <1>3, <3>1 DEF DeleteUser, TypeOK, UnderWay, Holds
    <3>3. f0 \in listed[x] \cup refused \cup late
      BY <3>1, <3>2 DEF Released
    <3> QED BY <1>3, <3>1, <3>2, <3>3 DEF DeleteUser, TypeOK, UnderWay, Holds
  <2>6. UploadsAreKept'
    BY <1>3 DEF DeleteUser, TypeOK, Released, UploadsAreKept, UnderWay, Holds
  <2> QED BY <2>1, <2>2, <2>3, <2>4, <2>5, <2>6
<1> QED BY <1>1, <1>2, <1>3 DEF Release

LEMMA RemovePreserves == ASSUME NEW o \in Ops, IInv, Remove(o) PROVE IInv'
<1> USE LoginsAssumption
    DEF IInv, GoTo, MovedBy, rowVars, opVars, Handing, Live
<1>1. CASE BeginRemove(o)
  <2>1. TypeOK'
    BY <1>1 DEF BeginRemove, Begin, Busy, Done, TypeOK, StudentStatus
  <2>2. LinkInv'
    BY <1>1 DEF BeginRemove, Begin, Busy, Done, TypeOK, LinkInv, UnderWay, Holds
  <2>3. ASSUME NEW x \in Ops PROVE UnderWay(x)'
    BY <1>1 DEF BeginRemove, Begin, Busy, Done, TypeOK, LinkInv, UnderWay, Holds
  <2>4. ASSUME NEW x \in Ops PROVE Outcome(x)'
    BY <1>1 DEF BeginRemove, Begin, Busy, Done, TypeOK, LinkInv, UnderWay, Holds,
       Outcome
  <2>5. ASSUME NEW x \in Ops PROVE Released(x)'
    BY <1>1 DEF BeginRemove, Begin, Busy, Done, TypeOK, UnderWay, Holds, Released
  <2>6. UploadsAreKept'
    BY <1>1 DEF BeginRemove, Begin, Busy, Done, TypeOK, Released, UploadsAreKept,
       UnderWay, Holds
  <2> QED BY <2>1, <2>2, <2>3, <2>4, <2>5, <2>6
<1>2. CASE UnlinkRow(o)
  <2>1. TypeOK'
    BY <1>2 DEF UnlinkRow, TypeOK, StudentStatus, Busy, Done
  <2>2. LinkInv'
    BY <1>2 DEF UnlinkRow, TypeOK, LinkInv, UnderWay, Holds
  <2>3. ASSUME NEW x \in Ops PROVE UnderWay(x)'
    BY <1>2 DEF UnlinkRow, TypeOK, LinkInv, UnderWay, Holds
  <2>4. ASSUME NEW x \in Ops PROVE Outcome(x)'
    BY <1>2 DEF UnlinkRow, TypeOK, LinkInv, UnderWay, Holds, Outcome
  <2>5. ASSUME NEW x \in Ops PROVE Released(x)'
    BY <1>2 DEF UnlinkRow, TypeOK, UnderWay, Holds, Released
  <2>6. UploadsAreKept'
    BY <1>2 DEF UnlinkRow, TypeOK, Released, UploadsAreKept, UnderWay, Holds
  <2> QED BY <2>1, <2>2, <2>3, <2>4, <2>5, <2>6
<1> QED BY <1>1, <1>2 DEF Remove

LEMMA DeletePreserves == ASSUME NEW o \in Ops, IInv, Delete(o) PROVE IInv'
<1> USE LoginsAssumption
    DEF IInv, GoTo, MovedBy, rowVars, opVars, Handing, Live
<1>1. CASE BeginDelete(o)
  <2>1. TypeOK'
    BY <1>1 DEF BeginDelete, Begin, Busy, Done, TypeOK, StudentStatus
  <2>2. LinkInv'
    BY <1>1 DEF BeginDelete, Begin, Busy, Done, TypeOK, LinkInv, UnderWay, Holds
  <2>3. ASSUME NEW x \in Ops PROVE UnderWay(x)'
    BY <1>1 DEF BeginDelete, Begin, Busy, Done, TypeOK, LinkInv, UnderWay, Holds
  <2>4. ASSUME NEW x \in Ops PROVE Outcome(x)'
    BY <1>1 DEF BeginDelete, Begin, Busy, Done, TypeOK, LinkInv, UnderWay, Holds,
       Outcome
  <2>5. ASSUME NEW x \in Ops PROVE Released(x)'
    BY <1>1 DEF BeginDelete, Begin, Busy, Done, TypeOK, UnderWay, Holds, Released
  <2>6. UploadsAreKept'
    BY <1>1 DEF BeginDelete, Begin, Busy, Done, TypeOK, Released, UploadsAreKept,
       UnderWay, Holds
  <2> QED BY <2>1, <2>2, <2>3, <2>4, <2>5, <2>6
<1>2. CASE DeleteRow(o)
  <2>1. TypeOK'
    BY <1>2 DEF DeleteRow, TypeOK, StudentStatus, Busy, Done
  <2>2. LinkInv'
    BY <1>2 DEF DeleteRow, TypeOK, LinkInv, UnderWay, Holds
  <2>3. ASSUME NEW x \in Ops PROVE UnderWay(x)'
    BY <1>2 DEF DeleteRow, TypeOK, LinkInv, UnderWay, Holds
  <2>4. ASSUME NEW x \in Ops PROVE Outcome(x)'
    BY <1>2 DEF DeleteRow, TypeOK, LinkInv, UnderWay, Holds, Outcome
  <2>5. ASSUME NEW x \in Ops PROVE Released(x)'
    <3>1. Released(x)
      BY DEF IInv
    <3>2. at'[x] \in Handing => at[x] \in Handing
      BY <1>2 DEF DeleteRow, TypeOK, Handing
    <3>3. UNCHANGED <<owner, held, listed, refused, late>>
      BY <1>2 DEF DeleteRow
    <3> QED BY ONLY <3>1, <3>2, <3>3 DEF Released
  <2>6. UploadsAreKept'
    BY <1>2 DEF DeleteRow, TypeOK, Released, UploadsAreKept, UnderWay, Holds
  <2> QED BY <2>1, <2>2, <2>3, <2>4, <2>5, <2>6
<1> QED BY <1>1, <1>2 DEF Delete

LEMMA FailPreserves == ASSUME NEW o \in Ops, IInv, Fail(o) PROVE IInv'
<1> USE LoginsAssumption
    DEF IInv, GoTo, MovedBy, rowVars, opVars, Handing, Live
<1>1. TypeOK'
  BY Fail(o) DEF Fail, TypeOK, StudentStatus, Busy, Done
<1>2. LinkInv'
  BY Fail(o) DEF Fail, TypeOK, LinkInv, UnderWay, Holds
<1>3. ASSUME NEW x \in Ops PROVE UnderWay(x)'
  BY Fail(o) DEF Fail, TypeOK, LinkInv, UnderWay, Holds, Busy
<1>4. ASSUME NEW x \in Ops PROVE Outcome(x)'
  BY Fail(o) DEF Fail, TypeOK, LinkInv, UnderWay, Holds, Outcome, Busy
<1>5. ASSUME NEW x \in Ops PROVE Released(x)'
  BY Fail(o) DEF Fail, TypeOK, UnderWay, Holds, Released, Busy
<1>6. UploadsAreKept'
  BY Fail(o) DEF Fail, TypeOK, Released, UploadsAreKept, UnderWay, Holds
<1> QED BY <1>1, <1>2, <1>3, <1>4, <1>5, <1>6

LEMMA UploadPreserves == ASSUME NEW f \in Files, IInv, Upload(f) PROVE IInv'
<1> USE LoginsAssumption
    DEF IInv, GoTo, MovedBy, rowVars, opVars, Handing, Live
<1>1. TypeOK'
  BY Upload(f) DEF Upload, TypeOK, StudentStatus, Busy, Done, Unfiled
<1>2. LinkInv'
  BY Upload(f) DEF Upload, TypeOK, LinkInv, UnderWay, Holds
<1>3. ASSUME NEW x \in Ops PROVE UnderWay(x)'
  BY Upload(f) DEF Upload, TypeOK, LinkInv, UnderWay, Holds
<1>4. ASSUME NEW x \in Ops PROVE Outcome(x)'
  BY Upload(f) DEF Upload, TypeOK, LinkInv, UnderWay, Holds, Outcome
<1>5. ASSUME NEW x \in Ops PROVE Released(x)'
  BY Upload(f) DEF Upload, TypeOK, UnderWay, Holds, Released
<1>6. UploadsAreKept'
  BY Upload(f) DEF Upload, TypeOK, Released, UploadsAreKept, UnderWay, Holds, Unfiled
<1> QED BY <1>1, <1>2, <1>3, <1>4, <1>5, <1>6

LEMMA StutterPreserves == IInv /\ UNCHANGED vars => IInv'
BY DEF IInv, vars, rowVars, opVars, TypeOK, LinkInv, UnderWay, Outcome, Released,
   UploadsAreKept

LEMMA NextPreserves == IInv /\ [Next]_vars => IInv'
BY ArchivePreserves, UnarchivePreserves, CreatePreserves, ReleasePreserves, RemovePreserves,
   DeletePreserves, FailPreserves, UploadPreserves, StutterPreserves DEF Next

LEMMA Invariance == Spec => []IInv
<1>1. Init => IInv
  BY InitEstablishes
<1>2. IInv /\ [Next]_vars => IInv'
  BY NextPreserves
<1> QED BY <1>1, <1>2, PTL DEF Spec

-------------------------------------------------------------------------------
(***************************************************************************)
(* The properties.                                                         *)
(***************************************************************************)

\* Row, login, files and operations keep their types: a login's status is one of
\* Directus's words, never one of the student's.
THEOREM TypeCorrect == Spec => []TypeOK
<1>1. IInv => TypeOK
  BY DEF IInv
<1> QED BY Invariance, <1>1, PTL

\* Whatever operations fail or interleave with others, one that nobody wrote under
\* leaves the student and the login as it says.
THEOREM UndisturbedOperationsHold == Spec => []OperationsDoWhatTheySay
<1>1. IInv => OperationsDoWhatTheySay
  BY DEF IInv, Outcome, OperationsDoWhatTheySay
<1> QED BY Invariance, <1>1, PTL

\* Only a refused file or one that came too late is left without an owner.
THEOREM UploadsFindAnOwner == Spec => []UploadsAreKept
<1>1. IInv => UploadsAreKept
  BY DEF IInv
<1> QED BY Invariance, <1>1, PTL

\* Only an operation somebody wrote under can leave a working login unlinked.
THEOREM LoginsAreLostByRaces == Spec => LoginsStayFindable
<1> DEFINE Findable ==
      \A u \in Users :
          account'[u] \in Live /\ user = u /\ user' # u
              => \E o \in Ops : moved[o] /\ at'[o] # at[o]
<1>1. IInv /\ Next => Findable
  <2> SUFFICES ASSUME IInv, Next, NEW u \in Users, account'[u] \in Live, user = u, user' # u
               PROVE  \E o \in Ops : moved[o] /\ at'[o] # at[o]
    OBVIOUS
  <2> USE LoginsAssumption DEF IInv, GoTo, MovedBy, rowVars, opVars, TypeOK
  <2>1. PICK o \in Ops : (\E v \in Users : CreateLogin(o, v)) \/ DeleteUser(o)
                           \/ UnlinkRow(o) \/ DeleteRow(o)
    BY DEF Next, Archive, Unarchive, Create, Release, Remove, Delete, Fail, Upload, BeginArchive,
       BeginUnarchive, BeginCreate, BeginRemove, BeginDelete, Begin, SuspendLogin, ArchiveRow,
       RestoreLogin, UnarchiveRow, ListUploads, HandOver
  <2>2. CASE \E v \in Users : CreateLogin(o, v)
    BY <2>2 DEF CreateLogin, UnderWay
  <2>3. CASE DeleteUser(o)
    BY <2>3 DEF DeleteUser, Live
  <2>4. CASE UnlinkRow(o)
    BY <2>4 DEF UnlinkRow, UnderWay
  <2>5. CASE DeleteRow(o)
    BY <2>5 DEF DeleteRow, UnderWay
  <2> QED BY <2>1, <2>2, <2>3, <2>4, <2>5
<1>2. IInv /\ [Next]_vars => [Findable]_vars
  BY <1>1
<1> QED BY Invariance, <1>2, PTL DEF Spec, LoginsStayFindable

===============================================================================
