------------------------ MODULE BuildRetentionProofs ------------------------
(***************************************************************************)
(* The bound of the retention store, for every bound of at least two, as   *)
(* long as no write fails: while a build runs, the files the store holds   *)
(* and the artifacts that will still move there stay within the bound, and *)
(* one below it when the target is there at the end.                       *)
(***************************************************************************)
EXTENDS BuildRetention, TLAPS

In(r) == IF place[r] \in Leftover THEN 1 ELSE 0

\* The artifacts of the running build that may still move to the store.
OwnTotal == IF op = "delete" THEN In("delete")
            ELSE In("stage") + In("recovery") + In("claimed")

\* A claimed file leaves a place free; none is claimed from an empty store.
Claimed(free) == \/ place["claimed"] = "authoring" /\ kept + 1 <= free
                 \/ place["claimed"] = "none" /\ kept = 0

\* Between builds, and whatever a crash or a failed cleanup left behind.
Settled == /\ kept <= MaxRetained /\ place["delete"] # "authoring"
           /\ Exists \/ place["delete"] = "beside" => kept + 1 <= MaxRetained

\* The room a build's author may use: a target that is there keeps one free.
Room == IF op = "create" /\ role = "stage" THEN MaxRetained ELSE MaxRetained - 1

\* While a file is authored.
Authoring ==
  pc \in {"claim", "write", "retire", "publish"} =>
    /\ op # "delete" /\ (Exists <=> op = "replace") /\ place["delete"] = "none"
    /\ op = "replace" => role = "stage"
    /\ role = "stage" => place["recovery"] = "none"
    /\ role = "recovery" => place["stage"] = "beside"
    /\ pc = "claim" => place["claimed"] = "none" /\ kept <= Room
    /\ pc \in {"write", "retire"} => Claimed(Room)
    /\ pc = "publish" => place["claimed"] = "none" /\ kept + 1 <= Room
    /\ pc \in {"claim", "write"} => place[role] = "none"
    /\ pc \in {"retire", "publish"} => place[role] = "authoring"

\* Before and after the rename, and during the cleanup.
Promoting ==
  /\ pc \in {"promote", "validate"} /\ op # "delete" =>
       /\ place["claimed"] = "none" /\ place["delete"] = "none"
       /\ op = "replace" => /\ Exists /\ kept + 2 <= MaxRetained
                            /\ place["recovery"] = "none"
       /\ op = "create" => kept + 2 <= MaxRetained /\ (Exists <=> pc = "validate")
       /\ op = "create" /\ pc = "validate" => place["stage"] = "none"
  /\ pc = "promote" /\ op = "delete" => Exists /\ place["delete"] = "none"
  /\ pc = "validate" /\ op = "delete" => ~Exists /\ place["delete"] = "beside"
  /\ pc = "clean" => /\ kept + OwnTotal <= MaxRetained
                     /\ Exists => kept + OwnTotal + 1 <= MaxRetained
                     /\ op # "delete" => place["delete"] = "none"

\* What every step keeps.
IInv == RTypeOK /\ Settled /\ Authoring /\ Promoting

-----------------------------------------------------------------------------
\* Nothing is authored or kept at first.
LEMMA InitInvariant == Init => IInv
BY RetentionBounds DEF Init, IInv, RTypeOK, Settled, Authoring, Promoting, Room, Roles,
                       Leftover, OwnTotal, In

\* A build begins with a free place, and a target that is there with two.
LEMMA BeginInvariant == IInv /\ Begin => IInv'
BY RetentionBounds, SMTT(60)
DEF IInv, RTypeOK, Settled, Authoring, Promoting, Room, Claimed, Exists, Roles, Leftover,
    OwnTotal, In, Begin

\* A claimed file frees the place of the file that replaces it.
LEMMA ClaimRetainedInvariant == IInv /\ ClaimRetained => IInv'
BY RetentionBounds, SMTT(60)
DEF IInv, RTypeOK, Settled, Authoring, Promoting, Room, Claimed, Exists, Roles, Leftover,
    OwnTotal, In, ClaimRetained, Claim, ClaimNone, TakeOne, Put

\* Writing does not fail, so the claimed file is always replaced.
LEMMA WriteInvariant == ASSUME IInv, Write, WritesFail = FALSE PROVE IInv'
BY RetentionBounds, SMTT(60)
DEF IInv, RTypeOK, Settled, Authoring, Promoting, Room, Claimed, Exists, Roles, Leftover,
    OwnTotal, In, Write, Put

\* The authored file takes the place of the claimed one.
LEMMA RetireInvariant == ASSUME IInv, Retire, WritesFail = FALSE PROVE IInv'
BY RetentionBounds, SMTT(60)
DEF IInv, RTypeOK, Settled, Authoring, Promoting, Room, Claimed, Exists, Roles, Leftover,
    OwnTotal, In, Retire, Put

\* A new file's recovery copy needs a second place.
LEMMA PublishInvariant == ASSUME IInv, Publish PROVE IInv'
<1>1. RTypeOK'
  BY SMTT(30) DEF IInv, RTypeOK, Exists, Roles, Leftover, Publish, Put
<1>2. Settled'
  BY RetentionBounds, SMTT(30) DEF IInv, RTypeOK, Exists, Roles, Leftover, Settled, Authoring, Publish, Put
<1>3. Authoring'
  BY RetentionBounds, SMTT(30)
  DEF IInv, RTypeOK, Exists, Roles, Leftover, Settled, Authoring, Room, Claimed, Publish, Put
<1>4. Promoting'
  <2> USE RetentionBounds DEF IInv, RTypeOK, Exists, Roles, Leftover, Authoring, Room, Publish, Put
  <2>1. CASE pc' = "claim"
    BY <2>1, SMTT(30) DEF Promoting
  <2>2. CASE pc' = "promote"
    BY <2>2, SMTT(30) DEF Promoting
  <2>3. CASE pc' = "clean"
    <3>1. UNCHANGED <<place, role, op, public, kept>>
      BY <2>3, SMTT(30)
    <3>2. place["claimed"] = "none" /\ place["delete"] = "none" /\ kept + 1 <= Room
          /\ op # "delete" /\ (Exists <=> op = "replace") /\ place[role] = "authoring"
      BY SMTT(30)
    <3>3. In("claimed") = 0
      BY <3>2 DEF In
    <3>4. role = "stage" => In("stage") = 1 /\ In("recovery") = 0
      BY <3>2, SMTT(30) DEF In
    <3>5. role = "recovery" => In("stage") = 1 /\ In("recovery") = 1 /\ op = "create"
      BY <3>2, SMTT(30) DEF In
    <3>6. OwnTotal' = In("stage") + In("recovery") + In("claimed")
      BY <3>1, <3>2, SMTT(30) DEF OwnTotal, In
    <3> QED
      BY <3>1, <3>2, <3>3, <3>4, <3>5, <3>6, <2>3, SMTT(30) DEF Promoting
  <2> QED
    BY <2>1, <2>2, <2>3, SMTT(30)
<1> QED
  BY <1>1, <1>2, <1>3, <1>4 DEF IInv

\* The rename leaves the artifacts as many as they are.
LEMMA PromoteInvariant == ASSUME IInv, Promote PROVE IInv'
<1>1. RTypeOK'
  BY SMTT(30) DEF IInv, RTypeOK, Exists, Roles, Leftover, Promote, Put
<1>2. Settled'
  BY RetentionBounds, SMTT(30)
  DEF IInv, RTypeOK, Exists, Roles, Leftover, Settled, Promoting, Promote, Put
<1>3. Authoring'
  BY SMTT(30) DEF Authoring, Promote
<1>4. Promoting'
  <2> USE RetentionBounds DEF IInv, RTypeOK, Exists, Roles, Leftover, Promoting, OwnTotal, In, Promote, Put
  <2>1. CASE op = "replace"
    BY <2>1, SMTT(30)
  <2>2. CASE op = "create"
    BY <2>2, SMTT(30)
  <2>3. CASE op = "delete"
    BY <2>3, SMTT(30) DEF Settled
  <2> QED
    BY <2>1, <2>2, <2>3
<1> QED
  BY <1>1, <1>2, <1>3, <1>4 DEF IInv

\* So does its reversal, which leaves a created target absent.
LEMMA ValidateInvariant == ASSUME IInv, Validate PROVE IInv'
<1>1. RTypeOK'
  BY SMTT(30) DEF IInv, RTypeOK, Exists, Roles, Leftover, Validate, Put
<1>2. Settled'
  BY RetentionBounds, SMTT(30)
  DEF IInv, RTypeOK, Exists, Roles, Leftover, Settled, Promoting, Validate, Put
<1>3. Authoring'
  BY SMTT(30) DEF Authoring, Validate
<1>4. Promoting'
  <2> USE RetentionBounds DEF IInv, RTypeOK, Exists, Roles, Leftover, Promoting, OwnTotal, In, Validate, Put
  <2>1. CASE op = "replace"
    BY <2>1, SMTT(30)
  <2>2. CASE op = "create"
    BY <2>2, SMTT(30)
  <2>3. CASE op = "delete"
    BY <2>3, SMTT(30) DEF Settled
  <2> QED
    BY <2>1, <2>2, <2>3
<1> QED
  BY <1>1, <1>2, <1>3, <1>4 DEF IInv

\* The store takes what the artifacts give up.
LEMMA CleanInvariant == IInv /\ Clean => IInv'
BY RetentionBounds, SMTT(60)
DEF IInv, RTypeOK, Settled, Authoring, Promoting, Room, Claimed, Exists, Roles, Leftover,
    OwnTotal, In, Clean, Own, Put

\* What is left at the end stays within the bound.
LEMMA EndInvariant == IInv /\ End => IInv'
BY RetentionBounds, SMTT(60)
DEF IInv, RTypeOK, Settled, Authoring, Promoting, Room, Claimed, Exists, Roles, Leftover,
    OwnTotal, In, End

\* What a crash leaves stays within the bound.
LEMMA CrashInvariant == IInv /\ Crash => IInv'
BY RetentionBounds, SMTT(60)
DEF IInv, RTypeOK, Settled, Authoring, Promoting, Room, Claimed, Exists, Roles, Leftover,
    OwnTotal, In, Crash

\* A deletion that goes back finds the place it was begun with.
LEMMA ResolveInvariant == ASSUME NEW r \in Roles, IInv, Resolve(r) PROVE IInv'
<1>1. RTypeOK'
  BY RetentionBounds, SMTT(30) DEF IInv, RTypeOK, Exists, Roles, Leftover, Resolve, Put
<1>2. Settled'
  BY RetentionBounds, SMTT(30) DEF IInv, RTypeOK, Exists, Roles, Leftover, Settled, Authoring, Promoting, Room, Resolve, Put
<1>3. Authoring'
  BY RetentionBounds, SMTT(30) DEF IInv, RTypeOK, Exists, Roles, Leftover, Settled, Authoring, Room, Claimed, Resolve, Put
<1>4. Promoting'
  BY RetentionBounds, SMTT(30) DEF IInv, RTypeOK, Exists, Roles, Leftover, Settled, Authoring, Promoting, Room, OwnTotal, In, Resolve, Put
<1> QED  BY <1>1, <1>2, <1>3, <1>4 DEF IInv

-----------------------------------------------------------------------------
\* If no write fails, every step keeps the invariant.
LEMMA StoreInvariant == ASSUME WritesFail = FALSE PROVE Spec => []IInv
<1>1. Init => IInv
  BY InitInvariant
<1>2. IInv /\ [Next]_vars => IInv'
  <2> SUFFICES ASSUME IInv, [Next]_vars PROVE IInv'
    OBVIOUS
  <2>1. CASE Begin
    BY <2>1, BeginInvariant
  <2>2. CASE ClaimRetained
    BY <2>2, ClaimRetainedInvariant
  <2>3. CASE Write
    BY <2>3, WriteInvariant
  <2>4. CASE Retire
    BY <2>4, RetireInvariant
  <2>5. CASE Publish
    BY <2>5, PublishInvariant
  <2>6. CASE Promote
    BY <2>6, PromoteInvariant
  <2>7. CASE Validate
    BY <2>7, ValidateInvariant
  <2>8. CASE Clean
    BY <2>8, CleanInvariant
  <2>9. CASE End
    BY <2>9, EndInvariant
  <2>10. CASE Crash
    BY <2>10, CrashInvariant
  <2>11. CASE \E r \in Roles : Resolve(r)
    BY <2>11, ResolveInvariant
  <2>12. CASE UNCHANGED vars
    BY <2>12 DEF vars, IInv, RTypeOK, Settled, Authoring, Promoting, Room, Claimed, OwnTotal, In, Exists
  <2> QED
    BY <2>1, <2>2, <2>3, <2>4, <2>5, <2>6, <2>7, <2>8, <2>9, <2>10, <2>11, <2>12 DEF Next
<1> QED
  BY <1>1, <1>2, PTL DEF Spec

\* The store holds no more of a target than its bound, if no write fails: every
\* file that moves there takes the place of a claimed one, or one that is free.
THEOREM Bounded == ASSUME WritesFail = FALSE PROVE Spec => []RetentionBounded
<1>1. IInv => RetentionBounded
  BY DEF IInv, Settled, RetentionBounded
<1> QED
  BY <1>1, StoreInvariant, PTL

\* Then a target that is there can always be deleted: the place of its own file
\* is free, whatever crashes, errors and resolutions came before
\* (promote_bytes of quest_build_transaction.py).
THEOREM StaysDeletable == ASSUME WritesFail = FALSE PROVE Spec => []Deletable
<1>1. IInv => Deletable
  BY RetentionBounds, SMT DEF IInv, RTypeOK, Settled, Deletable, Exists
<1> QED
  BY <1>1, StoreInvariant, PTL

\* Every variable keeps its type, whether or not writes fail.
THEOREM RetentionTypes == Spec => []RTypeOK
<1>1. Init => RTypeOK
  BY RetentionBounds DEF Init, RTypeOK, Roles, Leftover
<1>2. RTypeOK /\ [Next]_vars => RTypeOK'
  <2> SUFFICES ASSUME RTypeOK, [Next]_vars PROVE RTypeOK'
    OBVIOUS
  <2> USE RetentionBounds DEF RTypeOK, Roles, Leftover, Put
  <2>1. CASE Begin
    BY <2>1 DEF Begin
  <2>2. CASE ClaimRetained
    BY <2>2 DEF ClaimRetained, Claim, ClaimNone, TakeOne
  <2>3. CASE Write \/ Retire \/ Publish
    BY <2>3 DEF Write, Retire, Publish
  <2>4. CASE Promote \/ Validate
    BY <2>4 DEF Promote, Validate
  <2>5. CASE Clean
    BY <2>5 DEF Clean, Own
  <2>6. CASE End \/ Crash \/ UNCHANGED vars
    BY <2>6 DEF End, Crash, vars
  <2>7. CASE \E r \in Roles : Resolve(r)
    BY <2>7 DEF Resolve
  <2> QED
    BY <2>1, <2>2, <2>3, <2>4, <2>5, <2>6, <2>7 DEF Next
<1> QED
  BY <1>1, <1>2, PTL DEF Spec
=============================================================================
