----------------------- MODULE ReleaseLifecycleProofs -----------------------
(***************************************************************************)
(* What is served of releases and updates is consistent, and a rollback    *)
(* reaches every device, for any number of releases, updates, devices and  *)
(* overlapping requests.                                                   *)
(*                                                                         *)
(* A request of a full release writes what it read steps ago, so nothing   *)
(* is said of the row it finds: the invariant rests on what each write     *)
(* does to the other rows, and on ids whose files are being uploaded or    *)
(* removed having no row.                                                  *)
(***************************************************************************)
EXTENDS ReleaseLifecycle, FiniteSetTheorems, WellFoundedInduction, TLAPS

RelRow ==
    [status : Statuses \cup {"completed"}, mandatory : BOOLEAN, audience : SUBSET Installs]
OtaRow ==
    [status : Statuses \cup {"superseded"}, base : Releases \cup {NoBase},
     kind : {"update", "rollback"}, revision : Nat, audience : SUBSET Installs]
Request ==
    {Idle}
      \cup [op : {"action"}, id : Releases, transition : Transitions, audience : SUBSET Installs]
      \cup [op : {"mandatory"}, id : Releases, seen : FlagEditable]
      \cup [op : {"audience"}, id : Releases, audience : AudienceFor("canary")]
      \cup [op : {"save"}, id : Otas, base : Releases]
      \cup [op : {"purge", "delete"}, id : Releases \cup Otas]

Types ==
    /\ rel \in [Releases -> RelRow]
    /\ ota \in [Otas -> OtaRow]
    /\ objects \subseteq Releases \cup Otas
    /\ req \in [Admins -> Request]

(* A revision counts the ids that were used so far, at most. *)
Taken == {o \in Otas : ota[o].status # "none"}
RevisionsAreCounted == \A o \in Otas : ota[o].revision <= Cardinality(Taken)

(* Only a canary gets an audience from a request. *)
ActionsAreValid ==
    \A a \in Admins : req[a].op = "action" => req[a].audience \in AudienceFor(req[a].transition[3])

(* An id whose files are being uploaded has no row yet, and one upload. *)
SavesAreFresh ==
    \A a \in Admins : req[a].op = "save" =>
        /\ ota[req[a].id].status = "none" /\ req[a].id \in objects
        /\ \A b \in Admins : req[b].op = "save" /\ req[b].id = req[a].id => a = b

(* What is purged had a row, and its files are deleted when it has none. *)
PurgesHadRows ==
    \A a \in Admins :
        /\ req[a].op = "purge" =>
              /\ req[a].id \in Releases => rel[req[a].id].status # "none"
              /\ req[a].id \in Otas => ota[req[a].id].status # "none"
        /\ req[a].op = "delete" =>
              /\ req[a].id \in Releases => rel[req[a].id].status = "gone"
              /\ req[a].id \in Otas => ota[req[a].id].status = "gone"

UpdatesHaveObjects == \A o \in OtaRows : ota[o].kind = "update" => o \in objects
ReleasesHaveObjects == ~LateDiscards => Rows \subseteq objects

IInv ==
    /\ Types
    /\ RevisionsAreCounted
    /\ ActionsAreValid
    /\ SavesAreFresh
    /\ PurgesHadRows
    /\ OneActive
    /\ AudienceOnlyInCanary
    /\ RevisionsAreDistinct
    /\ UpdatesHaveObjects
    /\ ReleasesHaveObjects

-----------------------------------------------------------------------------
(***************************************************************************)
(* Revisions                                                               *)
(***************************************************************************)
LEMMA LeastNatural ==
    ASSUME NEW T, T \subseteq Nat, T # {} PROVE \E n \in T : \A k \in T : n <= k
<1> DEFINE Less == {ss \in Nat \X Nat : ss[1] < ss[2]}
<1>1. IsWellFoundedOn(Less, Nat)
  BY NatLessThanWellFounded DEF OpToRel
<1> HIDE DEF Less
<1>2. PICK n \in T : \A k \in T : ~(<<k, n>> \in Less)
  BY <1>1, WFMin
<1>3. \A k \in T : ~(k < n)
  BY <1>2 DEF Less
<1> QED
  BY <1>3

(* The next revision is above every one of the slot, and one above the      *)
(* highest, so it is at most one above what counts them all.                *)
LEMMA NextRevisionIs ==
    ASSUME Types, RevisionsAreCounted, NEW runtime
    PROVE  /\ NextRevision(runtime) \in Nat
           /\ NextRevision(runtime) <= Cardinality(Taken) + 1
           /\ \A o \in InSlot(runtime) : ota[o].revision < NextRevision(runtime)
<1> DEFINE Bounds == {n \in Nat : \A o \in InSlot(runtime) : ota[o].revision <= n}
           top == CHOOSE n \in 0..Cardinality(Otas) :
                    /\ n = 0 \/ \E o \in InSlot(runtime) : ota[o].revision = n
                    /\ \A o \in InSlot(runtime) : ota[o].revision <= n
<1>1. InSlot(runtime) \subseteq Otas /\ \A o \in Otas : ota[o].revision \in Nat
  BY DEF InSlot, OtaRows, Types, OtaRow
<1>2. /\ Cardinality(Taken) \in Nat /\ Cardinality(Otas) \in Nat
      /\ Cardinality(Taken) <= Cardinality(Otas)
  BY IdsAssumption, FS_Subset, FS_CardinalityType DEF Taken
<1>3. Cardinality(Taken) \in Bounds
  BY <1>1, <1>2 DEF RevisionsAreCounted
<1>4. PICK n \in Bounds : \A k \in Bounds : n <= k
  BY <1>3, LeastNatural
<1>5. n \in Nat /\ \A o \in InSlot(runtime) : ota[o].revision <= n
  BY <1>4
<1>6. n = 0 \/ \E o \in InSlot(runtime) : ota[o].revision = n
  <2> SUFFICES ASSUME n # 0, \A o \in InSlot(runtime) : ota[o].revision # n PROVE FALSE
    OBVIOUS
  <2>1. n - 1 \in Bounds
    BY <1>1, <1>5
  <2> QED
    BY <1>4, <1>5, <2>1
<1>7. n <= Cardinality(Taken) /\ n \in 0..Cardinality(Otas)
  BY <1>2, <1>3, <1>4, <1>5
<1>8. /\ top \in 0..Cardinality(Otas)
      /\ top = 0 \/ \E o \in InSlot(runtime) : ota[o].revision = top
      /\ \A o \in InSlot(runtime) : ota[o].revision <= top
  <2> HIDE DEF Bounds
  <2> QED
    BY <1>5, <1>6, <1>7
<1>9. NextRevision(runtime) = 1 + top
  BY DEF NextRevision
<1> HIDE DEF top
<1>10. top <= Cardinality(Taken)
  BY <1>1, <1>2, <1>8 DEF RevisionsAreCounted
<1> QED
  BY <1>1, <1>2, <1>8, <1>9, <1>10

(* A new row takes one id, whatever becomes of the rows there are. *)
LEMMA OneMoreTaken ==
    ASSUME Types, NEW o \in Otas, ota[o].status = "none",
           ota'[o].status # "none", \A p \in Otas \ {o} :
               (ota'[p].status = "none") = (ota[p].status = "none")
    PROVE  Cardinality(Taken') = Cardinality(Taken) + 1 /\ Cardinality(Taken) \in Nat
<1>1. Taken' = Taken \cup {o} /\ o \notin Taken
  BY DEF Taken
<1>2. IsFiniteSet(Taken)
  BY IdsAssumption, FS_Subset DEF Taken
<1> QED
  BY <1>1, <1>2, FS_AddElement, FS_CardinalityType

-----------------------------------------------------------------------------
(***************************************************************************)
(* Full releases                                                           *)
(***************************************************************************)
OneActiveRelease == \A q, r \in Active : q = r
AudienceOfReleases == \A r \in Rows : rel[r].audience # {} <=> rel[r].status = "canary"

(* What a step may do to the releases. *)
ReleasesMove ==
    /\ rel' \in [Releases -> RelRow]
    /\ OneActiveRelease' /\ AudienceOfReleases'
    /\ \A r \in Releases :
          /\ rel[r].status # "none" => rel'[r].status # "none"
          /\ rel[r].status = "gone" => rel'[r].status = "gone"
          /\ r \in Rows' \ Rows => r \in objects /\ objects' = objects

LEMMA ReleasesOf ==
    ASSUME IInv
    PROVE  /\ rel \in [Releases -> RelRow] /\ OneActiveRelease /\ AudienceOfReleases
           /\ \A r \in Releases : rel[r] \in RelRow
  BY DEF IInv, Types, OneActive, AudienceOnlyInCanary, OneActiveRelease, AudienceOfReleases

LEMMA ReleasesStay == IInv /\ rel' = rel => ReleasesMove
<1> SUFFICES ASSUME IInv, rel' = rel PROVE ReleasesMove
  OBVIOUS
<1>1. OneActiveRelease' /\ AudienceOfReleases' /\ Rows' = Rows
  BY ReleasesOf DEF OneActiveRelease, AudienceOfReleases, Active, Rows
<1> QED
  BY <1>1, ReleasesOf DEF ReleasesMove

(* One row changes, and does not become active. *)
LEMMA RowMoves ==
    ASSUME IInv, NEW r \in Releases, NEW row \in RelRow, rel' = [rel EXCEPT ![r] = row],
           row.status = "active" => rel[r].status = "active",
           row.status \notin {"none", "gone"} => (row.audience # {} <=> row.status = "canary"),
           rel[r].status # "none" => row.status # "none",
           rel[r].status = "gone" => row.status = "gone",
           row.status \notin {"none", "gone"} /\ rel[r].status \in {"none", "gone"} =>
               r \in objects /\ objects' = objects
    PROVE  ReleasesMove
<1>1. \A q \in Releases : rel'[q] = IF q = r THEN row ELSE rel[q]
  BY ReleasesOf
<1>2. rel' \in [Releases -> RelRow]
  BY ReleasesOf
<1>3. OneActiveRelease'
  <2>1. Active' \subseteq Active
    BY <1>1 DEF Active, Rows
  <2> QED
    BY <2>1, ReleasesOf DEF OneActiveRelease
<1>4. AudienceOfReleases'
  BY <1>1, ReleasesOf DEF AudienceOfReleases, Rows
<1> QED
  BY <1>1, <1>2, <1>3, <1>4 DEF ReleasesMove, Rows

LEMMA UploadMoves ==
    ASSUME IInv, NEW r \in Releases, NEW m \in BOOLEAN, UploadRelease(r, m)
    PROVE  ReleasesMove
<1> DEFINE row == [status |-> "verified", mandatory |-> m, audience |-> {}]
<1>1. row \in RelRow
  BY DEF RelRow, Statuses
<1> QED
  BY <1>1, RowMoves DEF UploadRelease

LEMMA CommitActionMoves ==
    ASSUME IInv, NEW a \in Admins, CommitAction(a)
    PROVE  ReleasesMove
<1> DEFINE r == req[a].id
           target == req[a].transition[3]
           audience == req[a].audience
<1>1. /\ req[a].op = "action" /\ r \in Releases /\ req[a].transition \in Transitions
      /\ audience \in SUBSET Installs
  BY DEF CommitAction, IInv, Types, Request, Idle
<1>2. audience \in AudienceFor(target)
  BY <1>1 DEF IInv, ActionsAreValid
<1>3. /\ target \in {"active", "paused", "canary", "rejected"}
      /\ audience # {} <=> target = "canary"
  BY <1>1, <1>2 DEF Transitions, AudienceFor
<1>4. \A q \in Releases : rel'[q] =
          IF q = r /\ q \in Rows THEN Moved(rel[q], target, audience)
          ELSE IF q \in CompletedBy(r, target) THEN [rel[q] EXCEPT !.status = "completed"]
          ELSE rel[q]
  BY DEF CommitAction
<1>5. rel' = [q \in Releases |-> rel'[q]]
  BY DEF CommitAction
<1> HIDE DEF r, target, audience
<1>6. \A q \in Releases :
         /\ rel'[q] \in RelRow
         /\ q = r /\ q \in Rows => rel'[q].status = target /\ rel'[q].audience = audience
         /\ q # r /\ q \in Active /\ target = "active" =>
               rel'[q].status = "completed" /\ rel'[q].audience = rel[q].audience
         /\ ~(q = r /\ q \in Rows) /\ ~(q # r /\ q \in Active /\ target = "active") =>
               rel'[q] = rel[q]
  <2> SUFFICES ASSUME NEW q \in Releases
               PROVE  <1>6!(q)
    OBVIOUS
  <2>1. rel[q] \in RelRow
    BY ReleasesOf
  <2>2. CASE q = r /\ q \in Rows
    <3>1. rel'[q] = [rel[q] EXCEPT !.status = target, !.audience = audience]
      BY <1>4, <2>2 DEF Moved
    <3> QED
      BY <1>1, <1>3, <2>1, <2>2, <3>1 DEF RelRow, Statuses, audience
  <2>3. CASE q # r /\ q \in Active /\ target = "active"
    <3>1. rel'[q] = [rel[q] EXCEPT !.status = "completed"]
      BY <1>4, <2>3 DEF CompletedBy
    <3> QED
      BY <2>1, <2>3, <3>1 DEF RelRow, Statuses
  <2>4. CASE ~(q = r /\ q \in Rows) /\ ~(q # r /\ q \in Active /\ target = "active")
    <3>1. rel'[q] = rel[q]
      BY <1>4, <2>4 DEF CompletedBy, Active
    <3> QED
      BY <2>1, <2>4, <3>1
  <2> QED
    BY <2>2, <2>3, <2>4
<1>7. rel' \in [Releases -> RelRow]
  BY <1>5, <1>6
<1>8. \A q \in Active : q \in Rows /\ rel[q].status = "active" /\ rel[q].audience = {}
  BY ReleasesOf DEF Active, AudienceOfReleases
<1>9. Rows' = Rows
  BY <1>3, <1>6, <1>8 DEF Rows
<1>10. OneActiveRelease'
  <2>1. CASE target = "active"
    <3>1. Active' \subseteq {r}
      BY <1>6, <1>9, <2>1 DEF Active, Rows
    <3> QED
      BY <3>1 DEF OneActiveRelease
  <2>2. CASE target # "active"
    <3>1. Active' \subseteq Active
      BY <1>6, <1>9, <2>2 DEF Active, Rows
    <3> QED
      BY <3>1, ReleasesOf DEF OneActiveRelease
  <2> QED
    BY <2>1, <2>2
<1>11. AudienceOfReleases'
  <2> SUFFICES ASSUME NEW q \in Rows PROVE rel'[q].audience # {} <=> rel'[q].status = "canary"
    BY <1>9 DEF AudienceOfReleases
  <2>1. q \in Releases
    BY DEF Rows
  <2>2. rel[q].audience # {} <=> rel[q].status = "canary"
    BY ReleasesOf DEF AudienceOfReleases
  <2> QED
    BY <1>3, <1>6, <1>8, <2>1, <2>2
<1>12. \A q \in Releases : /\ rel[q].status # "none" => rel'[q].status # "none"
                           /\ rel[q].status = "gone" => rel'[q].status = "gone"
  BY <1>3, <1>6, <1>8 DEF Rows
<1> QED
  BY <1>7, <1>9, <1>10, <1>11, <1>12 DEF ReleasesMove

LEMMA CommitMandatoryMoves ==
    ASSUME IInv, NEW a \in Admins, CommitMandatory(a)
    PROVE  ReleasesMove
<1> DEFINE r == req[a].id
<1>1. req[a].op = "mandatory" /\ r \in Releases /\ req[a].seen \in FlagEditable
  BY DEF CommitMandatory, IInv, Types, Request, Idle
<1>2. CASE rel[r].status = req[a].seen
  <2> DEFINE row == [rel[r] EXCEPT !.mandatory = ~rel[r].mandatory]
  <2>1. rel' = [rel EXCEPT ![r] = row] /\ rel[r] \in RelRow
    BY <1>1, <1>2, ReleasesOf DEF CommitMandatory
  <2>2. rel[r].mandatory \in BOOLEAN
    BY <2>1 DEF RelRow
  <2>3. (~rel[r].mandatory) \in BOOLEAN
    BY <2>2
  <2>4. /\ row \in RelRow /\ row.status = rel[r].status /\ row.audience = rel[r].audience
    BY <2>1, <2>3 DEF RelRow
  <2>5. r \in Rows
    BY <1>1, <1>2 DEF FlagEditable, Rows
  <2>6. row.audience # {} <=> row.status = "canary"
    BY <2>4, <2>5, ReleasesOf DEF AudienceOfReleases
  <2> HIDE DEF row
  <2> QED
    BY <1>1, <2>1, <2>4, <2>5, <2>6, RowMoves DEF Rows
<1>3. CASE rel[r].status # req[a].seen
  BY <1>3, ReleasesStay DEF CommitMandatory
<1> QED
  BY <1>2, <1>3

LEMMA CommitAudienceMoves ==
    ASSUME IInv, NEW a \in Admins, CommitAudience(a)
    PROVE  ReleasesMove
<1> DEFINE r == req[a].id
<1>1. req[a].op = "audience" /\ r \in Releases /\ req[a].audience \in AudienceFor("canary")
  BY DEF CommitAudience, IInv, Types, Request, Idle
<1>2. CASE rel[r].status = "canary"
  <2> DEFINE row == [rel[r] EXCEPT !.audience = req[a].audience]
  <2>1. rel' = [rel EXCEPT ![r] = row] /\ rel[r] \in RelRow
    BY <1>1, <1>2, ReleasesOf DEF CommitAudience
  <2>2. /\ row \in RelRow /\ row.status = "canary" /\ row.audience # {}
    BY <1>1, <1>2, <2>1 DEF RelRow, AudienceFor
  <2> HIDE DEF row
  <2> QED
    BY <1>1, <1>2, <2>1, <2>2, RowMoves
<1>3. CASE rel[r].status # "canary"
  BY <1>3, ReleasesStay DEF CommitAudience
<1> QED
  BY <1>2, <1>3

LEMMA DeleteRowMoves ==
    ASSUME IInv, NEW a \in Admins, DeleteRow(a)
    PROVE  ReleasesMove
<1> DEFINE r == req[a].id
<1>1. CASE r \in Rows
  <2> DEFINE row == [NoRow EXCEPT !.status = "gone"]
  <2>1. rel' = [rel EXCEPT ![r] = row] /\ r \in Releases
    BY <1>1 DEF DeleteRow, Rows
  <2>2. row \in RelRow /\ row.status = "gone"
    BY DEF RelRow, NoRow, Statuses
  <2> HIDE DEF row
  <2> QED
    BY <2>1, <2>2, RowMoves
<1>2. CASE r \notin Rows
  BY <1>2, ReleasesStay DEF DeleteRow
<1> QED
  BY <1>1, <1>2

(* The steps that leave the releases as they are. *)
Unreleasing ==
    \/ \E r \in Releases : StoreArtifact(r) \/ DiscardArtifact(r)
    \/ \E a \in Admins, r \in Releases :
          \/ \E t \in Transitions : \E aud \in AudienceFor(t[3]) : ReadForAction(a, r, t, aud)
          \/ ReadForMandatory(a, r)
          \/ \E aud \in AudienceFor("canary") : ReadForAudience(a, r, aud)
          \/ ReadForPurge(a, r)
          \/ \E o \in Otas : BeginSaveOta(a, o, r)
    \/ \E a \in Admins : CommitSaveOta(a) \/ FailSaveOta(a) \/ DeleteObjects(a)
    \/ \E a \in Admins, o \in Otas :
          \/ \E t \in OtaTransitions : \E aud \in AudienceFor(t[3]) : OtaAction(a, o, t, aud)
          \/ \E aud \in AudienceFor("canary") : SetOtaAudience(a, o, aud)
          \/ \E n \in Otas : OtaRollback(a, o, n)
          \/ ReadForOtaPurge(a, o)

LEMMA NextIs ==
    Next <=> \/ Unreleasing
             \/ \E r \in Releases, m \in BOOLEAN : UploadRelease(r, m)
             \/ \E a \in Admins : CommitAction(a) \/ CommitMandatory(a) \/ CommitAudience(a)
                                     \/ DeleteRow(a)
  BY Zenon DEF Next, Unreleasing

LEMMA ReleasesStep == IInv /\ [Next]_vars => ReleasesMove
<1> SUFFICES ASSUME IInv, [Next]_vars PROVE ReleasesMove
  OBVIOUS
<1>1. CASE Unreleasing \/ UNCHANGED vars
  <2>1. CASE UNCHANGED vars
    BY <2>1, ReleasesStay DEF vars
  <2>2. CASE \E a \in Admins, o \in Otas :
               \/ \E t \in OtaTransitions : \E aud \in AudienceFor(t[3]) : OtaAction(a, o, t, aud)
               \/ \E aud \in AudienceFor("canary") : SetOtaAudience(a, o, aud)
               \/ \E n \in Otas : OtaRollback(a, o, n)
               \/ ReadForOtaPurge(a, o)
    <3>1. ASSUME NEW a \in Admins, NEW o \in Otas, NEW t \in OtaTransitions,
                 NEW aud \in AudienceFor(t[3]), OtaAction(a, o, t, aud)
          PROVE  rel' = rel
      BY <3>1 DEF OtaAction
    <3>2. ASSUME NEW a \in Admins, NEW o \in Otas,
                 \/ \E aud \in AudienceFor("canary") : SetOtaAudience(a, o, aud)
                 \/ \E n \in Otas : OtaRollback(a, o, n)
                 \/ ReadForOtaPurge(a, o)
          PROVE  rel' = rel
      BY <3>2 DEF SetOtaAudience, OtaRollback, ReadForOtaPurge
    <3> QED
      BY <2>2, <3>1, <3>2, ReleasesStay
  <2>3. CASE \E a \in Admins, r \in Releases :
               \/ \E t \in Transitions : \E aud \in AudienceFor(t[3]) : ReadForAction(a, r, t, aud)
               \/ ReadForMandatory(a, r)
               \/ \E aud \in AudienceFor("canary") : ReadForAudience(a, r, aud)
               \/ ReadForPurge(a, r)
               \/ \E o \in Otas : BeginSaveOta(a, o, r)
    <3>1. rel' = rel
      BY <2>3 DEF ReadForAction, ReadForMandatory, ReadForAudience, ReadForPurge, BeginSaveOta
    <3> QED
      BY <3>1, ReleasesStay
  <2>4. CASE \/ \E r \in Releases : StoreArtifact(r) \/ DiscardArtifact(r)
             \/ \E a \in Admins : CommitSaveOta(a) \/ FailSaveOta(a) \/ DeleteObjects(a)
    <3>1. rel' = rel
      BY <2>4 DEF StoreArtifact, DiscardArtifact, CommitSaveOta, FailSaveOta, DeleteObjects
    <3> QED
      BY <3>1, ReleasesStay
  <2> QED
    BY <1>1, <2>1, <2>2, <2>3, <2>4 DEF Unreleasing
<1>2. CASE \E r \in Releases, m \in BOOLEAN : UploadRelease(r, m)
  BY <1>2, UploadMoves
<1>3. CASE \E a \in Admins : CommitAction(a) \/ CommitMandatory(a) \/ CommitAudience(a) \/ DeleteRow(a)
  BY <1>3, CommitActionMoves, CommitMandatoryMoves, CommitAudienceMoves, DeleteRowMoves
<1> QED
  BY <1>1, <1>2, <1>3, NextIs

-----------------------------------------------------------------------------
(***************************************************************************)
(* Updates and rollback directives                                         *)
(***************************************************************************)
OneActiveOta ==
    \A o, p \in OtaRows :
        ota[o].status = "active" /\ ota[p].status = "active" /\ Slot(o) = Slot(p) => o = p
AudienceOfOtas == \A o \in OtaRows : ota[o].audience # {} <=> ota[o].status = "canary"

(* What a step may do to the updates. *)
OtasMove ==
    /\ ota' \in [Otas -> OtaRow]
    /\ RevisionsAreCounted' /\ OneActiveOta' /\ AudienceOfOtas' /\ RevisionsAreDistinct'
    /\ \A o \in Otas :
          /\ ota[o].status # "none" => ota'[o].status # "none"
          /\ ota[o].status = "gone" => ota'[o].status = "gone"
          /\ o \in OtaRows' /\ ota'[o].kind = "update" =>
                \/ o \in OtaRows /\ ota[o].kind = "update"
                \/ o \in objects
          /\ ota[o].status = "none" /\ ota'[o].status # "none" =>
                \/ o \notin objects /\ req' = req
                \/ \E a \in Admins : /\ req[a].op = "save" /\ req[a].id = o
                                     /\ req' = [req EXCEPT ![a] = Idle]

LEMMA OtasOf ==
    ASSUME IInv
    PROVE  /\ ota \in [Otas -> OtaRow] /\ OneActiveOta /\ AudienceOfOtas
           /\ RevisionsAreDistinct /\ RevisionsAreCounted /\ Types
           /\ \A o \in Otas : ota[o] \in OtaRow /\ ota[o].revision \in Nat
           /\ IsFiniteSet(Taken) /\ Cardinality(Taken) \in Nat
<1>1. IsFiniteSet(Taken) /\ Cardinality(Taken) \in Nat
  BY IdsAssumption, FS_Subset, FS_CardinalityType DEF Taken
<1> QED
  BY <1>1
     DEF IInv, Types, OtaRow, OneActive, AudienceOnlyInCanary, OneActiveOta, AudienceOfOtas

(* One row is written; of the others, active ones may be superseded. *)
Supersedes(n) ==
    \A p \in Otas \ {n} : \/ ota'[p] = ota[p]
                          \/ /\ ota[p].status = "active"
                             /\ ota'[p] = [ota[p] EXCEPT !.status = "superseded"]

MovesBut(n) ==
    /\ RevisionsAreCounted' /\ OneActiveOta' /\ AudienceOfOtas' /\ RevisionsAreDistinct'
    /\ \A o \in Otas :
          /\ ota[o].status # "none" => ota'[o].status # "none"
          /\ ota[o].status = "gone" => ota'[o].status = "gone"
    /\ \A o \in Otas \ {n} :
          /\ o \in OtaRows' <=> o \in OtaRows
          /\ ota'[o].kind = ota[o].kind
          /\ ota'[o].status = "none" <=> ota[o].status = "none"

LEMMA OtaMoves ==
    ASSUME IInv, NEW n \in Otas, ota' \in [Otas -> OtaRow], Supersedes(n),
           ota[n].status # "none" => ota'[n].status # "none",
           ota[n].status = "gone" => ota'[n].status = "gone",
           ota'[n].revision <= Cardinality(Taken'),
           n \in OtaRows' =>
               /\ ota'[n].audience # {} <=> ota'[n].status = "canary"
               /\ \A p \in OtaRows \ {n} : Slot(p) = Slot(n)' => ota[p].revision # ota'[n].revision
               /\ ota'[n].status = "active" =>
                     \A p \in OtaRows \ {n} : Slot(p) = Slot(n)' => ota'[p].status # "active"
    PROVE  MovesBut(n)
<1>1. \A p \in Otas \ {n} :
         /\ ota'[p].base = ota[p].base /\ ota'[p].kind = ota[p].kind
         /\ ota'[p].revision = ota[p].revision /\ ota'[p].audience = ota[p].audience
         /\ \/ ota'[p].status = ota[p].status
            \/ ota[p].status = "active" /\ ota'[p].status = "superseded"
  <2> SUFFICES ASSUME NEW p \in Otas \ {n} PROVE <1>1!(p)
    OBVIOUS
  <2>1. ota[p] \in OtaRow
    BY OtasOf
  <2>2. CASE ota'[p] = ota[p]
    BY <2>2
  <2>3. CASE ota[p].status = "active" /\ ota'[p] = [ota[p] EXCEPT !.status = "superseded"]
    BY <2>1, <2>3 DEF OtaRow
  <2> QED
    BY <2>2, <2>3 DEF Supersedes
<1>2. \A p \in Otas \ {n} : /\ p \in OtaRows' <=> p \in OtaRows
                            /\ ota'[p].status = "none" <=> ota[p].status = "none"
                            /\ Slot(p)' = Slot(p)
  BY <1>1 DEF OtaRows, Slot
<1>3. RevisionsAreCounted'
  <2>1. IsFiniteSet(Taken') /\ Taken \subseteq Taken'
    <3>1. IsFiniteSet(Taken')
      BY IdsAssumption, FS_Subset DEF Taken
    <3> QED
      BY <1>2, <3>1 DEF Taken
  <2>2. /\ Cardinality(Taken') \in Nat /\ Cardinality(Taken) \in Nat
        /\ Cardinality(Taken) <= Cardinality(Taken')
    BY <2>1, FS_Subset, FS_CardinalityType
  <2> SUFFICES ASSUME NEW o \in Otas PROVE ota'[o].revision <= Cardinality(Taken')
    BY DEF RevisionsAreCounted
  <2>3. ota[o].revision \in Nat /\ ota[o].revision <= Cardinality(Taken)
    BY OtasOf DEF RevisionsAreCounted
  <2> QED
    BY <1>1, <2>2, <2>3
<1>4. OneActiveOta'
  <2> SUFFICES ASSUME NEW o \in OtaRows', NEW p \in OtaRows',
                      ota'[o].status = "active", ota'[p].status = "active",
                      Slot(o)' = Slot(p)'
               PROVE  o = p
    BY DEF OneActiveOta, Slot
  <2>1. o \in Otas /\ p \in Otas
    BY DEF OtaRows
  <2>2. CASE o # n /\ p # n
    <3>1. /\ o \in OtaRows /\ p \in OtaRows /\ ota[o].status = "active" /\ ota[p].status = "active"
          /\ Slot(o) = Slot(p)
      BY <1>1, <1>2, <2>1, <2>2
    <3> QED
      BY <3>1, OtasOf DEF OneActiveOta
  <2>3. CASE o = n /\ p # n
    BY <1>2, <2>1, <2>3
  <2>4. CASE o # n /\ p = n
    BY <1>2, <2>1, <2>4
  <2> QED
    BY <2>2, <2>3, <2>4
<1>5. AudienceOfOtas'
  <2> SUFFICES ASSUME NEW o \in OtaRows' PROVE ota'[o].audience # {} <=> ota'[o].status = "canary"
    BY DEF AudienceOfOtas
  <2>1. o \in Otas
    BY DEF OtaRows
  <2>2. CASE o # n
    <3>1. o \in OtaRows /\ (ota[o].audience # {} <=> ota[o].status = "canary")
      BY <1>2, <2>1, <2>2, OtasOf DEF AudienceOfOtas
    <3> QED
      BY <1>1, <2>1, <2>2, <3>1
  <2> QED
    BY <2>2
<1>6. RevisionsAreDistinct'
  <2> SUFFICES ASSUME NEW o \in OtaRows', NEW p \in OtaRows', Slot(o)' = Slot(p)',
                      ota'[o].revision = ota'[p].revision
               PROVE  o = p
    BY DEF RevisionsAreDistinct, Slot
  <2>1. o \in Otas /\ p \in Otas
    BY DEF OtaRows
  <2>2. CASE o # n /\ p # n
    <3>1. /\ o \in OtaRows /\ p \in OtaRows /\ Slot(o) = Slot(p)
          /\ ota[o].revision = ota[p].revision
      BY <1>1, <1>2, <2>1, <2>2
    <3> QED
      BY <3>1, OtasOf DEF RevisionsAreDistinct
  <2>3. CASE o = n /\ p # n
    BY <1>1, <1>2, <2>1, <2>3
  <2>4. CASE o # n /\ p = n
    BY <1>1, <1>2, <2>1, <2>4
  <2> QED
    BY <2>2, <2>3, <2>4
<1>7. \A o \in Otas : /\ ota[o].status # "none" => ota'[o].status # "none"
                      /\ ota[o].status = "gone" => ota'[o].status = "gone"
  BY <1>1
<1> QED
  BY <1>1, <1>2, <1>3, <1>4, <1>5, <1>6, <1>7 DEF MovesBut
LEMMA SupersedeIs ==
    ASSUME IInv, NEW runtime, NEW p \in Otas
    PROVE  /\ \/ Supersede(runtime)[p] = ota[p]
              \/ /\ ota[p].status = "active"
                 /\ Supersede(runtime)[p] = [ota[p] EXCEPT !.status = "superseded"]
           /\ Supersede(runtime)[p] \in OtaRow
           /\ Supersede(runtime)[p].base = ota[p].base
           /\ Supersede(runtime)[p].kind = ota[p].kind
           /\ Supersede(runtime)[p].revision = ota[p].revision
           /\ p \in InSlot(runtime) => Supersede(runtime)[p].status # "active"
<1>1. ota[p] \in OtaRow
  BY OtasOf
<1>2. CASE p \in InSlot(runtime) /\ ota[p].status = "active"
  <2>1. Supersede(runtime)[p] = [ota[p] EXCEPT !.status = "superseded"]
    BY <1>2 DEF Supersede
  <2> QED
    BY <1>1, <1>2, <2>1 DEF OtaRow
<1>3. CASE ~(p \in InSlot(runtime) /\ ota[p].status = "active")
  <2>1. Supersede(runtime)[p] = ota[p]
    BY <1>3 DEF Supersede
  <2> QED
    BY <1>1, <1>3, <2>1
<1> QED
  BY <1>2, <1>3
LEMMA NoneStaysActive ==
    ASSUME NEW runtime, NEW p \in InSlot(runtime), p \in Otas, ota[p] \in OtaRow
    PROVE  Supersede(runtime)[p].status # "active"
<1>1. CASE ota[p].status = "active"
  <2>1. Supersede(runtime)[p] = [ota[p] EXCEPT !.status = "superseded"]
    BY <1>1 DEF Supersede
  <2> QED
    BY <2>1 DEF OtaRow
<1>2. CASE ota[p].status # "active"
  BY <1>2 DEF Supersede
<1> QED
  BY <1>1, <1>2

LEMMA OtasStay == IInv /\ ota' = ota => OtasMove
<1> SUFFICES ASSUME IInv, ota' = ota PROVE OtasMove
  OBVIOUS
<1>1. /\ ota' \in [Otas -> OtaRow] /\ RevisionsAreCounted' /\ OneActiveOta' /\ AudienceOfOtas'
      /\ RevisionsAreDistinct' /\ OtaRows' = OtaRows
  BY OtasOf DEF RevisionsAreCounted, Taken, OneActiveOta, OtaRows, Slot, AudienceOfOtas,
                RevisionsAreDistinct
<1> QED
  BY <1>1 DEF OtasMove, OtaRows

(* A save takes an id that has files and no row. *)
LEMMA CommitSaveMoves ==
    ASSUME IInv, NEW a \in Admins, CommitSaveOta(a)
    PROVE  OtasMove
<1>0. /\ req[a].op = "save" /\ req[a].id \in Otas /\ req[a].base \in Releases
      /\ ota[req[a].id].status = "none" /\ req[a].id \in objects
  BY DEF CommitSaveOta, IInv, Types, Request, Idle, SavesAreFresh
<1> PICK n \in Otas : n = req[a].id
  BY <1>0
<1> PICK base \in Releases : base = req[a].base
  BY <1>0
<1> PICK revision : revision = NextRevision(Runtime[base])
  OBVIOUS
<1> DEFINE row == [status |-> "verified", base |-> base, kind |-> "update",
                   revision |-> revision, audience |-> {}]
<1>1. req[a].op = "save" /\ ota[n].status = "none" /\ n \in objects
  BY <1>0
<1>2. /\ revision \in Nat /\ revision <= Cardinality(Taken) + 1
      /\ \A o \in InSlot(Runtime[base]) : ota[o].revision < revision
  BY OtasOf, NextRevisionIs
<1>3. row \in OtaRow
  BY <1>1, <1>2 DEF OtaRow, Statuses
<1>4. ota' = [ota EXCEPT ![n] = row] /\ req' = [req EXCEPT ![a] = Idle]
  BY DEF CommitSaveOta, Answer
<1>5. /\ ota' \in [Otas -> OtaRow] /\ ota'[n] = row /\ Supersedes(n)
  BY <1>1, <1>3, <1>4, OtasOf DEF Supersedes
<1>6. Cardinality(Taken') = Cardinality(Taken) + 1
  <2>1. \A p \in Otas \ {n} : ota'[p] = ota[p]
    BY <1>4, OtasOf
  <2>2. ota'[n].status # "none"
    BY <1>5
  <2> QED
    BY <1>1, <2>1, <2>2, OtasOf, OneMoreTaken
<1>7. \A p \in OtaRows \ {n} : Slot(p) = Slot(n)' => p \in InSlot(Runtime[base])
  BY <1>5 DEF Slot, InSlot
<1>8. \A p \in OtaRows : ota[p].revision \in Nat
  BY OtasOf DEF OtaRows
<1>9. /\ ota'[n].revision <= Cardinality(Taken')
      /\ ota'[n].status = "verified" /\ ota'[n].audience = {}
  BY <1>2, <1>5, <1>6, OtasOf
<1>10. \A p \in OtaRows \ {n} : Slot(p) = Slot(n)' => ota[p].revision # ota'[n].revision
  BY <1>2, <1>5, <1>7, <1>8
<1> HIDE DEF row
<1>11. MovesBut(n)
  BY <1>1, <1>5, <1>9, <1>10, OtaMoves
<1> QED
  BY <1>1, <1>4, <1>5, <1>11 DEF OtasMove, MovesBut
LEMMA ActionMoves ==
    ASSUME IInv, NEW a \in Admins, NEW n \in Otas, NEW t \in OtaTransitions,
           NEW audience \in AudienceFor(t[3]), OtaAction(a, n, t, audience)
    PROVE  OtasMove
<1>1. /\ n \in OtaRows /\ ota[n].status \notin {"none", "gone"}
      /\ t[3] \in {"active", "paused", "canary", "rejected"}
      /\ audience \in SUBSET Installs /\ (audience # {} <=> t[3] = "canary")
      /\ objects' = objects
  BY DEF OtaAction, OtaRows, OtaTransitions, AudienceFor
<1> PICK slot : slot = Slot(n)
  OBVIOUS
<1> PICK rows : rows = IF t[3] = "active" THEN Supersede(slot) ELSE ota
  OBVIOUS
<1>2. /\ rows \in [Otas -> OtaRow]
      /\ \A p \in Otas :
            /\ \/ rows[p] = ota[p]
               \/ /\ ota[p].status = "active"
                  /\ rows[p] = [ota[p] EXCEPT !.status = "superseded"]
            /\ rows[p].base = ota[p].base /\ rows[p].kind = ota[p].kind
            /\ rows[p].revision = ota[p].revision
            /\ t[3] = "active" /\ p \in InSlot(slot) => rows[p].status # "active"
  <2>1. CASE t[3] = "active"
    <3>1. rows = Supersede(slot)
      BY <2>1
    <3>2. rows = [p \in Otas |-> rows[p]]
      BY <3>1 DEF Supersede
    <3>3. \A p \in Otas : rows[p] \in OtaRow
      BY <3>1, SupersedeIs
    <3>4. \A p \in Otas :
            /\ \/ rows[p] = ota[p]
               \/ /\ ota[p].status = "active"
                  /\ rows[p] = [ota[p] EXCEPT !.status = "superseded"]
            /\ rows[p].base = ota[p].base /\ rows[p].kind = ota[p].kind
            /\ rows[p].revision = ota[p].revision
            /\ p \in InSlot(slot) => rows[p].status # "active"
      BY <3>1, SupersedeIs
    <3> QED
      BY <3>2, <3>3, <3>4
  <2>2. CASE t[3] # "active"
    BY <2>2, OtasOf
  <2> QED
    BY <2>1, <2>2
<1>3. ota' = [[rows EXCEPT ![n].status = t[3]] EXCEPT ![n].audience = audience]
  BY DEF OtaAction
<1>4. ota' = [rows EXCEPT ![n] = [rows[n] EXCEPT !.status = t[3], !.audience = audience]]
  BY <1>2, <1>3
<1>5. /\ ota'[n] = [rows[n] EXCEPT !.status = t[3], !.audience = audience]
      /\ \A p \in Otas \ {n} : ota'[p] = rows[p]
  BY <1>2, <1>4
<1>6. /\ ota'[n] \in OtaRow /\ ota'[n].status = t[3] /\ ota'[n].audience = audience
      /\ ota'[n].base = ota[n].base /\ ota'[n].kind = ota[n].kind
      /\ ota'[n].revision = ota[n].revision
  <2>1. rows[n] \in OtaRow /\ t[3] \in Statuses /\ audience \in SUBSET Installs
    BY <1>1, <1>2 DEF Statuses
  <2>2. /\ ota'[n] \in OtaRow /\ ota'[n].status = t[3] /\ ota'[n].audience = audience
        /\ ota'[n].base = rows[n].base /\ ota'[n].kind = rows[n].kind
        /\ ota'[n].revision = rows[n].revision
    BY <1>5, <2>1 DEF OtaRow
  <2> QED
    BY <1>2, <2>2
<1>7. ota' \in [Otas -> OtaRow] /\ Supersedes(n)
  BY <1>2, <1>4, <1>5, <1>6 DEF Supersedes
<1>8. Slot(n)' = slot /\ \A p \in OtaRows : Slot(p) = slot => p \in InSlot(slot) /\ p \in Otas
  BY <1>6 DEF Slot, InSlot, OtaRows
<1>9. \A p \in OtaRows \ {n} : Slot(p) = Slot(n)' => ota[p].revision # ota'[n].revision
  BY <1>1, <1>6, <1>8, OtasOf DEF RevisionsAreDistinct
<1>10. ota'[n].status = "active" =>
          \A p \in OtaRows \ {n} : Slot(p) = Slot(n)' => ota'[p].status # "active"
  BY <1>2, <1>5, <1>6, <1>8
<1>11. ota'[n].revision <= Cardinality(Taken')
  <2>1. Taken' = Taken
    <3>1. \A p \in Otas \ {n} : (ota'[p].status = "none") <=> (ota[p].status = "none")
      <4> SUFFICES ASSUME NEW p \in Otas \ {n}
                   PROVE  (ota'[p].status = "none") <=> (ota[p].status = "none")
        OBVIOUS
      <4>1. ota[p] \in OtaRow
        BY OtasOf
      <4> QED
        BY <1>7, <4>1 DEF Supersedes, OtaRow
    <3> QED
      BY <1>1, <1>6, <3>1 DEF Taken
  <2> QED
    BY <1>6, <2>1, OtasOf DEF RevisionsAreCounted
<1>12. MovesBut(n)
  BY <1>1, <1>6, <1>7, <1>9, <1>10, <1>11, OtaMoves
<1> QED
  BY <1>1, <1>6, <1>7, <1>12 DEF OtasMove, MovesBut

LEMMA SetAudienceMoves ==
    ASSUME IInv, NEW a \in Admins, NEW n \in Otas, NEW audience \in AudienceFor("canary"),
           SetOtaAudience(a, n, audience)
    PROVE  OtasMove
<1>1. n \in OtaRows /\ ota[n].status = "canary" /\ audience \in SUBSET Installs /\ audience # {}
  BY DEF SetOtaAudience, AudienceFor
<1>2. ota[n] \in OtaRow /\ ota \in [Otas -> OtaRow]
  BY OtasOf
<1>3. ota' = [ota EXCEPT ![n] = [ota[n] EXCEPT !.audience = audience]]
  BY <1>2 DEF SetOtaAudience
<1>4. /\ ota'[n] = [ota[n] EXCEPT !.audience = audience]
      /\ \A p \in Otas \ {n} : ota'[p] = ota[p]
  BY <1>2, <1>3
<1>5. /\ ota'[n] \in OtaRow /\ ota'[n].status = "canary" /\ ota'[n].audience = audience
      /\ ota'[n].base = ota[n].base /\ ota'[n].kind = ota[n].kind
      /\ ota'[n].revision = ota[n].revision
  BY <1>1, <1>2, <1>4 DEF OtaRow
<1>6. ota' \in [Otas -> OtaRow] /\ Supersedes(n)
  BY <1>2, <1>3, <1>4, <1>5 DEF Supersedes
<1>7. Slot(n)' = Slot(n)
  BY <1>5 DEF Slot
<1>8. \A p \in OtaRows \ {n} : Slot(p) = Slot(n)' => ota[p].revision # ota'[n].revision
  BY <1>1, <1>5, <1>7, OtasOf DEF RevisionsAreDistinct
<1>9. ota'[n].revision <= Cardinality(Taken')
  <2>1. Taken' = Taken
    BY <1>1, <1>4, <1>5 DEF Taken
  <2> QED
    BY <1>5, <2>1, OtasOf DEF RevisionsAreCounted
<1>10. MovesBut(n)
  BY <1>1, <1>5, <1>6, <1>8, <1>9, OtaMoves
<1> QED
  BY <1>1, <1>5, <1>6, <1>10 DEF OtasMove, MovesBut

(* A rollback is above everything of its slot, and alone active in it. *)
RollbackRow(o, revision) ==
    [status |-> "active", base |-> ota[o].base, kind |-> "rollback",
     revision |-> revision, audience |-> {}]

LEMMA RollbackIs ==
    ASSUME IInv, NEW a \in Admins, NEW o \in Otas, NEW n \in Otas, OtaRollback(a, o, n)
    PROVE  /\ o \in OtaRows /\ ota[n].status = "none" /\ n \notin OtaRows /\ n # o
           /\ ota' \in [Otas -> OtaRow]
           /\ ota'[n] = RollbackRow(o, NextRevision(Slot(o)))
           /\ \A p \in Otas \ {n} : ota'[p] = Supersede(Slot(o))[p]
           /\ NextRevision(Slot(o)) \in Nat
           /\ NextRevision(Slot(o)) <= Cardinality(Taken) + 1
           /\ \A p \in InSlot(Slot(o)) : ota[p].revision < NextRevision(Slot(o))
           /\ n \notin objects /\ req' = req /\ rel' = rel
<1>1. /\ o \in OtaRows /\ ota[n].status = "none" /\ n \notin objects /\ req' = req /\ rel' = rel
      /\ ota' = [Supersede(Slot(o)) EXCEPT ![n] = RollbackRow(o, NextRevision(Slot(o)))]
  BY DEF OtaRollback, RollbackRow
<1>2. n \notin OtaRows /\ n # o
  BY <1>1 DEF OtaRows
<1>3. /\ NextRevision(Slot(o)) \in Nat
      /\ NextRevision(Slot(o)) <= Cardinality(Taken) + 1
      /\ \A p \in InSlot(Slot(o)) : ota[p].revision < NextRevision(Slot(o))
  BY OtasOf, NextRevisionIs
<1>4. RollbackRow(o, NextRevision(Slot(o))) \in OtaRow
  <2>1. ota[o] \in OtaRow
    BY OtasOf
  <2> QED
    BY <1>3, <2>1 DEF RollbackRow, OtaRow, Statuses
<1>5. Supersede(Slot(o)) \in [Otas -> OtaRow]
  <2>1. Supersede(Slot(o)) = [p \in Otas |-> Supersede(Slot(o))[p]]
    BY DEF Supersede
  <2> QED
    BY <2>1, SupersedeIs
<1> QED
  BY <1>1, <1>2, <1>3, <1>4, <1>5

LEMMA RollbackMoves ==
    ASSUME IInv, NEW a \in Admins, NEW o \in Otas, NEW n \in Otas, OtaRollback(a, o, n)
    PROVE  OtasMove
<1>0. /\ o \in OtaRows /\ ota[n].status = "none" /\ n \notin OtaRows /\ n # o
      /\ ota' \in [Otas -> OtaRow]
      /\ ota'[n] = RollbackRow(o, NextRevision(Slot(o)))
      /\ \A p \in Otas \ {n} : ota'[p] = Supersede(Slot(o))[p]
      /\ NextRevision(Slot(o)) \in Nat
      /\ NextRevision(Slot(o)) <= Cardinality(Taken) + 1
      /\ \A p \in InSlot(Slot(o)) : ota[p].revision < NextRevision(Slot(o))
      /\ n \notin objects /\ req' = req
  BY RollbackIs
<1> PICK slot : slot = Slot(o)
  OBVIOUS
<1> PICK revision : revision = NextRevision(slot)
  OBVIOUS
<1>1. /\ ota' \in [Otas -> OtaRow] /\ ota[n].status = "none" /\ n \notin OtaRows
      /\ \A p \in Otas \ {n} : ota'[p] = Supersede(slot)[p]
      /\ revision \in Nat /\ revision <= Cardinality(Taken) + 1
      /\ \A p \in InSlot(slot) : ota[p].revision < revision
      /\ n \notin objects /\ req' = req
  BY <1>0
<1>2. /\ ota'[n].status = "active" /\ ota'[n].base = ota[o].base /\ ota'[n].kind = "rollback"
      /\ ota'[n].revision = revision /\ ota'[n].audience = {}
  BY <1>0 DEF RollbackRow
<1>3. Supersedes(n)
  <2>1. \A p \in Otas : \/ Supersede(slot)[p] = ota[p]
                       \/ /\ ota[p].status = "active"
                          /\ Supersede(slot)[p] = [ota[p] EXCEPT !.status = "superseded"]
    BY SupersedeIs
  <2> QED
    BY <1>1, <2>1 DEF Supersedes
<1>4. Slot(n)' = slot /\ \A p \in OtaRows : Slot(p) = slot => p \in InSlot(slot) /\ p \in Otas
  BY <1>2 DEF Slot, InSlot, OtaRows
<1>5. \A p \in OtaRows : ota[p].revision \in Nat
  BY OtasOf DEF OtaRows
<1>6. \A p \in OtaRows \ {n} : Slot(p) = Slot(n)' =>
          ota[p].revision # ota'[n].revision /\ ota'[p].status # "active"
  <2> SUFFICES ASSUME NEW p \in OtaRows \ {n}, Slot(p) = Slot(n)'
               PROVE  ota[p].revision # ota'[n].revision /\ ota'[p].status # "active"
    OBVIOUS
  <2>1. p \in InSlot(slot) /\ p \in Otas
    BY <1>4
  <2>2. Supersede(slot)[p].status # "active"
    BY <2>1, OtasOf, NoneStaysActive
  <2> QED
    BY <1>1, <1>2, <1>5, <2>1, <2>2
<1>7. Cardinality(Taken') = Cardinality(Taken) + 1
  <2>1. \A p \in Otas \ {n} : (ota'[p].status = "none") = (ota[p].status = "none")
    <3> SUFFICES ASSUME NEW p \in Otas \ {n}
                 PROVE  (ota'[p].status = "none") <=> (ota[p].status = "none")
      OBVIOUS
    <3>1. ota[p] \in OtaRow
      BY OtasOf
    <3> QED
      BY <1>3, <3>1 DEF Supersedes, OtaRow
  <2> QED
    BY <1>1, <1>2, <2>1, OtasOf, OneMoreTaken
<1>8. ota'[n].revision <= Cardinality(Taken')
  BY <1>1, <1>2, <1>7, OtasOf
<1>9. MovesBut(n)
  BY <1>1, <1>2, <1>3, <1>6, <1>8, OtaMoves
<1> QED
  BY <1>1, <1>2, <1>9 DEF OtasMove, MovesBut

LEMMA DeleteOtaMoves ==
    ASSUME IInv, NEW a \in Admins, DeleteRow(a)
    PROVE  OtasMove
<1> PICK n : n = req[a].id
  OBVIOUS
<1>1. CASE n \in OtaRows
  <2> DEFINE row == [NoOta EXCEPT !.status = "gone"]
  <2>1. ota' = [ota EXCEPT ![n] = row] /\ n \in Otas /\ ota[n].status # "none"
    BY <1>1 DEF DeleteRow, OtaRows
  <2>2. row \in OtaRow /\ row.status = "gone" /\ row.revision = 0
    BY DEF OtaRow, NoOta, Statuses
  <2> HIDE DEF row
  <2>3. /\ ota' \in [Otas -> OtaRow] /\ ota'[n] = row /\ Supersedes(n)
        /\ \A p \in Otas \ {n} : ota'[p] = ota[p]
    BY <2>1, <2>2, OtasOf DEF Supersedes
  <2>4. Taken' = Taken
    BY <2>1, <2>2, <2>3 DEF Taken
  <2>5. ota'[n].revision <= Cardinality(Taken')
    BY <2>2, <2>3, <2>4, OtasOf
  <2>6. n \notin OtaRows'
    BY <2>2, <2>3 DEF OtaRows
  <2>7. MovesBut(n)
    BY <2>1, <2>2, <2>3, <2>5, <2>6, OtaMoves
  <2>8. \A p \in Otas \ {n} : p \in OtaRows' => p \in OtaRows /\ ota'[p].kind = ota[p].kind
    BY <2>7 DEF MovesBut
  <2> QED
    BY <2>1, <2>3, <2>6, <2>7, <2>8 DEF OtasMove, MovesBut
<1>2. CASE n \notin OtaRows
  BY <1>2, OtasStay DEF DeleteRow
<1> QED
  BY <1>1, <1>2

(* The steps that leave the updates as they are. *)
Unupdating ==
    \/ \E r \in Releases : StoreArtifact(r) \/ DiscardArtifact(r)
    \/ \E r \in Releases, m \in BOOLEAN : UploadRelease(r, m)
    \/ \E a \in Admins, r \in Releases :
          \/ \E t \in Transitions : \E aud \in AudienceFor(t[3]) : ReadForAction(a, r, t, aud)
          \/ ReadForMandatory(a, r)
          \/ \E aud \in AudienceFor("canary") : ReadForAudience(a, r, aud)
          \/ ReadForPurge(a, r)
          \/ \E o \in Otas : BeginSaveOta(a, o, r)
    \/ \E a \in Admins : CommitAction(a) \/ CommitMandatory(a) \/ CommitAudience(a)
                         \/ FailSaveOta(a) \/ DeleteObjects(a)
    \/ \E a \in Admins, o \in Otas : ReadForOtaPurge(a, o)

Updating ==
    \/ \E a \in Admins : CommitSaveOta(a) \/ DeleteRow(a)
    \/ \E a \in Admins, o \in Otas :
          \/ \E t \in OtaTransitions : \E aud \in AudienceFor(t[3]) : OtaAction(a, o, t, aud)
          \/ \E aud \in AudienceFor("canary") : SetOtaAudience(a, o, aud)
          \/ \E n \in Otas : OtaRollback(a, o, n)

LEMMA NextUpdates == Next <=> Unupdating \/ Updating
  BY Zenon DEF Next, Unupdating, Updating

LEMMA OtasStep == IInv /\ [Next]_vars => OtasMove
<1> SUFFICES ASSUME IInv, [Next]_vars PROVE OtasMove
  OBVIOUS
<1>1. CASE Unupdating \/ UNCHANGED vars
  <2>1. CASE \E a \in Admins, r \in Releases :
               \/ \E t \in Transitions : \E aud \in AudienceFor(t[3]) : ReadForAction(a, r, t, aud)
               \/ ReadForMandatory(a, r)
               \/ \E aud \in AudienceFor("canary") : ReadForAudience(a, r, aud)
               \/ ReadForPurge(a, r)
               \/ \E o \in Otas : BeginSaveOta(a, o, r)
    <3>1. ota' = ota
      BY <2>1 DEF ReadForAction, ReadForMandatory, ReadForAudience, ReadForPurge, BeginSaveOta
    <3> QED
      BY <3>1, OtasStay
  <2>2. CASE \/ \E r \in Releases : StoreArtifact(r) \/ DiscardArtifact(r)
             \/ \E r \in Releases, m \in BOOLEAN : UploadRelease(r, m)
             \/ \E a \in Admins, o \in Otas : ReadForOtaPurge(a, o)
             \/ UNCHANGED vars
    <3>1. ota' = ota
      BY <2>2 DEF vars, StoreArtifact, DiscardArtifact, UploadRelease, ReadForOtaPurge
    <3> QED
      BY <3>1, OtasStay
  <2>3. CASE \E a \in Admins : CommitAction(a) \/ CommitMandatory(a) \/ CommitAudience(a)
                              \/ FailSaveOta(a) \/ DeleteObjects(a)
    <3>1. ota' = ota
      BY <2>3 DEF CommitAction, CommitMandatory, CommitAudience, FailSaveOta, DeleteObjects
    <3> QED
      BY <3>1, OtasStay
  <2> QED
    BY <1>1, <2>1, <2>2, <2>3 DEF Unupdating
<1>2. CASE Updating
  BY <1>2, CommitSaveMoves, DeleteOtaMoves, ActionMoves, SetAudienceMoves, RollbackMoves DEF Updating
<1> QED
  BY <1>1, <1>2, NextUpdates

-----------------------------------------------------------------------------
(***************************************************************************)
(* Requests and files                                                      *)
(***************************************************************************)

(* What a step may do to the requests: one is begun, answered or goes on.   *)
RequestsMove ==
    /\ req' \in [Admins -> Request]
    /\ \A a \in Admins :
          \/ req'[a] = req[a] \/ req'[a] = Idle
          \/ /\ req'[a].op \in {"mandatory", "audience"}
          \/ /\ req'[a].op = "action" /\ req'[a].audience \in AudienceFor(req'[a].transition[3])
          \/ /\ req'[a].op = "save" /\ ota' = ota
             /\ objects' = objects \cup {req'[a].id}
             /\ ota[req'[a].id].status = "none"
             /\ \A b \in Admins : req[b].op = "save" => req[b].id # req'[a].id
             /\ \A b \in Admins \ {a} : req'[b] = req[b]
          \/ /\ req'[a].op = "purge" /\ rel' = rel /\ ota' = ota
             /\ req'[a].id \in Rows \cup OtaRows
          \/ /\ req'[a].op = "delete" /\ req[a].op = "purge" /\ req'[a].id = req[a].id
             /\ req'[a].id \notin Rows' /\ req'[a].id \notin OtaRows'

LEMMA RequestsOf ==
    ASSUME IInv, NEW a \in Admins
    PROVE  /\ req \in [Admins -> Request] /\ req[a] \in Request
           /\ req[a].op = "save" => req[a].id \in Otas /\ req[a].base \in Releases
           /\ req[a].op \in {"purge", "delete"} => req[a].id \in Releases \cup Otas
  BY DEF IInv, Types, Request, Idle

LEMMA RequestsStep == IInv /\ [Next]_vars => RequestsMove
<1> SUFFICES ASSUME IInv, [Next]_vars PROVE RequestsMove
  OBVIOUS
<1>1. req \in [Admins -> Request]
  BY DEF IInv, Types
<1>2. CASE req' = req
  BY <1>1, <1>2 DEF RequestsMove
<1>3. ASSUME NEW a \in Admins, req' = [req EXCEPT ![a] = Idle] PROVE RequestsMove
  BY <1>1, <1>3 DEF RequestsMove, Request
<1>4. ASSUME NEW a \in Admins, NEW r \in Releases, NEW t \in Transitions,
             NEW aud \in AudienceFor(t[3]), ReadForAction(a, r, t, aud)
      PROVE  RequestsMove
  <2>1. aud \in SUBSET Installs
    BY DEF AudienceFor
  <2>2. req' = [req EXCEPT ![a] = [op |-> "action", id |-> r, transition |-> t, audience |-> aud]]
    BY <1>4 DEF ReadForAction
  <2>3. [op |-> "action", id |-> r, transition |-> t, audience |-> aud] \in Request
    BY <2>1 DEF Request
  <2> QED
    BY <1>1, <2>2, <2>3 DEF RequestsMove
<1>5. ASSUME NEW a \in Admins, NEW r \in Releases, ReadForMandatory(a, r) PROVE RequestsMove
  BY <1>1, <1>5 DEF ReadForMandatory, RequestsMove, Request
<1>6. ASSUME NEW a \in Admins, NEW r \in Releases, NEW aud \in AudienceFor("canary"),
             ReadForAudience(a, r, aud)
      PROVE  RequestsMove
  BY <1>1, <1>6 DEF ReadForAudience, RequestsMove, Request
<1>7. ASSUME NEW a \in Admins, NEW r \in Releases, ReadForPurge(a, r) PROVE RequestsMove
  BY <1>1, <1>7 DEF ReadForPurge, RequestsMove, Request
<1>8. ASSUME NEW a \in Admins, NEW o \in Otas, ReadForOtaPurge(a, o) PROVE RequestsMove
  BY <1>1, <1>8 DEF ReadForOtaPurge, RequestsMove, Request
<1>9. ASSUME NEW a \in Admins, NEW r \in Releases, NEW o \in Otas, BeginSaveOta(a, o, r)
      PROVE  RequestsMove
  <2>1. /\ req' = [req EXCEPT ![a] = [op |-> "save", id |-> o, base |-> r]]
        /\ [op |-> "save", id |-> o, base |-> r] \in Request
    BY <1>9 DEF BeginSaveOta, Request
  <2> QED
    BY <1>1, <1>9, <2>1 DEF BeginSaveOta, RequestsMove
<1>10. ASSUME NEW a \in Admins, DeleteRow(a) PROVE RequestsMove
  <2>1. req[a].op = "purge" /\ req[a].id \in Releases \cup Otas
    BY <1>10, RequestsOf DEF DeleteRow
  <2>2. /\ req' = [req EXCEPT ![a] = [op |-> "delete", id |-> req[a].id]]
        /\ [op |-> "delete", id |-> req[a].id] \in Request
    BY <1>10, <2>1 DEF DeleteRow, Request
  <2>3. rel \in [Releases -> RelRow] /\ ota \in [Otas -> OtaRow]
    BY DEF IInv, Types
  <2>4. req[a].id \notin Rows' /\ req[a].id \notin OtaRows'
    BY <1>10, <2>3 DEF DeleteRow, Rows, OtaRows, NoRow, NoOta
  <2> QED
    BY <1>1, <2>1, <2>2, <2>4 DEF RequestsMove
<1>11. \/ req' = req \/ \E a \in Admins : req' = [req EXCEPT ![a] = Idle]
       \/ \E a \in Admins, r \in Releases :
             \/ \E t \in Transitions : \E aud \in AudienceFor(t[3]) : ReadForAction(a, r, t, aud)
             \/ ReadForMandatory(a, r)
             \/ \E aud \in AudienceFor("canary") : ReadForAudience(a, r, aud)
             \/ ReadForPurge(a, r)
             \/ \E o \in Otas : BeginSaveOta(a, o, r)
       \/ \E a \in Admins : DeleteRow(a)
       \/ \E a \in Admins, o \in Otas : ReadForOtaPurge(a, o)
  <2>1. ASSUME \/ \E r \in Releases : StoreArtifact(r) \/ DiscardArtifact(r)
               \/ \E r \in Releases, m \in BOOLEAN : UploadRelease(r, m)
               \/ \E a \in Admins, o \in Otas :
                     \/ \E t \in OtaTransitions : \E aud \in AudienceFor(t[3]) : OtaAction(a, o, t, aud)
                     \/ \E aud \in AudienceFor("canary") : SetOtaAudience(a, o, aud)
                     \/ \E n \in Otas : OtaRollback(a, o, n)
               \/ UNCHANGED vars
        PROVE  req' = req
    BY <2>1 DEF StoreArtifact, DiscardArtifact, UploadRelease, OtaAction, SetOtaAudience,
                OtaRollback, vars
  <2>2. ASSUME NEW a \in Admins,
               \/ CommitAction(a) \/ CommitMandatory(a) \/ CommitAudience(a) \/ FailSaveOta(a)
               \/ DeleteObjects(a) \/ CommitSaveOta(a)
        PROVE  req' = [req EXCEPT ![a] = Idle]
    BY <2>2 DEF CommitAction, CommitMandatory, CommitAudience, FailSaveOta, DeleteObjects,
                CommitSaveOta, Answer
  <2> QED
    BY <2>1, <2>2, NextUpdates DEF Unupdating, Updating
<1> QED
  BY <1>2, <1>3, <1>4, <1>5, <1>6, <1>7, <1>8, <1>9, <1>10, <1>11

(* What a step may take out of the object storage. *)
ObjectsMove ==
    /\ objects' \subseteq Releases \cup Otas
    /\ \A x \in objects \ objects' :
          /\ rel' = rel /\ ota' = ota
          /\ \/ x \in Releases /\ (rel[x].status = "none" \/ LateDiscards) /\ req' = req
             \/ \E a \in Admins : /\ req[a].op \in {"save", "delete"} /\ req[a].id = x
                                  /\ req'[a] = Idle

LEMMA ObjectsStep == IInv /\ [Next]_vars => ObjectsMove
<1> SUFFICES ASSUME IInv, [Next]_vars PROVE ObjectsMove
  OBVIOUS
<1>1. objects \subseteq Releases \cup Otas /\ req \in [Admins -> Request]
  BY DEF IInv, Types
<1>2. CASE objects' = objects
  BY <1>1, <1>2 DEF ObjectsMove
<1>3. ASSUME NEW r \in Releases, StoreArtifact(r) PROVE ObjectsMove
  BY <1>1, <1>3 DEF StoreArtifact, ObjectsMove
<1>4. ASSUME NEW r \in Releases, DiscardArtifact(r) PROVE ObjectsMove
  BY <1>1, <1>4 DEF DiscardArtifact, ObjectsMove
<1>5. ASSUME NEW a \in Admins, NEW o \in Otas, NEW r \in Releases, BeginSaveOta(a, o, r)
      PROVE  ObjectsMove
  BY <1>1, <1>5 DEF BeginSaveOta, ObjectsMove
<1>6. ASSUME NEW a \in Admins, FailSaveOta(a) PROVE ObjectsMove
  BY <1>1, <1>6 DEF FailSaveOta, Answer, ObjectsMove
<1>7. ASSUME NEW a \in Admins, DeleteObjects(a) PROVE ObjectsMove
  BY <1>1, <1>7 DEF DeleteObjects, Answer, ObjectsMove
<1>8. CASE \/ \E r \in Releases, m \in BOOLEAN : UploadRelease(r, m)
           \/ \E a \in Admins, r \in Releases :
                 \/ \E t \in Transitions : \E aud \in AudienceFor(t[3]) : ReadForAction(a, r, t, aud)
                 \/ ReadForMandatory(a, r)
                 \/ \E aud \in AudienceFor("canary") : ReadForAudience(a, r, aud)
                 \/ ReadForPurge(a, r)
  <2>1. objects' = objects
    BY <1>8 DEF UploadRelease, ReadForAction, ReadForMandatory, ReadForAudience, ReadForPurge
  <2> QED
    BY <1>2, <2>1
<1>9. CASE \/ \E a \in Admins : CommitAction(a) \/ CommitMandatory(a) \/ CommitAudience(a)
           \/ \E a \in Admins, o \in Otas : ReadForOtaPurge(a, o)
           \/ UNCHANGED vars
  <2>1. objects' = objects
    BY <1>9 DEF vars, CommitAction, CommitMandatory, CommitAudience, ReadForOtaPurge
  <2> QED
    BY <1>2, <2>1
<1>10. CASE Updating
  <2>1. objects' = objects
    BY <1>10 DEF Updating, CommitSaveOta, DeleteRow, OtaAction, SetOtaAudience, OtaRollback
  <2> QED
    BY <1>2, <2>1
<1> QED
  BY <1>3, <1>4, <1>5, <1>6, <1>7, <1>8, <1>9, <1>10, NextUpdates DEF Unupdating

LEMMA SavesStayFresh ==
    ASSUME IInv, ReleasesMove, OtasMove, RequestsMove, ObjectsMove
    PROVE  SavesAreFresh'
<1> SUFFICES ASSUME NEW a \in Admins, req'[a].op = "save"
             PROVE  /\ ota'[req'[a].id].status = "none" /\ req'[a].id \in objects'
                    /\ \A b \in Admins : req'[b].op = "save" /\ req'[b].id = req'[a].id => a = b
  BY DEF SavesAreFresh
<1> PICK n : n = req'[a].id
  OBVIOUS

(* A save in flight is new, with an id no other save has, or it goes on. *)
<1>1. \A b \in Admins : req'[b].op = "save" =>
         \/ req'[b] = req[b]
         \/ /\ ota' = ota /\ ota[req'[b].id].status = "none"
            /\ objects' = objects \cup {req'[b].id}
            /\ \A c \in Admins : req[c].op = "save" => req[c].id # req'[b].id
            /\ \A c \in Admins \ {b} : req'[c] = req[c]
  BY DEF RequestsMove, Idle
<1>2. CASE req'[a] = req[a]
  <2>1. /\ req[a].op = "save" /\ n = req[a].id /\ n \in Otas
        /\ ota[n].status = "none" /\ n \in objects
        /\ \A b \in Admins : req[b].op = "save" /\ req[b].id = n => a = b
    BY <1>2, RequestsOf DEF IInv, SavesAreFresh
  <2>2. req'[a] # Idle
    BY DEF Idle
  <2>3. ota'[n].status = "none"
    <3> SUFFICES ASSUME ota'[n].status # "none" PROVE FALSE
      OBVIOUS
    <3>1. PICK b \in Admins : /\ req[b].op = "save" /\ req[b].id = n
                              /\ req' = [req EXCEPT ![b] = Idle]
      BY <2>1 DEF OtasMove
    <3>2. b = a /\ req'[a] = Idle
      BY <2>1, <3>1, RequestsOf
    <3> QED
      BY <2>2, <3>2
  <2>4. n \in objects'
    <3> SUFFICES ASSUME n \notin objects' PROVE FALSE
      OBVIOUS
    <3>1. n \notin Releases
      BY <2>1, IdsAssumption
    <3>2. PICK b \in Admins : /\ req[b].op \in {"save", "delete"} /\ req[b].id = n
                              /\ req'[b] = Idle
      BY <2>1, <3>1 DEF ObjectsMove
    <3>3. CASE req[b].op = "save"
      BY <2>1, <2>2, <3>2, <3>3
    <3>4. CASE req[b].op = "delete"
      BY <2>1, <3>2, <3>4 DEF IInv, PurgesHadRows
    <3> QED
      BY <3>2, <3>3, <3>4
  <2>5. \A b \in Admins : req'[b].op = "save" /\ req'[b].id = n => a = b
    BY <1>1, <1>2, <2>1
  <2> QED
    BY <2>3, <2>4, <2>5
<1>3. CASE req'[a] # req[a]
  <2>1. /\ ota' = ota /\ ota[n].status = "none" /\ n \in objects'
        /\ \A c \in Admins : req[c].op = "save" => req[c].id # n
        /\ \A c \in Admins \ {a} : req'[c] = req[c]
    BY <1>1, <1>3
  <2> QED
    BY <2>1
<1> QED
  BY <1>2, <1>3

LEMMA PurgesKeepTheirRows ==
    ASSUME IInv, ReleasesMove, OtasMove, RequestsMove
    PROVE  PurgesHadRows'
<1> SUFFICES ASSUME NEW a \in Admins, NEW n, n = req'[a].id
             PROVE  /\ req'[a].op = "purge" => /\ n \in Releases => rel'[n].status # "none"
                                               /\ n \in Otas => ota'[n].status # "none"
                    /\ req'[a].op = "delete" => /\ n \in Releases => rel'[n].status = "gone"
                                                /\ n \in Otas => ota'[n].status = "gone"
  BY DEF PurgesHadRows
<1>1. CASE req'[a] = req[a]
  BY <1>1 DEF IInv, PurgesHadRows, ReleasesMove, OtasMove
<1>2. CASE /\ req'[a].op = "purge" /\ rel' = rel /\ ota' = ota
           /\ n \in Rows \cup OtaRows
  BY <1>2, IdsAssumption DEF Rows, OtaRows
<1>3. CASE /\ req'[a].op = "delete" /\ req[a].op = "purge" /\ n = req[a].id
           /\ n \notin Rows' /\ n \notin OtaRows'
  <2>1. /\ n \in Releases => rel'[n].status # "none"
        /\ n \in Otas => ota'[n].status # "none"
    BY <1>3 DEF IInv, PurgesHadRows, ReleasesMove, OtasMove
  <2> QED
    BY <1>3, <2>1 DEF Rows, OtaRows
<1>4. CASE req'[a].op \in {"idle", "action", "mandatory", "audience", "save"}
  BY <1>4
<1> QED
  BY <1>1, <1>2, <1>3, <1>4 DEF RequestsMove, Idle

LEMMA FilesStay ==
    ASSUME IInv, ReleasesMove, OtasMove, ObjectsMove
    PROVE  UpdatesHaveObjects' /\ ReleasesHaveObjects'
<1>1. ASSUME NEW o \in OtaRows', ota'[o].kind = "update" PROVE o \in objects'
  <2>1. o \in Otas /\ ota'[o].status \notin {"none", "gone"} /\ o \notin Releases
    BY IdsAssumption DEF OtaRows
  <2>2. o \in objects
    BY <1>1, <2>1 DEF OtasMove, IInv, UpdatesHaveObjects
  <2> SUFFICES ASSUME o \notin objects' PROVE FALSE
    OBVIOUS
  <2>3. PICK b \in Admins : ota' = ota /\ req[b].op \in {"save", "delete"} /\ req[b].id = o
    BY <2>1, <2>2 DEF ObjectsMove
  <2>4. ota[o].status \in {"none", "gone"}
    BY <2>1, <2>3 DEF IInv, SavesAreFresh, PurgesHadRows
  <2> QED
    BY <2>1, <2>3, <2>4
<1>2. ASSUME ~LateDiscards, NEW r \in Rows' PROVE r \in objects'
  <2>1. r \in Releases /\ rel'[r].status \notin {"none", "gone"} /\ r \notin Otas
    BY IdsAssumption DEF Rows
  <2>2. r \in objects
    BY <1>2, <2>1 DEF ReleasesMove, IInv, ReleasesHaveObjects
  <2> SUFFICES ASSUME r \notin objects' PROVE FALSE
    OBVIOUS
  <2>3. /\ rel' = rel
        /\ \E b \in Admins : req[b].op \in {"save", "delete"} /\ req[b].id = r
    BY <1>2, <2>1, <2>2 DEF ObjectsMove
  <2>4. PICK b \in Admins : req[b].op \in {"save", "delete"} /\ req[b].id = r
    BY <2>3
  <2>5. req[b].op = "delete"
    BY <2>1, <2>4, RequestsOf
  <2>6. rel[r].status = "gone"
    BY <2>1, <2>4, <2>5 DEF IInv, PurgesHadRows
  <2> QED
    BY <2>1, <2>3, <2>6
<1> QED
  BY <1>1, <1>2 DEF UpdatesHaveObjects, ReleasesHaveObjects

LEMMA ActionsStayValid == IInv /\ RequestsMove => ActionsAreValid'
  BY DEF IInv, ActionsAreValid, RequestsMove, Idle

-----------------------------------------------------------------------------
LEMMA InitInv == Init => IInv
<1> SUFFICES ASSUME Init PROVE IInv
  OBVIOUS
<1>1. NoRow \in RelRow /\ NoOta \in OtaRow
  BY DEF NoRow, NoOta, RelRow, OtaRow, Statuses
<1>2. Types
  BY <1>1 DEF Init, Types, Request
<1>3. Rows = {} /\ OtaRows = {} /\ Taken = {}
  BY DEF Init, Rows, OtaRows, Taken, NoRow, NoOta
<1>4. RevisionsAreCounted
  BY <1>3, FS_EmptySet DEF Init, RevisionsAreCounted, NoOta
<1> QED
  BY <1>2, <1>3, <1>4
     DEF Init, Idle, IInv, ActionsAreValid, SavesAreFresh, PurgesHadRows, OneActive, Active,
         AudienceOnlyInCanary, RevisionsAreDistinct, UpdatesHaveObjects, ReleasesHaveObjects

LEMMA StepInv == IInv /\ [Next]_vars => IInv'
<1> SUFFICES ASSUME IInv, [Next]_vars PROVE IInv'
  OBVIOUS
<1>1. ReleasesMove /\ OtasMove /\ RequestsMove /\ ObjectsMove
  BY ReleasesStep, OtasStep, RequestsStep, ObjectsStep
<1>2. Types'
  BY <1>1 DEF ReleasesMove, OtasMove, RequestsMove, ObjectsMove, Types
<1>3. SavesAreFresh' /\ PurgesHadRows' /\ UpdatesHaveObjects' /\ ReleasesHaveObjects'
      /\ ActionsAreValid'
  BY <1>1, SavesStayFresh, PurgesKeepTheirRows, FilesStay, ActionsStayValid
<1>4. OneActive' /\ AudienceOnlyInCanary'
  BY <1>1 DEF ReleasesMove, OtasMove, OneActive, AudienceOnlyInCanary, OneActiveRelease,
              OneActiveOta, AudienceOfReleases, AudienceOfOtas
<1>5. RevisionsAreDistinct' /\ RevisionsAreCounted'
  BY <1>1 DEF OtasMove
<1> QED
  BY <1>2, <1>3, <1>4, <1>5 DEF IInv

(* The invariant: one release is active, one update in each slot, only a    *)
(* canary has an audience, revisions are distinct and bounded, and an       *)
(* update's row has its files, however requests overlap.                    *)
THEOREM ServingInvariant == Spec => []IInv
  BY InitInv, StepInv, PTL DEF Spec

(* What is served is consistent and its files are there, as long as an      *)
(* upload token is not used to discard the package of its release.          *)
THEOREM ServingIsConsistentHolds ==
    ASSUME ~LateDiscards PROVE Spec => []ServingIsConsistent
<1>1. IInv => ServingIsConsistent
  <2> SUFFICES ASSUME IInv PROVE ServingIsConsistent
    OBVIOUS
  <2>1. /\ Cardinality(Otas) \in Nat /\ Cardinality(Taken) \in Nat
        /\ Cardinality(Taken) <= Cardinality(Otas)
    BY IdsAssumption, FS_Subset, FS_CardinalityType DEF Taken
  <2>2. ASSUME NEW o \in Otas
        PROVE  ota[o] \in [status : Statuses \cup {"superseded"}, base : Releases \cup {NoBase},
                       kind : {"update", "rollback"}, revision : 0..Cardinality(Otas),
                       audience : SUBSET Installs]
    <3>1. ota[o] \in OtaRow /\ ota[o].revision \in Nat /\ ota[o].revision <= Cardinality(Taken)
      BY OtasOf DEF RevisionsAreCounted
    <3>2. ota[o].revision \in 0..Cardinality(Otas)
      BY <2>1, <3>1
    <3> QED
      BY <3>1, <3>2 DEF OtaRow
  <2>3. ota \in [Otas -> [status : Statuses \cup {"superseded"}, base : Releases \cup {NoBase},
                       kind : {"update", "rollback"}, revision : 0..Cardinality(Otas),
                       audience : SUBSET Installs]]
    BY <2>2, OtasOf
  <2>4. \A a \in Admins : req[a].op \in {"idle", "action", "mandatory", "audience",
                                         "save", "purge", "delete"}
    BY DEF IInv, Types, Request, Idle
  <2>5. TypeOK
    BY <2>3, <2>4 DEF IInv, Types, TypeOK, RelRow
  <2>6. RowsHaveObjects
    BY DEF IInv, UpdatesHaveObjects, ReleasesHaveObjects, RowsHaveObjects
  <2> QED
    BY <2>5, <2>6 DEF IInv, ServingIsConsistent
<1> QED
  BY <1>1, ServingInvariant, PTL

(* A rollback reaches every device of the base at once, those of a canary   *)
(* included: nothing in the slot has its revision or a higher one.          *)
THEOREM RollbackReachesEveryDeviceHolds == Spec => RollbackReachesEveryDevice
<1>1. IInv /\ [Next]_vars =>
        [\A a \in Admins : \A o, n \in Otas : \A device \in Installs :
           OtaRollback(a, o, n) /\ ota[o].base \in Rows
             => Manifest(ota[o].base, device)' = {n}]_vars
  <2> SUFFICES ASSUME IInv, NEW a \in Admins, NEW o \in Otas, NEW n \in Otas,
                      NEW device \in Installs, OtaRollback(a, o, n), ota[o].base \in Rows
               PROVE  Manifest(ota[o].base, device)' = {n}
    BY DEF RollbackReachesEveryDevice
  <2> PICK base : base = ota[o].base
    OBVIOUS
  <2> PICK revision : revision = NextRevision(Slot(o))
    OBVIOUS
  <2>1. /\ n # o /\ n \notin OtaRows
        /\ \A p \in Otas \ {n} : ota'[p] = Supersede(Slot(o))[p]
        /\ revision \in Nat
        /\ \A p \in InSlot(Slot(o)) : ota[p].revision < revision
        /\ rel' = rel
    BY RollbackIs
  <2>2. ota'[n] = RollbackRow(o, NextRevision(Slot(o)))
    BY RollbackIs
  <2>3. /\ ota'[n].status = "active" /\ ota'[n].base = base /\ ota'[n].revision = revision
    BY <2>2 DEF RollbackRow
  <2>4. ASSUME NEW p \in Otas \ {n}
        PROVE  /\ ota'[p].base = ota[p].base /\ ota'[p].revision = ota[p].revision
               /\ p \in OtaRows' => p \in OtaRows
    <3>1. /\ ota'[p].base = ota[p].base /\ ota'[p].revision = ota[p].revision
          /\ \/ ota'[p] = ota[p]
             \/ ota[p].status = "active"
      <4>1. p \in Otas /\ ota'[p] = Supersede(Slot(o))[p]
        BY <2>1
      <4>2. ota[p] \in OtaRow
        BY OtasOf
      <4>3. CASE p \in InSlot(Slot(o)) /\ ota[p].status = "active"
        <5>1. ota'[p] = [ota[p] EXCEPT !.status = "superseded"]
          BY <4>1, <4>3 DEF Supersede
        <5> QED
          BY <4>2, <4>3, <5>1 DEF OtaRow
      <4>4. CASE ~(p \in InSlot(Slot(o)) /\ ota[p].status = "active")
        BY <4>1, <4>4 DEF Supersede
      <4> QED
        BY <4>3, <4>4
    <3> QED
      BY <3>1 DEF OtaRows
  <2>5. ota'[o].base = base /\ base \in Rows'
    BY <2>1, <2>4 DEF Rows
  <2> DEFINE visible == VisibleOtas(ota[o].base, device)'
  <2>6. n \in visible
    BY <2>3, <2>5 DEF VisibleOtas, OtaRows
  <2>7. ASSUME NEW p \in visible, p # n
        PROVE  ota'[p].revision \in Nat /\ ota'[p].revision < revision
    <3>1. p \in Otas /\ p \in OtaRows' /\ ota'[p].base = base
      BY <2>5 DEF VisibleOtas, OtaRows
    <3>2. p \in OtaRows /\ ota[p].base = base /\ ota'[p].revision = ota[p].revision
      BY <2>4, <2>7, <3>1
    <3>3. p \in InSlot(Slot(o))
      BY <3>2 DEF InSlot, Slot
    <3> QED
      BY <2>1, <3>1, <3>2, <3>3, OtasOf
  <2>8. Manifest(ota[o].base, device)' =
          {p \in visible : ota'[o].base \in Rows'
                           /\ \A q \in visible : ota'[q].revision <= ota'[p].revision}
    BY DEF Manifest
  <2> HIDE DEF visible
  <2>9. \A q \in visible : ota'[q].revision <= ota'[n].revision
    BY <2>1, <2>3, <2>7
  <2>10. \A p \in visible : (\A q \in visible : ota'[q].revision <= ota'[p].revision) => p = n
    BY <2>1, <2>3, <2>6, <2>7
  <2> QED
    BY <2>5, <2>6, <2>8, <2>9, <2>10
<1> QED
  BY <1>1, ServingInvariant, PTL DEF Spec, RollbackReachesEveryDevice
-----------------------------------------------------------------------------
(***************************************************************************)
(* One request at a time: what a request has read still holds when it      *)
(* writes.                                                                 *)
(***************************************************************************)
ReadsHold ==
    \A a \in Admins :
        /\ req[a].op = "action" =>
              /\ req[a].id \in Rows /\ req[a].transition[2] = rel[req[a].id].status
              /\ req[a].transition[3] = "canary" => ~rel[req[a].id].mandatory
        /\ req[a].op = "save" => req[a].base \in Rows
        /\ req[a].op = "purge" =>
              /\ req[a].id \in Releases => MayPurge(req[a].id)
              /\ req[a].id \in Otas => ~InUse(req[a].id)

SerialInv == OneRequest /\ ReadsHold /\ OtaHasItsBase /\ CanaryIsNotMandatory

(* What a step does to a release, and to an update.                        *)
ReleasesKept ==
    \A r \in Releases :
        /\ r \in Rows => r \in Rows' \/ MayPurge(r)
        /\ rel'[r].status = "gone" => rel[r].status = "gone" \/ MayPurge(r)
        /\ rel[r].status = "active" /\ rel'[r].status = "completed" =>
              \E q \in Releases : rel'[q].status = "active"
        /\ rel'[r].status = "canary" => ~rel'[r].mandatory
        /\ IsEdge(rel[r].status, rel'[r].status)
UpdatesKept ==
    \A o \in Otas :
        /\ o \in OtaRows' => \/ o \in OtaRows /\ ota'[o].base = ota[o].base
                             \/ ota'[o].base \in Rows /\ rel' = rel
        /\ ota'[o].status = "gone" => ota[o].status = "gone" \/ ~InUse(o)

LEMMA RequestTyped ==
    ASSUME IInv, NEW a \in Admins
    PROVE  /\ req[a].op = "action" => req[a].id \in Releases /\ req[a].transition \in Transitions
           /\ req[a].op = "mandatory" => req[a].id \in Releases /\ req[a].seen \in FlagEditable
           /\ req[a].op = "audience" => req[a].id \in Releases
           /\ req[a].op = "save" => req[a].id \in Otas /\ req[a].base \in Releases
<1>1. req[a] \in Request
  BY DEF IInv, Types
<1> QED
  BY <1>1 DEF Request, Idle

LEMMA NotMandatory ==
    ASSUME IInv, CanaryIsNotMandatory, NEW r \in Releases, rel[r].status = "canary"
    PROVE  ~rel[r].mandatory
  BY DEF CanaryIsNotMandatory, Rows

LEMMA SameReleases ==
    ASSUME IInv, SerialInv, rel' = rel PROVE ReleasesKept
<1>1. ASSUME NEW r \in Releases, rel'[r].status = "canary" PROVE ~rel'[r].mandatory
  BY <1>1, NotMandatory DEF SerialInv
<1>2. \A r \in Releases : rel[r].status = "active" /\ rel'[r].status = "completed" => FALSE
  OBVIOUS
<1>3. \A r \in Releases : IsEdge(rel[r].status, rel'[r].status)
  BY DEF IsEdge
<1> QED
  BY <1>1, <1>2, <1>3 DEF ReleasesKept, Rows

(* A row that is written leaves the others as they are.                    *)
LEMMA OneReleaseKept ==
    ASSUME IInv, SerialInv, NEW r \in Releases, NEW row, rel' = [rel EXCEPT ![r] = row],
           r \in Rows => row.status \notin {"none", "gone"} \/ MayPurge(r),
           row.status = "gone" => MayPurge(r),
           row.status # "completed" \/ rel[r].status # "active",
           row.status = "canary" => ~row.mandatory,
           IsEdge(rel[r].status, row.status)
    PROVE  ReleasesKept
<1>1. \A q \in Releases : rel'[q] = IF q = r THEN row ELSE rel[q]
  BY ReleasesOf
<1>2. ASSUME NEW q \in Releases, rel'[q].status = "canary" PROVE ~rel'[q].mandatory
  BY <1>1, <1>2, NotMandatory DEF SerialInv
<1>3. ASSUME NEW q \in Releases, rel[q].status = "active", rel'[q].status = "completed" PROVE FALSE
  BY <1>1, <1>3
<1>4. ASSUME NEW q \in Releases, q \in Rows PROVE q \in Rows' \/ MayPurge(q)
  BY <1>1, <1>4 DEF Rows
<1>5. ASSUME NEW q \in Releases, rel'[q].status = "gone"
      PROVE  rel[q].status = "gone" \/ MayPurge(q)
  BY <1>1, <1>5
<1>6. ASSUME NEW q \in Releases PROVE IsEdge(rel[q].status, rel'[q].status)
  <2>1. CASE q = r
    BY <1>1, <2>1
  <2>2. CASE q # r
    BY <1>1, <2>2 DEF IsEdge
  <2> QED
    BY <2>1, <2>2
<1> QED
  BY <1>2, <1>3, <1>4, <1>5, <1>6 DEF ReleasesKept

LEMMA CommitActionKept ==
    ASSUME IInv, SerialInv, NEW a \in Admins, CommitAction(a) PROVE ReleasesKept
<1> DEFINE r == req[a].id
           t == req[a].transition
           aud == req[a].audience
<1>1. /\ r \in Releases /\ t \in Transitions /\ r \in Rows /\ t[2] = rel[r].status
      /\ t[3] = "canary" => ~rel[r].mandatory
  BY RequestTyped DEF CommitAction, SerialInv, ReadsHold
<1>2. t[3] \in {"active", "paused", "canary", "rejected"}
  BY <1>1 DEF Transitions
<1>3. \A q \in Releases :
        rel'[q] = IF q = r THEN Moved(rel[r], t[3], aud)
                  ELSE IF q \in CompletedBy(r, t[3]) THEN [rel[q] EXCEPT !.status = "completed"]
                  ELSE rel[q]
  BY <1>1 DEF CommitAction
<1> HIDE DEF r, t, aud
<1>4. rel'[r].status = t[3] /\ rel'[r].mandatory = rel[r].mandatory
  BY <1>1, <1>3, ReleasesOf DEF Moved, RelRow
<1>5. ASSUME NEW q \in Releases, q # r
      PROVE  \/ rel'[q] = rel[q]
             \/ t[3] = "active" /\ rel[q].status = "active" /\ rel'[q].status = "completed"
  BY <1>3, <1>5, ReleasesOf DEF CompletedBy, Active, RelRow
<1>6. ASSUME NEW q \in Releases, rel'[q].status = "canary" PROVE ~rel'[q].mandatory
  BY <1>1, <1>4, <1>5, <1>6, NotMandatory DEF SerialInv
<1>7. ASSUME NEW q \in Releases, rel[q].status = "active", rel'[q].status = "completed"
      PROVE  rel'[r].status = "active"
  BY <1>2, <1>4, <1>5, <1>7
<1>8. ASSUME NEW q \in Releases, q \in Rows PROVE q \in Rows'
  BY <1>2, <1>4, <1>5, <1>8 DEF Rows
<1>9. ASSUME NEW q \in Releases, rel'[q].status = "gone" PROVE rel[q].status = "gone"
  BY <1>2, <1>4, <1>5, <1>9
<1>10. ASSUME NEW q \in Releases PROVE IsEdge(rel[q].status, rel'[q].status)
  <2>1. CASE q = r
    BY <1>1, <1>4, <2>1 DEF IsEdge
  <2>2. CASE q # r
    BY <1>5, <2>2 DEF IsEdge
  <2> QED
    BY <2>1, <2>2
<1> QED
  BY <1>1, <1>6, <1>7, <1>8, <1>9, <1>10 DEF ReleasesKept

LEMMA ReleasesKeptStep == IInv /\ SerialInv /\ Next => ReleasesKept
<1> SUFFICES ASSUME IInv, SerialInv, Next PROVE ReleasesKept
  OBVIOUS
<1>1. ASSUME NEW r \in Releases, NEW m \in BOOLEAN, UploadRelease(r, m) PROVE ReleasesKept
  <2> DEFINE row == [status |-> "verified", mandatory |-> m, audience |-> {}]
  <2>1. rel' = [rel EXCEPT ![r] = row] /\ rel[r].status = "none"
    BY <1>1 DEF UploadRelease
  <2>2. IsEdge(rel[r].status, row.status)
    BY <2>1 DEF IsEdge
  <2> QED
    BY <2>1, <2>2, OneReleaseKept
<1>2. ASSUME NEW a \in Admins, CommitAction(a) PROVE ReleasesKept
  BY <1>2, CommitActionKept
<1>3. ASSUME NEW a \in Admins, CommitMandatory(a) PROVE ReleasesKept
  <2> DEFINE r == req[a].id
             row == [rel[r] EXCEPT !.mandatory = ~rel[r].mandatory]
  <2>1. r \in Releases /\ req[a].seen \in FlagEditable
    BY <1>3, RequestTyped DEF CommitMandatory
  <2>2. CASE rel' = rel
    BY <2>2, SameReleases
  <2>3. CASE rel[r].status = req[a].seen /\ rel' = [rel EXCEPT ![r] = row]
    <3>1. row.status = rel[r].status /\ row.status \in {"verified", "active", "paused"}
      BY <2>1, <2>3, ReleasesOf DEF FlagEditable, RelRow
    <3>2. IsEdge(rel[r].status, row.status)
      BY <3>1 DEF IsEdge
    <3> HIDE DEF row, r
    <3> QED
      BY <2>1, <2>3, <3>1, <3>2, OneReleaseKept
  <2>4. rel' = rel \/ (rel[r].status = req[a].seen /\ rel' = [rel EXCEPT ![r] = row])
    <3>1. rel' = IF rel[r].status = req[a].seen
                   THEN [rel EXCEPT ![r].mandatory = ~rel[r].mandatory] ELSE rel
      BY <1>3 DEF CommitMandatory
    <3>2. [rel EXCEPT ![r].mandatory = ~rel[r].mandatory] = [rel EXCEPT ![r] = row]
      BY <2>1, ReleasesOf
    <3> QED
      BY <3>1, <3>2
  <2> QED
    BY <2>2, <2>3, <2>4
<1>4. ASSUME NEW a \in Admins, CommitAudience(a) PROVE ReleasesKept
  <2> DEFINE r == req[a].id
             row == [rel[r] EXCEPT !.audience = req[a].audience]
  <2>1. r \in Releases
    BY <1>4, RequestTyped DEF CommitAudience
  <2>2. CASE rel' = rel
    BY <2>2, SameReleases
  <2>3. CASE rel[r].status = "canary" /\ rel' = [rel EXCEPT ![r] = row]
    <3>1. row.status = "canary" /\ row.mandatory = rel[r].mandatory
      BY <2>1, <2>3, ReleasesOf DEF RelRow
    <3>2. ~rel[r].mandatory
      BY <2>1, <2>3, NotMandatory DEF SerialInv
    <3>3. IsEdge(rel[r].status, row.status)
      BY <2>3, <3>1 DEF IsEdge
    <3> HIDE DEF row, r
    <3> QED
      BY <2>1, <2>3, <3>1, <3>2, <3>3, OneReleaseKept
  <2>4. rel' = rel \/ (rel[r].status = "canary" /\ rel' = [rel EXCEPT ![r] = row])
    <3>1. rel' = IF rel[r].status = "canary"
                   THEN [rel EXCEPT ![r].audience = req[a].audience] ELSE rel
      BY <1>4 DEF CommitAudience
    <3>2. [rel EXCEPT ![r].audience = req[a].audience] = [rel EXCEPT ![r] = row]
      BY <2>1, ReleasesOf
    <3> QED
      BY <3>1, <3>2
  <2> QED
    BY <2>2, <2>3, <2>4
<1>5. ASSUME NEW a \in Admins, DeleteRow(a) PROVE ReleasesKept
  <2> DEFINE r == req[a].id
             row == [NoRow EXCEPT !.status = "gone"]
  <2>1. CASE r \in Rows
    <3>1. r \in Releases /\ MayPurge(r)
      BY <1>5, <2>1 DEF DeleteRow, SerialInv, ReadsHold, Rows
    <3>2. rel' = [rel EXCEPT ![r] = row]
      BY <1>5, <2>1 DEF DeleteRow
    <3>3. row.status = "gone" /\ IsEdge(rel[r].status, row.status)
      BY DEF NoRow, IsEdge
    <3> HIDE DEF row, r
    <3> QED
      BY <3>1, <3>2, <3>3, OneReleaseKept
  <2>2. CASE r \notin Rows
    BY <1>5, <2>2, SameReleases DEF DeleteRow
  <2> QED
    BY <2>1, <2>2
<1>6. ASSUME NEW r \in Releases, StoreArtifact(r) \/ DiscardArtifact(r) PROVE rel' = rel
  BY <1>6 DEF StoreArtifact, DiscardArtifact
<1>7. ASSUME NEW a \in Admins, NEW r \in Releases,
             \/ \E t \in Transitions : \E aud \in AudienceFor(t[3]) : ReadForAction(a, r, t, aud)
             \/ ReadForMandatory(a, r)
             \/ \E aud \in AudienceFor("canary") : ReadForAudience(a, r, aud)
             \/ ReadForPurge(a, r)
             \/ \E o \in Otas : BeginSaveOta(a, o, r)
      PROVE  rel' = rel
  BY <1>7 DEF ReadForAction, ReadForMandatory, ReadForAudience, ReadForPurge, BeginSaveOta
<1>8. ASSUME NEW a \in Admins, CommitSaveOta(a) \/ FailSaveOta(a) \/ DeleteObjects(a)
      PROVE  rel' = rel
  BY <1>8 DEF CommitSaveOta, FailSaveOta, DeleteObjects
<1>9. ASSUME NEW a \in Admins, NEW o \in Otas,
             \/ \E t \in OtaTransitions : \E aud \in AudienceFor(t[3]) : OtaAction(a, o, t, aud)
             \/ \E aud \in AudienceFor("canary") : SetOtaAudience(a, o, aud)
             \/ \E n \in Otas : OtaRollback(a, o, n)
             \/ ReadForOtaPurge(a, o)
      PROVE  rel' = rel
  BY <1>9 DEF OtaAction, SetOtaAudience, OtaRollback, ReadForOtaPurge
<1> QED
  BY <1>1, <1>2, <1>3, <1>4, <1>5, <1>6, <1>7, <1>8, <1>9, SameReleases, NextUpdates
     DEF Unupdating, Updating

LEMMA SameUpdates ==
    ASSUME ota' = ota PROVE UpdatesKept
  BY DEF UpdatesKept, OtaRows

(* Superseding a slot takes an active update out of service, and no row.    *)
LEMMA SupersedeKeeps ==
    ASSUME IInv, NEW runtime, NEW p \in Otas
    PROVE  /\ Supersede(runtime)[p].base = ota[p].base
           /\ \/ Supersede(runtime)[p].status = ota[p].status
              \/ Supersede(runtime)[p].status = "superseded" /\ ota[p].status = "active"
<1>1. ota[p] \in OtaRow
  BY OtasOf
<1>2. CASE p \in InSlot(runtime) /\ ota[p].status = "active"
  <2>1. Supersede(runtime)[p] = [ota[p] EXCEPT !.status = "superseded"]
    BY <1>2 DEF Supersede
  <2> QED
    BY <1>1, <1>2, <2>1 DEF OtaRow
<1>3. CASE ~(p \in InSlot(runtime) /\ ota[p].status = "active")
  <2>1. Supersede(runtime)[p] = ota[p]
    BY <1>3 DEF Supersede
  <2> QED
    BY <2>1
<1> QED
  BY <1>2, <1>3

LEMMA UpdatesKeptStep == IInv /\ SerialInv /\ Next => UpdatesKept
<1> SUFFICES ASSUME IInv, SerialInv, Next PROVE UpdatesKept
  OBVIOUS
<1>1. ASSUME NEW a \in Admins, CommitSaveOta(a) PROVE UpdatesKept
  <2> DEFINE n == req[a].id
             row == [status |-> "verified", base |-> req[a].base, kind |-> "update",
                     revision |-> NextRevision(Runtime[req[a].base]), audience |-> {}]
  <2>1. ota' = [ota EXCEPT ![n] = row] /\ rel' = rel /\ req[a].base \in Rows
    BY <1>1 DEF CommitSaveOta, SerialInv, ReadsHold
  <2>2. row.base = req[a].base /\ row.status = "verified"
    OBVIOUS
  <2> HIDE DEF n, row
  <2>3. \A o \in Otas : ota'[o] = IF o = n THEN row ELSE ota[o]
    BY <2>1, OtasOf
  <2> QED
    BY <2>1, <2>2, <2>3 DEF UpdatesKept, OtaRows
<1>2. ASSUME NEW a \in Admins, NEW o \in Otas, NEW t \in OtaTransitions, NEW aud \in AudienceFor(t[3]),
             OtaAction(a, o, t, aud)
      PROVE  UpdatesKept
  <2> DEFINE rows == IF t[3] = "active" THEN Supersede(Slot(o)) ELSE ota
  <2>1. /\ ota' = [rows EXCEPT ![o].status = t[3], ![o].audience = aud]
        /\ o \in OtaRows
    BY <1>2 DEF OtaAction
  <2>2. t[3] \notin {"none", "gone"}
    BY DEF OtaTransitions
  <2>3. ASSUME NEW p \in Otas
        PROVE  /\ rows[p].base = ota[p].base
               /\ \/ rows[p].status = ota[p].status
                  \/ rows[p].status = "superseded" /\ ota[p].status = "active"
    BY SupersedeKeeps
  <2>6. rows \in [Otas -> OtaRow]
    <3>1. Supersede(Slot(o)) = [p \in Otas |-> Supersede(Slot(o))[p]]
      BY DEF Supersede
    <3> QED
      BY <3>1, SupersedeIs, OtasOf
  <2> HIDE DEF rows
  <2>4. ota'[o].base = ota[o].base /\ ota'[o].status = t[3]
    BY <2>1, <2>3, <2>6 DEF OtaRow
  <2>5. \A p \in Otas \ {o} : ota'[p] = rows[p]
    BY <2>1, <2>6
  <2> QED
    BY <2>1, <2>2, <2>3, <2>4, <2>5 DEF UpdatesKept, OtaRows
<1>3. ASSUME NEW a \in Admins, NEW o \in Otas, NEW aud \in AudienceFor("canary"),
             SetOtaAudience(a, o, aud)
      PROVE  UpdatesKept
  <2>1. ota' = [ota EXCEPT ![o].audience = aud]
    BY <1>3 DEF SetOtaAudience
  <2>2. \A p \in Otas : ota'[p].status = ota[p].status /\ ota'[p].base = ota[p].base
    BY <2>1, OtasOf DEF OtaRow
  <2> QED
    BY <2>2 DEF UpdatesKept, OtaRows
<1>4. ASSUME NEW a \in Admins, NEW o \in Otas, NEW n \in Otas, OtaRollback(a, o, n)
      PROVE  UpdatesKept
  <2> DEFINE row == [status |-> "active", base |-> ota[o].base, kind |-> "rollback",
                     revision |-> NextRevision(Slot(o)), audience |-> {}]
  <2>1. /\ ota' = [Supersede(Slot(o)) EXCEPT ![n] = row] /\ o \in OtaRows
        /\ rel' = rel /\ ota[o].base \in Rows
    BY <1>4 DEF OtaRollback, SerialInv, OtaHasItsBase
  <2>2. row.base = ota[o].base /\ row.status = "active"
    OBVIOUS
  <2>3. ASSUME NEW p \in Otas
        PROVE  /\ Supersede(Slot(o))[p].base = ota[p].base
               /\ \/ Supersede(Slot(o))[p].status = ota[p].status
                  \/ Supersede(Slot(o))[p].status = "superseded" /\ ota[p].status = "active"
    BY SupersedeKeeps
  <2> HIDE DEF row
  <2>4. \A p \in Otas : ota'[p] = IF p = n THEN row ELSE Supersede(Slot(o))[p]
    BY <2>1 DEF Supersede
  <2> QED
    BY <2>1, <2>2, <2>3, <2>4 DEF UpdatesKept, OtaRows
<1>5. ASSUME NEW a \in Admins, DeleteRow(a) PROVE UpdatesKept
  <2> DEFINE o == req[a].id
             row == [NoOta EXCEPT !.status = "gone"]
  <2>1. CASE o \in OtaRows
    <3>1. o \in Otas /\ ~InUse(o)
      BY <1>5, <2>1 DEF DeleteRow, SerialInv, ReadsHold, OtaRows
    <3>2. ota' = [ota EXCEPT ![o] = row]
      BY <1>5, <2>1 DEF DeleteRow
    <3>3. row.status = "gone"
      BY DEF NoOta
    <3> HIDE DEF row, o
    <3>4. \A p \in Otas : ota'[p] = IF p = o THEN row ELSE ota[p]
      BY <3>2, OtasOf
    <3> QED
      BY <3>1, <3>3, <3>4 DEF UpdatesKept, OtaRows
  <2>2. CASE o \notin OtaRows
    BY <1>5, <2>2, SameUpdates DEF DeleteRow
  <2> QED
    BY <2>1, <2>2
<1>6. ASSUME \/ \E r \in Releases : StoreArtifact(r) \/ DiscardArtifact(r)
             \/ \E r \in Releases, m \in BOOLEAN : UploadRelease(r, m)
             \/ \E a \in Admins, o \in Otas : ReadForOtaPurge(a, o)
      PROVE  ota' = ota
  BY <1>6 DEF StoreArtifact, DiscardArtifact, UploadRelease, ReadForOtaPurge
<1>7. ASSUME NEW a \in Admins, NEW r \in Releases,
             \/ \E t \in Transitions : \E aud \in AudienceFor(t[3]) : ReadForAction(a, r, t, aud)
             \/ ReadForMandatory(a, r)
             \/ \E aud \in AudienceFor("canary") : ReadForAudience(a, r, aud)
             \/ ReadForPurge(a, r)
             \/ \E o \in Otas : BeginSaveOta(a, o, r)
      PROVE  ota' = ota
  BY <1>7 DEF ReadForAction, ReadForMandatory, ReadForAudience, ReadForPurge, BeginSaveOta
<1>8. ASSUME NEW a \in Admins, \/ CommitAction(a) \/ CommitMandatory(a) \/ CommitAudience(a)
                               \/ FailSaveOta(a) \/ DeleteObjects(a)
      PROVE  ota' = ota
  BY <1>8 DEF CommitAction, CommitMandatory, CommitAudience, FailSaveOta, DeleteObjects
<1>9. Updating => UpdatesKept
  BY <1>1, <1>2, <1>3, <1>4, <1>5 DEF Updating
<1>10. Unupdating => UpdatesKept
  BY <1>6, <1>7, <1>8, SameUpdates DEF Unupdating
<1> QED
  BY <1>9, <1>10, NextUpdates

(* A request that begins has read what holds; one that goes on deletes      *)
(* files only; and the others rest.                                         *)
Begins(a) ==
    /\ rel' = rel /\ ota' = ota
    /\ req'[a].op = "action" =>
          /\ req'[a].id \in Rows /\ req'[a].transition[2] = rel[req'[a].id].status
          /\ req'[a].transition[3] = "canary" => ~rel[req'[a].id].mandatory
    /\ req'[a].op = "save" => req'[a].base \in Rows
    /\ req'[a].op = "purge" =>
          /\ req'[a].id \in Releases => MayPurge(req'[a].id)
          /\ req'[a].id \in Otas => ~InUse(req'[a].id)

LEMMA SerialRequests ==
    ASSUME IInv, SerialInv, Next, OneByOne, NEW a \in Admins, req'[a] # Idle
    PROVE  Begins(a) \/ req'[a].op = "delete"
<1>1. req \in [Admins -> Request]
  BY DEF IInv, Types
<1>2. ASSUME req' = req PROVE FALSE
  BY <1>2 DEF OneByOne, NoRequest
<1>3. ASSUME NEW b \in Admins, req' = [req EXCEPT ![b] = Idle], req[b] # Idle PROVE FALSE
  <2>1. a # b /\ req[a] # Idle
    BY <1>1, <1>3
  <2> QED
    BY <1>3, <2>1 DEF SerialInv, OneRequest
<1>4. ASSUME NEW b \in Admins, NEW new, req' = [req EXCEPT ![b] = new], new # Idle PROVE a = b /\ req'[a] = new
  <2>1. req'[b] # Idle
    BY <1>1, <1>4
  <2> QED
    BY <1>1, <1>4, <2>1 DEF OneByOne, OneRequest
<1>5. ASSUME NEW b \in Admins, NEW r \in Releases, NEW t \in Transitions, NEW aud \in AudienceFor(t[3]),
             ReadForAction(b, r, t, aud)
      PROVE  Begins(a)
  <2> DEFINE new == [op |-> "action", id |-> r, transition |-> t, audience |-> aud]
  <2>1. new # Idle
    BY DEF Idle
  <2>2. req'[a] = new
    BY <1>4, <1>5, <2>1 DEF ReadForAction
  <2> QED
    BY <1>5, <2>2 DEF ReadForAction, Begins, Allowed
<1>6. ASSUME NEW b \in Admins, NEW r \in Releases, ReadForMandatory(b, r) PROVE Begins(a)
  <2> DEFINE new == [op |-> "mandatory", id |-> r, seen |-> rel[r].status]
  <2>1. new # Idle
    BY DEF Idle
  <2>2. req'[a] = new
    BY <1>4, <1>6, <2>1 DEF ReadForMandatory
  <2> QED
    BY <1>6, <2>2 DEF ReadForMandatory, Begins
<1>7. ASSUME NEW b \in Admins, NEW r \in Releases, NEW aud \in AudienceFor("canary"),
             ReadForAudience(b, r, aud)
      PROVE  Begins(a)
  <2> DEFINE new == [op |-> "audience", id |-> r, audience |-> aud]
  <2>1. new # Idle
    BY DEF Idle
  <2>2. req'[a] = new
    BY <1>4, <1>7, <2>1 DEF ReadForAudience
  <2> QED
    BY <1>7, <2>2 DEF ReadForAudience, Begins
<1>8. ASSUME NEW b \in Admins, NEW r \in Releases, ReadForPurge(b, r) PROVE Begins(a)
  <2> DEFINE new == [op |-> "purge", id |-> r]
  <2>1. new # Idle
    BY DEF Idle
  <2>2. req'[a] = new
    BY <1>4, <1>8, <2>1 DEF ReadForPurge
  <2>3. r \notin Otas
    BY IdsAssumption
  <2> QED
    BY <1>8, <2>2, <2>3 DEF ReadForPurge, Begins
<1>9. ASSUME NEW b \in Admins, NEW o \in Otas, ReadForOtaPurge(b, o) PROVE Begins(a)
  <2> DEFINE new == [op |-> "purge", id |-> o]
  <2>1. new # Idle
    BY DEF Idle
  <2>2. req'[a] = new
    BY <1>4, <1>9, <2>1 DEF ReadForOtaPurge
  <2>3. o \notin Releases
    BY IdsAssumption
  <2> QED
    BY <1>9, <2>2, <2>3 DEF ReadForOtaPurge, Begins
<1>10. ASSUME NEW b \in Admins, NEW o \in Otas, NEW r \in Releases, BeginSaveOta(b, o, r)
       PROVE  Begins(a)
  <2> DEFINE new == [op |-> "save", id |-> o, base |-> r]
  <2>1. new # Idle
    BY DEF Idle
  <2>2. req'[a] = new
    BY <1>4, <1>10, <2>1 DEF BeginSaveOta
  <2> QED
    BY <1>10, <2>2 DEF BeginSaveOta, Begins
<1>11. ASSUME NEW b \in Admins, DeleteRow(b) PROVE req'[a].op = "delete"
  <2> DEFINE new == [op |-> "delete", id |-> req[b].id]
  <2>1. new # Idle /\ new.op = "delete"
    BY DEF Idle
  <2>2. req'[a] = new
    BY <1>4, <1>11, <2>1 DEF DeleteRow
  <2> QED
    BY <2>1, <2>2
<1>12. ASSUME NEW b \in Admins, \/ CommitAction(b) \/ CommitMandatory(b) \/ CommitAudience(b)
                                \/ FailSaveOta(b) \/ DeleteObjects(b) \/ CommitSaveOta(b)
       PROVE  FALSE
  <2>1. req[b].op # "idle" /\ req' = [req EXCEPT ![b] = Idle]
    BY <1>12 DEF CommitAction, CommitMandatory, CommitAudience, FailSaveOta, DeleteObjects,
                 CommitSaveOta, Answer
  <2>2. req[b] # Idle
    BY <2>1 DEF Idle
  <2> QED
    BY <1>3, <2>1, <2>2
<1>13. ASSUME \/ \E r \in Releases : StoreArtifact(r) \/ DiscardArtifact(r)
              \/ \E r \in Releases, m \in BOOLEAN : UploadRelease(r, m)
              \/ \E b \in Admins, o \in Otas :
                   \/ \E t \in OtaTransitions : \E aud \in AudienceFor(t[3]) : OtaAction(b, o, t, aud)
                   \/ \E aud \in AudienceFor("canary") : SetOtaAudience(b, o, aud)
                   \/ \E n \in Otas : OtaRollback(b, o, n)
       PROVE  req' = req
  BY <1>13 DEF StoreArtifact, DiscardArtifact, UploadRelease, OtaAction, SetOtaAudience, OtaRollback
<1>14. Unupdating => Begins(a)
  BY <1>2, <1>5, <1>6, <1>7, <1>8, <1>9, <1>10, <1>12, <1>13 DEF Unupdating
<1>15. Updating => req'[a].op = "delete"
  BY <1>2, <1>11, <1>12, <1>13 DEF Updating
<1> QED
  BY <1>14, <1>15, NextUpdates

LEMMA ReadsHoldStep == IInv /\ SerialInv /\ Next /\ OneByOne => ReadsHold'
<1> SUFFICES ASSUME IInv, SerialInv, Next, OneByOne PROVE ReadsHold'
  OBVIOUS
<1> DEFINE P(a) == /\ req[a].op = "action" =>
                         /\ req[a].id \in Rows /\ req[a].transition[2] = rel[req[a].id].status
                         /\ req[a].transition[3] = "canary" => ~rel[req[a].id].mandatory
                   /\ req[a].op = "save" => req[a].base \in Rows
                   /\ req[a].op = "purge" =>
                         /\ req[a].id \in Releases => MayPurge(req[a].id)
                         /\ req[a].id \in Otas => ~InUse(req[a].id)
<1>1. ASSUME NEW a \in Admins PROVE P(a)'
  <2>1. CASE req'[a] = Idle
    <3>1. req'[a].op = "idle"
      BY <2>1 DEF Idle
    <3> QED
      BY <3>1
  <2>2. CASE req'[a].op = "delete"
    BY <2>2
  <2>3. CASE Begins(a)
    <3>1. Rows' = Rows /\ OtaRows' = OtaRows /\ ActiveRuntime' = ActiveRuntime
      BY <2>3 DEF Begins, Rows, OtaRows, ActiveRuntime, Active
    <3>2. rel' = rel /\ ota' = ota
      BY <2>3 DEF Begins
    <3>3. (req'[a].op = "purge" /\ req'[a].id \in Releases) => MayPurge(req[a].id)'
      BY <2>3, <3>1, <3>2 DEF Begins, MayPurge
    <3>4. (req'[a].op = "purge" /\ req'[a].id \in Otas) => ~InUse(req[a].id)'
      BY <2>3, <3>1, <3>2 DEF Begins, InUse, Slot
    <3> QED
      BY <2>3, <3>1, <3>2, <3>3, <3>4 DEF Begins
  <2> QED
    BY <2>1, <2>2, <2>3, SerialRequests
<1> QED
  BY <1>1 DEF ReadsHold

LEMMA SafeStepHolds == IInv /\ SerialInv /\ Next => SafeStep
<1> SUFFICES ASSUME IInv, SerialInv, Next PROVE SafeStep
  OBVIOUS
<1>1. ReleasesKept /\ UpdatesKept
  BY ReleasesKeptStep, UpdatesKeptStep
<1>2. KeepsServed
  BY <1>1 DEF ReleasesKept, UpdatesKept, KeepsServed, MayPurge, InUse
<1>3. ActivePassesOn
  BY <1>1 DEF ReleasesKept, ActivePassesOn
<1>4. CanaryIsNotMandatory'
  BY <1>1 DEF ReleasesKept, CanaryIsNotMandatory, Rows
<1>5. ASSUME NEW o \in Otas, o \in OtaRows' PROVE ota'[o].base \in Rows'
  <2>1. CASE o \in OtaRows /\ ota'[o].base = ota[o].base
    <3>1. ota[o].base \in Rows /\ ~MayPurge(ota[o].base)
      BY <2>1 DEF SerialInv, OtaHasItsBase, MayPurge
    <3> QED
      BY <1>1, <2>1, <3>1 DEF ReleasesKept, Rows
  <2>2. CASE ota'[o].base \in Rows /\ rel' = rel
    BY <2>2 DEF Rows
  <2> QED
    BY <1>1, <1>5, <2>1, <2>2 DEF UpdatesKept
<1>6. OtaHasItsBase'
  BY <1>5 DEF OtaHasItsBase, OtaRows
<1>7. OnlyEdges
  BY <1>1 DEF ReleasesKept, OnlyEdges
<1> QED
  BY <1>2, <1>3, <1>4, <1>6, <1>7 DEF SafeStep

(* With requests one at a time, a release moves along the documented edges  *)
(* only, what is served is never purged, an active release is completed     *)
(* by its successor only, an update keeps its base, and no canary is        *)
(* mandatory: each handler checks what its property needs, and only an      *)
(* overlapping request can take it away before the write.                   *)
THEOREM SerialRequestsAreSafeHolds == SerialSpec => SerialRequestsAreSafe
<1> DEFINE Both == IInv /\ SerialInv
<1>1. Init => Both
  <2>1. Init => SerialInv
    BY DEF Init, SerialInv, OneRequest, ReadsHold, OtaHasItsBase, CanaryIsNotMandatory, Rows,
           OtaRows, NoRow, NoOta, Idle
  <2> QED
    BY <2>1, InitInv
<1>2. Both /\ [Next /\ OneByOne]_vars => Both'
  <2> SUFFICES ASSUME Both, [Next /\ OneByOne]_vars PROVE Both'
    OBVIOUS
  <2>1. IInv'
    BY StepInv
  <2>2. CASE Next /\ OneByOne
    <3>1. SafeStep /\ ReadsHold' /\ OneRequest'
      BY <2>2, SafeStepHolds, ReadsHoldStep DEF OneByOne
    <3> QED
      BY <2>1, <3>1 DEF SafeStep, SerialInv
  <2>3. CASE UNCHANGED vars
    BY <2>1, <2>3 DEF vars, SerialInv, OneRequest, ReadsHold, OtaHasItsBase, CanaryIsNotMandatory,
                      Rows, OtaRows, MayPurge, InUse, Slot, ActiveRuntime, Active
  <2> QED
    BY <2>2, <2>3
<1>3. Both /\ [Next /\ OneByOne]_vars => [SafeStep]_vars
  BY SafeStepHolds
<1> QED
  BY <1>1, <1>2, <1>3, PTL DEF SerialSpec, SerialRequestsAreSafe
=============================================================================
