--------------------------- MODULE ReleaseLifecycle ---------------------------
(***************************************************************************)
(* What one tenant serves on one platform: the full releases               *)
(* (app_releases) and the over-the-air updates built on them               *)
(* (ota_releases), their canary audiences, and the purge that removes      *)
(* rows and stored objects (server.go, ota.go, release_purge.go).          *)
(*                                                                         *)
(* An administrator's request that changes a full release, or purges       *)
(* anything, reads the row, validates, and writes in a transaction that    *)
(* takes no lock on what was read: it is a request in req[a] between the   *)
(* two steps.  An OTA transition holds the lock of its slot and reads the  *)
(* row FOR UPDATE: it is one step.                                         *)
(***************************************************************************)
EXTENDS Integers, FiniteSets

CONSTANTS
  Releases,   \* ids of full releases, each uploaded at most once
  Otas,       \* ids of OTA rows, rollback directives included
  Installs,   \* installation ids a canary audience may name
  Admins,     \* requests that can be in flight at the same time
  Build,      \* build number of each full release
  Runtime,    \* runtime version of each full release
  NoBase,     \* the base of an OTA row that does not exist
  LateDiscards \* whether an upload token is still used once its release exists

ASSUME BuildAssumption == Build \in [Releases -> Nat]

(* Releases and updates have tables, and object keys, of their own. *)
ASSUME IdsAssumption == IsFiniteSet(Otas) /\ Releases \cap Otas = {}

VARIABLES
  rel,      \* the app_releases row of each id; "none" before it, "gone" after
  ota,      \* the ota_releases row of each id
  objects,  \* ids whose files are in object storage
  req       \* what each administrator's request in flight has read

vars == <<rel, ota, objects, req>>

NoRow == [status |-> "none", mandatory |-> FALSE, audience |-> {}]
NoOta == [status |-> "none", base |-> NoBase, kind |-> "update",
          revision |-> 0, audience |-> {}]
Idle == [op |-> "idle"]

Rows == {r \in Releases : rel[r].status \notin {"none", "gone"}}
OtaRows == {o \in Otas : ota[o].status \notin {"none", "gone"}}

(* The state machine of a full release, as the table of the handler. *)
Transitions ==
  { <<"publish", "verified", "active">>, <<"publish", "paused", "active">>,
    <<"pause", "active", "paused">>, <<"canary", "verified", "canary">>,
    <<"promote", "canary", "active">>, <<"cancel-canary", "canary", "rejected">> }

(* The state machine of an OTA row. *)
OtaTransitions ==
  { <<"publish", "verified", "active">>, <<"pause", "active", "paused">>,
    <<"canary", "verified", "canary">>, <<"promote", "canary", "active">>,
    <<"cancel-canary", "canary", "rejected">> }

FlagEditable == {"verified", "active", "paused"}

(* An audience names at least one known installation; only a canary has one. *)
AudienceFor(target) ==
  IF target = "canary" THEN (SUBSET Installs) \ {{}} ELSE {{}}

Active == {r \in Rows : rel[r].status = "active"}
ActiveRuntime == {Runtime[r] : r \in Active}
Slot(o) == Runtime[ota[o].base]
InSlot(runtime) == {o \in OtaRows : Slot(o) = runtime}
NextRevision_Published(runtime) ==
  1 + Cardinality({o \in InSlot(runtime) : ota[o].status # "canary"})
NextRevision(runtime) ==
  1 + CHOOSE n \in 0..Cardinality(Otas) :
        /\ n = 0 \/ \E o \in InSlot(runtime) : ota[o].revision = n
        /\ \A o \in InSlot(runtime) : ota[o].revision <= n

Init ==
  /\ rel = [r \in Releases |-> NoRow]
  /\ ota = [o \in Otas |-> NoOta]
  /\ objects = {}
  /\ req = [a \in Admins |-> Idle]

Answer(a) == req' = [req EXCEPT ![a] = Idle]

-------------------------------------------------------------------------------
(* Full releases *)

(* With an upload token: the package of r is stored, or deleted again. *)
StoreArtifact(r) ==
  /\ rel[r].status = "none" /\ r \notin objects
  /\ objects' = objects \cup {r}
  /\ UNCHANGED <<rel, ota, req>>

DiscardArtifact(r) ==
  /\ r \in objects
  /\ rel[r].status = "none" \/ LateDiscards
  /\ objects' = objects \ {r}
  /\ UNCHANGED <<rel, ota, req>>

(* A stored package becomes a release, newer than every release there is. *)
UploadRelease(r, mandatory) ==
  /\ rel[r].status = "none" /\ r \in objects
  /\ \A q \in Rows : Build[q] < Build[r]
  /\ rel' = [rel EXCEPT ![r] = [status |-> "verified", mandatory |-> mandatory,
                                audience |-> {}]]
  /\ UNCHANGED <<ota, objects, req>>

Allowed(r, t) == t[2] = rel[r].status

(* A transition is validated against the row as read ... *)
ReadForAction(a, r, t, audience) ==
  /\ req[a] = Idle /\ r \in Rows
  /\ Allowed(r, t)
  /\ t[3] = "canary" => ~rel[r].mandatory
  /\ audience \in AudienceFor(t[3])
  /\ req' = [req EXCEPT ![a] = [op |-> "action", id |-> r, transition |-> t,
                                audience |-> audience]]
  /\ UNCHANGED <<rel, ota, objects>>

(* The other releases a new active one completes. *)
CompletedBy_Older(r, target) ==
  {q \in Active \ {r} : target = "active" /\ Build[q] < Build[r]}
CompletedBy(r, target) == {q \in Active \ {r} : target = "active"}

Moved(row, target, audience) == [row EXCEPT !.status = target, !.audience = audience]

(* ... and written whatever the row has become: the others are completed,   *)
(* then the row, if there still is one, takes the target.                   *)
CommitAction(a) ==
  /\ req[a].op = "action"
  /\ LET r == req[a].id
         target == req[a].transition[3]
     IN rel' = [q \in Releases |->
                 IF q = r /\ q \in Rows THEN Moved(rel[q], target, req[a].audience)
                 ELSE IF q \in CompletedBy(r, target) THEN [rel[q] EXCEPT !.status = "completed"]
                 ELSE rel[q]]
  /\ Answer(a)
  /\ UNCHANGED <<ota, objects>>

ReadForMandatory(a, r) ==
  /\ req[a] = Idle /\ r \in Rows /\ rel[r].status \in FlagEditable
  /\ req' = [req EXCEPT ![a] = [op |-> "mandatory", id |-> r, seen |-> rel[r].status]]
  /\ UNCHANGED <<rel, ota, objects>>

(* The flag is written only while the status is still the one read. *)
CommitMandatory(a) ==
  /\ req[a].op = "mandatory"
  /\ LET r == req[a].id
     IN rel' = IF rel[r].status = req[a].seen
                 THEN [rel EXCEPT ![r].mandatory = ~rel[r].mandatory] ELSE rel
  /\ Answer(a)
  /\ UNCHANGED <<ota, objects>>

ReadForAudience(a, r, audience) ==
  /\ req[a] = Idle /\ r \in Rows /\ rel[r].status = "canary"
  /\ audience \in AudienceFor("canary")
  /\ req' = [req EXCEPT ![a] = [op |-> "audience", id |-> r, audience |-> audience]]
  /\ UNCHANGED <<rel, ota, objects>>

CommitAudience(a) ==
  /\ req[a].op = "audience"
  /\ LET r == req[a].id
     IN rel' = IF rel[r].status = "canary"
                 THEN [rel EXCEPT ![r].audience = req[a].audience] ELSE rel
  /\ Answer(a)
  /\ UNCHANGED <<ota, objects>>

-------------------------------------------------------------------------------
(* OTA updates *)

(* The base is read, then the package is checked and its files uploaded. *)
BeginSaveOta(a, o, base) ==
  /\ req[a] = Idle /\ ota[o].status = "none" /\ o \notin objects
  /\ \A b \in Admins : req[b].op = "save" => req[b].id # o
  /\ base \in Rows /\ rel[base].status \in {"verified", "active"}
  /\ objects' = objects \cup {o}
  /\ req' = [req EXCEPT ![a] = [op |-> "save", id |-> o, base |-> base]]
  /\ UNCHANGED <<rel, ota>>

(* Under the lock of the slot: the next revision, and the row. *)
CommitSaveOta(a) ==
  /\ req[a].op = "save"
  /\ LET base == req[a].base
     IN ota' = [ota EXCEPT ![req[a].id] =
                  [status |-> "verified", base |-> base, kind |-> "update",
                   revision |-> NextRevision(Runtime[base]), audience |-> {}]]
  /\ Answer(a)
  /\ UNCHANGED <<rel, objects>>

(* A save that fails takes its files away again. *)
FailSaveOta(a) ==
  /\ req[a].op = "save"
  /\ objects' = objects \ {req[a].id}
  /\ Answer(a)
  /\ UNCHANGED <<rel, ota>>

Supersede(runtime) ==
  [o \in Otas |-> IF o \in InSlot(runtime) /\ ota[o].status = "active"
                    THEN [ota[o] EXCEPT !.status = "superseded"] ELSE ota[o]]

OtaAction(a, o, t, audience) ==
  /\ req[a] = Idle /\ o \in OtaRows /\ t[2] = ota[o].status
  /\ audience \in AudienceFor(t[3])
  /\ LET rows == IF t[3] = "active" THEN Supersede(Slot(o)) ELSE ota
     IN ota' = [rows EXCEPT ![o].status = t[3], ![o].audience = audience]
  /\ UNCHANGED <<rel, objects, req>>

SetOtaAudience(a, o, audience) ==
  /\ req[a] = Idle /\ o \in OtaRows /\ ota[o].status = "canary"
  /\ audience \in AudienceFor("canary")
  /\ ota' = [ota EXCEPT ![o].audience = audience]
  /\ UNCHANGED <<rel, objects, req>>

(* A rollback is a new row, active at once, that sends devices back to the  *)
(* code embedded in their base release; any row may be rolled back from.    *)
OtaRollback(a, o, n) ==
  /\ req[a] = Idle /\ o \in OtaRows /\ ota[n].status = "none" /\ n \notin objects
  /\ ota' = [Supersede(Slot(o)) EXCEPT ![n] =
               [status |-> "active", base |-> ota[o].base, kind |-> "rollback",
                revision |-> NextRevision(Slot(o)), audience |-> {}]]
  /\ UNCHANGED <<rel, objects, req>>

-------------------------------------------------------------------------------
(* Purges: refused while served, then the row, then the files *)

MayPurge(r) ==
  /\ rel[r].status \notin {"active", "canary"}
  /\ \A o \in OtaRows : ota[o].base # r

(* The status, then the number of OTA rows built on the release. *)
ReadForPurge(a, r) ==
  /\ req[a] = Idle /\ r \in Rows /\ MayPurge(r)
  /\ req' = [req EXCEPT ![a] = [op |-> "purge", id |-> r]]
  /\ UNCHANGED <<rel, ota, objects>>

(* An OTA row is in use when it is served to the release now shipping. *)
InUse_Active(o) == ota[o].status = "active" /\ Slot(o) \in ActiveRuntime
InUse(o) == ota[o].status \in {"active", "canary"} /\ Slot(o) \in ActiveRuntime

ReadForOtaPurge(a, o) ==
  /\ req[a] = Idle /\ o \in OtaRows /\ ~InUse(o)
  /\ req' = [req EXCEPT ![a] = [op |-> "purge", id |-> o]]
  /\ UNCHANGED <<rel, ota, objects>>

DeleteRow(a) ==
  /\ req[a].op = "purge"
  /\ LET id == req[a].id
     IN /\ rel' = IF id \in Rows THEN [rel EXCEPT ![id] = [NoRow EXCEPT !.status = "gone"]]
                                 ELSE rel
        /\ ota' = IF id \in OtaRows THEN [ota EXCEPT ![id] = [NoOta EXCEPT !.status = "gone"]]
                                    ELSE ota
        /\ req' = [req EXCEPT ![a] = [op |-> "delete", id |-> id]]
  /\ UNCHANGED objects

(* After the commit; files the caller keeps, or the store cannot delete, stay. *)
DeleteObjects(a) ==
  /\ req[a].op = "delete"
  /\ objects' \in {objects, objects \ {req[a].id}}
  /\ Answer(a)
  /\ UNCHANGED <<rel, ota>>

Next ==
  \/ \E r \in Releases :
       \/ StoreArtifact(r)
       \/ DiscardArtifact(r)
       \/ \E m \in BOOLEAN : UploadRelease(r, m)
  \/ \E a \in Admins :
       \/ \E r \in Releases :
            \/ \E t \in Transitions : \E aud \in AudienceFor(t[3]) : ReadForAction(a, r, t, aud)
            \/ ReadForMandatory(a, r)
            \/ \E aud \in AudienceFor("canary") : ReadForAudience(a, r, aud)
            \/ ReadForPurge(a, r)
            \/ \E o \in Otas : BeginSaveOta(a, o, r)
       \/ CommitAction(a)
       \/ CommitMandatory(a)
       \/ CommitAudience(a)
       \/ CommitSaveOta(a)
       \/ FailSaveOta(a)
       \/ \E o \in Otas :
            \/ \E t \in OtaTransitions : \E aud \in AudienceFor(t[3]) : OtaAction(a, o, t, aud)
            \/ \E aud \in AudienceFor("canary") : SetOtaAudience(a, o, aud)
            \/ \E n \in Otas : OtaRollback(a, o, n)
            \/ ReadForOtaPurge(a, o)
       \/ DeleteRow(a)
       \/ DeleteObjects(a)

Spec == Init /\ [][Next]_vars

(* One request at a time: another begins when none is under way.           *)
OneRequest == \A a, b \in Admins : req[a] # Idle /\ req[b] # Idle => a = b
NoRequest == \A a \in Admins : req[a] = Idle
OneByOne == OneRequest' /\ (NoRequest \/ req' # req)
SerialSpec == Init /\ [][Next /\ OneByOne]_vars

-------------------------------------------------------------------------------
(* What a device is offered *)

(* The OTA row the manifest request of a device on `base` is answered with: *)
(* the highest revision that is active or whose audience names the device.  *)
VisibleOtas(base, device) ==
  {o \in OtaRows : /\ ota[o].base = base
                   /\ \/ ota[o].status = "active"
                      \/ ota[o].status = "canary" /\ device \in ota[o].audience}

Manifest(base, device) ==
  {o \in VisibleOtas(base, device) :
     base \in Rows /\ \A p \in VisibleOtas(base, device) : ota[p].revision <= ota[o].revision}

-------------------------------------------------------------------------------
Statuses == {"none", "verified", "active", "canary", "paused", "rejected", "gone"}

(* Every row has the shape of its table. *)
TypeOK ==
  /\ rel \in [Releases -> [status : Statuses \cup {"completed"}, mandatory : BOOLEAN,
                           audience : SUBSET Installs]]
  /\ ota \in [Otas -> [status : Statuses \cup {"superseded"}, base : Releases \cup {NoBase},
                       kind : {"update", "rollback"}, revision : 0..Cardinality(Otas),
                       audience : SUBSET Installs]]
  /\ objects \subseteq Releases \cup Otas
  /\ \A a \in Admins : req[a].op \in {"idle", "action", "mandatory", "audience",
                                      "save", "purge", "delete"}

(* However requests overlap, one full release is active, and one OTA row in *)
(* each slot (releaseAction and otaAction complete the others in the same   *)
(* transaction).                                                            *)
OneActive ==
  /\ \A q, r \in Active : q = r
  /\ \A o, p \in OtaRows :
       ota[o].status = "active" /\ ota[p].status = "active" /\ Slot(o) = Slot(p) => o = p

(* A canary has an audience and nothing else has one: the list is cleared   *)
(* by the step that leaves the canary, even when a stale request writes.    *)
AudienceOnlyInCanary ==
  /\ \A r \in Rows : rel[r].audience # {} <=> rel[r].status = "canary"
  /\ \A o \in OtaRows : ota[o].audience # {} <=> ota[o].status = "canary"

(* A row never points to files that are gone: purges delete the row first.  *)
RowsHaveObjects ==
  /\ Rows \subseteq objects
  /\ \A o \in OtaRows : ota[o].kind = "update" => o \in objects

(* Two rows of a slot never share a revision, with saves and rollbacks      *)
(* allocating theirs concurrently and purges freeing the highest.           *)
RevisionsAreDistinct ==
  \A o, p \in OtaRows : Slot(o) = Slot(p) /\ ota[o].revision = ota[p].revision => o = p

(* What is served is consistent and is there, however requests overlap.     *)
ServingIsConsistent ==
  /\ TypeOK
  /\ OneActive
  /\ AudienceOnlyInCanary
  /\ RevisionsAreDistinct
  /\ RowsHaveObjects

(* A rollback reaches every device of the base at once, those of a canary   *)
(* included, whatever was served to it before.                              *)
RollbackReachesEveryDevice ==
  [][\A a \in Admins : \A o, n \in Otas : \A device \in Installs :
       OtaRollback(a, o, n) /\ ota[o].base \in Rows
         => Manifest(ota[o].base, device)' = {n}]_vars

(* A full release moves only along the documented transitions, or from      *)
(* active to completed when another is published.                           *)
IsEdge(before, after) ==
  \/ before = after
  \/ \E t \in Transitions : t[2] = before /\ t[3] = after
  \/ before = "active" /\ after = "completed"
  \/ before = "none" \/ after = "gone"
OnlyEdges == \A r \in Releases : IsEdge(rel[r].status, rel'[r].status)
FollowsTheStateMachine == [][OnlyEdges]_vars

(* A mandatory release is never in canary: every device would be forced to  *)
(* a version only the audience can see.                                     *)
CanaryIsNotMandatory ==
  \A r \in Rows : rel[r].status = "canary" => ~rel[r].mandatory

(* What is being served cannot be purged. *)
KeepsServed ==
  /\ \A r \in Releases : rel[r].status \in {"active", "canary"} => rel'[r].status # "gone"
  /\ \A o \in Otas : ota[o].status \in {"active", "canary"} /\ Slot(o) \in ActiveRuntime
       => ota'[o].status # "gone"
ServedIsNotPurged == [][KeepsServed]_vars

(* The active release is completed only by a step that makes another one    *)
(* active, so that publishing never leaves the platform without a release.  *)
ActivePassesOn ==
  \A r \in Releases : rel[r].status = "active" /\ rel'[r].status = "completed"
    => \E q \in Releases : rel'[q].status = "active"

(* The base release of an OTA row exists as long as the row does. *)
OtaHasItsBase == \A o \in OtaRows : ota[o].base \in Rows

(* With requests one at a time, a release moves along the edges only, what  *)
(* is being served cannot be purged and is completed by its successor only, *)
(* an update keeps its base, and no release is mandatory in a canary.       *)
SafeStep ==
  OnlyEdges /\ KeepsServed /\ ActivePassesOn /\ OtaHasItsBase' /\ CanaryIsNotMandatory'
SerialRequestsAreSafe == [][SafeStep]_vars

===============================================================================
