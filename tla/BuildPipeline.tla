--------------------------- MODULE BuildPipeline ---------------------------
(***************************************************************************)
(* One tenant's Android build pipeline as the server runs it: job rows in  *)
(* MySQL, delivered files in the object store, the release table, and the  *)
(* request handlers and the reaper that move them (internal/api:           *)
(* build_jobs.go, build_ota_jobs.go, build_agent.go, build_job_objects.go, *)
(* build_reaper.go, signer.go and the end of simplified_releases.go).      *)
(*                                                                         *)
(* A database transaction is one step.  Whatever a handler reads before    *)
(* its transaction, or does after it, is a step of its own: between two of *)
(* its steps a handler sits in "calls" with what it remembers, any other   *)
(* handler may run, and the instance that runs it may die.                 *)
(*                                                                         *)
(* A nullable column is a set with at most one member, {} being NULL.      *)
(* Version and build number always rise together, so the build number      *)
(* stands for both.  Signer readiness, authentication and the checks of a  *)
(* package's contents are the environment's: a request that they refuse    *)
(* is one that is not made.                                                *)
(*                                                                         *)
(* Beside some definitions stands a second one, Name_Fault: Name with one  *)
(* plausible fault of the code put in.  Nothing uses it; a property must   *)
(* fail when it takes the place of Name.                                   *)
(***************************************************************************)
EXTENDS Naturals, FiniteSets

CONSTANTS
    Jobs,           \* the jobs that may be queued
    KindOf,         \* "apk" (an Android package) or "ota" for each job
    BuildNumberOf,  \* the build number each job asks for
    ManualBuilds,   \* the build numbers an administrator may upload by hand
    Builders,       \* build machines
    Signers,        \* signing machines
    Contents,       \* what a delivered file may hold, up to its sha256
    Certificates,   \* what the tenant's signing identity may be
    BuildFiles,     \* the files a builder delivers
    Calls,          \* request handlers that may run at the same time
    Reapers,        \* server instances, each with a reaper of its own
    Administered,   \* bound: the machines whose registration is changed meanwhile
    MaxBuildAttempts,   \* maxBuildAttempts
    MaxSignFailures,    \* maxSignFailures
    MaxSignAttempts,    \* bound: signing claims of one job
    MaxUploads          \* bound: uploads ever started

ASSUME KindsAssumption == KindOf \in [Jobs -> {"apk", "ota"}]
ASSUME NumbersAssumption ==
    /\ BuildNumberOf \in [Jobs -> Nat \ {0}]
    /\ ManualBuilds \subseteq Nat
ASSUME FilesAssumption == BuildFiles \subseteq {"unsigned", "sbom"}
ASSUME LimitsAssumption ==
    /\ MaxBuildAttempts \in Nat \ {0}
    /\ MaxSignFailures \in Nat \ {0}
    /\ MaxSignAttempts \in Nat
    /\ MaxUploads \in Nat
ASSUME ActorsAssumption == Calls \cap Reapers = {} /\ Builders \cap Signers = {}

VARIABLES
    rows,       \* build_jobs
    releases,   \* app_releases of the platform
    objects,    \* the object store: a set of [key, content]
    uploads,    \* how many object keys were ever handed out
    calls,      \* the handlers between two of their steps
    claims,     \* every claim ever answered to a machine
    primary,    \* the active primary signer in the machine registry
    revoked,    \* the machines whose registration was revoked
    identity    \* the certificate the tenant has registered

vars == <<rows, releases, objects, uploads, calls, claims, primary, revoked, identity>>

Machines == Builders \cup Signers
Files == BuildFiles \cup {"signed"}

Nullable(S) == {s \in SUBSET S : \A x, y \in s : x = y}

(* deliveryObjectSegment: the key says which job, which file and which     *)
(* attempt it is for, and has a random part that no other upload has.      *)
Key == [job : Jobs, file : Files, number : Nat, random : Nat]

InFlight == {"queued", "claimed", "running", "built", "signing"}
BuilderActive == {"claimed", "running"}
Cancelable_Signing(kind) == InFlight
Cancelable(kind) ==
    IF kind = "apk" THEN BuilderActive \cup {"queued", "built"}
                    ELSE BuilderActive \cup {"queued"}
Concluded == {"succeeded", "failed", "canceled"}
Status == InFlight \cup Concluded \cup {"absent"}

Row == [status : Status,
        attempt : Nat, machine : Nullable(Builders),
        signAttempt : Nat, signFailures : Nat, signer : Nullable(Signers),
        quiet : BOOLEAN,                  \* the heartbeat is older than its timeout
        key : [Files -> Nullable(Key)],   \* *_object_key
        sha : [BuildFiles -> Nullable(Contents)],  \* unsigned_sha256, sbom_sha256
        provenance : Nullable([BuildFiles -> Nullable(Contents)]),
        artifact : Nullable(Contents)]    \* artifact_sha256

GivenClaim == [task : {"build", "sign"}, job : Jobs, by : Machines, number : Nat]

Release == [build : Nat, job : Nullable(Jobs), key : Nullable(Key),
            content : Nullable(Contents), certificate : Nullable(Certificates)]

NewRow == [status |-> "absent", attempt |-> 0, machine |-> {},
           signAttempt |-> 0, signFailures |-> 0, signer |-> {}, quiet |-> FALSE,
           key |-> [f \in Files |-> {}], sha |-> [f \in BuildFiles |-> {}],
           provenance |-> {}, artifact |-> {}]

Idle == [op |-> "idle"]

Init ==
    /\ rows = [j \in Jobs |-> NewRow]
    /\ releases = {}
    /\ objects = {}
    /\ uploads = 0
    /\ calls = [c \in Calls \cup Reapers |-> Idle]
    /\ claims = {}
    /\ primary \in {{s} : s \in Signers}
    /\ revoked = {}
    /\ identity \in Certificates

----------------------------------------------------------------------------
(* The database and the object store *)

IsPackage(j) == KindOf[j] = "apk"
BuilderHolds(j) == rows[j].status \in BuilderActive

CurrentBuild_AnyAttempt(j, m, a) == BuilderHolds(j) /\ rows[j].machine = {m}

(* builderJobScope and the guard of every builder's report *)
CurrentBuild(j, m, a) ==
    /\ BuilderHolds(j)
    /\ rows[j].attempt = a
    /\ rows[j].machine = {m}

CurrentSigning_AnyStatus(j, s, a) == rows[j].signAttempt = a /\ rows[j].signer = {s}

(* signingGuard *)
CurrentSigning(j, s, a) ==
    /\ rows[j].status = "signing"
    /\ rows[j].signAttempt = a
    /\ rows[j].signer = {s}

KeysOf(row, files) == UNION {row.key[f] : f \in files}

WithoutKeys(row, files) ==
    [row EXCEPT !.key = [f \in Files |-> IF f \in files THEN {} ELSE row.key[f]]]

(* quiet is about a job somebody holds; entering a status starts afresh.   *)
To(row, s) == [row EXCEPT !.status = s, !.quiet = FALSE]

Object(k, x) == [key |-> k, content |-> x]
Holds(k) == \E o \in objects : o.key = k
Without(keys) == {o \in objects : o.key \notin keys}

(* latestRelease.increasedBy *)
Increases(n) == \A r \in releases : r.build < n

SigningInFlight_BuiltOnly == \E j \in Jobs : IsPackage(j) /\ rows[j].status = "built"

(* releaseSigningInFlight *)
SigningInFlight == \E j \in Jobs : IsPackage(j) /\ rows[j].status \in {"built", "signing"}

(* buildFloorFor: releases, and every job that was not given up *)
AboveFloor(n) ==
    /\ Increases(n)
    /\ \A i \in Jobs : rows[i].status \in InFlight \cup {"succeeded"} => BuildNumberOf[i] < n

----------------------------------------------------------------------------
(* Handlers between two steps *)

Free(c) == calls[c] = Idle
At(c, op) == calls[c].op = op
Becomes(c, call) == calls' = [calls EXCEPT ![c] = call]
Returns(c) == Becomes(c, Idle)

(* What a committed handler still has to delete from the object store.     *)
ThenDeletes(c, keys) ==
    Becomes(c, IF keys = {} THEN Idle ELSE [op |-> "delete", keys |-> keys])

(* transitionBuildJob: one transaction writes the row and nulls the keys   *)
(* nobody will reference any more; the objects go after it has committed.  *)
Transition(c, j, row, files) ==
    /\ rows' = [rows EXCEPT ![j] = WithoutKeys(row, files)]
    /\ ThenDeletes(c, KeysOf(row, files))

(* deleteDeliveryObjects is best effort: any of its deletes may fail.      *)
DeleteObjects(c) ==
    /\ At(c, "delete")
    /\ \E gone \in SUBSET calls[c].keys : objects' = Without(gone)
    /\ Returns(c)
    /\ UNCHANGED <<rows, releases, uploads, claims, primary, revoked, identity>>

(* The instance that runs a handler dies, the client goes away before an   *)
(* answer, the database or the release sequence lock cannot be had.        *)
Abandon(c) ==
    /\ ~Free(c)
    /\ Returns(c)
    /\ UNCHANGED <<rows, releases, objects, uploads, claims, primary, revoked, identity>>

----------------------------------------------------------------------------
(* createBuildJob and createOTABuildJob.  A package's build number is      *)
(* compared with the floor in one read, the row is inserted later.         *)

CreateCheck(c, j) ==
    /\ Free(c)
    /\ rows[j].status = "absent"
    /\ IsPackage(j) => AboveFloor(BuildNumberOf[j])
    /\ Becomes(c, [op |-> "create", job |-> j])
    /\ UNCHANGED <<rows, releases, objects, uploads, claims, primary, revoked, identity>>

(* ux_build_jobs_live_build_number *)
NumberIsLive(i) == IsPackage(i) /\ rows[i].status \in InFlight \cup {"succeeded"}

(* ux_build_jobs_live_ota *)
HoldsOTASlot(i) == ~IsPackage(i) /\ rows[i].status \in BuilderActive \cup {"queued"}

UniqueAmongLive(j) ==
    IF IsPackage(j)
    THEN ~\E i \in Jobs : NumberIsLive(i) /\ BuildNumberOf[i] = BuildNumberOf[j]
    ELSE ~\E i \in Jobs : HoldsOTASlot(i)

CreateInsert(c) ==
    /\ At(c, "create")
    /\ LET j == calls[c].job
       IN rows' = IF rows[j].status = "absent" /\ UniqueAmongLive(j)
                  THEN [rows EXCEPT ![j].status = "queued"] ELSE rows
    /\ Returns(c)
    /\ UNCHANGED <<releases, objects, uploads, claims, primary, revoked, identity>>

----------------------------------------------------------------------------
(* A builder's requests *)

Claimed(row, m) ==
    WithoutKeys([To(row, "claimed") EXCEPT !.attempt = row.attempt + 1, !.machine = {m},
                                           !.sha = [f \in BuildFiles |-> {}],
                                           !.provenance = {}],
                BuildFiles)

MayClaim_Busy(m, j) == m \notin revoked /\ rows[j].status = "queued"
MayClaim(m, j) ==
    /\ m \notin revoked
    /\ ~\E i \in Jobs : BuilderHolds(i) /\ rows[i].machine = {m}
    /\ rows[j].status = "queued"

(* claimBuildJob.  SKIP LOCKED passes over a row another transaction       *)
(* holds, so any queued job may be the one it takes.  What the previous    *)
(* claim delivered is deleted after the commit, and only then the response *)
(* is put together.                                                        *)
Claim(c, m, j) ==
    /\ Free(c)
    /\ MayClaim(m, j)
    /\ rows' = [rows EXCEPT ![j] = Claimed(rows[j], m)]
    /\ claims' = claims \cup {[task |-> "build", job |-> j, by |-> m,
                               number |-> rows[j].attempt + 1]}
    /\ Becomes(c, [op |-> "dispatch", job |-> j, by |-> m, number |-> rows[j].attempt + 1,
                   keys |-> KeysOf(rows[j], BuildFiles)])
    /\ UNCHANGED <<releases, objects, uploads, primary, revoked, identity>>

(* The claim finds a foreign git ref or no tenant: the same transaction    *)
(* fails the job, and nothing it held is deleted.                          *)
ClaimRefused(m, j) ==
    /\ MayClaim(m, j)
    /\ rows' = [rows EXCEPT ![j] = To(Claimed(rows[j], m), "failed")]
    /\ UNCHANGED <<releases, objects, uploads, calls, claims, primary, revoked, identity>>

(* The response is sent, or markBuildJobFailed finds it cannot be composed *)
(* and gives the job up, if the claim is still the current one.            *)
Dispatch(c) ==
    /\ At(c, "dispatch")
    /\ \E gone \in SUBSET calls[c].keys : objects' = Without(gone)
    /\ Returns(c)
    /\ UNCHANGED <<rows, releases, uploads, claims, primary, revoked, identity>>

DispatchFail(c) ==
    /\ At(c, "dispatch")
    /\ LET d == calls[c] IN
        /\ \E gone \in SUBSET d.keys : objects' = Without(gone)
        /\ rows' = IF CurrentBuild(d.job, d.by, d.number) /\ rows[d.job].status = "claimed"
                   THEN [rows EXCEPT ![d.job] = To(rows[d.job], "failed")]
                   ELSE rows
    /\ Returns(c)
    /\ UNCHANGED <<releases, uploads, claims, primary, revoked, identity>>

(* A report names a claim the machine was once given, maybe long ago.      *)
ReportOf(k, task) == k \in claims /\ k.task = task /\ k.by \notin revoked

Heartbeat(k) ==
    /\ ReportOf(k, "build")
    /\ CurrentBuild(k.job, k.by, k.number)
    /\ rows' = [rows EXCEPT ![k.job] = To(rows[k.job], "running")]
    /\ UNCHANGED <<releases, objects, uploads, calls, claims, primary, revoked, identity>>

(* failBuildJob *)
Fail(c, k) ==
    /\ Free(c)
    /\ ReportOf(k, "build")
    /\ CurrentBuild(k.job, k.by, k.number)
    /\ Transition(c, k.job, To(rows[k.job], "failed"), BuildFiles)
    /\ UNCHANGED <<releases, objects, uploads, claims, primary, revoked, identity>>

MayRequeue(j, n) == IsPackage(j) /\ n < MaxBuildAttempts

(* requeueOrphanedBuildJob: the builder says it never got the claim.  When *)
(* its guard does not hold failBuildJob goes on as for any other failure.  *)
FailOrphaned(c, k) ==
    /\ Free(c)
    /\ ReportOf(k, "build")
    /\ CurrentBuild(k.job, k.by, k.number)
    /\ MayRequeue(k.job, k.number)
    /\ Transition(c, k.job, To(rows[k.job], "queued"), BuildFiles)
    /\ UNCHANGED <<releases, objects, uploads, claims, primary, revoked, identity>>

(* completeOTABuildJob *)
CompleteOTA(k) ==
    /\ ReportOf(k, "build")
    /\ ~IsPackage(k.job)
    /\ CurrentBuild(k.job, k.by, k.number)
    /\ rows' = [rows EXCEPT ![k.job] = To(rows[k.job], "succeeded")]
    /\ UNCHANGED <<releases, objects, uploads, calls, claims, primary, revoked, identity>>

----------------------------------------------------------------------------
(* receiveBuildDelivery and uploadSignedArtifact: three steps.  The scope  *)
(* check reads the row and picks a new object key; the body is streamed to *)
(* that key; one transaction records it, if the claim is still current.    *)

FreshKey_Fixed(j, f, n) == [job |-> j, file |-> f, number |-> n, random |-> 0]
FreshKey(j, f, n) == [job |-> j, file |-> f, number |-> n, random |-> uploads + 1]

StillCurrent(u) ==
    IF u.file = "signed" THEN CurrentSigning(u.job, u.by, u.number)
                         ELSE CurrentBuild(u.job, u.by, u.number)

UploadScope(c, k, f) ==
    /\ Free(c)
    /\ uploads < MaxUploads
    /\ ReportOf(k, IF f = "signed" THEN "sign" ELSE "build")
    /\ IsPackage(k.job)
    /\ StillCurrent([job |-> k.job, by |-> k.by, number |-> k.number, file |-> f])
    /\ uploads' = uploads + 1
    /\ Becomes(c, [op |-> "put", job |-> k.job, by |-> k.by, number |-> k.number,
                   file |-> f, key |-> FreshKey(k.job, f, k.number)])
    /\ UNCHANGED <<rows, releases, objects, claims, primary, revoked, identity>>

UploadPut(c, x) ==
    /\ At(c, "put")
    /\ LET u == calls[c] IN
        /\ objects' = Without({u.key}) \cup {Object(u.key, x)}
        /\ Becomes(c, [op |-> "record", job |-> u.job, by |-> u.by, number |-> u.number,
                       file |-> u.file, key |-> u.key, content |-> x])
    /\ UNCHANGED <<rows, releases, uploads, claims, primary, revoked, identity>>

Recorded_KeepsReplaced(row, u) ==
    IF u.file = "signed"
    THEN [row EXCEPT !.key[u.file] = row.key[u.file] \cup {u.key}, !.quiet = FALSE]
    ELSE [row EXCEPT !.key[u.file] = {u.key}, !.sha[u.file] = {u.content}]
Recorded(row, u) ==
    IF u.file = "signed"
    THEN [row EXCEPT !.key[u.file] = {u.key}, !.quiet = FALSE]
    ELSE [row EXCEPT !.key[u.file] = {u.key}, !.sha[u.file] = {u.content}]

(* An SBOM that is no CycloneDX document is deleted and never recorded.    *)
UploadRefuse(c) ==
    /\ At(c, "record")
    /\ calls[c].file = "sbom"
    /\ ThenDeletes(c, {calls[c].key})
    /\ UNCHANGED <<rows, releases, objects, uploads, claims, primary, revoked, identity>>

(* recordDeliveredObject: a stale upload deletes what it wrote itself, a   *)
(* recorded one the object it replaces.                                    *)
UploadRecord(c) ==
    /\ At(c, "record")
    /\ LET u == calls[c] IN
        IF StillCurrent(u)
        THEN /\ rows' = [rows EXCEPT ![u.job] = Recorded(rows[u.job], u)]
             /\ ThenDeletes(c, rows[u.job].key[u.file] \ {u.key})
        ELSE /\ rows' = rows
             /\ ThenDeletes(c, {u.key})
    /\ UNCHANGED <<releases, objects, uploads, claims, primary, revoked, identity>>

(* The commit reports an error and may have happened all the same: nothing *)
(* is deleted, for the key may be referenced.                              *)
UploadRecordUnsure(c) ==
    /\ At(c, "record")
    /\ StillCurrent(calls[c])
    /\ rows' = [rows EXCEPT ![calls[c].job] = Recorded(rows[calls[c].job], calls[c])]
    /\ Returns(c)
    /\ UNCHANGED <<releases, objects, uploads, claims, primary, revoked, identity>>

----------------------------------------------------------------------------
(* markBuildJobBuilt: the provenance statement is compared with the row as *)
(* the scope check read it, and the digests once more in the UPDATE.       *)

BuiltCheck(c, k) ==
    /\ Free(c)
    /\ ReportOf(k, "build")
    /\ IsPackage(k.job)
    /\ CurrentBuild(k.job, k.by, k.number)
    /\ \A f \in BuildFiles : rows[k.job].sha[f] # {}
    /\ Becomes(c, [op |-> "built", job |-> k.job, by |-> k.by, number |-> k.number,
                   sha |-> rows[k.job].sha])
    /\ UNCHANGED <<rows, releases, objects, uploads, claims, primary, revoked, identity>>

StillAttested_Unchecked(b) == CurrentBuild(b.job, b.by, b.number)
StillAttested(b) == CurrentBuild(b.job, b.by, b.number) /\ rows[b.job].sha = b.sha

BuiltCommit(c) ==
    /\ At(c, "built")
    /\ LET b == calls[c]
       IN rows' = IF StillAttested(b)
                  THEN [rows EXCEPT ![b.job] = [To(rows[b.job], "built") EXCEPT
                                                   !.provenance = {b.sha}]]
                  ELSE rows
    /\ Returns(c)
    /\ UNCHANGED <<releases, objects, uploads, claims, primary, revoked, identity>>

----------------------------------------------------------------------------
(* cancelBuildJob and forceFailBuildJob *)

Cancel(c, j) ==
    /\ Free(c)
    /\ rows[j].status \in Cancelable(KindOf[j])
    /\ Transition(c, j, To(rows[j], "canceled"), Files)
    /\ UNCHANGED <<releases, objects, uploads, claims, primary, revoked, identity>>

ForceFail(c, j) ==
    /\ Free(c)
    /\ IsPackage(j) /\ rows[j].status = "signing"
    /\ Transition(c, j, To(rows[j], "failed"), Files)
    /\ UNCHANGED <<releases, objects, uploads, claims, primary, revoked, identity>>

----------------------------------------------------------------------------
(* The reaper.  A heartbeat grows older than its timeout; a reaper lists   *)
(* what it sees, then takes each item in a transaction of its own whose    *)
(* guard repeats what was listed and that the heartbeat is still too old.  *)

FallQuiet(j) ==
    /\ rows[j].status \in BuilderActive \cup {"signing"}
    /\ ~rows[j].quiet
    /\ rows' = [rows EXCEPT ![j].quiet = TRUE]
    /\ UNCHANGED <<releases, objects, uploads, calls, claims, primary, revoked, identity>>

ReapLook(r, j) ==
    /\ Free(r)
    /\ rows[j].quiet
    /\ \/ /\ BuilderHolds(j)
          /\ Becomes(r, [op |-> "reapBuild", job |-> j, number |-> rows[j].attempt])
       \/ /\ rows[j].status = "signing"
          /\ Becomes(r, [op |-> "reapSign", job |-> j, number |-> rows[j].signAttempt,
                         failures |-> rows[j].signFailures])
    /\ UNCHANGED <<rows, releases, objects, uploads, claims, primary, revoked, identity>>

StillStale_ClaimedOnly(j, n) ==
    rows[j].status = "claimed" /\ rows[j].attempt = n /\ rows[j].quiet
StillStale(j, n) == BuilderHolds(j) /\ rows[j].attempt = n /\ rows[j].quiet

(* reapStaleBuilds *)
ReapBuild(r) ==
    /\ At(r, "reapBuild")
    /\ LET j == calls[r].job
           n == calls[r].number
       IN IF StillStale(j, n)
          THEN Transition(r, j, To(rows[j], IF MayRequeue(j, n) THEN "queued" ELSE "failed"), BuildFiles)
          ELSE Returns(r) /\ rows' = rows
    /\ UNCHANGED <<releases, objects, uploads, claims, primary, revoked, identity>>

(* What both the reaper and a transient rejection do to a signing job.     *)
SigningFailed(c, j, failures) ==
    LET To1(status) == [To(rows[j], status) EXCEPT !.signFailures = failures + 1]
    IN IF failures + 1 >= MaxSignFailures
       THEN Transition(c, j, To1("failed"), Files)
       ELSE Transition(c, j, To1("built"), {"signed"})

(* reapStaleSignings *)
ReapSign(r) ==
    /\ At(r, "reapSign")
    /\ LET p == calls[r]
           j == p.job
       IN IF /\ rows[j].status = "signing"
             /\ rows[j].signAttempt = p.number
             /\ rows[j].signFailures = p.failures
             /\ rows[j].quiet
          THEN SigningFailed(r, j, p.failures)
          ELSE Returns(r) /\ rows' = rows
    /\ UNCHANGED <<releases, objects, uploads, claims, primary, revoked, identity>>

----------------------------------------------------------------------------
(* A signer's requests *)

(* claimSigningJob's candidates: per tenant the smallest build in flight.  *)
IsCandidate(j) ==
    /\ IsPackage(j)
    /\ rows[j].status = "built"
    /\ ~\E i \in Jobs : /\ IsPackage(i)
                        /\ rows[i].status \in InFlight
                        /\ BuildNumberOf[i] < BuildNumberOf[j]

SignLook(c, s, j) ==
    /\ Free(c)
    /\ s \notin revoked /\ primary = {s}
    /\ IsCandidate(j)
    /\ rows[j].signAttempt < MaxSignAttempts
    /\ Becomes(c, [op |-> "signClaim", job |-> j, by |-> s, number |-> rows[j].signAttempt])
    /\ UNCHANGED <<rows, releases, objects, uploads, claims, primary, revoked, identity>>

(* claimForSigning, under the release sequence lock: a job a release has   *)
(* overtaken is failed, any other is handed to the signer.                 *)
SignClaim(c) ==
    /\ At(c, "signClaim")
    /\ LET p == calls[c]
           j == p.job
           row == rows[j]
       IN IF row.status # "built" \/ row.signAttempt # p.number
          THEN Returns(c) /\ UNCHANGED <<rows, claims>>
          ELSE IF ~Increases(BuildNumberOf[j])
          THEN Transition(c, j, To(row, "failed"), Files) /\ UNCHANGED claims
          ELSE /\ Transition(c, j, [To(row, "signing") EXCEPT !.signAttempt = p.number + 1,
                                                              !.signer = {p.by}], {"signed"})
               /\ claims' = claims \cup {[task |-> "sign", job |-> j, by |-> p.by,
                                          number |-> p.number + 1]}
    /\ UNCHANGED <<releases, objects, uploads, primary, revoked, identity>>

SignHeartbeat(k) ==
    /\ ReportOf(k, "sign")
    /\ CurrentSigning(k.job, k.by, k.number)
    /\ rows' = [rows EXCEPT ![k.job].quiet = FALSE]
    /\ UNCHANGED <<releases, objects, uploads, calls, claims, primary, revoked, identity>>

(* completeSigning, up to the heartbeat it refreshes before it verifies.   *)
(* x is the digest the signer reports.                                     *)
CompleteLook(c, k, x) ==
    /\ Free(c)
    /\ ReportOf(k, "sign")
    /\ CurrentSigning(k.job, k.by, k.number)
    /\ rows[k.job].key["signed"] # {}
    /\ rows' = [rows EXCEPT ![k.job].quiet = FALSE]
    /\ Becomes(c, [op |-> "verify", job |-> k.job, by |-> k.by, number |-> k.number,
                   key |-> rows[k.job].key["signed"], content |-> x])
    /\ UNCHANGED <<releases, objects, uploads, claims, primary, revoked, identity>>

(* The package is fetched and verified against the registered identity.    *)
CompleteVerify(c) ==
    /\ At(c, "verify")
    /\ LET v == calls[c] IN
        /\ \A k \in v.key : Object(k, v.content) \in objects
        /\ Becomes(c, [op |-> "finish", job |-> v.job, by |-> v.by, number |-> v.number,
                       key |-> v.key, content |-> v.content, identity |-> identity])
    /\ UNCHANGED <<rows, releases, objects, uploads, claims, primary, revoked, identity>>

StillCompletable_AnyKey(v) ==
    /\ CurrentSigning(v.job, v.by, v.number)
    /\ v.by \notin revoked /\ identity = v.identity
    /\ Increases(BuildNumberOf[v.job])
StillCompletable_Revoked(v) ==
    /\ CurrentSigning(v.job, v.by, v.number)
    /\ rows[v.job].key["signed"] = v.key /\ identity = v.identity
    /\ Increases(BuildNumberOf[v.job])
StillCompletable_AnyNumber(v) ==
    /\ CurrentSigning(v.job, v.by, v.number)
    /\ rows[v.job].key["signed"] = v.key
    /\ v.by \notin revoked /\ identity = v.identity

(* The transaction under the release sequence lock looks at everything     *)
(* again that may have changed while the package was being verified.       *)
StillCompletable(v) ==
    /\ CurrentSigning(v.job, v.by, v.number)
    /\ rows[v.job].key["signed"] = v.key
    /\ v.by \notin revoked
    /\ identity = v.identity
    /\ Increases(BuildNumberOf[v.job])

CompleteCommit(c) ==
    /\ At(c, "finish")
    /\ LET v == calls[c] IN
        IF StillCompletable(v)
        THEN /\ releases' = releases \cup
                    {[build |-> BuildNumberOf[v.job], job |-> {v.job}, key |-> v.key,
                      content |-> {v.content}, certificate |-> {v.identity}]}
             /\ rows' = [rows EXCEPT ![v.job] =
                            [To(rows[v.job], "succeeded") EXCEPT !.artifact = {v.content}]]
        ELSE UNCHANGED <<releases, rows>>
    /\ Returns(c)
    /\ UNCHANGED <<objects, uploads, claims, primary, revoked, identity>>

(* releaseSigningJob: the signer cannot sign it now; no failure is counted *)
SignDefer(c, k) ==
    /\ Free(c)
    /\ ReportOf(k, "sign")
    /\ CurrentSigning(k.job, k.by, k.number)
    /\ Transition(c, k.job, To(rows[k.job], "built"), {"signed"})
    /\ UNCHANGED <<releases, objects, uploads, claims, primary, revoked, identity>>

(* rejectSigningJob works out the outcome from the row it has read; the    *)
(* guard of its transaction holds it to the failures it has read.          *)
RejectLook(c, k, kind) ==
    /\ Free(c)
    /\ ReportOf(k, "sign")
    /\ CurrentSigning(k.job, k.by, k.number)
    /\ Becomes(c, [op |-> kind, job |-> k.job, by |-> k.by, number |-> k.number,
                   failures |-> rows[k.job].signFailures])
    /\ UNCHANGED <<rows, releases, objects, uploads, claims, primary, revoked, identity>>

RejectCommit(c) ==
    /\ At(c, "violation") \/ At(c, "transient")
    /\ LET p == calls[c]
           j == p.job
       IN IF ~CurrentSigning(j, p.by, p.number) \/ rows[j].signFailures # p.failures
          THEN Returns(c) /\ rows' = rows
          ELSE IF p.op = "violation"
          THEN Transition(c, j, To(rows[j], "failed"), Files)
          ELSE SigningFailed(c, j, p.failures)
    /\ UNCHANGED <<releases, objects, uploads, claims, primary, revoked, identity>>

----------------------------------------------------------------------------
(* Uploading a release by hand, and the registry and the identity changing *)

ManualRelease(n) ==
    /\ ~SigningInFlight
    /\ Increases(n)
    /\ releases' = releases \cup {[build |-> n, job |-> {}, key |-> {}, content |-> {},
                                 certificate |-> {}]}
    /\ UNCHANGED <<rows, objects, uploads, calls, claims, primary, revoked, identity>>

(* purgeRelease: the release goes, its job forgets what it delivered, and  *)
(* the objects are deleted afterwards, unless they are to be kept.  What   *)
(* it reads before its transaction changes only when the same release is   *)
(* purged, and then this transaction changes nothing.                      *)
Purge(c, r) ==
    /\ Free(c)
    /\ releases' = releases \ {r}
    /\ rows' = [j \in Jobs |-> IF r.job = {j} THEN WithoutKeys(rows[j], Files) ELSE rows[j]]
    /\ LET keys == r.key \cup UNION {KeysOf(rows[j], BuildFiles) : j \in r.job}
       IN ThenDeletes(c, keys) \/ ThenDeletes(c, {})
    /\ UNCHANGED <<objects, uploads, claims, primary, revoked, identity>>

(* setSignerRole: a new primary, or the old one made a standby *)
SetPrimary(p) ==
    /\ primary # p
    /\ p \cap revoked = {}
    /\ primary' = p
    /\ UNCHANGED <<rows, releases, objects, uploads, calls, claims, revoked, identity>>

Revoke(m) ==
    /\ m \notin revoked
    /\ revoked' = revoked \cup {m}
    /\ primary' = primary \ {m}
    /\ UNCHANGED <<rows, releases, objects, uploads, calls, claims, identity>>

ChangeIdentity(i) ==
    /\ identity # i
    /\ identity' = i
    /\ UNCHANGED <<rows, releases, objects, uploads, calls, claims, primary, revoked>>

----------------------------------------------------------------------------
Administrator ==
    \/ \E j \in Jobs, c \in Calls : CreateCheck(c, j) \/ Cancel(c, j) \/ ForceFail(c, j)
    \/ \E c \in Calls : CreateInsert(c)
    \/ \E n \in ManualBuilds : ManualRelease(n)
    \/ \E c \in Calls, r \in releases : Purge(c, r)
    \/ \E p \in Nullable(Signers \cap Administered) : SetPrimary(p)
    \/ \E m \in Machines \cap Administered : Revoke(m)
    \/ \E i \in Certificates : ChangeIdentity(i)

Building ==
    \/ \E m \in Builders, j \in Jobs :
           ClaimRefused(m, j) \/ \E c \in Calls : Claim(c, m, j)
    \/ \E k \in claims :
           \/ Heartbeat(k) \/ CompleteOTA(k)
           \/ \E c \in Calls : Fail(c, k) \/ FailOrphaned(c, k) \/ BuiltCheck(c, k)
    \/ \E c \in Calls : Dispatch(c) \/ DispatchFail(c) \/ BuiltCommit(c)

Uploading ==
    \E c \in Calls :
        \/ \E k \in claims, f \in Files : UploadScope(c, k, f)
        \/ \E x \in Contents : UploadPut(c, x)
        \/ UploadRefuse(c) \/ UploadRecord(c) \/ UploadRecordUnsure(c)

Signing ==
    \/ \E k \in claims : SignHeartbeat(k)
    \/ \E c \in Calls :
        \/ \E s \in Signers, j \in Jobs : SignLook(c, s, j)
        \/ \E k \in claims :
               \/ \E x \in Contents : CompleteLook(c, k, x)
               \/ SignDefer(c, k)
               \/ \E kind \in {"violation", "transient"} : RejectLook(c, k, kind)
        \/ SignClaim(c) \/ CompleteVerify(c) \/ CompleteCommit(c) \/ RejectCommit(c)

Reaping ==
    \/ \E j \in Jobs : FallQuiet(j)
    \/ \E r \in Reapers : (\E j \in Jobs : ReapLook(r, j)) \/ ReapBuild(r) \/ ReapSign(r)

Server == \E c \in Calls \cup Reapers : DeleteObjects(c) \/ Abandon(c)

Next == Administrator \/ Building \/ Uploading \/ Signing \/ Reaping \/ Server

Spec == Init /\ [][Next]_vars

(* Time passes, and every server instance runs its reaper once a minute    *)
(* over all that has gone quiet.  An instance may die in the middle, but   *)
(* not for ever at the same place: a listed item is taken in the end.      *)
Fairness ==
    /\ \A j \in Jobs : WF_vars(FallQuiet(j))
    /\ \A r \in Reapers :
          /\ \A j \in Jobs : SF_vars(ReapLook(r, j))
          /\ SF_vars(ReapBuild(r) \/ ReapSign(r))
          /\ WF_vars(DeleteObjects(r))

FairSpec == Spec /\ Fairness

----------------------------------------------------------------------------
(* What the pipeline keeps *)

(* The handlers between two steps: what each remembers.                    *)
Call ==
    {Idle}
    \cup [op : {"delete"}, keys : SUBSET Key]
    \cup [op : {"create"}, job : Jobs]
    \cup [op : {"dispatch"}, job : Jobs, by : Builders, number : Nat, keys : SUBSET Key]
    \cup [op : {"put"}, job : Jobs, by : Machines, number : Nat, file : Files, key : Key]
    \cup [op : {"record"}, job : Jobs, by : Machines, number : Nat, file : Files,
          key : Key, content : Contents]
    \cup [op : {"built"}, job : Jobs, by : Machines, number : Nat,
          sha : [BuildFiles -> Nullable(Contents)]]
    \cup [op : {"reapBuild"}, job : Jobs, number : Nat]
    \cup [op : {"reapSign"}, job : Jobs, number : Nat, failures : Nat]
    \cup [op : {"signClaim"}, job : Jobs, by : Signers, number : Nat]
    \cup [op : {"verify"}, job : Jobs, by : Machines, number : Nat, key : Nullable(Key),
          content : Contents]
    \cup [op : {"finish"}, job : Jobs, by : Machines, number : Nat, key : Nullable(Key),
          content : Contents, identity : Certificates]
    \cup [op : {"violation", "transient"}, job : Jobs, by : Machines, number : Nat,
          failures : Nat]

(* Every variable holds what its column, table or handler can hold.        *)
TypeOK ==
    /\ rows \in [Jobs -> Row]
    /\ releases \subseteq Release
    /\ objects \subseteq [key : Key, content : Contents]
    /\ uploads \in 0..MaxUploads
    /\ calls \in [Calls \cup Reapers -> Call]
    /\ claims \subseteq GivenClaim
    /\ primary \in Nullable(Signers)
    /\ revoked \subseteq Machines
    /\ identity \in Certificates

(* A key in a job row or in a release names an object that is in the store *)
(* and holds exactly what the digest beside it says: no late upload, retry *)
(* or cleanup of another attempt ever deletes or overwrites it.            *)
ReferencesAreBacked ==
    /\ \A j \in Jobs : \A f \in Files : \A k \in rows[j].key[f] :
          /\ Holds(k)
          /\ f # "signed" => \E x \in rows[j].sha[f] : Object(k, x) \in objects
    /\ \A r \in releases : \A k \in r.key :
          \E x \in r.content : Object(k, x) \in objects

(* What a row references was delivered by the machine that holds it now,   *)
(* under its present attempt: nothing an earlier claim delivered survives  *)
(* into a later one.                                                       *)
DeliveriesAreOfTheCurrentClaim ==
    \A j \in Jobs : \A f \in Files : \A k \in rows[j].key[f] :
        /\ k.job = j /\ k.file = f
        /\ k.number = IF f = "signed" THEN rows[j].signAttempt ELSE rows[j].attempt

(* A build machine never has two claimed or running jobs, however its      *)
(* requests, the reaper and lost answers interleave.                       *)
OneBuildPerMachine ==
    \A m \in Builders : \A i, j \in Jobs :
        /\ BuilderHolds(i) /\ rows[i].machine = {m}
        /\ BuilderHolds(j) /\ rows[j].machine = {m}
        => i = j

(* From /built on, what the builder attested is what the row references:   *)
(* a re-upload racing the delivery cannot swap a file under its provenance.*)
AttestedIsDelivered ==
    \A j \in Jobs :
        /\ IsPackage(j) /\ rows[j].status \in {"built", "signing", "succeeded"} =>
              /\ rows[j].provenance = {rows[j].sha}
              /\ \A f \in DOMAIN rows[j].sha : rows[j].sha[f] # {}
        /\ rows[j].status \in {"built", "signing"} =>
              \A f \in DOMAIN rows[j].sha : rows[j].key[f] # {}

(* No job is claimed more than maxBuildAttempts times or goes on after     *)
(* maxSignFailures failed signings, whoever counts them.                   *)
RetriesAreBounded ==
    \A j \in Jobs :
        /\ rows[j].attempt <= MaxBuildAttempts
        /\ rows[j].status = "queued" => rows[j].attempt < MaxBuildAttempts
        /\ rows[j].signFailures <= MaxSignFailures
        /\ rows[j].signFailures = MaxSignFailures => rows[j].status = "failed"

(* A package job that has succeeded, and still has its package, has one    *)
(* release that carries it, of the package the job row records; no other   *)
(* job is ever released.                                                   *)
SucceededMeansReleased ==
    \A j \in Jobs : IsPackage(j) =>
        LET Mine == {r \in releases : r.job = {j}} IN
        /\ Mine # {} <=> rows[j].status = "succeeded" /\ rows[j].key["signed"] # {}
        /\ \A r \in Mine : /\ Mine = {r}
                            /\ r.key = rows[j].key["signed"]
                            /\ r.content = rows[j].artifact
                            /\ r.build = BuildNumberOf[j]

(* A release uploaded by hand never overtakes a package being signed: the  *)
(* in-flight check and the claim's comparison share the sequence lock.     *)
NoManualReleaseOvertakesSigning ==
    \A j \in Jobs : rows[j].status = "signing" =>
        \A r \in releases : r.job = {} => r.build < BuildNumberOf[j]

(* A new release is above every release there is, whoever makes it: two    *)
(* handlers never let a lower build number in after a higher one.          *)
ReleasesOnlyRise ==
    [][\A r \in releases' \ releases : \A q \in releases : q.build < r.build]_vars

(* A job that has concluded keeps every column: no late report, upload or  *)
(* reaper pass writes to it again.  Only purging the release it became     *)
(* makes it forget its deliveries.                                         *)
ConcludedRowsAreFinal ==
    [][\A j \in Jobs : rows[j].status \in Concluded /\ rows'[j] # rows[j] =>
          /\ rows'[j] = WithoutKeys(rows[j], Files)
          /\ \E r \in releases \ releases' : r.job = {j}]_vars

(* A package becomes a release only for a signer that is not revoked, with *)
(* the certificate registered at that moment, for it was verified against  *)
(* these some time before.                                                 *)
ReleasesAreStillWarranted ==
    [][\A r \in releases' \ releases : \A j \in r.job :
           /\ rows[j].signer \cap revoked = {}
           /\ r.certificate = {identity}]_vars

(* Every step of every handler is an edge of the declared state machine.   *)
Lifecycle == INSTANCE BuildJobLifecycle WITH status <- [j \in Jobs |-> rows[j].status]

FollowsTheStateMachine == Lifecycle!Spec

(* A job whose holder has been silent past the timeout does not stay so:   *)
(* it is taken from the holder, or the holder reports again.               *)
SilenceIsNoticed == \A j \in Jobs : rows[j].quiet ~> ~rows[j].quiet

(* A revoked machine loses what it held, although revoking it does not     *)
(* touch its jobs: its reports are refused and the reaper does the rest.   *)
RevokedMachinesLoseTheirJobs ==
    \A m \in Machines, j \in Jobs :
        m \in revoked ~> ~ \/ BuilderHolds(j) /\ rows[j].machine = {m}
                           \/ rows[j].status = "signing" /\ rows[j].signer = {m}

(* What createBuildJob says it ensures: a package is only queued with a    *)
(* build number above all that are queued, built or released.              *)
QueuedNumbersRise ==
    [][\A j \in Jobs :
          IsPackage(j) /\ rows[j].status = "absent" /\ rows'[j].status = "queued"
          => AboveFloor(BuildNumberOf[j])]_vars

=============================================================================
