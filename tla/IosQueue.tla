------------------------------ MODULE IosQueue ------------------------------
(***************************************************************************)
(* The iOS packages of one tenant, from the queue to their end: the claim  *)
(* of build_agent.go, the agent on a Mac that builds, uploads and reports  *)
(* (cmd/build-agent/agent.go), the reports as ios_build_release.go and     *)
(* ios_ipa_delivery.go take them, the tenant's marks and the end of the    *)
(* retention in ios_ipa_status.go, the watch over TestFlight and the       *)
(* switch of the delivery mode in ios_delivery.go.                         *)
(*                                                                         *)
(* A transaction is a step; what a handler reads before it is a step of    *)
(* its own.  "claimed" stands for claimed and running, which no guard here *)
(* tells apart; the attempt that made a package stands for its digest, and *)
(* the build number for the version, which rises with it.                  *)
(***************************************************************************)
EXTENDS Naturals, Sequences, FiniteSets

CONSTANTS
    Macs,           \* the Macs that build
    Uploaders,      \* those that hold the upload key of the tenant
    HandBackMacs,   \* those whose agent can hand a package back
    Calls,          \* reports in flight
    Admins,         \* administrators at work at the same time
    Cleaners,       \* reapers that look for expired packages and at TestFlight
    MaxJobs,        \* bound: jobs ever queued
    MaxNumber,      \* bound: build numbers
    MaxAttempts,    \* maxBuildAttempts
    MaxUploads,     \* bound: objects ever stored
    MaxSwitches,    \* bound: switches of the mode
    HandReleases,   \* are iOS releases entered by hand while jobs are in flight?
    SlowClaims      \* may jobs be queued between the two queries of a claim?

(* The bounds are numbers, and a job may be attempted.                     *)
BoundsAssumption ==
    /\ MaxJobs \in Nat /\ MaxNumber \in Nat /\ MaxAttempts \in Nat \ {0}
    /\ MaxUploads \in Nat /\ MaxSwitches \in Nat /\ HandReleases \in BOOLEAN
    /\ SlowClaims \in BOOLEAN

Modes == {"testflight", "ipa"}
Files == {"ipa", "info"}
Marks == {"uploaded", "installable", "rejected", "purged"}
Concluded == {"succeeded", "failed", "canceled"}
InFlight == {"queued", "claimed"}

VARIABLES
    rows,       \* build_jobs, in the order they were created
    releases,   \* the build numbers of app_releases
    apple,      \* the build numbers App Store Connect has
    objects,    \* the objects stored for jobs
    uploads,    \* how many objects ever were
    mode,       \* app_configs ios.delivery
    mac,        \* what the agent of a Mac is doing
    call,       \* reports the server is working on
    admin,      \* administrators between a read and their transaction
    cleaner     \* reapers between their query and the rows they found

vars == <<rows, releases, apple, objects, uploads, mode, mac, call, admin, cleaner>>

Idle == [at |-> "idle"]
Numbers == 1..MaxNumber
Highest(S) == CHOOSE n \in S \cup {0} : \A k \in S : k <= n

NewRow(n, d) == [number |-> n, delivery |-> d, status |-> "queued", attempt |-> 0, by |-> {},
                 file |-> [f \in Files |-> {}], told |-> FALSE, released |-> 0,
                 marks |-> {}, testflight |-> "unknown"]

Init ==
    /\ rows = <<>> /\ releases = {} /\ apple = {} /\ objects = {} /\ uploads = 0
    /\ mode \in [value : Modes, version : {0}]
    /\ mac = [m \in Macs |-> Idle]
    /\ call = [c \in Calls |-> Idle]
    /\ admin = [a \in Admins |-> Idle]
    /\ cleaner = [k \in Cleaners |-> {}]

-----------------------------------------------------------------------------
(* Administrators *)

(* live_build_number: canceled and failed jobs do not use their number up. *)
LiveNumbers ==
    {rows[j].number : j \in {i \in DOMAIN rows : rows[i].status \in InFlight \cup {"succeeded"}}}

(* buildFloorFor *)
Floor == Highest(releases \cup LiveNumbers)

(* createBuildJob reads the floor and the mode ...                         *)
ReadToQueue(a) ==
    /\ admin[a] = Idle /\ Len(rows) < MaxJobs
    /\ admin' = [admin EXCEPT ![a] = [at |-> "queue", floor |-> Floor, mode |-> mode.value]]
    /\ UNCHANGED <<rows, releases, apple, objects, uploads, mode, mac, call, cleaner>>

(* ... and stores the job, unless the unique index of live numbers refuses *)
(* a number that was taken in the meantime.                                *)
Queue(a) ==
    /\ admin[a].at = "queue" /\ Len(rows) < MaxJobs
    /\ \E n \in Numbers : /\ n > admin[a].floor
                          /\ rows' = IF n \in LiveNumbers THEN rows
                                     ELSE Append(rows, NewRow(n, admin[a].mode))
    /\ admin' = [admin EXCEPT ![a] = Idle]
    /\ UNCHANGED <<releases, apple, objects, uploads, mode, mac, call, cleaner>>

(* iosDeliveryUnfinishedJobs *)
Unfinished == {j \in DOMAIN rows : rows[j].status \in InFlight}

(* updateIOSDelivery lists the unfinished jobs before its transaction ...  *)
ReadToSwitch(a) ==
    /\ admin[a] = Idle /\ mode.version < MaxSwitches
    /\ Unfinished = {}
    /\ admin' = [admin EXCEPT ![a] = [at |-> "switch", version |-> mode.version]]
    /\ UNCHANGED <<rows, releases, apple, objects, uploads, mode, mac, call, cleaner>>

(* ... which compares the version of the mode.                             *)
Switch(a) ==
    /\ admin[a].at = "switch"
    /\ IF admin[a].version = mode.version
       THEN \E v \in Modes \ {mode.value} : mode' = [value |-> v, version |-> mode.version + 1]
       ELSE UNCHANGED mode
    /\ admin' = [admin EXCEPT ![a] = Idle]
    /\ UNCHANGED <<rows, releases, apple, objects, uploads, mac, call, cleaner>>

(* createRelease: a release entered by hand, with a number above the last. *)
ReleaseByHand ==
    /\ HandReleases \/ (Unfinished = {} /\ \A a \in Admins : admin[a] = Idle)
    /\ \E n \in Numbers : n > Highest(releases) /\ releases' = releases \cup {n}
    /\ UNCHANGED <<rows, apple, objects, uploads, mode, mac, call, admin, cleaner>>

FilesOf(j) == UNION {rows[j].file[f] : f \in Files}
NoFiles == [f \in Files |-> {}]

Cancel(j) ==
    /\ rows[j].status \in InFlight
    /\ rows' = [rows EXCEPT ![j].status = "canceled", ![j].file = NoFiles]
    /\ objects' = objects \ FilesOf(j)
    /\ UNCHANGED <<releases, apple, uploads, mode, mac, call, admin, cleaner>>

-----------------------------------------------------------------------------
(* The claim *)

Held(m) == {j \in DOMAIN rows : rows[j].status = "claimed" /\ rows[j].by = {m}}

(* claimBuildJob holds the lock of its machine.  Its first query, for a    *)
(* job the machine already has, also fixes what its transaction sees.      *)
Poll(m) ==
    /\ mac[m] = Idle /\ Held(m) = {}
    /\ mac' = [mac EXCEPT ![m] = [at |-> "poll", seen |-> [j \in DOMAIN rows |-> rows[j].status]]]
    /\ UNCHANGED <<rows, releases, apple, objects, uploads, mode, call, admin, cleaner>>

Capable(m, d) == IF d = "ipa" THEN m \in HandBackMacs ELSE m \in Uploaders


(* The second query reads the job itself as it is now; that no job of the  *)
(* tenant is being built and none was queued before, as it was.            *)
Dispatchable(m, j) ==
    /\ rows[j].status = "queued" /\ Capable(m, rows[j].delivery)
    /\ ~\E o \in DOMAIN mac[m].seen : mac[m].seen[o] = "claimed"
    /\ ~\E e \in DOMAIN mac[m].seen : e < j /\ mac[m].seen[e] = "queued"

Work(j, n, at) == [at |-> at, job |-> j, attempt |-> n]

(* It takes the first such job; the answer may be lost.                    *)
Claim(m) ==
    /\ mac[m].at = "poll"
    /\ SlowClaims \/ DOMAIN mac[m].seen = DOMAIN rows
    /\ LET found == {j \in DOMAIN rows : Dispatchable(m, j)}
           j == CHOOSE i \in found : \A k \in found : i <= k
       IN IF found = {} THEN mac' = [mac EXCEPT ![m] = Idle] /\ UNCHANGED <<rows, objects>>
          ELSE /\ rows' = [rows EXCEPT ![j].status = "claimed", ![j].by = {m},
                               ![j].attempt = @ + 1, ![j].file = NoFiles]
               /\ objects' = objects \ FilesOf(j)
               /\ \/ mac' = [mac EXCEPT ![m] = Work(j, rows[j].attempt + 1, "build")]
                  \/ mac' = [mac EXCEPT ![m] = Idle]
    /\ UNCHANGED <<releases, apple, uploads, mode, call, admin, cleaner>>

(* A claim that saw fewer jobs than there are now starts over.             *)
PollAgain(m) ==
    /\ mac[m].at = "poll" /\ ~SlowClaims /\ DOMAIN mac[m].seen # DOMAIN rows
    /\ mac' = [mac EXCEPT ![m] = Idle]
    /\ UNCHANGED <<rows, releases, apple, objects, uploads, mode, call, admin, cleaner>>

(* the guard of every report of a builder *)
Current(w, m) ==
    rows[w.job].status = "claimed" /\ rows[w.job].by = {m} /\ rows[w.job].attempt = w.attempt

(* A claim that is given up goes back to the queue while attempts are left.*)
GiveUp(j) ==
    /\ rows' = [rows EXCEPT ![j].status = IF @ = "claimed" /\ rows[j].attempt < MaxAttempts
                                          THEN "queued" ELSE "failed",
                            ![j].by = {}, ![j].file = NoFiles]
    /\ objects' = objects \ FilesOf(j)

(* An agent that polls while the server remembers a job of its gives the   *)
(* job back: it is from a former life, or the answer was lost.             *)
HandBackClaim(m) ==
    /\ mac[m] = Idle
    /\ \E j \in Held(m) : GiveUp(j)
    /\ UNCHANGED <<releases, apple, uploads, mode, mac, call, admin, cleaner>>

(* The reaper does the same when it hears no heartbeat.                    *)
Reap(j) ==
    /\ rows[j].status = "claimed" /\ GiveUp(j)
    /\ UNCHANGED <<releases, apple, uploads, mode, mac, call, admin, cleaner>>

-----------------------------------------------------------------------------
(* The agent *)

Working(m) == mac[m].at \in {"build", "deliver", "info", "report"}

Turn(m, at) == mac' = [mac EXCEPT ![m].at = at]

Built(m) ==
    /\ mac[m].at = "build" /\ Turn(m, "deliver")
    /\ UNCHANGED <<rows, releases, apple, objects, uploads, mode, call, admin, cleaner>>

(* uploadIPA: Apple takes a build number once; when it already has it, the *)
(* uploader says that an earlier attempt was there.                        *)
UploadToApple(m) ==
    /\ mac[m].at = "deliver" /\ rows[mac[m].job].delivery = "testflight"
    /\ apple' = apple \cup {rows[mac[m].job].number}
    /\ rows' = [rows EXCEPT ![mac[m].job].told = TRUE]
    /\ Turn(m, "report")
    /\ UNCHANGED <<releases, objects, uploads, mode, call, admin, cleaner>>

(* handBackAppStoreInfo: Xcode may not have made one, and the agent goes   *)
(* on without it.                                                          *)
SkipInfo(m) ==
    /\ mac[m].at = "info" /\ Turn(m, "report")
    /\ UNCHANGED <<rows, releases, apple, objects, uploads, mode, call, admin, cleaner>>

(* A heartbeat learns that the claim is not current, or the Mac goes down. *)
Abort(m) ==
    /\ Working(m) /\ mac' = [mac EXCEPT ![m] = Idle]
    /\ UNCHANGED <<rows, releases, apple, objects, uploads, mode, call, admin, cleaner>>

(* runJob reports what went wrong.                                         *)
Fail(m) ==
    /\ Working(m) /\ Current(mac[m], m)
    /\ rows' = [rows EXCEPT ![mac[m].job].status = "failed", ![mac[m].job].file = NoFiles]
    /\ objects' = objects \ FilesOf(mac[m].job)
    /\ mac' = [mac EXCEPT ![m] = Idle]
    /\ UNCHANGED <<releases, apple, uploads, mode, call, admin, cleaner>>

(* The answer to a call: the agent goes on, stops, or does not hear it.    *)
Answer(c, at) ==
    LET w == call[c]
        waits == /\ Working(w.mac) /\ mac[w.mac].job = w.job /\ mac[w.mac].attempt = w.attempt
                 /\ mac[w.mac].at = IF w.at = "store"
                                    THEN IF w.key.file = "ipa" THEN "deliver" ELSE "info"
                                    ELSE "report"
    IN \/ UNCHANGED mac
       \/ waits /\ mac' = [mac EXCEPT ![w.mac] = IF at = "idle" THEN Idle
                                                 ELSE [@ EXCEPT !.at = at]]

-----------------------------------------------------------------------------
(* The reports on the server *)

(* buildJobObjectKey: no two uploads share a key.                          *)
Key(w) == [job |-> w.job, file |-> w.file, attempt |-> w.attempt, random |-> uploads]

(* uploadIOSPackage, uploadIOSAppStoreInfo: a file that the agent sends,   *)
(* perhaps again because no answer came, is stored first ...               *)
Store(m, c) ==
    /\ mac[m].at \in {"deliver", "info"} /\ rows[mac[m].job].delivery = "ipa"
    /\ call[c] = Idle /\ uploads < MaxUploads
    /\ LET w == [job |-> mac[m].job, attempt |-> mac[m].attempt,
                 file |-> IF mac[m].at = "info" THEN "info" ELSE "ipa"]
       IN /\ objects' = objects \cup {Key(w)}
          /\ call' = [call EXCEPT ![c] = [at |-> "store", mac |-> m, job |-> w.job,
                                          attempt |-> w.attempt, key |-> Key(w)]]
    /\ uploads' = uploads + 1
    /\ UNCHANGED <<rows, releases, apple, mode, mac, admin, cleaner>>

(* ... and then recorded, if the claim is still current; the object it     *)
(* replaces is deleted, or else the one that was stored.                   *)
Record(c) ==
    LET w == call[c] IN
    /\ w.at = "store"
    /\ IF Current(w, w.mac)
       THEN /\ rows' = [rows EXCEPT ![w.job].file[w.key.file] = {w.key}]
            /\ objects' = objects \ (rows[w.job].file[w.key.file] \ {w.key})
            /\ Answer(c, IF w.key.file = "ipa" THEN "info" ELSE "report")
       ELSE objects' = objects \ {w.key} /\ UNCHANGED rows /\ Answer(c, "idle")
    /\ call' = [call EXCEPT ![c] = Idle]
    /\ UNCHANGED <<releases, apple, uploads, mode, admin, cleaner>>

(* A package the tenant uploads itself must be here, and be this one.      *)
Delivered(w) ==
    rows[w.job].delivery = "ipa" => \E k \in rows[w.job].file["ipa"] : k.attempt = w.attempt

(* completeIOSBuildJob: a report, or a retry of it, is checked before the  *)
(* transaction ...                                                         *)
CheckReport(m, c) ==
    /\ mac[m].at = "report" /\ call[c] = Idle
    /\ LET w == [at |-> "checked", mac |-> m, job |-> mac[m].job, attempt |-> mac[m].attempt]
       IN \/ Delivered(w) /\ call' = [call EXCEPT ![c] = w] /\ UNCHANGED mac
          \/ ~Delivered(w) /\ mac' = [mac EXCEPT ![m] = Idle] /\ UNCHANGED call
    /\ UNCHANGED <<rows, releases, apple, objects, uploads, mode, admin, cleaner>>

(* ... which repeats them on the locked row and inserts the release.  A    *)
(* release refused because its number is not the highest fails the job.    *)
Complete(c) ==
    LET w == call[c] IN
    /\ w.at = "checked"
    /\ IF /\ Current(w, w.mac) /\ Delivered(w)
          /\ rows[w.job].number > Highest(releases)
       THEN /\ releases' = releases \cup {rows[w.job].number}
            /\ rows' = [rows EXCEPT ![w.job].status = "succeeded", ![w.job].released = w.attempt]
       ELSE UNCHANGED <<releases, rows>>
    /\ Answer(c, "idle")
    /\ call' = [call EXCEPT ![c] = Idle]
    /\ UNCHANGED <<apple, objects, uploads, mode, admin, cleaner>>

-----------------------------------------------------------------------------
(* After the success *)

HandedOver(j) == rows[j].status = "succeeded" /\ rows[j].delivery = "ipa"

Marked(old, s) ==
    CASE s = "uploaded"    -> old \cup {"uploaded"}
      [] s = "installable" -> (old \ {"rejected"}) \cup {"uploaded", "installable"}
      [] s = "rejected"    -> (old \ {"installable"}) \cup {"rejected"}

(* markIOSIPAStatus, one transaction with the row locked *)
Mark(j) ==
    /\ HandedOver(j)
    /\ \E s \in {"uploaded", "installable", "rejected"} :
          rows' = [rows EXCEPT ![j].marks = Marked(@, s)]
    /\ UNCHANGED <<releases, apple, objects, uploads, mode, mac, call, admin, cleaner>>

Watched(j) == rows[j].status = "succeeded" /\ rows[j].delivery = "testflight"
                 /\ rows[j].testflight # "final"

(* purgeExpiredIPADeliveries and pollTestFlightStates list the rows that   *)
(* are due.  The days of the retention pass.                               *)
Look(k) ==
    /\ cleaner[k] = {}
    /\ \E found \in SUBSET {j \in DOMAIN rows :
                               Watched(j) \/ (HandedOver(j) /\ rows[j].file["ipa"] # {})} :
          /\ found # {}
          /\ cleaner' = [cleaner EXCEPT ![k] = {[job |-> j, key |-> rows[j].file["ipa"],
                                                 marks |-> rows[j].marks] : j \in found}]
    /\ UNCHANGED <<rows, releases, apple, objects, uploads, mode, mac, call, admin>>

(* Only the time of the purge is added: the rest of the state may have     *)
(* changed since the row was read.                                         *)
Purged(d) == rows[d.job].marks \cup {"purged"}

Purge(k, d) ==
    /\ d \in cleaner[k] /\ rows[d.job].delivery = "ipa"
    /\ IF rows[d.job].status = "succeeded" /\ rows[d.job].file["ipa"] = d.key
       THEN /\ rows' = [rows EXCEPT ![d.job].marks = Purged(d), ![d.job].file = NoFiles]
            /\ objects' = objects \ FilesOf(d.job)
       ELSE UNCHANGED <<rows, objects>>
    /\ cleaner' = [cleaner EXCEPT ![k] = @ \ {d}]
    /\ UNCHANGED <<releases, apple, uploads, mode, mac, call, admin>>

(* pollTenantTestFlight asks Apple, and saves what it says of the build.   *)
SaveTestFlight(k, d) ==
    /\ d \in cleaner[k] /\ rows[d.job].delivery = "testflight"
    /\ \E s \in {"processing", "final"} :
          rows' = [rows EXCEPT ![d.job].testflight = s]
    /\ cleaner' = [cleaner EXCEPT ![k] = @ \ {d}]
    /\ UNCHANGED <<releases, apple, objects, uploads, mode, mac, call, admin>>

-----------------------------------------------------------------------------
Next ==
    \/ \E a \in Admins : ReadToQueue(a) \/ Queue(a) \/ ReadToSwitch(a) \/ Switch(a)
    \/ ReleaseByHand
    \/ \E j \in DOMAIN rows : Cancel(j) \/ Reap(j) \/ Mark(j)
    \/ \E m \in Macs : \/ Poll(m) \/ Claim(m) \/ PollAgain(m) \/ HandBackClaim(m) \/ Built(m)
                       \/ UploadToApple(m) \/ SkipInfo(m) \/ Abort(m) \/ Fail(m)
                       \/ \E c \in Calls : Store(m, c) \/ CheckReport(m, c)
    \/ \E c \in Calls : Record(c) \/ Complete(c)
    \/ \E k \in Cleaners : \/ Look(k)
                           \/ \E d \in cleaner[k] : Purge(k, d) \/ SaveTestFlight(k, d)

Spec == Init /\ [][Next]_vars

-----------------------------------------------------------------------------
TypeOK ==
    /\ \A j \in DOMAIN rows :
          /\ rows[j].number \in Numbers /\ rows[j].delivery \in Modes
          /\ rows[j].status \in InFlight \cup Concluded
          /\ rows[j].attempt \in 0..MaxAttempts /\ rows[j].released \in 0..MaxAttempts
          /\ rows[j].marks \subseteq Marks /\ FilesOf(j) \subseteq objects
    /\ releases \subseteq Numbers /\ apple \subseteq Numbers
    /\ mode.value \in Modes /\ mode.version \in 0..MaxSwitches

(* What Apple has cannot be taken back: while a job is not concluded and   *)
(* its package is in App Store Connect, its release will still be accepted,*)
(* because no release has its number or a higher one (the order of the     *)
(* claims in build_agent.go 305-330).                                      *)
AppleIsNeverAhead ==
    \A j \in Unfinished : rows[j].told => \A n \in releases : n < rows[j].number

(* A job that succeeded for a tenant that uploads itself has its package   *)
(* until the end of the retention, and it is the one that was reported     *)
(* (uploadIOSPackage, completeIOSBuildJob).                                *)
PackagesAreKept ==
    \A j \in DOMAIN rows :
        HandedOver(j) /\ "purged" \notin rows[j].marks =>
            \E k \in rows[j].file["ipa"] : k \in objects /\ k.attempt = rows[j].released

(* A job that is not concluded is delivered as the tenant is now set up    *)
(* (updateIOSDelivery refuses to switch before).                           *)
JobsFollowTheMode == \A j \in Unfinished : rows[j].delivery = mode.value

(* At most one package of the tenant is being built (build_agent.go 310).  *)
OneAtATime == Cardinality({j \in DOMAIN rows : rows[j].status = "claimed"}) <= 1

(* What the tenant said of a package outlives the purge that read the row  *)
(* before it (purgeExpiredIPADeliveries), and a final state at Apple is    *)
(* not taken back while one reaper watches (pollTestFlightStates).         *)
MarksSurvive ==
    [][\A j \in DOMAIN rows :
          /\ \A s \in {"uploaded", "purged"} : s \in rows[j].marks => s \in rows'[j].marks
          /\ rows[j].testflight = "final" => rows'[j].testflight = "final"]_vars

(* Every step is an edge that build_job_states.go declares for a package   *)
(* of iOS: it is never built or signing, and only what is claimed succeeds.*)
StatusOf(j) == IF j \in DOMAIN rows THEN rows[j].status ELSE "absent"
Lifecycle == INSTANCE BuildJobLifecycle WITH
    Jobs <- 1..MaxJobs, KindOf <- [j \in 1..MaxJobs |-> "ipa"],
    status <- [j \in 1..MaxJobs |-> StatusOf(j)]

FollowsTheStateMachine == Lifecycle!Spec
=============================================================================
