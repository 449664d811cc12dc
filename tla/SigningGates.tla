---------------------------- MODULE SigningGates ----------------------------
(***************************************************************************)
(* The signing gates: the machines that hold the release keys.  Each keeps *)
(* a log of its own (signed.jsonl) which the server cannot write; what it  *)
(* has signed, and for whom, is decided by that log alone.  Modelled are   *)
(* the records (signing/records), the daemon that claims and signs one job *)
(* at a time (signer run), the operator's promote and abandon, and as much *)
(* of the server as a gate sees.                                           *)
(*                                                                         *)
(* Every write of the log is one step: it is planned, checked and written  *)
(* under the file lock.  Anything may stop a gate between two steps, and   *)
(* in the middle of a write.  The lines of one package and certificate are *)
(* modelled; a job's build number is the version code of its package.      *)
(***************************************************************************)
EXTENDS Naturals, FiniteSets

CONSTANTS
    Gates,            \* signing gates, each with its state directory
    Jobs,             \* signing jobs of one package
    NumberOf,         \* the build number of a job
    Inputs,           \* what a build can deliver: unsigned packages
    Unsound,          \* the inputs the checker refuses
    FailureKinds,     \* how a step may fail for reasons outside the model
    MaxVersionCode,   \* limits a gate puts on version codes
    MaxJump,
    FirstSignMax,
    MaxSignFailures   \* after which the server fails a job
CONSTANTS             \* bounds of the model
    MaxFaults,        \* crashes, failed writes, lost answers
    MaxPackages,      \* signatures ever made
    MaxRestores       \* times the server returns to a backup

ASSUME NumbersAssumption == NumberOf \in [Jobs -> Nat \ {0}]
ASSUME InputsAssumption == Unsound \subseteq Inputs
ASSUME FailuresAssumption == FailureKinds \subseteq {"transient", "violation", "deferred"}
ASSUME LimitsAssumption ==
    /\ MaxVersionCode \in Nat /\ MaxJump \in Nat /\ FirstSignMax \in Nat
    /\ MaxSignFailures \in Nat \ {0}
    /\ MaxFaults \in Nat /\ MaxPackages \in Nat /\ MaxRestores \in Nat

VARIABLES
    log,       \* signed.jsonl of a gate, replayed: the latest reservation of a job
    baseline,  \* the highest code an operator entered or imported; 0 for none
    torn,      \* gates whose file ends in half a line
    role,      \* what trust.jsonl of a gate says it is
    latest,    \* the gate that became primary last
    retired,   \* gates that were stopped for good and revoked on the server
    run,       \* the process that holds the run lock of a gate
    server,    \* the signing jobs as the server has them
    requests,  \* completions sent and not yet handled by the server
    packages,  \* how many signatures were ever made: each has bytes of its own
    sent,      \* what ever left a gate
    released,  \* what was ever released, restored backups or not
    faults, restores

records == <<log, baseline, torn>>
roles == <<role, latest, retired>>
history == <<packages, sent, released>>
vars == <<log, baseline, torn, role, latest, retired, run, server, requests, packages, sent,
          released, faults, restores>>

-----------------------------------------------------------------------------
(***************************************************************************)
(* The records                                                             *)
(***************************************************************************)
Statuses == {"reserved", "signed", "completed", "abandoned"}
NoEntry == [status |-> "none"]
Entries == {NoEntry} \cup [status : Statuses, input : Inputs, package : Nat]

(* A reservation that holds its version code: not released by abandon.     *)
Live_Unsigned(e) == e.status \in {"reserved", "completed"}
Live(e) == e.status \in {"reserved", "signed", "completed"}
Holder(g, code) == {j \in Jobs : Live(log[g][j]) /\ NumberOf[j] = code}
IsFor(e, input) == Live(e) /\ e.input = input

(* The codes a new reservation is measured against: everything taken on    *)
(* this gate but the job's own reservation for the same input.             *)
Taken_NoBaseline(g, j, input) ==
    {NumberOf[k] : k \in {k \in Jobs : Live(log[g][k]) /\ ~(k = j /\ IsFor(log[g][k], input))}}
Taken(g, j, input) ==
    {NumberOf[k] : k \in {k \in Jobs : Live(log[g][k]) /\ ~(k = j /\ IsFor(log[g][k], input))}}
        \cup (IF baseline[g] = 0 THEN {} ELSE {baseline[g]})

Rises(code, seen) == \A x \in seen : x < code
WithinLimits(code, seen) ==
    /\ code <= MaxVersionCode
    /\ Rises(code, seen)
    /\ IF seen = {} THEN code <= FirstSignMax ELSE \E x \in seen : code <= x + MaxJump

(* The line is on disk, whole.                                             *)
Appends(g, j, e) ==
    /\ log' = [log EXCEPT ![g][j] = e]
    /\ UNCHANGED <<baseline, torn>>

(* The write or the fsync failed, or the power did: the line is there, or  *)
(* half of it, or nothing.                                                 *)
AppendsHalf(g, j, e) ==
    \/ Appends(g, j, e)
    \/ log' = log /\ torn' \in {torn, torn \cup {g}} /\ UNCHANGED baseline

-----------------------------------------------------------------------------
(***************************************************************************)
(* The process that holds the run lock: the daemon, or an operator's       *)
(* exclusive command                                                       *)
(***************************************************************************)
Claims == [job : Jobs, attempt : Nat, input : Inputs]
Outcomes == {"none", "stale", "deferred", "transient", "violation"}
WorkSteps == {"look", "check", "reserve", "sign", "mark", "unsent", "upload", "complete",
              "waiting", "record", "report"}
Working == [step : WorkSteps, claim : Claims,
            seen : SUBSET Nat,       \* the codes the checker was told of
            releasable : BOOLEAN,    \* the reservation may be released on failure
            package : Nat, outcome : Outcomes,
            fatal : BOOLEAN]         \* the process ends after its report
Down == [step |-> "down"]
Idle == [step |-> "idle"]
Promoting == [step : {"baselines", "role"}, from : SUBSET Gates]

At(g, step) == run[g].step = step
Works(g) == run[g].step \in WorkSteps
Goes(g, r) == run' = [run EXCEPT ![g] = r]
To(g, step) == [run[g] EXCEPT !.step = step]
Reporting(g, outcome, fatal) ==
    [run[g] EXCEPT !.step = "report", !.outcome = outcome, !.fatal = fatal]

(* A failure before the package is recorded gives the reservation back,    *)
(* unless it was signed before.                                            *)
Unsent(g, outcome, fatal) ==
    [Reporting(g, outcome, fatal) EXCEPT !.step = IF run[g].releasable THEN "unsent" ELSE "report"]

JobOf(g) == run[g].claim.job
CodeOf(g) == NumberOf[JobOf(g)]
InputOf(g) == run[g].claim.input
EntryOf(g) == log[g][JobOf(g)]

Faulty == faults < MaxFaults /\ faults' = faults + 1
NoFault == UNCHANGED faults

-----------------------------------------------------------------------------
(***************************************************************************)
(* The server as a gate sees it                                            *)
(***************************************************************************)
NewJob == [status |-> "absent"]
ServerJobs ==
    {NewJob} \cup [status : {"built", "signing", "succeeded", "failed"}, input : Inputs,
                   attempt : Nat, failures : Nat, by : SUBSET Gates, uploaded : SUBSET Nat]

IsReleased(j) == server[j].status = "succeeded"
Increasing(j) == \A k \in Jobs : IsReleased(k) => NumberOf[k] < NumberOf[j]

IsOf(g, claim) ==
    /\ server[claim.job].attempt = claim.attempt
    /\ server[claim.job].by = {g}
    /\ g \notin retired
Current(g, claim) == server[claim.job].status = "signing" /\ IsOf(g, claim)

(* Nothing with a lower number is still to be signed.                      *)
IsCandidate(j) ==
    /\ server[j].status = "built"
    /\ \A k \in Jobs : server[k].status \in {"built", "signing"} => NumberOf[j] <= NumberOf[k]

SetJob(j, status) == server' = [server EXCEPT ![j].status = status]
BackToBuilt(j) == [server EXCEPT ![j].status = "built", ![j].uploaded = {}]
SigningFailed(j) ==
    [server EXCEPT ![j].failures = @ + 1, ![j].uploaded = {},
                   ![j].status = IF server[j].failures + 1 >= MaxSignFailures THEN "failed" ELSE "built"]

BuiltJob(input) ==
    [status |-> "built", input |-> input, attempt |-> 0, failures |-> 0, by |-> {}, uploaded |-> {}]

(* No two jobs of one number are under way or released.                    *)
NumberIsFree(j) ==
    \A k \in Jobs : NumberOf[k] = NumberOf[j] => server[k].status \in {"absent", "failed"}

Build(j, input) ==
    /\ server[j].status = "absent"
    /\ NumberIsFree(j)
    /\ server' = [server EXCEPT ![j] = BuiltJob(input)]
    /\ UNCHANGED <<records, roles, history, run, requests, faults, restores>>

(* The heartbeats of an attempt stopped: nobody works on it any more, or   *)
(* they are late.                                                          *)
Reap(j) ==
    /\ server[j].status = "signing"
    /\ IF \E g \in Gates : Works(g) /\ run[g].claim.job = j /\ Current(g, run[g].claim)
       THEN Faulty
       ELSE NoFault
    /\ server' = SigningFailed(j)
    /\ UNCHANGED <<records, roles, history, run, requests, restores>>

(* The server's database returns to a backup: some jobs are unsigned again *)
(* and may have been built anew, some were not there yet.  Requests under  *)
(* way die with the server.                                                *)
Restore(back, gone, input) ==
    /\ restores < MaxRestores
    /\ \A j \in back : server[j].status # "absent"
    /\ server' = [j \in Jobs |-> IF j \in gone THEN NewJob
                                ELSE IF j \in back THEN BuiltJob(input[j]) ELSE server[j]]
    /\ \A j \in back, k \in Jobs \ back :
           NumberOf[j] = NumberOf[k] => server'[k].status \in {"absent", "failed"}
    /\ \A j, k \in back : NumberOf[j] = NumberOf[k] => j = k
    /\ requests' = {}
    /\ restores' = restores + 1
    /\ UNCHANGED <<records, roles, history, run, faults>>

-----------------------------------------------------------------------------
(***************************************************************************)
(* The daemon: signer run                                                  *)
(***************************************************************************)

(* The lock is taken and the files are verified from the first line.       *)
Start(g) ==
    /\ At(g, "down")
    /\ g \notin retired /\ g \notin torn
    /\ Goes(g, Idle)
    /\ UNCHANGED <<records, roles, history, server, requests, faults, restores>>

Crash(g) ==
    /\ ~At(g, "down")
    /\ Faulty
    /\ Goes(g, Down)
    /\ UNCHANGED <<records, roles, history, server, requests, restores>>

(* An operator looks at half a line and cuts it off.                       *)
Repair(g) ==
    /\ At(g, "down") /\ g \in torn /\ g \notin retired
    /\ torn' = torn \ {g}
    /\ UNCHANGED <<log, baseline, roles, history, run, server, requests, faults, restores>>

(* A primary claims a job, and the server gives it the next attempt: the   *)
(* answer arrives, or is lost.                                             *)
Claim(g, j) ==
    /\ At(g, "idle")
    /\ role[g] = "primary" /\ latest = {g} /\ g \notin retired
    /\ IsCandidate(j)
    /\ IF ~Increasing(j)
       THEN SetJob(j, "failed") /\ UNCHANGED run /\ NoFault
       ELSE /\ server' = [server EXCEPT ![j].status = "signing", ![j].attempt = @ + 1,
                                        ![j].by = {g}, ![j].uploaded = {}]
            /\ \/ /\ Goes(g, [step |-> "look",
                              claim |-> [job |-> j, attempt |-> server[j].attempt + 1,
                                         input |-> server[j].input],
                              seen |-> {}, releasable |-> FALSE, package |-> 0,
                              outcome |-> "none", fatal |-> FALSE])
                  /\ NoFault
               \/ UNCHANGED run /\ Faulty
    /\ UNCHANGED <<records, roles, history, requests, restores>>

(* A job that is delivered, or reserved for another input, is refused; for *)
(* the others the checker is told what is taken.                           *)
Look(g) ==
    /\ At(g, "look")
    /\ IF Live(EntryOf(g)) /\ (EntryOf(g).input # InputOf(g) \/ EntryOf(g).status = "completed")
       THEN Goes(g, Reporting(g, "violation", FALSE))
       ELSE Goes(g, [To(g, "check") EXCEPT !.seen = Taken(g, JobOf(g), InputOf(g))])
    /\ UNCHANGED <<records, roles, history, server, requests, faults, restores>>

(* The package is downloaded and checked in a process of its own.          *)
Check_Resumed(g) ==
    /\ At(g, "check")
    /\ IF InputOf(g) \notin Unsound
             /\ (Live(EntryOf(g)) \/ WithinLimits(CodeOf(g), run[g].seen))
       THEN Goes(g, To(g, "reserve"))
       ELSE Goes(g, Reporting(g, "violation", FALSE))
    /\ UNCHANGED <<records, roles, history, server, requests, faults, restores>>
Check(g) ==
    /\ At(g, "check")
    /\ IF WithinLimits(CodeOf(g), run[g].seen) /\ InputOf(g) \notin Unsound
       THEN Goes(g, To(g, "reserve"))
       ELSE Goes(g, Reporting(g, "violation", FALSE))
    /\ UNCHANGED <<records, roles, history, server, requests, faults, restores>>

(* What Reserve finds in the log: the code is held by this job for this    *)
(* input, or it may be reserved, or the claim breaks a rule.               *)
Resumes(g) == /\ JobOf(g) \in Holder(g, CodeOf(g))
              /\ IsFor(EntryOf(g), InputOf(g))
MayReserve(g) ==
    /\ Holder(g, CodeOf(g)) = {}
    /\ ~Live(EntryOf(g))
    /\ WithinLimits(CodeOf(g), Taken(g, JobOf(g), InputOf(g)))

(* The reservation of an earlier attempt is taken up again, and no line    *)
(* written.  Reserve repeats every check made before; that it finds        *)
(* nothing new is the property RunAndLogAgree.                             *)
Resume(g) ==
    /\ At(g, "reserve")
    /\ Resumes(g) /\ EntryOf(g).status # "completed"
    /\ Goes(g, [To(g, "sign") EXCEPT !.releasable = (EntryOf(g).status = "reserved")])
    /\ UNCHANGED <<records, roles, history, server, requests, faults, restores>>

(* The keystore is opened and the package signed: every signature gives    *)
(* other bytes.                                                            *)
Sign(g) ==
    /\ At(g, "sign")
    /\ packages < MaxPackages
    /\ packages' = packages + 1
    /\ Goes(g, [To(g, "mark") EXCEPT !.package = packages + 1])
    /\ UNCHANGED <<records, roles, server, requests, sent, released, faults, restores>>

(* The line a step adds to the log, where it may add one.                  *)
Line_KeepsFirst(g) ==
    CASE At(g, "reserve") -> [status |-> "reserved", input |-> InputOf(g), package |-> 0]
      [] At(g, "mark")    -> [status |-> "signed", input |-> InputOf(g),
                              package |-> IF EntryOf(g).status = "signed" THEN EntryOf(g).package
                                          ELSE run[g].package]
      [] At(g, "record")  -> [EntryOf(g) EXCEPT !.status = "completed"]
      [] At(g, "unsent")  -> [EntryOf(g) EXCEPT !.status = "abandoned"]
Line_Delivered(g) ==
    CASE At(g, "reserve") -> [status |-> "reserved", input |-> InputOf(g), package |-> 0]
      [] At(g, "mark")    -> [status |-> "signed", input |-> InputOf(g), package |-> run[g].package]
      [] At(g, "record")  -> [EntryOf(g) EXCEPT !.status = "delivered"]
      [] At(g, "unsent")  -> [EntryOf(g) EXCEPT !.status = "abandoned"]
Line(g) ==
    CASE At(g, "reserve") -> [status |-> "reserved", input |-> InputOf(g), package |-> 0]
      [] At(g, "mark")    -> [status |-> "signed", input |-> InputOf(g), package |-> run[g].package]
      [] At(g, "record")  -> [EntryOf(g) EXCEPT !.status = "completed"]
      [] At(g, "unsent")  -> [EntryOf(g) EXCEPT !.status = "abandoned"]

MayWrite(g) ==
    \/ At(g, "reserve") /\ ~Resumes(g) /\ MayReserve(g)
    \/ At(g, "mark") /\ IsFor(EntryOf(g), InputOf(g)) /\ EntryOf(g).status \in {"reserved", "signed"}
    \/ /\ At(g, "record")
       /\ EntryOf(g).status = "signed"
       /\ EntryOf(g).input = InputOf(g) /\ EntryOf(g).package = run[g].package
    \/ At(g, "unsent") /\ EntryOf(g).status = "reserved"

(* Where the daemon goes once the line is written.                         *)
Written(g) ==
    CASE At(g, "reserve") -> [To(g, "sign") EXCEPT !.releasable = TRUE]
      [] At(g, "mark")    -> [To(g, "upload") EXCEPT !.releasable = FALSE]
      [] At(g, "record")  -> Idle
      [] At(g, "unsent")  -> To(g, "report")

(* Reserve, MarkSigned, Complete or Abandon writes its line.               *)
Write(g) ==
    /\ MayWrite(g)
    /\ Appends(g, JobOf(g), Line(g))
    /\ Goes(g, Written(g))
    /\ UNCHANGED <<roles, history, server, requests, faults, restores>>

(* Where the daemon goes when the log cannot take the line: it reports and *)
(* ends, or has nothing left to report.                                    *)
Unwritten(g) ==
    IF At(g, "record") THEN Down
    ELSE Reporting(g, IF At(g, "unsent") THEN run[g].outcome ELSE "deferred", TRUE)

WriteBreaks(g) ==
    /\ MayWrite(g)
    /\ Faulty
    /\ AppendsHalf(g, JobOf(g), Line(g))
    /\ \/ Goes(g, Unwritten(g))
       \/ Goes(g, Down)
    /\ UNCHANGED <<roles, history, server, requests, restores>>

(* From here on bytes leave the machine.  The server takes an upload of    *)
(* the current attempt; when its answer is lost the upload is repeated.    *)
Upload(g) ==
    /\ At(g, "upload")
    /\ sent' = sent \cup {[gate |-> g, job |-> JobOf(g), input |-> InputOf(g),
                           package |-> run[g].package]}
    /\ IF Current(g, run[g].claim)
       THEN /\ server' = [server EXCEPT ![JobOf(g)].uploaded = {run[g].package}]
            /\ \/ Goes(g, To(g, "complete")) /\ NoFault
               \/ UNCHANGED run /\ Faulty
       ELSE Goes(g, Reporting(g, "stale", FALSE)) /\ UNCHANGED server /\ NoFault
    /\ UNCHANGED <<records, roles, requests, packages, released, restores>>

(* The completion is on its way, once or, with no answer, again.           *)
Complete(g) ==
    /\ run[g].step \in {"complete", "waiting"}
    /\ requests' = requests \cup {[gate |-> g, claim |-> run[g].claim, package |-> run[g].package]}
    /\ requests' # requests
    /\ Goes(g, To(g, "waiting"))
    /\ UNCHANGED <<records, roles, history, server, faults, restores>>

(* The server handles a completion, whether or not its sender still waits. *)
(* The one it accepted before gets the same answer again.                  *)
Delivers(r) == server[r.claim.job].uploaded = {r.package}
Accepts(r) == Current(r.gate, r.claim) /\ Delivers(r) /\ Increasing(r.claim.job)
Accepted(r) == IsReleased(r.claim.job) /\ IsOf(r.gate, r.claim) /\ Delivers(r)

Answered(r) ==
    IF Accepts(r) \/ Accepted(r) THEN To(r.gate, "record")
    ELSE Reporting(r.gate, IF ~Current(r.gate, r.claim) THEN "stale"
                           ELSE IF ~Delivers(r) THEN "violation" ELSE "transient", FALSE)

Handle(r) ==
    LET g == r.gate IN
    /\ requests' = requests \ {r}
    /\ IF Accepts(r)
       THEN /\ SetJob(r.claim.job, "succeeded")
            /\ released' = released \cup {[job |-> r.claim.job, input |-> r.claim.input,
                                           package |-> r.package]}
       ELSE UNCHANGED <<server, released>>
    /\ IF At(g, "waiting") /\ run[g].claim = r.claim /\ run[g].package = r.package
       THEN \/ Goes(g, Answered(r)) /\ NoFault
            \/ UNCHANGED run /\ Faulty
       ELSE UNCHANGED run /\ NoFault
    /\ UNCHANGED <<records, roles, packages, sent, restores>>

(* A step fails: the network, the keystore, the signing tool, a signal.    *)
Fail(g, kind, fatal) ==
    /\ run[g].step \in {"look", "check", "sign", "mark", "upload", "waiting"}
    /\ Faulty
    /\ Goes(g, Unsent(g, kind, fatal))
    /\ UNCHANGED <<records, roles, history, server, requests, restores>>

(* A heartbeat was answered: this attempt is not yours any more.           *)
Interrupted(g) ==
    /\ run[g].step \in {"look", "check", "sign", "mark", "upload", "waiting"}
    /\ ~Current(g, run[g].claim)
    /\ Goes(g, Unsent(g, "stale", FALSE))
    /\ UNCHANGED <<records, roles, history, server, requests, faults, restores>>

(* The outcome is reported, if the report arrives and the attempt is still *)
(* the current one.                                                        *)
Report(g) ==
    /\ At(g, "report")
    /\ LET j == JobOf(g) IN
        \/ /\ IF Current(g, run[g].claim)
              THEN CASE run[g].outcome = "deferred"  -> server' = BackToBuilt(j)
                     [] run[g].outcome = "transient" -> server' = SigningFailed(j)
                     [] run[g].outcome = "violation" ->
                            server' = [server EXCEPT ![j].status = "failed", ![j].uploaded = {}]
                     [] OTHER -> UNCHANGED server
              ELSE UNCHANGED server
           /\ NoFault
        \/ UNCHANGED server /\ Faulty
    /\ Goes(g, IF run[g].fatal THEN Down ELSE Idle)
    /\ UNCHANGED <<records, roles, history, requests, restores>>

-----------------------------------------------------------------------------
(***************************************************************************)
(* The operator, with the daemon stopped                                   *)
(***************************************************************************)
Stopped(g) == At(g, "down") /\ g \notin retired /\ g \notin torn

Abandon_Shared(g, j) ==
    /\ g \notin retired /\ g \notin torn
    /\ log[g][j].status = "reserved"
    /\ Appends(g, j, [log[g][j] EXCEPT !.status = "abandoned"])
    /\ UNCHANGED <<roles, history, run, server, requests, faults, restores>>
Abandon(g, j) ==
    /\ Stopped(g)
    /\ log[g][j].status = "reserved"
    /\ Appends(g, j, [log[g][j] EXCEPT !.status = "abandoned"])
    /\ UNCHANGED <<roles, history, run, server, requests, faults, restores>>

(* The old primary is stopped and revoked before another is promoted.      *)
Retire(g) ==
    /\ role[g] = "primary" /\ g \notin retired
    /\ retired' = retired \cup {g}
    /\ Goes(g, Down)
    /\ UNCHANGED <<records, role, latest, history, server, requests, faults, restores>>

(* The command asks for both, and nothing but the operator sees to it: the *)
(* old primary is stopped and revoked, and one gate is promoted at a time. *)
IsPromoted(g) == run[g].step \in {"baselines", "role"}
MayPromote(g) ==
    /\ Stopped(g) /\ role[g] = "standby"
    /\ latest \subseteq retired
    /\ \A h \in Gates : ~IsPromoted(h)

BecomesPrimary(g) ==
    /\ role' = [role EXCEPT ![g] = "primary"]
    /\ latest' = {g}
    /\ UNCHANGED retired

(* promote --first: nothing was ever signed, here or by another primary.   *)
PromoteFirst(g) ==
    /\ MayPromote(g)
    /\ latest = {}
    /\ baseline[g] = 0 /\ \A j \in Jobs : log[g][j] = NoEntry
    /\ BecomesPrimary(g)
    /\ UNCHANGED <<records, history, run, server, requests, faults, restores>>

(* promote --import: the lines of the old primary that still hold, those   *)
(* already here left out.  A conflict refuses them all.                    *)
Same(g, old, j) == Live(log[g][j]) /\ log[g][j] = log[old][j]
Imported_Completed(g, old) ==
    {j \in Jobs : log[old][j].status = "completed" /\ ~Same(g, old, j)}
Imported_Open(g, old) ==
    {j \in Jobs : log[old][j].status \in {"reserved", "signed"} /\ ~Same(g, old, j)}
Imported(g, old) == {j \in Jobs : Live(log[old][j]) /\ ~Same(g, old, j)}
Importable(g, old) ==
    \A j \in Imported(g, old) : ~Live(log[g][j]) /\ Holder(g, NumberOf[j]) = {}
Merged(g, old, new) == [log EXCEPT ![g] = [j \in Jobs |-> IF j \in new THEN log[old][j] ELSE @[j]]]

Import(g, old) ==
    /\ MayPromote(g)
    /\ latest = {old} /\ old \notin torn
    /\ Importable(g, old)
    /\ log' = Merged(g, old, Imported(g, old))
    /\ Goes(g, [step |-> "baselines", from |-> {old}])
    /\ UNCHANGED <<baseline, torn, roles, history, server, requests, faults, restores>>

(* The write broke off after some of the lines, perhaps within one.        *)
ImportBreaks(g, old) ==
    /\ MayPromote(g)
    /\ latest = {old} /\ old \notin torn
    /\ Importable(g, old)
    /\ Faulty
    /\ \E new \in SUBSET Imported(g, old) : log' = Merged(g, old, new)
    /\ torn' \in {torn, torn \cup {g}}
    /\ UNCHANGED <<baseline, roles, history, run, server, requests, restores>>

(* A baseline never goes down.                                             *)
Raise(g, code) == baseline' = [baseline EXCEPT ![g] = IF code > @ THEN code ELSE @]

ImportBaselines(g) ==
    /\ At(g, "baselines")
    /\ \E old \in run[g].from : Raise(g, baseline[old])
    /\ Goes(g, [run[g] EXCEPT !.step = "role"])
    /\ UNCHANGED <<log, torn, roles, history, server, requests, faults, restores>>

(* promote --manual: the records of the old primary are gone; the operator *)
(* enters the highest code among the releases.                             *)
ReleasedCodes == {NumberOf[r.job] : r \in released}
PromoteManual(g) ==
    /\ MayPromote(g)
    /\ latest # {}
    /\ \/ ReleasedCodes = {} /\ UNCHANGED baseline
       \/ \E code \in ReleasedCodes : (\A x \in ReleasedCodes : x <= code) /\ Raise(g, code)
    /\ Goes(g, [step |-> "role", from |-> {}])
    /\ UNCHANGED <<log, torn, roles, history, server, requests, faults, restores>>

(* The last line of a promotion, in the other file.                        *)
Promote(g) ==
    /\ At(g, "role")
    /\ BecomesPrimary(g)
    /\ Goes(g, Down)
    /\ UNCHANGED <<records, history, server, requests, faults, restores>>
-----------------------------------------------------------------------------
Init ==
    /\ log = [g \in Gates |-> [j \in Jobs |-> NoEntry]]
    /\ baseline = [g \in Gates |-> 0]
    /\ torn = {} /\ retired = {} /\ latest = {} /\ requests = {}
    /\ role = [g \in Gates |-> "standby"]
    /\ run = [g \in Gates |-> Down]
    /\ server = [j \in Jobs |-> NewJob]
    /\ packages = 0 /\ sent = {} /\ released = {}
    /\ faults = 0 /\ restores = 0

Daemon(g) ==
    \/ Start(g) \/ (\E j \in Jobs : Claim(g, j))
    \/ Look(g) \/ Check(g) \/ Resume(g) \/ Sign(g) \/ Write(g)
    \/ Upload(g) \/ Complete(g) \/ Report(g)

Trouble(g) ==
    \/ Crash(g) \/ Repair(g) \/ WriteBreaks(g) \/ Interrupted(g)
    \/ \E kind \in FailureKinds, fatal \in BOOLEAN : Fail(g, kind, fatal)

Operator(g) ==
    \/ \E j \in Jobs : Abandon(g, j)
    \/ Retire(g) \/ PromoteFirst(g) \/ PromoteManual(g)
    \/ \E old \in Gates : Import(g, old) \/ ImportBreaks(g, old)
    \/ ImportBaselines(g) \/ Promote(g)

Server ==
    \/ \E j \in Jobs, input \in Inputs : Build(j, input)
    \/ \E back \in SUBSET Jobs : \E gone \in SUBSET (Jobs \ back), input \in [back -> Inputs] :
           Restore(back, gone, input)
    \/ \E j \in Jobs : Reap(j)
    \/ \E r \in requests : Handle(r)

Next == (\E g \in Gates : Daemon(g) \/ Trouble(g) \/ Operator(g)) \/ Server
Spec == Init /\ [][Next]_vars

(* A daemon that runs keeps running its loop, one that died is started     *)
(* again by systemd, half a line is looked at, the server handles what     *)
(* reached it and reaps what went silent.                                  *)
FairSpec ==
    /\ Spec
    /\ \A g \in Gates : WF_vars(Daemon(g)) /\ WF_vars(Repair(g))
    /\ \A j \in Jobs : WF_vars(Reap(j))
    /\ WF_vars(\E r \in requests : Handle(r))

-----------------------------------------------------------------------------
(***************************************************************************)
(* What holds                                                              *)
(***************************************************************************)
Packages == [gate : Gates, job : Jobs, input : Inputs, package : Nat]

(* Every variable has its type.                                            *)
TypeOK ==
    /\ log \in [Gates -> [Jobs -> Entries]]
    /\ baseline \in [Gates -> Nat]
    /\ torn \subseteq Gates /\ latest \subseteq Gates /\ retired \subseteq Gates
    /\ role \in [Gates -> {"standby", "primary"}]
    /\ run \in [Gates -> {Down, Idle} \cup Promoting \cup Working]
    /\ server \in [Jobs -> ServerJobs]
    /\ requests \subseteq [gate : Gates, claim : Claims, package : Nat]
    /\ packages \in Nat /\ faults \in Nat /\ restores \in Nat
    /\ sent \subseteq Packages
    /\ released \subseteq [job : Jobs, input : Inputs, package : Nat]

(* A gate never lets two different packages with one version code out:     *)
(* whatever jobs the server sends, and wherever the gate died (the promise *)
(* of Reserve, MarkSigned and Abandon).                                    *)
OneInputPerCode ==
    \A s, t \in sent :
        s.gate = t.gate /\ NumberOf[s.job] = NumberOf[t.job] => s.job = t.job /\ s.input = t.input

(* Whatever left a gate is in its log, signed, for good: written before    *)
(* the first byte left, never given back, replaced only by a later         *)
(* signature of the same input (run.go: the line is on disk before the     *)
(* package leaves the machine).                                            *)
SentIsRecorded ==
    \A s \in sent : LET e == log[s.gate][s.job] IN
        /\ e.status \in {"signed", "completed"}
        /\ e.input = s.input
        /\ s.package <= e.package

(* Between the steps of a daemon nobody changes its reservation: what it   *)
(* looked at is still so when Reserve, MarkSigned, Complete and Abandon    *)
(* check it again, and none of them refuses its line (cli.go, exclusive:   *)
(* abandon and promote take the run lock).                                 *)
RunAndLogAgree ==
    \A g \in Gates :
        /\ At(g, "reserve") => MayWrite(g) \/ (Resumes(g) /\ EntryOf(g).status # "completed")
        /\ run[g].step \in {"mark", "record", "unsent"} => MayWrite(g)

(* What the server has released is the package the gate recorded last,     *)
(* although answers are lost and attempts repeated.                        *)
ReleaseIsRecorded ==
    \A j \in Jobs : IsReleased(j) =>
        \A g \in server[j].by : LET e == log[g][j] IN
            e.status \in {"signed", "completed"} /\ {e.package} = server[j].uploaded

(* The gate that was promoted last knows every release there ever was, by  *)
(* its log or by its baseline, also when the server has forgotten it: this *)
(* is what a promotion has to carry over (Promote, Import, SetBaseline).   *)
Knows(g, r) ==
    \/ /\ log[g][r.job].status \in {"signed", "completed"}
       /\ log[g][r.job].input = r.input
    \/ NumberOf[r.job] <= baseline[g]
PrimaryKnowsTheReleases == \A g \in latest : \A r \in released : Knows(g, r)

(* No two releases that ever were have one version code and different      *)
(* contents: not after a backup was restored, not after a promotion.       *)
OneReleasePerCode ==
    \A r, q \in released : NumberOf[r.job] = NumberOf[q.job] => r.job = q.job /\ r.input = q.input

(* A release is above all earlier ones, those included that the server     *)
(* forgot with its backup; only the same job may be delivered again.       *)
ReleasedCodesRise ==
    [][\A r \in released' \ released : \A q \in released :
           q.job = r.job \/ NumberOf[q.job] < NumberOf[r.job]]_vars

(* A job that some gate knows to be delivered is not signed again          *)
(* (JOB_ALREADY_COMPLETED), and a gate sends only while it is the primary. *)
DeliveredIsNotSentAgain ==
    [][\A s \in sent' \ sent :
           /\ latest = {s.gate}
           /\ \A g \in Gates : log[g][s.job].status # "completed"]_vars

(* As long as fewer things go wrong than the server tolerates and there is *)
(* a primary, a job is released in the end, wherever its gate was when     *)
(* they did: no crash, no torn line and no lost answer leaves a            *)
(* reservation in its own way.                                             *)
HasPrimary == ~(latest \subseteq retired)
DeliveredAfterAll ==
    \A j \in Jobs : server[j].status = "built" /\ HasPrimary ~> IsReleased(j) \/ ~HasPrimary

(* build_jobs.go of failed jobs: they have no product, their number was    *)
(* never used.                                                             *)
FailedNumbersAreUnused ==
    \A j \in Jobs, g \in Gates :
        server[j].status = "failed" => log[g][j].status \notin {"signed", "completed"}
=============================================================================
