------------------------- MODULE SigningGatesProofs -------------------------
(***************************************************************************)
(* What SigningGates promises of a single gate, for any number of gates,   *)
(* jobs and faults: its types, one package per version code, the record    *)
(* before the package leaves, and that a release is what the log says.     *)
(* In the last part, what it promises of all gates together: that the      *)
(* primary knows every release, across promotions and restored backups.    *)
(***************************************************************************)
EXTENDS SigningGates, TLAPS

-----------------------------------------------------------------------------
(***************************************************************************)
(* The inductive invariant                                                 *)
(***************************************************************************)

(* A reservation that is not delivered, and one whose package may be out.  *)
Open(e) == e.status \in {"reserved", "signed"}
Final(e) == e.status \in {"signed", "completed"}

(* A version code is held by one job of a gate.                            *)
OneHolder ==
    \A g \in Gates : \A j, k \in Jobs :
        Live(log[g][j]) /\ Live(log[g][k]) /\ NumberOf[j] = NumberOf[k] => j = k

(* Every package in a log was made.                                        *)
PackagesAreMade ==
    \A g \in Gates, j \in Jobs : log[g][j].status # "none" => log[g][j].package <= packages

(* What a working daemon knows of its log, step by step.                   *)
NothingSent(g) == run[g].step \in {"look", "check", "reserve"} => ~run[g].releasable
MayGoOn(g) ==
    run[g].step \in {"check", "reserve"} =>
        /\ Live(EntryOf(g)) => Open(EntryOf(g)) /\ EntryOf(g).input = InputOf(g)
        /\ run[g].seen = Taken(g, JobOf(g), InputOf(g))
CodeIsFree(g) == At(g, "reserve") => WithinLimits(CodeOf(g), run[g].seen)
IsReserved(g) ==
    run[g].step \in {"sign", "mark"} =>
        /\ Open(EntryOf(g)) /\ EntryOf(g).input = InputOf(g)
        /\ run[g].releasable => EntryOf(g).status = "reserved"
IsNewer(g) == At(g, "mark") => EntryOf(g).package <= run[g].package /\ run[g].package <= packages
IsUnsent(g) == At(g, "unsent") => EntryOf(g).status = "reserved"
IsMarked(g) ==
    run[g].step \in {"upload", "complete", "waiting", "record"} =>
        /\ ~run[g].releasable
        /\ EntryOf(g) = [status |-> "signed", input |-> InputOf(g), package |-> run[g].package]
KnowsItsLog(g) ==
    /\ NothingSent(g) /\ MayGoOn(g) /\ CodeIsFree(g) /\ IsReserved(g)
    /\ IsNewer(g) /\ IsUnsent(g) /\ IsMarked(g)
RunsKnow == \A g \in Gates : KnowsItsLog(g)

(* The server has an upload of the current attempt only once it was        *)
(* recorded, and the record has not changed since.                         *)
Claimed(j) == server[j].status \in {"signing", "succeeded"}
OneSigner == \A j \in Jobs : Claimed(j) => \E g \in Gates : server[j].by = {g}
UploadIsRecorded ==
    \A j \in Jobs, g \in Gates :
        Claimed(j) /\ server[j].by = {g} =>
            \/ server[j].uploaded = {} /\ ~IsReleased(j)
            \/ Final(log[g][j]) /\ server[j].uploaded = {log[g][j].package}

(* The steps before an upload.                                             *)
Early == {"look", "check", "reserve", "sign", "mark", "unsent"}
NotYetUploaded ==
    \A g \in Gates :
        /\ run[g].step \in Early
        /\ Claimed(JobOf(g))
        /\ server[JobOf(g)].by = {g}
        => server[JobOf(g)].uploaded = {}

(* What a gate knows, and what the server has of it.                       *)
GateInv == OneHolder /\ PackagesAreMade /\ RunsKnow /\ SentIsRecorded
ServerInv == OneSigner /\ UploadIsRecorded /\ NotYetUploaded
IInv == TypeOK /\ GateInv /\ ServerInv

-----------------------------------------------------------------------------
(***************************************************************************)
(* Type correctness                                                        *)
(***************************************************************************)

(* The states of a process.                                                *)
Runs == {Down, Idle} \cup Promoting \cup Working

(* A process that works on a job has the local variables of sign.          *)
LEMMA WorkingRun ==
    ASSUME TypeOK, NEW g \in Gates, Works(g)
    PROVE  /\ run[g] \in Working
           /\ run[g].claim \in Claims /\ JobOf(g) \in Jobs /\ InputOf(g) \in Inputs
           /\ CodeOf(g) \in Nat \ {0} /\ EntryOf(g) \in Entries
<1>1. run[g] \in {Down, Idle} \cup Promoting \cup Working
  BY DEF TypeOK
<1>2. run[g] \in Working
  BY <1>1 DEF Works, WorkSteps, Down, Idle, Promoting
<1>3. run[g].claim \in Claims
  BY <1>2 DEF Working
<1>4. JobOf(g) \in Jobs /\ InputOf(g) \in Inputs
  BY <1>3 DEF Claims, JobOf, InputOf
<1> QED
  BY <1>2, <1>3, <1>4, NumbersAssumption DEF CodeOf, EntryOf, TypeOK

(* Where a working process can go.                                         *)
LEMMA NextRun ==
    ASSUME TypeOK, NEW g \in Gates, Works(g)
    PROVE  /\ \A s \in WorkSteps : To(g, s) \in Working
           /\ \A s \in WorkSteps, b \in BOOLEAN : [To(g, s) EXCEPT !.releasable = b] \in Working
           /\ \A s \in WorkSteps, x \in SUBSET Nat : [To(g, s) EXCEPT !.seen = x] \in Working
           /\ \A s \in WorkSteps, p \in Nat : [To(g, s) EXCEPT !.package = p] \in Working
           /\ \A o \in Outcomes, b \in BOOLEAN : Reporting(g, o, b) \in Working
           /\ \A o \in Outcomes, b \in BOOLEAN : Unsent(g, o, b) \in Working
<1>1. run[g] \in Working
  BY WorkingRun
<1>2. \A s \in WorkSteps : To(g, s) \in Working
  BY <1>1 DEF To, Working
<1>3. \A o \in Outcomes, b \in BOOLEAN : Reporting(g, o, b) \in Working
  BY <1>1 DEF Reporting, Working, WorkSteps
<1>4. \A o \in Outcomes, b \in BOOLEAN : Unsent(g, o, b) \in Working
  BY <1>3 DEF Unsent, Working, WorkSteps
<1> QED
  BY <1>2, <1>3, <1>4 DEF Working

(* A reservation has the fields of one.                                    *)
LEMMA EntryFields ==
    ASSUME TypeOK, NEW g \in Gates, NEW j \in Jobs, log[g][j].status # "none"
    PROVE  /\ log[g][j] \in [status : Statuses, input : Inputs, package : Nat]
           /\ \A s \in Statuses : [log[g][j] EXCEPT !.status = s] \in Entries
<1>1. log[g][j] \in Entries
  BY DEF TypeOK
<1>2. log[g][j] \in [status : Statuses, input : Inputs, package : Nat]
  BY <1>1 DEF Entries, NoEntry
<1> QED
  BY <1>2 DEF Entries

(* The line a step writes is an entry.                                     *)
LEMMA LineIsEntry ==
    ASSUME TypeOK, NEW g \in Gates, Works(g), MayWrite(g)
    PROVE  Line(g) \in Entries
<1>1. JobOf(g) \in Jobs /\ InputOf(g) \in Inputs /\ run[g].package \in Nat
  BY WorkingRun DEF Working
<1>2. CASE At(g, "reserve")
  BY <1>1, <1>2 DEF Line, Entries, Statuses, At
<1>3. CASE At(g, "mark")
  BY <1>1, <1>3 DEF Line, Entries, Statuses, At
<1>4. CASE At(g, "record")
  <2>1. EntryOf(g).status = "signed"
    BY <1>4 DEF MayWrite, At
  <2> QED
    BY <2>1, <1>1, <1>4, EntryFields DEF Line, EntryOf, Statuses, At
<1>5. CASE At(g, "unsent")
  <2>1. EntryOf(g).status = "reserved"
    BY <1>5 DEF MayWrite, At
  <2> QED
    BY <2>1, <1>1, <1>5, EntryFields DEF Line, EntryOf, Statuses, At
<1> QED
  BY <1>2, <1>3, <1>4, <1>5 DEF MayWrite

(* An entry added to a log, or half of it, leaves a log.                   *)
LEMMA AppendedType ==
    ASSUME TypeOK, NEW g \in Gates, NEW j \in Jobs, NEW e \in Entries,
           Appends(g, j, e) \/ AppendsHalf(g, j, e)
    PROVE  /\ log' \in [Gates -> [Jobs -> Entries]] /\ baseline' \in [Gates -> Nat]
           /\ torn' \subseteq Gates
<1>1. [log EXCEPT ![g][j] = e] \in [Gates -> [Jobs -> Entries]]
  BY DEF TypeOK
<1> QED
  BY <1>1 DEF Appends, AppendsHalf, TypeOK

(* The jobs of the server stay jobs.                                       *)
LEMMA JobFields ==
    ASSUME TypeOK, NEW j \in Jobs, server[j].status # "absent"
    PROVE  server[j] \in [status : {"built", "signing", "succeeded", "failed"}, input : Inputs,
                          attempt : Nat, failures : Nat, by : SUBSET Gates, uploaded : SUBSET Nat]
  BY DEF TypeOK, ServerJobs, NewJob

(* What the server does to a job leaves a job.                             *)
LEMMA JobMoves ==
    ASSUME TypeOK, NEW j \in Jobs, server[j].status # "absent"
    PROVE  /\ \A s \in {"built", "signing", "succeeded", "failed"} :
                  [server EXCEPT ![j].status = s] \in [Jobs -> ServerJobs]
           /\ \A s \in {"built", "failed"} :
                  [server EXCEPT ![j].status = s, ![j].uploaded = {}] \in [Jobs -> ServerJobs]
           /\ SigningFailed(j) \in [Jobs -> ServerJobs]
           /\ \A u \in SUBSET Nat : [server EXCEPT ![j].uploaded = u] \in [Jobs -> ServerJobs]
           /\ \A g \in Gates : [server EXCEPT ![j].status = "signing", ![j].attempt = @ + 1,
                                             ![j].by = {g}, ![j].uploaded = {}] \in [Jobs -> ServerJobs]
<1> DEFINE Job == [status : {"built", "signing", "succeeded", "failed"}, input : Inputs,
                   attempt : Nat, failures : Nat, by : SUBSET Gates, uploaded : SUBSET Nat]
<1>1. server[j] \in Job /\ server \in [Jobs -> ServerJobs] /\ Job \subseteq ServerJobs
  BY JobFields DEF TypeOK, ServerJobs
<1>2. \A job \in Job : [server EXCEPT ![j] = job] \in [Jobs -> ServerJobs]
  BY <1>1
<1>3. ASSUME NEW s \in {"built", "signing", "succeeded", "failed"}, NEW u \in SUBSET Nat
      PROVE  /\ [server[j] EXCEPT !.status = s] \in Job
             /\ [server[j] EXCEPT !.uploaded = u] \in Job
             /\ [server[j] EXCEPT !.status = s, !.uploaded = u] \in Job
  BY <1>1
<1>4. ASSUME NEW s \in {"built", "failed"}
      PROVE  [server[j] EXCEPT !.failures = @ + 1, !.uploaded = {}, !.status = s] \in Job
  <2>1. server[j].failures + 1 \in Nat
    BY <1>1
  <2>2. [server[j] EXCEPT !.failures = server[j].failures + 1] \in Job
    BY <1>1, <2>1
  <2> QED
    BY <2>2
<1>5. ASSUME NEW g \in Gates
      PROVE  [server[j] EXCEPT !.status = "signing", !.attempt = @ + 1, !.by = {g},
                               !.uploaded = {}] \in Job
  <2>1. server[j].attempt + 1 \in Nat
    BY <1>1
  <2>2. [server[j] EXCEPT !.attempt = server[j].attempt + 1] \in Job
    BY <1>1, <2>1
  <2> QED
    BY <2>2
<1> HIDE DEF Job
<1>6. \A s \in {"built", "signing", "succeeded", "failed"} :
         [server EXCEPT ![j].status = s] \in [Jobs -> ServerJobs]
  BY <1>2, <1>3
<1>7. ASSUME NEW s \in {"built", "failed"}
      PROVE  [server EXCEPT ![j].status = s, ![j].uploaded = {}] \in [Jobs -> ServerJobs]
  <2>1. [server EXCEPT ![j].status = s, ![j].uploaded = {}]
           = [server EXCEPT ![j] = [server[j] EXCEPT !.status = s, !.uploaded = {}]]
    BY <1>1
  <2> QED
    BY <1>2, <1>3, <2>1
<1>8. SigningFailed(j) \in [Jobs -> ServerJobs]
  <2> DEFINE s == IF server[j].failures + 1 >= MaxSignFailures THEN "failed" ELSE "built"
  <2>1. SigningFailed(j) = [server EXCEPT ![j] =
           [server[j] EXCEPT !.failures = @ + 1, !.uploaded = {}, !.status = s]]
    BY <1>1 DEF SigningFailed
  <2> QED
    BY <1>2, <1>4, <2>1
<1>9. \A u \in SUBSET Nat : [server EXCEPT ![j].uploaded = u] \in [Jobs -> ServerJobs]
  BY <1>2, <1>3
<1>10. ASSUME NEW g \in Gates
       PROVE  [server EXCEPT ![j].status = "signing", ![j].attempt = @ + 1,
                             ![j].by = {g}, ![j].uploaded = {}] \in [Jobs -> ServerJobs]
  <2>1. [server EXCEPT ![j].status = "signing", ![j].attempt = @ + 1,
                       ![j].by = {g}, ![j].uploaded = {}]
           = [server EXCEPT ![j] = [server[j] EXCEPT !.status = "signing", !.attempt = @ + 1,
                                                     !.by = {g}, !.uploaded = {}]]
    BY <1>1
  <2> QED
    BY <1>2, <1>5, <2>1
<1> QED
  BY <1>6, <1>7, <1>8, <1>9, <1>10

(* A process goes to a state of a process.                                 *)
LEMMA RunType ==
    ASSUME TypeOK, NEW g \in Gates, NEW r \in Runs, Goes(g, r)
    PROVE  run' \in [Gates -> Runs]
  BY DEF Goes, TypeOK, Runs

(* Faults are counted.                                                     *)
LEMMA FaultType ==
    ASSUME TypeOK, Faulty \/ NoFault
    PROVE  faults' \in Nat
  BY DEF TypeOK, Faulty, NoFault

(* The daemon.                                                             *)
LEMMA DaemonType ==
    ASSUME TypeOK, NEW g \in Gates, Daemon(g)
    PROVE  TypeOK'
<1> USE DEF Runs
<1>1. CASE Start(g)
  <2>1. run' \in [Gates -> Runs]
    BY <1>1, RunType DEF Start
  <2> QED
    BY <1>1, <2>1 DEF Start, TypeOK, records, roles, history
<1>2. ASSUME NEW j \in Jobs, Claim(g, j) PROVE TypeOK'
  <2>1. server[j] \in [status : {"built", "signing", "succeeded", "failed"}, input : Inputs,
                      attempt : Nat, failures : Nat, by : SUBSET Gates, uploaded : SUBSET Nat]
    BY <1>2, JobFields DEF Claim, IsCandidate
  <2>2. server' \in [Jobs -> ServerJobs]
    <3>1. server[j].status # "absent"
      BY <1>2 DEF Claim, IsCandidate
    <3>2. /\ [server EXCEPT ![j].status = "failed"] \in [Jobs -> ServerJobs]
          /\ [server EXCEPT ![j].status = "signing", ![j].attempt = @ + 1,
                            ![j].by = {g}, ![j].uploaded = {}] \in [Jobs -> ServerJobs]
      BY <3>1, JobMoves
    <3> QED
      BY <1>2, <3>2 DEF Claim, SetJob
  <2>3. [step |-> "look",
         claim |-> [job |-> j, attempt |-> server[j].attempt + 1, input |-> server[j].input],
         seen |-> {}, releasable |-> FALSE, package |-> 0,
         outcome |-> "none", fatal |-> FALSE] \in Working
    BY <2>1 DEF Working, WorkSteps, Claims, Outcomes
  <2>4. run' \in [Gates -> Runs]
    <3> DEFINE r == [step |-> "look",
         claim |-> [job |-> j, attempt |-> server[j].attempt + 1, input |-> server[j].input],
         seen |-> {}, releasable |-> FALSE, package |-> 0,
         outcome |-> "none", fatal |-> FALSE]
    <3>1. run' = run \/ Goes(g, r)
      BY <1>2 DEF Claim
    <3>2. r \in Runs
      BY <2>3
    <3> HIDE DEF r
    <3>3. CASE Goes(g, r)
      BY <3>2, <3>3, RunType
    <3>4. CASE run' = run
      BY <3>4 DEF TypeOK
    <3> QED
      BY <3>1, <3>3, <3>4
  <2>5. faults' \in Nat
    BY <1>2, FaultType DEF Claim
  <2> QED
    BY <1>2, <2>2, <2>4, <2>5 DEF Claim, TypeOK, records, roles, history
<1>3. CASE Look(g)
  <2>1. Works(g)
    BY <1>3 DEF Look, At, Works, WorkSteps
  <2>2. Taken(g, JobOf(g), InputOf(g)) \in SUBSET Nat
    BY NumbersAssumption DEF Taken, TypeOK
  <2>3. run' \in [Gates -> Runs]
    BY <1>3, <2>1, <2>2, NextRun, RunType DEF Look, WorkSteps, Outcomes
  <2> QED
    BY <1>3, <2>3 DEF Look, TypeOK, records, roles, history
<1>4. CASE Check(g)
  <2>1. Works(g)
    BY <1>4 DEF Check, At, Works, WorkSteps
  <2>2. run' \in [Gates -> Runs]
    BY <1>4, <2>1, NextRun, RunType DEF Check, WorkSteps, Outcomes
  <2> QED
    BY <1>4, <2>2 DEF Check, TypeOK, records, roles, history
<1>5. CASE Resume(g)
  <2>1. Works(g)
    BY <1>5 DEF Resume, At, Works, WorkSteps
  <2>2. (EntryOf(g).status = "reserved") \in BOOLEAN /\ "sign" \in WorkSteps
    BY DEF WorkSteps
  <2>3. [To(g, "sign") EXCEPT !.releasable = (EntryOf(g).status = "reserved")] \in Working
    BY <2>1, <2>2, NextRun
  <2>4. run' \in [Gates -> Runs]
    BY <1>5, <2>3, RunType DEF Resume
  <2> QED
    BY <1>5, <2>4 DEF Resume, TypeOK, records, roles, history
<1>6. CASE Sign(g)
  <2>1. Works(g)
    BY <1>6 DEF Sign, At, Works, WorkSteps
  <2>2. packages + 1 \in Nat
    BY DEF TypeOK
  <2>3. run' \in [Gates -> Runs]
    BY <1>6, <2>1, <2>2, NextRun, RunType DEF Sign, WorkSteps
  <2> QED
    BY <1>6, <2>2, <2>3 DEF Sign, TypeOK, records, roles
<1>7. CASE Write(g)
  <2>1. Works(g)
    BY <1>7 DEF Write, MayWrite, At, Works, WorkSteps
  <2>2. JobOf(g) \in Jobs /\ Line(g) \in Entries
    BY <1>7, <2>1, WorkingRun, LineIsEntry DEF Write
  <2>3. log' \in [Gates -> [Jobs -> Entries]] /\ baseline' \in [Gates -> Nat] /\ torn' \subseteq Gates
    BY <1>7, <2>2, AppendedType DEF Write
  <2>4. Written(g) \in Runs
    BY <1>7, <2>1, NextRun DEF Write, MayWrite, Written, WorkSteps, At
  <2>5. run' \in [Gates -> Runs]
    BY <1>7, <2>4, RunType DEF Write
  <2> QED
    BY <1>7, <2>3, <2>5 DEF Write, TypeOK, roles, history
<1>8. CASE Upload(g)
  <2>1. Works(g)
    BY <1>8 DEF Upload, At, Works, WorkSteps
  <2>2. JobOf(g) \in Jobs /\ InputOf(g) \in Inputs /\ run[g].package \in Nat
    BY <2>1, WorkingRun DEF Working
  <2>3. server' \in [Jobs -> ServerJobs]
    <3>1. CASE Current(g, run[g].claim)
      <4>1. server[JobOf(g)].status # "absent" /\ {run[g].package} \in SUBSET Nat
        BY <2>2, <3>1 DEF Current, JobOf
      <4>2. [server EXCEPT ![JobOf(g)].uploaded = {run[g].package}] \in [Jobs -> ServerJobs]
        BY <2>2, <4>1, JobMoves
      <4> QED
        BY <1>8, <3>1, <4>2 DEF Upload
    <3>2. CASE ~Current(g, run[g].claim)
      BY <1>8, <3>2 DEF Upload, TypeOK
    <3> QED
      BY <3>1, <3>2
  <2>4. run' \in [Gates -> Runs]
    BY <1>8, <2>1, NextRun, RunType DEF Upload, WorkSteps, Outcomes, TypeOK
  <2>5. sent' \subseteq Packages
    BY <1>8, <2>2 DEF Upload, Packages, TypeOK
  <2>6. faults' \in Nat
    BY <1>8, FaultType DEF Upload
  <2> QED
    BY <1>8, <2>3, <2>4, <2>5, <2>6 DEF Upload, TypeOK, records, roles
<1>9. CASE Complete(g)
  <2>1. Works(g)
    BY <1>9 DEF Complete, Works, WorkSteps
  <2>2. run[g].claim \in Claims /\ run[g].package \in Nat
    BY <2>1, WorkingRun DEF Working
  <2>3. run' \in [Gates -> Runs]
    BY <1>9, <2>1, NextRun, RunType DEF Complete, WorkSteps
  <2>4. requests' \subseteq [gate : Gates, claim : Claims, package : Nat]
    BY <1>9, <2>2 DEF Complete, TypeOK
  <2> QED
    BY <1>9, <2>3, <2>4 DEF Complete, TypeOK, records, roles, history
<1>10. CASE Report(g)
  <2>1. Works(g)
    BY <1>10 DEF Report, At, Works, WorkSteps
  <2>2. JobOf(g) \in Jobs
    BY <2>1, WorkingRun
  <2>3. server' \in [Jobs -> ServerJobs]
    <3>1. CASE Current(g, run[g].claim)
      <4>1. server[JobOf(g)].status # "absent"
        BY <3>1 DEF Current, JobOf
      <4>2. /\ BackToBuilt(JobOf(g)) \in [Jobs -> ServerJobs]
            /\ SigningFailed(JobOf(g)) \in [Jobs -> ServerJobs]
            /\ [server EXCEPT ![JobOf(g)].status = "failed", ![JobOf(g)].uploaded = {}]
                   \in [Jobs -> ServerJobs]
        BY <2>2, <4>1, JobMoves DEF BackToBuilt
      <4>3. \/ server' = BackToBuilt(JobOf(g))
            \/ server' = SigningFailed(JobOf(g))
            \/ server' = [server EXCEPT ![JobOf(g)].status = "failed", ![JobOf(g)].uploaded = {}]
            \/ server' = server
        BY <1>10, <3>1 DEF Report
      <4> QED
        BY <4>2, <4>3 DEF TypeOK
    <3>2. CASE ~Current(g, run[g].claim)
      BY <1>10, <3>2 DEF Report, TypeOK
    <3> QED
      BY <3>1, <3>2
  <2>4. run' \in [Gates -> Runs]
    BY <1>10, RunType DEF Report
  <2>5. faults' \in Nat
    BY <1>10, FaultType DEF Report
  <2> QED
    BY <1>10, <2>3, <2>4, <2>5 DEF Report, TypeOK, records, roles, history
<1> QED
  BY <1>1, <1>2, <1>3, <1>4, <1>5, <1>6, <1>7, <1>8, <1>9, <1>10 DEF Daemon

(* What can go wrong on a gate.                                            *)
LEMMA TroubleType ==
    ASSUME TypeOK, NEW g \in Gates, Trouble(g)
    PROVE  TypeOK'
<1> USE DEF Runs
<1>1. CASE Crash(g)
  <2>1. run' \in [Gates -> Runs] /\ faults' \in Nat
    BY <1>1, RunType, FaultType DEF Crash
  <2> QED
    BY <1>1, <2>1 DEF Crash, TypeOK, records, roles, history
<1>2. CASE Repair(g)
  BY <1>2 DEF Repair, TypeOK, roles, history
<1>3. CASE WriteBreaks(g)
  <2>1. Works(g) /\ MayWrite(g)
    BY <1>3 DEF WriteBreaks, MayWrite, At, Works, WorkSteps
  <2>2. JobOf(g) \in Jobs /\ Line(g) \in Entries
    BY <2>1, WorkingRun, LineIsEntry
  <2>3. log' \in [Gates -> [Jobs -> Entries]] /\ baseline' \in [Gates -> Nat] /\ torn' \subseteq Gates
    BY <1>3, <2>2, AppendedType DEF WriteBreaks
  <2>4. run[g].outcome \in Outcomes
    BY <2>1, WorkingRun DEF Working
  <2>5. Unwritten(g) \in Runs
    BY <2>1, <2>4, NextRun DEF Unwritten, Outcomes
  <2>6. run' \in [Gates -> Runs]
    BY <1>3, <2>5, RunType DEF WriteBreaks
  <2>7. faults' \in Nat
    BY <1>3, FaultType DEF WriteBreaks
  <2> QED
    BY <1>3, <2>3, <2>6, <2>7 DEF WriteBreaks, TypeOK, roles, history
<1>4. CASE Interrupted(g)
  <2>1. Works(g)
    BY <1>4 DEF Interrupted, Works, WorkSteps
  <2>2. run' \in [Gates -> Runs]
    BY <1>4, <2>1, NextRun, RunType DEF Interrupted, Outcomes
  <2> QED
    BY <1>4, <2>2 DEF Interrupted, TypeOK, records, roles, history
<1>5. ASSUME NEW kind \in FailureKinds, NEW fatal \in BOOLEAN, Fail(g, kind, fatal)
      PROVE  TypeOK'
  <2>1. Works(g) /\ kind \in Outcomes
    BY <1>5, FailuresAssumption DEF Fail, Works, WorkSteps, Outcomes
  <2>2. run' \in [Gates -> Runs]
    BY <1>5, <2>1, NextRun, RunType DEF Fail
  <2>3. faults' \in Nat
    BY <1>5, FaultType DEF Fail
  <2> QED
    BY <1>5, <2>2, <2>3 DEF Fail, TypeOK, records, roles, history
<1> QED
  BY <1>1, <1>2, <1>3, <1>4, <1>5 DEF Trouble

(* The log of a gate after an import.                                      *)
LEMMA MergedType ==
    ASSUME TypeOK, NEW g \in Gates, NEW old \in Gates, NEW new
    PROVE  Merged(g, old, new) \in [Gates -> [Jobs -> Entries]]
<1>1. [j \in Jobs |-> IF j \in new THEN log[old][j] ELSE log[g][j]] \in [Jobs -> Entries]
  BY DEF TypeOK
<1> QED
  BY <1>1 DEF Merged, TypeOK

(* The operator.                                                           *)
LEMMA OperatorType ==
    ASSUME TypeOK, NEW g \in Gates, Operator(g)
    PROVE  TypeOK'
<1> USE DEF Runs
<1>1. ASSUME NEW j \in Jobs, Abandon(g, j) PROVE TypeOK'
  <2>1. [log[g][j] EXCEPT !.status = "abandoned"] \in Entries
    BY <1>1, EntryFields DEF Abandon, Statuses
  <2>2. log' \in [Gates -> [Jobs -> Entries]] /\ baseline' \in [Gates -> Nat] /\ torn' \subseteq Gates
    BY <1>1, <2>1, AppendedType DEF Abandon
  <2> QED
    BY <1>1, <2>2 DEF Abandon, TypeOK, roles, history
<1>2. CASE Retire(g)
  <2>1. run' \in [Gates -> Runs]
    BY <1>2, RunType DEF Retire
  <2> QED
    BY <1>2, <2>1 DEF Retire, TypeOK, records, history
<1>3. CASE PromoteFirst(g)
  BY <1>3 DEF PromoteFirst, BecomesPrimary, TypeOK, records, history
<1>4. CASE PromoteManual(g)
  <2>1. ReleasedCodes \subseteq Nat
    BY NumbersAssumption DEF ReleasedCodes, TypeOK
  <2>2. baseline' \in [Gates -> Nat]
    BY <1>4, <2>1 DEF PromoteManual, Raise, TypeOK
  <2>3. [step |-> "role", from |-> {}] \in Runs
    BY DEF Promoting
  <2>4. run' \in [Gates -> Runs]
    BY <1>4, <2>3, RunType DEF PromoteManual
  <2> QED
    BY <1>4, <2>2, <2>4 DEF PromoteManual, TypeOK, roles, history
<1>5. ASSUME NEW old \in Gates, Import(g, old) PROVE TypeOK'
  <2>1. [step |-> "baselines", from |-> {old}] \in Runs
    BY DEF Promoting
  <2>2. run' \in [Gates -> Runs]
    BY <1>5, <2>1, RunType DEF Import
  <2>3. log' \in [Gates -> [Jobs -> Entries]]
    BY <1>5, MergedType DEF Import
  <2> QED
    BY <1>5, <2>2, <2>3 DEF Import, TypeOK, roles, history
<1>6. ASSUME NEW old \in Gates, ImportBreaks(g, old) PROVE TypeOK'
  <2>1. log' \in [Gates -> [Jobs -> Entries]]
    BY <1>6, MergedType DEF ImportBreaks
  <2>2. torn' \subseteq Gates /\ faults' \in Nat
    BY <1>6, FaultType DEF ImportBreaks, TypeOK
  <2> QED
    BY <1>6, <2>1, <2>2 DEF ImportBreaks, TypeOK, roles, history
<1>7. CASE ImportBaselines(g)
  <2>1. run[g] \in Promoting
    BY <1>7 DEF ImportBaselines, At, TypeOK, Down, Idle, Working, WorkSteps
  <2>2. [run[g] EXCEPT !.step = "role"] \in Runs /\ run[g].from \subseteq Gates
    BY <2>1 DEF Promoting
  <2>3. baseline' \in [Gates -> Nat]
    BY <1>7, <2>2 DEF ImportBaselines, Raise, TypeOK
  <2>4. run' \in [Gates -> Runs]
    BY <1>7, <2>2, RunType DEF ImportBaselines
  <2> QED
    BY <1>7, <2>3, <2>4 DEF ImportBaselines, TypeOK, roles, history
<1>8. CASE Promote(g)
  <2>1. run' \in [Gates -> Runs]
    BY <1>8, RunType DEF Promote
  <2> QED
    BY <1>8, <2>1 DEF Promote, BecomesPrimary, TypeOK, records, history
<1> QED
  BY <1>1, <1>2, <1>3, <1>4, <1>5, <1>6, <1>7, <1>8 DEF Operator

(* A job that is built, or built anew after a restore.                     *)
LEMMA BuiltType ==
    ASSUME NEW input \in Inputs
    PROVE  BuiltJob(input) \in ServerJobs
  BY DEF BuiltJob, ServerJobs

(* The server.                                                             *)
LEMMA ServerType ==
    ASSUME TypeOK, Server
    PROVE  TypeOK'
<1> USE DEF Runs
<1>1. ASSUME NEW j \in Jobs, NEW input \in Inputs, Build(j, input) PROVE TypeOK'
  <2>1. server' \in [Jobs -> ServerJobs]
    BY <1>1, BuiltType DEF Build, TypeOK
  <2> QED
    BY <1>1, <2>1 DEF Build, TypeOK, records, roles, history
<1>2. ASSUME NEW back \in SUBSET Jobs, NEW gone \in SUBSET (Jobs \ back),
             NEW input \in [back -> Inputs], Restore(back, gone, input)
      PROVE  TypeOK'
  <2>1. NewJob \in ServerJobs
    BY DEF ServerJobs
  <2>2. ASSUME NEW j \in Jobs PROVE server'[j] \in ServerJobs
    <3>1. server'[j] = IF j \in gone THEN NewJob
                       ELSE IF j \in back THEN BuiltJob(input[j]) ELSE server[j]
      BY <1>2 DEF Restore
    <3> QED
      BY <2>1, <3>1, BuiltType DEF TypeOK
  <2>3. server' \in [Jobs -> ServerJobs]
    BY <1>2, <2>2 DEF Restore
  <2> QED
    BY <1>2, <2>3 DEF Restore, TypeOK, records, roles, history
<1>3. ASSUME NEW j \in Jobs, Reap(j) PROVE TypeOK'
  <2>1. server' \in [Jobs -> ServerJobs]
    BY <1>3, JobMoves DEF Reap
  <2>2. faults' \in Nat
    BY <1>3, FaultType DEF Reap
  <2> QED
    BY <1>3, <2>1, <2>2 DEF Reap, TypeOK, records, roles, history
<1>4. ASSUME NEW r \in requests, Handle(r) PROVE TypeOK'
  <2>1. /\ r.gate \in Gates /\ r.claim.job \in Jobs /\ r.claim.input \in Inputs
        /\ r.package \in Nat /\ r.claim = r.claim
    BY DEF TypeOK, Claims
  <2>2. server' \in [Jobs -> ServerJobs]
    <3>1. CASE Accepts(r)
      <4>1. server[r.claim.job].status # "absent"
        BY <3>1 DEF Accepts, Current
      <4>2. [server EXCEPT ![r.claim.job].status = "succeeded"] \in [Jobs -> ServerJobs]
        BY <2>1, <4>1, JobMoves
      <4> QED
        BY <1>4, <3>1, <4>2 DEF Handle, SetJob
    <3>2. CASE ~Accepts(r)
      BY <1>4, <3>2 DEF Handle, TypeOK
    <3> QED
      BY <3>1, <3>2
  <2>3. released' \subseteq [job : Jobs, input : Inputs, package : Nat]
    BY <1>4, <2>1 DEF Handle, TypeOK
  <2>4. run' \in [Gates -> Runs]
    <3>1. CASE At(r.gate, "waiting") /\ Goes(r.gate, Answered(r))
      <4>1. Works(r.gate)
        BY <3>1 DEF At, Works, WorkSteps
      <4>2. Answered(r) \in Runs
        BY <2>1, <4>1, NextRun DEF Answered, WorkSteps, Outcomes
      <4> QED
        BY <2>1, <3>1, <4>2, RunType
    <3>2. CASE run' = run
      BY <3>2 DEF TypeOK
    <3> QED
      BY <1>4, <3>1, <3>2 DEF Handle
  <2>5. faults' \in Nat
    BY <1>4, FaultType DEF Handle
  <2> QED
    BY <1>4, <2>2, <2>3, <2>4, <2>5 DEF Handle, TypeOK, records, roles
<1> QED
  BY <1>1, <1>2, <1>3, <1>4 DEF Server

(* Every variable keeps its type, whatever the number of gates, jobs and   *)
(* faults.                                                                 *)
THEOREM TypeCorrect == Spec => []TypeOK
<1>1. Init => TypeOK
  <2> SUFFICES ASSUME Init PROVE TypeOK
    OBVIOUS
  <2>1. NoEntry \in Entries /\ NewJob \in ServerJobs
    BY DEF Entries, ServerJobs
  <2>2. log \in [Gates -> [Jobs -> Entries]] /\ server \in [Jobs -> ServerJobs]
    BY <2>1 DEF Init
  <2> QED
    BY <2>2 DEF Init, TypeOK
<1>2. TypeOK /\ [Next]_vars => TypeOK'
  <2> SUFFICES ASSUME TypeOK, [Next]_vars PROVE TypeOK'
    OBVIOUS
  <2>1. CASE Next
    BY <2>1, DaemonType, TroubleType, OperatorType, ServerType DEF Next
  <2>2. CASE UNCHANGED vars
    BY <2>2 DEF vars, TypeOK
  <2> QED
    BY <2>1, <2>2
<1> QED
  BY <1>1, <1>2, PTL DEF Spec

-----------------------------------------------------------------------------
(***************************************************************************)
(* What a gate knows                                                       *)
(***************************************************************************)

(* A gate that nothing happened to still knows its log.                    *)
LEMMA Untouched ==
    ASSUME TypeOK, NEW g \in Gates, KnowsItsLog(g),
           run'[g] = run[g], log'[g] = log[g], baseline'[g] = baseline[g],
           packages' \in Nat, packages <= packages'
    PROVE  KnowsItsLog(g)'
<1>1. NothingSent(g)' /\ CodeIsFree(g)' /\ IsReserved(g)' /\ IsUnsent(g)' /\ IsMarked(g)'
  BY DEF KnowsItsLog, NothingSent, CodeIsFree, IsReserved, IsUnsent, IsMarked, At, EntryOf,
         JobOf, InputOf, CodeOf, Open
<1>2. Taken(g, JobOf(g), InputOf(g))' = Taken(g, JobOf(g), InputOf(g))
  BY DEF Taken, JobOf, InputOf
<1>3. MayGoOn(g)'
  BY <1>2 DEF KnowsItsLog, MayGoOn, EntryOf, JobOf, InputOf, Open, Live
<1>4. IsNewer(g)'
  <2>1. SUFFICES ASSUME At(g, "mark")' PROVE IsNewer(g)'
    BY DEF IsNewer
  <2>2. At(g, "mark") /\ Works(g)
    BY <2>1 DEF At, Works, WorkSteps
  <2>3. run[g].package \in Nat /\ packages \in Nat
    BY <2>2, WorkingRun DEF Working, TypeOK
  <2> QED
    BY <2>2, <2>3 DEF KnowsItsLog, IsNewer, EntryOf, JobOf, At
<1> QED
  BY <1>1, <1>3, <1>4 DEF KnowsItsLog

(* A gate that has nothing in work has nothing to know.                    *)
LEMMA NothingToKnow ==
    ASSUME NEW g \in Gates, run'[g].step \in {"down", "idle", "baselines", "role", "report"}
    PROVE  KnowsItsLog(g)'
  BY DEF KnowsItsLog, NothingSent, MayGoOn, CodeIsFree, IsReserved, IsNewer, IsUnsent, IsMarked, At

(* A step of one gate that leaves the logs alone.                          *)
LEMMA OnlyRun ==
    ASSUME TypeOK, GateInv, NEW g \in Gates, UNCHANGED <<log, baseline, sent>>,
           packages' \in Nat, packages <= packages',
           \A h \in Gates \ {g} : run'[h] = run[h],
           run'[g] = run[g] \/ KnowsItsLog(g)'
    PROVE  GateInv'
<1>1. RunsKnow'
  BY Untouched DEF GateInv, RunsKnow
<1>2. OneHolder' /\ SentIsRecorded'
  BY DEF GateInv, OneHolder, SentIsRecorded
<1>3. PackagesAreMade'
  <2> SUFFICES ASSUME NEW h \in Gates, NEW j \in Jobs, log[h][j].status # "none"
               PROVE  log[h][j].package <= packages'
    BY DEF PackagesAreMade
  <2>1. log[h][j].package \in Nat
    BY EntryFields
  <2> QED
    BY <2>1 DEF GateInv, PackagesAreMade, TypeOK
<1> QED
  BY <1>1, <1>2, <1>3 DEF GateInv

(* No process of a gate moved.                                             *)
LEMMA NoRun ==
    ASSUME TypeOK, GateInv, UNCHANGED <<log, baseline, run, packages, sent>>
    PROVE  GateInv'
<1>1. RunsKnow'
  BY Untouched DEF GateInv, RunsKnow, TypeOK
<1> QED
  BY <1>1 DEF GateInv, OneHolder, PackagesAreMade, SentIsRecorded

(* Where a process goes, and that the others stay.                         *)
LEMMA Gone ==
    ASSUME TypeOK, NEW g \in Gates, NEW r, Goes(g, r)
    PROVE  run'[g] = r /\ \A h \in Gates \ {g} : run'[h] = run[h]
  BY DEF Goes, TypeOK

(* The fields a step leaves alone.                                         *)
LEMMA Fields ==
    ASSUME TypeOK, NEW g \in Gates, Works(g)
    PROVE  /\ \A s \in WorkSteps :
                  /\ To(g, s).step = s /\ To(g, s).claim = run[g].claim
                  /\ To(g, s).seen = run[g].seen /\ To(g, s).releasable = run[g].releasable
                  /\ To(g, s).package = run[g].package
           /\ \A o \in Outcomes, b \in BOOLEAN : Reporting(g, o, b).step = "report"
           /\ \A o \in Outcomes, b \in BOOLEAN :
                  Unsent(g, o, b).step = IF run[g].releasable THEN "unsent" ELSE "report"
           /\ \A o \in Outcomes, b \in BOOLEAN : Unsent(g, o, b).claim = run[g].claim
<1>1. run[g] \in Working
  BY WorkingRun
<1> QED
  BY <1>1 DEF To, Reporting, Unsent, Working

(* A failure gives back only what was never signed.                        *)
LEMMA UnsentKnows ==
    ASSUME TypeOK, GateInv, NEW g \in Gates, UNCHANGED records, NEW o \in Outcomes, NEW b \in BOOLEAN,
           run[g].step \in {"look", "check", "sign", "mark", "upload", "waiting"},
           Goes(g, Unsent(g, o, b))
    PROVE  KnowsItsLog(g)'
<1>1. Works(g) /\ KnowsItsLog(g)
  BY DEF Works, WorkSteps, GateInv, RunsKnow
<1>2. run'[g].step = (IF run[g].releasable THEN "unsent" ELSE "report")
      /\ run'[g].claim = run[g].claim
  BY <1>1, Fields, Gone
<1>3. CASE run[g].releasable
  <2>1. EntryOf(g).status = "reserved"
    BY <1>1, <1>3 DEF KnowsItsLog, NothingSent, IsReserved, IsMarked
  <2>2. IsUnsent(g)'
    BY <2>1, <1>2 DEF IsUnsent, EntryOf, JobOf, records
  <2> QED
    BY <2>2, <1>2, <1>3 DEF KnowsItsLog, NothingSent, MayGoOn, CodeIsFree, IsReserved, IsNewer,
                            IsMarked, At
<1>4. CASE ~run[g].releasable
  BY <1>2, <1>4, NothingToKnow
<1> QED
  BY <1>3, <1>4

(* The steps of a daemon that write no line: what it checks it knows       *)
(* afterwards.                                                             *)
LEMMA ReadingKeeps ==
    ASSUME TypeOK, GateInv, NEW g \in Gates,
           \/ Start(g) \/ (\E j \in Jobs : Claim(g, j))
           \/ Look(g) \/ Check(g) \/ Resume(g) \/ Sign(g) \/ Complete(g) \/ Report(g)
    PROVE  GateInv'
<1>1. CASE Start(g)
  <2>1. KnowsItsLog(g)' /\ \A h \in Gates \ {g} : run'[h] = run[h]
    BY <1>1, NothingToKnow, Gone DEF Start, Idle
  <2> QED
    BY <1>1, <2>1, OnlyRun DEF records, Start, history, TypeOK
<1>2. ASSUME NEW j \in Jobs, Claim(g, j) PROVE GateInv'
  <2> DEFINE r == [step |-> "look",
         claim |-> [job |-> j, attempt |-> server[j].attempt + 1, input |-> server[j].input],
         seen |-> {}, releasable |-> FALSE, package |-> 0,
         outcome |-> "none", fatal |-> FALSE]
  <2>1. run' = run \/ Goes(g, r)
    BY <1>2 DEF Claim
  <2>2. UNCHANGED <<records, packages, sent>>
    BY <1>2 DEF Claim, history
  <2>3. r.step = "look" /\ ~r.releasable
    OBVIOUS
  <2> HIDE DEF r
  <2>4. CASE run' = run
    BY <2>2, <2>4, NoRun DEF records
  <2>5. CASE Goes(g, r)
    <3>1. run'[g] = r /\ \A h \in Gates \ {g} : run'[h] = run[h]
      BY <2>5, Gone
    <3>2. KnowsItsLog(g)'
      BY <2>3, <3>1 DEF KnowsItsLog, NothingSent, MayGoOn, CodeIsFree, IsReserved, IsNewer, IsUnsent,
                        IsMarked, At
    <3> QED
      BY <2>2, <3>1, <3>2, OnlyRun DEF records, TypeOK
  <2> QED
    BY <2>1, <2>4, <2>5
<1>3. CASE Look(g)
  <2>1. Works(g) /\ KnowsItsLog(g) /\ UNCHANGED <<records, packages, sent>>
    BY <1>3 DEF Look, At, Works, WorkSteps, GateInv, RunsKnow, history
  <2>2. run[g] \in Working /\ EntryOf(g) \in Entries
    BY <2>1, WorkingRun
  <2>3. CASE Live(EntryOf(g)) /\ (EntryOf(g).input # InputOf(g) \/ EntryOf(g).status = "completed")
    <3>1. Goes(g, Reporting(g, "violation", FALSE))
      BY <1>3, <2>3 DEF Look
    <3>2. run'[g] = Reporting(g, "violation", FALSE) /\ \A h \in Gates \ {g} : run'[h] = run[h]
      BY <3>1, Gone
    <3>3. KnowsItsLog(g)'
      BY <2>1, <3>2, Fields, NothingToKnow DEF Outcomes
    <3> QED
      BY <2>1, <3>2, <3>3, OnlyRun DEF records, TypeOK
  <2>4. CASE ~(Live(EntryOf(g)) /\ (EntryOf(g).input # InputOf(g) \/ EntryOf(g).status = "completed"))
    <3>1. /\ run'[g] = [To(g, "check") EXCEPT !.seen = Taken(g, JobOf(g), InputOf(g))]
          /\ \A h \in Gates \ {g} : run'[h] = run[h]
      BY <1>3, <2>4, Gone DEF Look
    <3>2. /\ run'[g].step = "check" /\ run'[g].claim = run[g].claim /\ ~run'[g].releasable
          /\ run'[g].seen = Taken(g, JobOf(g), InputOf(g))
      BY <1>3, <2>1, <2>2, <3>1 DEF To, Working, WorkSteps, KnowsItsLog, NothingSent, Look, At
    <3>3. Taken(g, JobOf(g), InputOf(g))' = Taken(g, JobOf(g), InputOf(g))
      BY <2>1, <3>2 DEF Taken, JobOf, InputOf, records
    <3>4. MayGoOn(g)'
      BY <2>1, <2>4, <3>2, <3>3 DEF MayGoOn, EntryOf, JobOf, InputOf, Live, Open, records
    <3>5. KnowsItsLog(g)'
      BY <3>2, <3>4 DEF KnowsItsLog, NothingSent, CodeIsFree, IsReserved, IsNewer, IsUnsent,
                        IsMarked, At
    <3> QED
      BY <2>1, <3>1, <3>5, OnlyRun DEF records, TypeOK
  <2> QED
    BY <2>3, <2>4
<1>4. CASE Check(g)
  <2>1. Works(g) /\ KnowsItsLog(g) /\ UNCHANGED <<records, packages, sent>>
    BY <1>4 DEF Check, At, Works, WorkSteps, GateInv, RunsKnow, history
  <2>2. CASE WithinLimits(CodeOf(g), run[g].seen) /\ InputOf(g) \notin Unsound
    <3>1. run'[g] = To(g, "reserve") /\ \A h \in Gates \ {g} : run'[h] = run[h]
      BY <1>4, <2>2, Gone DEF Check
    <3>2. /\ run'[g].step = "reserve" /\ run'[g].claim = run[g].claim
          /\ run'[g].releasable = run[g].releasable /\ run'[g].seen = run[g].seen
      BY <2>1, <3>1, Fields DEF WorkSteps
    <3>3. Taken(g, JobOf(g), InputOf(g))' = Taken(g, JobOf(g), InputOf(g))
      BY <2>1, <3>2 DEF Taken, JobOf, InputOf, records
    <3>4. MayGoOn(g)' /\ NothingSent(g)'
      BY <1>4, <2>1, <3>2, <3>3 DEF KnowsItsLog, MayGoOn, NothingSent, EntryOf, JobOf, InputOf, Live,
                                    Open, records, Check, At
    <3>5. CodeIsFree(g)'
      BY <2>2, <3>2 DEF CodeIsFree, CodeOf, JobOf
    <3>6. KnowsItsLog(g)'
      BY <3>2, <3>4, <3>5 DEF KnowsItsLog, IsReserved, IsNewer, IsUnsent, IsMarked, At
    <3> QED
      BY <2>1, <3>1, <3>6, OnlyRun DEF records, TypeOK
  <2>3. CASE ~(WithinLimits(CodeOf(g), run[g].seen) /\ InputOf(g) \notin Unsound)
    <3>1. Goes(g, Reporting(g, "violation", FALSE))
      BY <1>4, <2>3 DEF Check
    <3>2. run'[g] = Reporting(g, "violation", FALSE) /\ \A h \in Gates \ {g} : run'[h] = run[h]
      BY <3>1, Gone
    <3>3. KnowsItsLog(g)'
      BY <2>1, <3>2, Fields, NothingToKnow DEF Outcomes
    <3> QED
      BY <2>1, <3>2, <3>3, OnlyRun DEF records, TypeOK
  <2> QED
    BY <2>2, <2>3
<1>5. CASE Resume(g)
  <2>1. Works(g) /\ UNCHANGED <<records, packages, sent>>
    BY <1>5 DEF Resume, At, Works, WorkSteps, history
  <2>2. run[g] \in Working
    BY <2>1, WorkingRun
  <2>3. /\ run'[g] = [To(g, "sign") EXCEPT !.releasable = (EntryOf(g).status = "reserved")]
        /\ \A h \in Gates \ {g} : run'[h] = run[h]
    BY <1>5, Gone DEF Resume
  <2>4. /\ run'[g].step = "sign" /\ run'[g].claim = run[g].claim
        /\ run'[g].releasable = (EntryOf(g).status = "reserved")
    BY <2>2, <2>3 DEF To, Working
  <2>5. Open(EntryOf(g)) /\ EntryOf(g).input = InputOf(g)
    BY <1>5 DEF Resume, Resumes, IsFor, Live, Open
  <2>6. IsReserved(g)'
    BY <2>1, <2>4, <2>5 DEF IsReserved, EntryOf, JobOf, InputOf, Open, records
  <2>7. KnowsItsLog(g)'
    BY <2>4, <2>6 DEF KnowsItsLog, NothingSent, MayGoOn, CodeIsFree, IsNewer, IsUnsent, IsMarked, At
  <2> QED
    BY <2>1, <2>3, <2>7, OnlyRun DEF records, TypeOK
<1>6. CASE Sign(g)
  <2>1. Works(g) /\ KnowsItsLog(g) /\ UNCHANGED <<records, sent>>
    BY <1>6 DEF Sign, At, Works, WorkSteps, GateInv, RunsKnow
  <2>2. run[g] \in Working /\ JobOf(g) \in Jobs
    BY <2>1, WorkingRun
  <2>3. packages \in Nat /\ packages' = packages + 1
    BY <1>6 DEF Sign, TypeOK
  <2>4. /\ run'[g] = [To(g, "mark") EXCEPT !.package = packages + 1]
        /\ \A h \in Gates \ {g} : run'[h] = run[h]
    BY <1>6, Gone DEF Sign
  <2>5. /\ run'[g].step = "mark" /\ run'[g].claim = run[g].claim
        /\ run'[g].releasable = run[g].releasable /\ run'[g].package = packages + 1
    BY <2>2, <2>4 DEF To, Working
  <2>6. Open(EntryOf(g)) /\ IsReserved(g)'
    BY <1>6, <2>1, <2>5 DEF Sign, KnowsItsLog, IsReserved, EntryOf, JobOf, InputOf, Open, records, At
  <2>7. EntryOf(g).package <= packages /\ EntryOf(g).package \in Nat
    <3>1. EntryOf(g).status # "none"
      BY <2>6 DEF Open
    <3> QED
      BY <2>2, <3>1, EntryFields DEF EntryOf, GateInv, PackagesAreMade
  <2>8. IsNewer(g)'
    BY <2>1, <2>3, <2>5, <2>7 DEF IsNewer, EntryOf, JobOf, records
  <2>9. KnowsItsLog(g)'
    BY <2>5, <2>6, <2>8 DEF KnowsItsLog, NothingSent, MayGoOn, CodeIsFree, IsUnsent, IsMarked, At
  <2> QED
    BY <2>1, <2>3, <2>4, <2>9, OnlyRun DEF records
<1>7. CASE Complete(g)
  <2>1. Works(g) /\ KnowsItsLog(g) /\ UNCHANGED <<records, packages, sent>>
    BY <1>7 DEF Complete, Works, WorkSteps, GateInv, RunsKnow, history
  <2>2. run'[g] = To(g, "waiting") /\ \A h \in Gates \ {g} : run'[h] = run[h]
    BY <1>7, Gone DEF Complete
  <2>3. /\ run'[g].step = "waiting" /\ run'[g].claim = run[g].claim
        /\ run'[g].releasable = run[g].releasable /\ run'[g].package = run[g].package
    BY <2>1, <2>2, Fields DEF WorkSteps
  <2>4. IsMarked(g)'
    BY <1>7, <2>1, <2>3 DEF Complete, KnowsItsLog, IsMarked, EntryOf, JobOf, InputOf, records
  <2>5. KnowsItsLog(g)'
    BY <2>3, <2>4 DEF KnowsItsLog, NothingSent, MayGoOn, CodeIsFree, IsReserved, IsNewer, IsUnsent, At
  <2> QED
    BY <2>1, <2>2, <2>5, OnlyRun DEF records, TypeOK
<1>8. CASE Report(g)
  <2>1. Goes(g, IF run[g].fatal THEN Down ELSE Idle) /\ UNCHANGED <<records, packages, sent>>
    BY <1>8 DEF Report, history
  <2>2. run'[g].step \in {"down", "idle"} /\ \A h \in Gates \ {g} : run'[h] = run[h]
    BY <2>1, Gone DEF Down, Idle
  <2> QED
    BY <2>1, <2>2, NothingToKnow, OnlyRun DEF records, TypeOK
<1> QED
  BY <1>1, <1>2, <1>3, <1>4, <1>5, <1>6, <1>7, <1>8

(* One line of one gate is added, and no process but its own moves.        *)
LEMMA LineKeeps ==
    ASSUME TypeOK, GateInv, NEW g \in Gates, Works(g), MayWrite(g),
           Appends(g, JobOf(g), Line(g)), UNCHANGED <<packages, sent>>,
           \A h \in Gates \ {g} : run'[h] = run[h], KnowsItsLog(g)'
    PROVE  GateInv'
<1> DEFINE j == JobOf(g)
           e == Line(g)
<1>1. j \in Jobs /\ e \in Entries /\ run[g].package \in Nat /\ KnowsItsLog(g)
  BY WorkingRun, LineIsEntry DEF Working, GateInv, RunsKnow
<1>2. /\ log'[g][j] = e
      /\ \A k \in Jobs \ {j} : log'[g][k] = log[g][k]
      /\ \A h \in Gates \ {g} : log'[h] = log[h] /\ baseline'[h] = baseline[h]
  BY <1>1 DEF Appends, TypeOK
<1>3. RunsKnow'
  BY <1>2, Untouched DEF GateInv, RunsKnow, TypeOK
<1>4. e.status \in Statuses /\ e.package <= packages
  <2>1. CASE At(g, "reserve")
    BY <2>1, LimitsAssumption DEF Line, At, Statuses, TypeOK
  <2>2. CASE At(g, "mark")
    BY <1>1, <2>2 DEF Line, At, Statuses, KnowsItsLog, IsNewer
  <2>3. CASE At(g, "record") \/ At(g, "unsent")
    <3>1. EntryOf(g).status \in {"signed", "reserved"}
      BY <2>3 DEF MayWrite, At
    <3>2. EntryOf(g) \in [status : Statuses, input : Inputs, package : Nat]
          /\ EntryOf(g).package <= packages
      BY <1>1, <3>1, EntryFields DEF EntryOf, GateInv, PackagesAreMade
    <3>3. e = [EntryOf(g) EXCEPT !.status = "completed"] \/ e = [EntryOf(g) EXCEPT !.status = "abandoned"]
      BY <2>3 DEF Line, At
    <3> QED
      BY <3>2, <3>3 DEF Statuses
  <2> QED
    BY <2>1, <2>2, <2>3 DEF MayWrite
<1>5. PackagesAreMade'
  BY <1>1, <1>2, <1>4 DEF PackagesAreMade, GateInv
<1>6. Live(EntryOf(g)) \/ Holder(g, NumberOf[j]) = {} \/ ~Live(e)
  BY DEF MayWrite, MayReserve, CodeOf, IsFor, Line, At, Live
<1>7. OneHolder'
  <2>1. \A k \in Jobs : k # j /\ Live(e) /\ NumberOf[k] = NumberOf[j] => ~Live(log[g][k])
    BY <1>1, <1>6 DEF Holder, EntryOf, GateInv, OneHolder
  <2>2. ASSUME NEW h \in Gates, NEW k \in Jobs, NEW m \in Jobs,
               Live(log'[h][k]), Live(log'[h][m]), NumberOf[k] = NumberOf[m]
        PROVE  k = m
    <3>1. CASE h # g
      BY <1>2, <2>2, <3>1 DEF GateInv, OneHolder
    <3>2. CASE h = g /\ k # j /\ m # j
      BY <1>2, <2>2, <3>2 DEF GateInv, OneHolder
    <3>3. CASE h = g /\ (k = j \/ m = j)
      BY <1>2, <2>1, <2>2, <3>3
    <3> QED
      BY <3>1, <3>2, <3>3
  <2> QED
    BY <2>2 DEF OneHolder, Live
<1>8. ASSUME Final(EntryOf(g))
      PROVE  Final(e) /\ e.input = EntryOf(g).input /\ EntryOf(g).package <= e.package
  <2>1. ~At(g, "reserve") /\ ~At(g, "unsent")
    BY <1>8 DEF MayWrite, MayReserve, Live, Final, At
  <2>2. CASE At(g, "mark")
    BY <1>1, <2>2 DEF Line, At, KnowsItsLog, IsNewer, IsReserved, Final
  <2>3. CASE At(g, "record")
    <3>1. EntryOf(g) \in [status : Statuses, input : Inputs, package : Nat]
      BY <1>1, <1>8, EntryFields DEF EntryOf, Final
    <3>2. e = [EntryOf(g) EXCEPT !.status = "completed"]
      BY <2>3 DEF Line, At
    <3> QED
      BY <3>1, <3>2 DEF Final
  <2> QED
    BY <2>1, <2>2, <2>3 DEF MayWrite
<1>9. SentIsRecorded'
  <2>1. ASSUME NEW s \in sent
        PROVE  /\ Final(log'[s.gate][s.job]) /\ log'[s.gate][s.job].input = s.input
               /\ s.package <= log'[s.gate][s.job].package
    <3>1. /\ Final(log[s.gate][s.job]) /\ log[s.gate][s.job].input = s.input
          /\ s.package <= log[s.gate][s.job].package
      BY DEF GateInv, SentIsRecorded, Final
    <3>2. s.gate \in Gates /\ s.job \in Jobs /\ s.package \in Nat
      BY DEF TypeOK, Packages
    <3>3. CASE s.gate = g /\ s.job = j
      <4>1. EntryOf(g).package \in Nat /\ Line(g).package \in Nat
        <5>1. EntryOf(g).package \in Nat
          BY <1>1, <3>1, <3>3, EntryFields DEF EntryOf, Final
        <5>2. Line(g).package \in Nat
          BY <1>1, <1>4 DEF Entries, Statuses, NoEntry
        <5> QED
          BY <5>1, <5>2
      <4>2. s.package <= e.package
        BY <1>8, <3>1, <3>2, <3>3, <4>1 DEF EntryOf
      <4> QED
        BY <1>2, <1>8, <3>1, <3>3, <4>2 DEF EntryOf
    <3>4. CASE ~(s.gate = g /\ s.job = j)
      BY <1>2, <3>1, <3>2, <3>4
    <3> QED
      BY <3>3, <3>4
  <2> QED
    BY <2>1 DEF SentIsRecorded, Final
<1> QED
  BY <1>3, <1>5, <1>7, <1>9 DEF GateInv

(* The daemon writes a line, and knows that it did.                        *)
LEMMA WriteKeeps ==
    ASSUME TypeOK, GateInv, NEW g \in Gates, Write(g)
    PROVE  GateInv'
<1>1. /\ MayWrite(g) /\ Works(g) /\ KnowsItsLog(g) /\ UNCHANGED <<packages, sent>>
      /\ Appends(g, JobOf(g), Line(g))
  BY DEF Write, MayWrite, At, Works, WorkSteps, GateInv, RunsKnow, history
<1>2. run'[g] = Written(g) /\ \A h \in Gates \ {g} : run'[h] = run[h]
  BY Gone DEF Write
<1>3. run[g] \in Working /\ JobOf(g) \in Jobs
  BY <1>1, WorkingRun
<1>4. log'[g][JobOf(g)] = Line(g)
  BY <1>1, <1>3 DEF Appends, TypeOK
<1>5. ASSUME At(g, "reserve") PROVE KnowsItsLog(g)'
  <2>1. run'[g].step = "sign" /\ run'[g].claim = run[g].claim
    <3>1. run'[g] = [To(g, "sign") EXCEPT !.releasable = TRUE]
      BY <1>2, <1>5 DEF Written, At
    <3> QED
      BY <1>3, <3>1 DEF To, Working
  <2>2. log'[g][JobOf(g)].status = "reserved" /\ log'[g][JobOf(g)].input = InputOf(g)
    BY <1>4, <1>5 DEF Line, At
  <2>3. IsReserved(g)'
    BY <2>1, <2>2 DEF IsReserved, Open, EntryOf, JobOf, InputOf
  <2> QED
    BY <2>1, <2>3 DEF KnowsItsLog, NothingSent, MayGoOn, CodeIsFree, IsNewer, IsUnsent, IsMarked, At
<1>6. ASSUME At(g, "mark") PROVE KnowsItsLog(g)'
  <2>1. /\ run'[g].step = "upload" /\ run'[g].claim = run[g].claim /\ ~run'[g].releasable
        /\ run'[g].package = run[g].package
    <3>1. run'[g] = [To(g, "upload") EXCEPT !.releasable = FALSE]
      BY <1>2, <1>6 DEF Written, At
    <3> QED
      BY <1>3, <3>1 DEF To, Working
  <2>2. log'[g][JobOf(g)] = [status |-> "signed", input |-> InputOf(g), package |-> run[g].package]
    BY <1>4, <1>6 DEF Line, At
  <2>3. IsMarked(g)'
    BY <2>1, <2>2 DEF IsMarked, EntryOf, JobOf, InputOf
  <2> QED
    BY <2>1, <2>3 DEF KnowsItsLog, NothingSent, MayGoOn, CodeIsFree, IsReserved, IsNewer, IsUnsent, At
<1>7. ASSUME At(g, "record") \/ At(g, "unsent") PROVE KnowsItsLog(g)'
  <2>1. run'[g].step \in {"idle", "report"}
    <3>1. run'[g] = Idle \/ run'[g] = To(g, "report")
      BY <1>2, <1>7 DEF Written, At
    <3> QED
      BY <1>1, <3>1, Fields DEF Idle, WorkSteps
  <2> QED
    BY <2>1, NothingToKnow
<1>8. KnowsItsLog(g)'
  BY <1>1, <1>5, <1>6, <1>7 DEF MayWrite
<1> QED
  BY <1>1, <1>2, <1>8, LineKeeps

(* What leaves a gate is in its log.                                       *)
LEMMA UploadKeeps ==
    ASSUME TypeOK, GateInv, NEW g \in Gates, Upload(g)
    PROVE  GateInv'
<1>1. /\ Works(g) /\ KnowsItsLog(g) /\ IsMarked(g) /\ UNCHANGED <<log, baseline, packages>>
      /\ At(g, "upload")
  BY DEF Upload, At, Works, WorkSteps, GateInv, RunsKnow, KnowsItsLog, records
<1>2. run[g].package \in Nat
  BY <1>1, WorkingRun DEF Working
<1>3. /\ EntryOf(g).status = "signed" /\ EntryOf(g).input = InputOf(g)
      /\ EntryOf(g).package = run[g].package /\ ~run[g].releasable
  BY <1>1 DEF IsMarked, At
<1>4. SentIsRecorded'
  <2>1. ASSUME NEW s \in sent'
        PROVE  /\ log[s.gate][s.job].status \in {"signed", "completed"}
               /\ log[s.gate][s.job].input = s.input /\ s.package <= log[s.gate][s.job].package
    <3>1. CASE s \in sent
      BY <3>1 DEF GateInv, SentIsRecorded
    <3>2. CASE s = [gate |-> g, job |-> JobOf(g), input |-> InputOf(g), package |-> run[g].package]
      BY <1>2, <1>3, <3>2 DEF EntryOf
    <3> QED
      BY <3>1, <3>2 DEF Upload
  <2> QED
    BY <1>1, <2>1 DEF SentIsRecorded
<1>5. OneHolder' /\ PackagesAreMade'
  BY <1>1 DEF GateInv, OneHolder, PackagesAreMade
<1>6. RunsKnow'
  <2>1. \/ run' = run
        \/ Goes(g, To(g, "complete"))
        \/ Goes(g, Reporting(g, "stale", FALSE))
    BY DEF Upload
  <2>2. packages \in Nat /\ packages <= packages'
    BY <1>1 DEF TypeOK
  <2>3. CASE run' = run
    BY <1>1, <2>2, <2>3, Untouched DEF GateInv, RunsKnow
  <2>4. ASSUME KnowsItsLog(g)', \A h \in Gates \ {g} : run'[h] = run[h] PROVE RunsKnow'
    BY <1>1, <2>2, <2>4, Untouched DEF GateInv, RunsKnow
  <2>5. CASE Goes(g, To(g, "complete"))
    <3>1. run'[g] = To(g, "complete") /\ \A h \in Gates \ {g} : run'[h] = run[h]
      BY <2>5, Gone
    <3>2. /\ run'[g].step = "complete" /\ run'[g].claim = run[g].claim
          /\ run'[g].releasable = run[g].releasable /\ run'[g].package = run[g].package
      BY <1>1, <3>1, Fields DEF WorkSteps
    <3>3. IsMarked(g)'
      BY <1>1, <3>2 DEF IsMarked, EntryOf, JobOf, InputOf, At
    <3>4. KnowsItsLog(g)'
      BY <3>2, <3>3 DEF KnowsItsLog, NothingSent, MayGoOn, CodeIsFree, IsReserved, IsNewer, IsUnsent, At
    <3> QED
      BY <2>4, <3>1, <3>4
  <2>6. CASE Goes(g, Reporting(g, "stale", FALSE))
    <3>1. run'[g] = Reporting(g, "stale", FALSE) /\ \A h \in Gates \ {g} : run'[h] = run[h]
      BY <2>6, Gone
    <3>2. run'[g].step = "report"
      BY <1>1, <3>1, Fields DEF Outcomes
    <3> QED
      BY <2>4, <3>1, <3>2, NothingToKnow
  <2> QED
    BY <2>1, <2>3, <2>5, <2>6
<1> QED
  BY <1>4, <1>5, <1>6 DEF GateInv

(* What goes wrong on a gate leaves its process without anything to know,  *)
(* or giving back what it reserved.                                        *)
LEMMA TroubleKeeps ==
    ASSUME TypeOK, GateInv, NEW g \in Gates, Trouble(g)
    PROVE  GateInv'
<1> USE DEF records, history
<1>1. CASE Crash(g)
  <2>1. run'[g].step = "down" /\ \A h \in Gates \ {g} : run'[h] = run[h]
    BY <1>1, Gone DEF Crash, Down
  <2> QED
    BY <1>1, <2>1, NothingToKnow, OnlyRun DEF Crash, TypeOK
<1>2. CASE Repair(g)
  BY <1>2, NoRun DEF Repair
<1>3. CASE WriteBreaks(g)
  <2>1. /\ MayWrite(g) /\ Works(g) /\ UNCHANGED <<packages, sent>>
        /\ AppendsHalf(g, JobOf(g), Line(g))
    BY <1>3 DEF WriteBreaks, MayWrite, At, Works, WorkSteps
  <2>2. run[g].outcome \in Outcomes
    BY <2>1, WorkingRun DEF Working
  <2>3. Unwritten(g).step \in {"down", "report"}
    BY <2>1, <2>2, Fields DEF Unwritten, Down, Outcomes
  <2>4. run'[g].step \in {"down", "report"} /\ \A h \in Gates \ {g} : run'[h] = run[h]
    BY <1>3, <2>3, Gone DEF WriteBreaks, Down
  <2>5. KnowsItsLog(g)'
    BY <2>4, NothingToKnow
  <2>6. CASE Appends(g, JobOf(g), Line(g))
    BY <2>1, <2>4, <2>5, <2>6, LineKeeps
  <2>7. CASE UNCHANGED <<log, baseline>>
    BY <2>1, <2>4, <2>5, <2>7, OnlyRun DEF TypeOK
  <2> QED
    BY <2>1, <2>6, <2>7 DEF AppendsHalf
<1>4. ASSUME NEW o \in Outcomes, NEW b \in BOOLEAN, Goes(g, Unsent(g, o, b)),
             run[g].step \in {"look", "check", "sign", "mark", "upload", "waiting"},
             UNCHANGED <<records, packages, sent>>
      PROVE  GateInv'
  <2>1. KnowsItsLog(g)'
    BY <1>4, UnsentKnows
  <2>2. \A h \in Gates \ {g} : run'[h] = run[h]
    BY <1>4, Gone
  <2> QED
    BY <1>4, <2>1, <2>2, OnlyRun DEF TypeOK
<1>5. CASE Interrupted(g)
  BY <1>4, <1>5 DEF Interrupted, Outcomes
<1>6. ASSUME NEW kind \in FailureKinds, NEW fatal \in BOOLEAN, Fail(g, kind, fatal)
      PROVE  GateInv'
  <2>1. kind \in Outcomes
    BY FailuresAssumption DEF Outcomes
  <2> QED
    BY <1>4, <1>6, <2>1 DEF Fail
<1> QED
  BY <1>1, <1>2, <1>3, <1>5, <1>6 DEF Trouble

(* Lines come over from another gate only where this one holds nothing.    *)
LEMMA ImportKeeps ==
    ASSUME TypeOK, GateInv, NEW g \in Gates, NEW old \in Gates, Importable(g, old),
           NEW new \in SUBSET Imported(g, old), log' = Merged(g, old, new),
           UNCHANGED <<baseline, packages, sent>>,
           \A h \in Gates \ {g} : run'[h] = run[h],
           run'[g].step \in {"down", "baselines"}
    PROVE  GateInv'
<1>1. /\ \A j \in Jobs : log'[g][j] = IF j \in new THEN log[old][j] ELSE log[g][j]
      /\ \A h \in Gates \ {g} : log'[h] = log[h]
  BY DEF Merged, TypeOK
<1>2. \A j \in new : j \in Jobs /\ Live(log[old][j]) /\ ~Live(log[g][j]) /\ Holder(g, NumberOf[j]) = {}
  BY DEF Imported, Importable
<1>3. RunsKnow'
  BY <1>1, NothingToKnow, Untouched DEF GateInv, RunsKnow, TypeOK
<1>4. PackagesAreMade'
  BY <1>1 DEF GateInv, PackagesAreMade
<1>5. SentIsRecorded'
  <2>1. ASSUME NEW s \in sent PROVE log'[s.gate][s.job] = log[s.gate][s.job]
    <3>1. s.gate \in Gates /\ s.job \in Jobs /\ Live(log[s.gate][s.job])
      BY DEF GateInv, SentIsRecorded, TypeOK, Packages, Live
    <3> QED
      BY <1>1, <1>2, <3>1
  <2> QED
    BY <2>1 DEF GateInv, SentIsRecorded
<1>6. OneHolder'
  <2>1. ASSUME NEW h \in Gates, NEW k \in Jobs, NEW m \in Jobs,
               Live(log'[h][k]), Live(log'[h][m]), NumberOf[k] = NumberOf[m]
        PROVE  k = m
    <3>1. CASE h # g
      BY <1>1, <2>1, <3>1 DEF GateInv, OneHolder
    <3>2. CASE h = g /\ k \in new /\ m \in new
      BY <1>2, <2>1, <3>2 DEF GateInv, OneHolder
    <3>3. CASE h = g /\ k \notin new /\ m \notin new
      BY <1>1, <2>1, <3>3 DEF GateInv, OneHolder
    <3>4. CASE h = g /\ k \in new /\ m \notin new
      BY <1>1, <1>2, <2>1, <3>4 DEF Holder
    <3>5. CASE h = g /\ k \notin new /\ m \in new
      BY <1>1, <1>2, <2>1, <3>5 DEF Holder
    <3> QED
      BY <3>1, <3>2, <3>3, <3>4, <3>5
  <2> QED
    BY <2>1 DEF OneHolder, Live
<1> QED
  BY <1>3, <1>4, <1>5, <1>6 DEF GateInv

(* The operator works while the daemon does not.                           *)
LEMMA OperatorKeeps ==
    ASSUME TypeOK, GateInv, NEW g \in Gates, Operator(g)
    PROVE  GateInv'
<1> USE DEF records, history
<1>1. ASSUME NEW j \in Jobs, Abandon(g, j) PROVE GateInv'
  <2> DEFINE e == [log[g][j] EXCEPT !.status = "abandoned"]
  <2>1. /\ log[g][j].status = "reserved" /\ run[g].step = "down"
        /\ UNCHANGED <<baseline, run, packages, sent>>
    BY <1>1 DEF Abandon, Stopped, At, Appends
  <2>2. log[g][j] \in [status : Statuses, input : Inputs, package : Nat]
    BY <2>1, EntryFields
  <2>3. e.status = "abandoned" /\ e.package = log[g][j].package
    BY <2>2
  <2>4. log' = [log EXCEPT ![g][j] = e]
    BY <1>1 DEF Abandon, Appends
  <2> HIDE DEF e
  <2>5. /\ log'[g][j] = e /\ \A k \in Jobs \ {j} : log'[g][k] = log[g][k]
        /\ \A h \in Gates \ {g} : log'[h] = log[h]
    BY <2>4 DEF TypeOK
  <2>6. RunsKnow'
    BY <2>1, <2>5, NothingToKnow, Untouched DEF GateInv, RunsKnow, TypeOK
  <2>7. PackagesAreMade'
    <3>1. e.package <= packages
      BY <2>1, <2>3 DEF GateInv, PackagesAreMade
    <3> QED
      BY <2>1, <2>5, <3>1 DEF GateInv, PackagesAreMade
  <2>8. OneHolder'
    BY <2>3, <2>5 DEF GateInv, OneHolder, Live
  <2>9. SentIsRecorded'
    <3>1. ASSUME NEW s \in sent PROVE log'[s.gate][s.job] = log[s.gate][s.job]
      <4>1. s.gate \in Gates /\ s.job \in Jobs /\ log[s.gate][s.job].status # "reserved"
        BY DEF GateInv, SentIsRecorded, TypeOK, Packages
      <4> QED
        BY <2>1, <2>5, <4>1
    <3> QED
      BY <2>1, <3>1 DEF GateInv, SentIsRecorded
  <2> QED
    BY <2>6, <2>7, <2>8, <2>9 DEF GateInv
<1>2. CASE Retire(g)
  <2>1. run'[g].step = "down" /\ \A h \in Gates \ {g} : run'[h] = run[h]
    BY <1>2, Gone DEF Retire, Down
  <2> QED
    BY <1>2, <2>1, NothingToKnow, OnlyRun DEF Retire, TypeOK
<1>3. CASE PromoteFirst(g)
  BY <1>3, NoRun DEF PromoteFirst
<1>4. ASSUME NEW to, Goes(g, to), to.step \in {"down", "role", "baselines"},
             \A h \in Gates \ {g} : baseline'[h] = baseline[h],
             UNCHANGED <<log, packages, sent>>
      PROVE  GateInv'
  <2>1. run'[g] = to /\ \A h \in Gates \ {g} : run'[h] = run[h]
    BY <1>4, Gone
  <2>2. RunsKnow'
    BY <1>4, <2>1, NothingToKnow, Untouched DEF GateInv, RunsKnow, TypeOK
  <2> QED
    BY <1>4, <2>2 DEF GateInv, OneHolder, PackagesAreMade, SentIsRecorded
<1>5. CASE PromoteManual(g)
  <2>1. [step |-> "role", from |-> {}].step = "role"
    OBVIOUS
  <2>2. \A h \in Gates \ {g} : baseline'[h] = baseline[h]
    BY <1>5 DEF PromoteManual, Raise, TypeOK
  <2> QED
    BY <1>4, <1>5, <2>1, <2>2 DEF PromoteManual
<1>6. ASSUME NEW old \in Gates, Import(g, old) PROVE GateInv'
  <2>1. run'[g].step = "baselines" /\ \A h \in Gates \ {g} : run'[h] = run[h]
    BY <1>6, Gone DEF Import
  <2> QED
    BY <1>6, <2>1, ImportKeeps DEF Import
<1>7. ASSUME NEW old \in Gates, ImportBreaks(g, old) PROVE GateInv'
  <2>1. run'[g].step = "down" /\ \A h \in Gates \ {g} : run'[h] = run[h]
    BY <1>7 DEF ImportBreaks, MayPromote, Stopped, At
  <2> QED
    BY <1>7, <2>1, ImportKeeps DEF ImportBreaks
<1>8. CASE ImportBaselines(g)
  <2>1. run[g] \in Promoting
    BY <1>8 DEF ImportBaselines, At, TypeOK, Down, Idle, Working, WorkSteps
  <2>2. [run[g] EXCEPT !.step = "role"].step = "role"
    BY <2>1 DEF Promoting
  <2>3. \A h \in Gates \ {g} : baseline'[h] = baseline[h]
    BY <1>8 DEF ImportBaselines, Raise, TypeOK
  <2> QED
    BY <1>4, <1>8, <2>2, <2>3 DEF ImportBaselines
<1>9. CASE Promote(g)
  <2>1. Down.step = "down"
    BY DEF Down
  <2> QED
    BY <1>4, <1>9, <2>1 DEF Promote
<1> QED
  BY <1>1, <1>2, <1>3, <1>5, <1>6, <1>7, <1>8, <1>9 DEF Operator

(* The server cannot write a log.                                          *)
LEMMA ServerKeeps ==
    ASSUME TypeOK, GateInv, Server
    PROVE  GateInv'
<1> USE DEF records, history
<1>1. ASSUME NEW j \in Jobs, NEW input \in Inputs, Build(j, input) PROVE GateInv'
  BY <1>1, NoRun DEF Build
<1>2. ASSUME NEW back \in SUBSET Jobs, NEW gone \in SUBSET (Jobs \ back),
             NEW input \in [back -> Inputs], Restore(back, gone, input)
      PROVE  GateInv'
  BY <1>2, NoRun DEF Restore
<1>3. ASSUME NEW j \in Jobs, Reap(j) PROVE GateInv'
  BY <1>3, NoRun DEF Reap
<1>4. ASSUME NEW r \in requests, Handle(r) PROVE GateInv'
  <2>1. r.gate \in Gates /\ UNCHANGED <<log, baseline, packages, sent>>
    BY <1>4 DEF Handle, TypeOK
  <2>2. CASE run' = run
    BY <2>1, <2>2, NoRun
  <2>3. CASE At(r.gate, "waiting") /\ Goes(r.gate, Answered(r))
    <3> DEFINE g == r.gate
    <3>1. Works(g) /\ KnowsItsLog(g)
      BY <2>1, <2>3 DEF At, Works, WorkSteps, GateInv, RunsKnow
    <3>2. run'[g] = Answered(r) /\ \A h \in Gates \ {g} : run'[h] = run[h]
      BY <2>1, <2>3, Gone
    <3>3. Answered(r) = To(g, "record") \/ Answered(r).step = "report"
      <4> DEFINE o == IF ~Current(g, r.claim) THEN "stale"
                      ELSE IF ~Delivers(r) THEN "violation" ELSE "transient"
      <4>1. o \in Outcomes
        BY DEF Outcomes
      <4>2. Reporting(g, o, FALSE).step = "report"
        BY <2>1, <3>1, <4>1, Fields
      <4> QED
        BY <4>2 DEF Answered
    <3>4. CASE run'[g] = To(g, "record")
      <4>1. /\ run'[g].step = "record" /\ run'[g].claim = run[g].claim
            /\ run'[g].releasable = run[g].releasable /\ run'[g].package = run[g].package
        BY <2>1, <3>1, <3>4, Fields DEF WorkSteps
      <4>2. IsMarked(g)'
        BY <2>1, <2>3, <3>1, <4>1 DEF IsMarked, KnowsItsLog, EntryOf, JobOf, InputOf, At
      <4>3. KnowsItsLog(g)'
        BY <4>1, <4>2 DEF KnowsItsLog, NothingSent, MayGoOn, CodeIsFree, IsReserved, IsNewer,
                          IsUnsent, At
      <4> QED
        BY <2>1, <3>2, <4>3, OnlyRun DEF TypeOK
    <3>5. CASE run'[g].step = "report"
      BY <2>1, <3>2, <3>5, NothingToKnow, OnlyRun DEF TypeOK
    <3> QED
      BY <3>2, <3>3, <3>4, <3>5
  <2> QED
    BY <1>4, <2>2, <2>3 DEF Handle
<1> QED
  BY <1>1, <1>2, <1>3, <1>4 DEF Server

-----------------------------------------------------------------------------
(***************************************************************************)
(* What the server has of a gate                                           *)
(***************************************************************************)

(* The server's job stays or is given up, no process takes up another job, *)
(* and no line that was uploaded is replaced.                              *)
LEMMA ServerFrame ==
    ASSUME TypeOK, ServerInv,
           \A j \in Jobs : server'[j] = server[j] \/ server'[j].status \notin {"signing", "succeeded"},
           \A g \in Gates : run'[g].step \in Early =>
               run[g].step \in Early /\ run'[g].claim = run[g].claim,
           \A g \in Gates, j \in Jobs :
               Claimed(j) /\ server[j].by = {g} /\ server[j].uploaded # {} /\ Final(log[g][j]) =>
                   Final(log'[g][j]) /\ log'[g][j].package = log[g][j].package
    PROVE  ServerInv'
<1>1. OneSigner'
  BY DEF ServerInv, OneSigner, Claimed
<1>2. UploadIsRecorded'
  <2> SUFFICES ASSUME NEW j \in Jobs, NEW g \in Gates, Claimed(j)', server'[j].by = {g}
               PROVE  \/ server'[j].uploaded = {} /\ ~IsReleased(j)'
                      \/ Final(log'[g][j]) /\ server'[j].uploaded = {log'[g][j].package}
    BY DEF UploadIsRecorded, Final
  <2>1. server'[j] = server[j] /\ Claimed(j)
    BY DEF Claimed
  <2>2. CASE server[j].uploaded = {} /\ ~IsReleased(j)
    BY <2>1, <2>2 DEF IsReleased
  <2>3. CASE Final(log[g][j]) /\ server[j].uploaded = {log[g][j].package}
    BY <2>1, <2>3
  <2> QED
    BY <2>1, <2>2, <2>3 DEF ServerInv, UploadIsRecorded
<1>3. NotYetUploaded'
  <2> SUFFICES ASSUME NEW g \in Gates, run'[g].step \in Early, Claimed(JobOf(g))',
                      (server[JobOf(g)].by)' = {g}
               PROVE  (server[JobOf(g)].uploaded)' = {}
    BY DEF NotYetUploaded
  <2>1. run[g].step \in Early /\ run'[g].claim = run[g].claim
    OBVIOUS
  <2>2. run[g].claim.job \in Jobs
    BY <2>1, WorkingRun DEF Early, Works, WorkSteps, JobOf
  <2>3. server'[run[g].claim.job] = server[run[g].claim.job]
    BY <2>1, <2>2 DEF Claimed, JobOf
  <2> QED
    BY <2>1, <2>3 DEF ServerInv, NotYetUploaded, Claimed, JobOf
<1> QED
  BY <1>1, <1>2, <1>3 DEF ServerInv

(* A step of one process that leaves the server and the logs alone.        *)
LEMMA OnlyRunServed ==
    ASSUME TypeOK, ServerInv, NEW g \in Gates, UNCHANGED <<log, server>>,
           \A h \in Gates \ {g} : run'[h] = run[h],
           run'[g].step \in Early => run[g].step \in Early /\ run'[g].claim = run[g].claim
    PROVE  ServerInv'
<1>1. \A h \in Gates : run'[h].step \in Early => run[h].step \in Early /\ run'[h].claim = run[h].claim
  OBVIOUS
<1> QED
  BY <1>1, ServerFrame

(* An entry that is not the one of a delivery may be replaced.             *)
LEMMA LineServed ==
    ASSUME TypeOK, GateInv, ServerInv, NEW g \in Gates, Works(g), MayWrite(g),
           Appends(g, JobOf(g), Line(g)), server' = server,
           \A h \in Gates \ {g} : run'[h] = run[h],
           run'[g].step \in Early => run[g].step \in Early /\ run'[g].claim = run[g].claim
    PROVE  ServerInv'
<1> DEFINE j == JobOf(g)
<1>1. j \in Jobs
  BY WorkingRun
<1>2. /\ log'[g][j] = Line(g)
      /\ \A k \in Jobs \ {j} : log'[g][k] = log[g][k]
      /\ \A h \in Gates \ {g} : log'[h] = log[h]
  BY <1>1 DEF Appends, TypeOK
<1>3. ASSUME Claimed(j), server[j].by = {g}, server[j].uploaded # {}, Final(EntryOf(g))
      PROVE  Final(Line(g)) /\ Line(g).package = EntryOf(g).package
  <2>1. ~At(g, "mark")
    BY <1>3 DEF ServerInv, NotYetUploaded, Early, At
  <2>2. At(g, "record")
    BY <1>3, <2>1 DEF MayWrite, MayReserve, Live, Final, At
  <2>3. EntryOf(g) \in [status : Statuses, input : Inputs, package : Nat]
    BY <1>1, <1>3, EntryFields DEF EntryOf, Final
  <2>4. Line(g) = [EntryOf(g) EXCEPT !.status = "completed"]
    BY <2>2 DEF Line, At
  <2> QED
    BY <2>3, <2>4 DEF Final
<1>4. \A h \in Gates, k \in Jobs :
         Claimed(k) /\ server[k].by = {h} /\ server[k].uploaded # {} /\ Final(log[h][k]) =>
             Final(log'[h][k]) /\ log'[h][k].package = log[h][k].package
  BY <1>2, <1>3 DEF EntryOf
<1>5. \A h \in Gates : run'[h].step \in Early => run[h].step \in Early /\ run'[h].claim = run[h].claim
  OBVIOUS
<1> QED
  BY <1>4, <1>5, ServerFrame

(* A claim starts without an upload, an upload is of the package the log   *)
(* has.                                                                    *)
LEMMA DaemonServed ==
    ASSUME TypeOK, GateInv, ServerInv, NEW g \in Gates, Daemon(g)
    PROVE  ServerInv'
<1> USE DEF records, history
<1>1. CASE Start(g)
  <2>1. run'[g].step = "idle" /\ \A h \in Gates \ {g} : run'[h] = run[h]
    BY <1>1, Gone DEF Start, Idle
  <2> QED
    BY <1>1, <2>1, OnlyRunServed DEF Start, Early
<1>2. ASSUME NEW j \in Jobs, Claim(g, j) PROVE ServerInv'
  <2> DEFINE r == [step |-> "look",
         claim |-> [job |-> j, attempt |-> server[j].attempt + 1, input |-> server[j].input],
         seen |-> {}, releasable |-> FALSE, package |-> 0,
         outcome |-> "none", fatal |-> FALSE]
  <2>1. log' = log /\ run[g].step = "idle" /\ server[j].status = "built"
    BY <1>2 DEF Claim, At, IsCandidate
  <2>2. server[j] \in [status : {"built", "signing", "succeeded", "failed"}, input : Inputs,
                      attempt : Nat, failures : Nat, by : SUBSET Gates, uploaded : SUBSET Nat]
    BY <2>1, JobFields
  <2>3. CASE ~Increasing(j)
    <3>1. server' = [server EXCEPT ![j].status = "failed"] /\ run' = run
      BY <1>2, <2>3 DEF Claim, SetJob
    <3>2. \A k \in Jobs : server'[k] = server[k] \/ server'[k].status \notin {"signing", "succeeded"}
      BY <2>2, <3>1 DEF TypeOK
    <3> QED
      BY <2>1, <3>1, <3>2, ServerFrame
  <2>4. CASE Increasing(j)
    <3>1. server' = [server EXCEPT ![j].status = "signing", ![j].attempt = @ + 1,
                                   ![j].by = {g}, ![j].uploaded = {}]
      BY <1>2, <2>4 DEF Claim
    <3>2. /\ server'[j].status = "signing" /\ server'[j].by = {g} /\ server'[j].uploaded = {}
          /\ \A k \in Jobs \ {j} : server'[k] = server[k]
      BY <2>2, <3>1 DEF TypeOK
    <3>3. run' = run \/ Goes(g, r)
      BY <1>2, <2>4 DEF Claim
    <3>4. \A h \in Gates \ {g} : run'[h] = run[h]
      <4> HIDE DEF r
      <4> QED
        BY <3>3, Gone
    <3>5. run'[g].step \in Early => run'[g].claim.job = j
      <4>1. r.claim.job = j
        OBVIOUS
      <4> HIDE DEF r
      <4>2. CASE Goes(g, r)
        BY <4>1, <4>2, Gone
      <4>3. CASE run' = run
        BY <2>1, <4>3 DEF Early
      <4> QED
        BY <3>3, <4>2, <4>3
    <3>6. OneSigner'
      BY <3>2 DEF ServerInv, OneSigner, Claimed
    <3>7. UploadIsRecorded'
      BY <2>1, <3>2 DEF ServerInv, UploadIsRecorded, Claimed, IsReleased, Final
    <3>8. NotYetUploaded'
      <4> SUFFICES ASSUME NEW h \in Gates, run'[h].step \in Early, Claimed(JobOf(h))',
                          (server[JobOf(h)].by)' = {h}
                   PROVE  (server[JobOf(h)].uploaded)' = {}
        BY DEF NotYetUploaded
      <4>1. CASE h = g
        BY <3>2, <3>5, <4>1 DEF JobOf
      <4>2. CASE h # g
        <5>1. run'[h] = run[h] /\ run[h].claim.job \in Jobs
          BY <3>4, <4>2, WorkingRun DEF Early, Works, WorkSteps, JobOf
        <5>2. run[h].claim.job # j
          BY <3>2, <4>2, <5>1 DEF JobOf
        <5>3. server'[run[h].claim.job] = server[run[h].claim.job]
          BY <3>2, <5>1, <5>2
        <5> QED
          BY <5>1, <5>3 DEF ServerInv, NotYetUploaded, Claimed, JobOf
      <4> QED
        BY <4>1, <4>2
    <3> QED
      BY <3>6, <3>7, <3>8 DEF ServerInv
  <2> QED
    BY <2>3, <2>4
<1>3. ASSUME Works(g), run[g].step \in Early, NEW r, Goes(g, r), r.claim = run[g].claim,
             UNCHANGED <<log, server>>
      PROVE  ServerInv'
  <2>1. run'[g] = r /\ \A h \in Gates \ {g} : run'[h] = run[h]
    BY <1>3, Gone
  <2> QED
    BY <1>3, <2>1, OnlyRunServed
<1>4. CASE Look(g)
  <2>1. Works(g) /\ run[g].step \in Early /\ run[g] \in Working /\ UNCHANGED <<log, server>>
    BY <1>4, WorkingRun DEF Look, At, Works, WorkSteps, Early
  <2>2. Reporting(g, "violation", FALSE).claim = run[g].claim
    BY <2>1 DEF Reporting, Working
  <2>3. [To(g, "check") EXCEPT !.seen = Taken(g, JobOf(g), InputOf(g))].claim = run[g].claim
    BY <2>1 DEF To, Working
  <2> QED
    BY <1>3, <1>4, <2>1, <2>2, <2>3 DEF Look
<1>5. CASE Check(g)
  <2>1. Works(g) /\ run[g].step \in Early /\ run[g] \in Working /\ UNCHANGED <<log, server>>
    BY <1>5, WorkingRun DEF Check, At, Works, WorkSteps, Early
  <2>2. Reporting(g, "violation", FALSE).claim = run[g].claim /\ To(g, "reserve").claim = run[g].claim
    BY <2>1 DEF Reporting, To, Working
  <2> QED
    BY <1>3, <1>5, <2>1, <2>2 DEF Check
<1>6. CASE Resume(g)
  <2>1. Works(g) /\ run[g].step \in Early /\ run[g] \in Working /\ UNCHANGED <<log, server>>
    BY <1>6, WorkingRun DEF Resume, At, Works, WorkSteps, Early
  <2>2. [To(g, "sign") EXCEPT !.releasable = (EntryOf(g).status = "reserved")].claim = run[g].claim
    BY <2>1 DEF To, Working
  <2> QED
    BY <1>3, <1>6, <2>1, <2>2 DEF Resume
<1>7. CASE Sign(g)
  <2>1. Works(g) /\ run[g].step \in Early /\ run[g] \in Working /\ UNCHANGED <<log, server>>
    BY <1>7, WorkingRun DEF Sign, At, Works, WorkSteps, Early
  <2>2. [To(g, "mark") EXCEPT !.package = packages + 1].claim = run[g].claim
    BY <2>1 DEF To, Working
  <2> QED
    BY <1>3, <1>7, <2>1, <2>2 DEF Sign
<1>8. CASE Write(g)
  <2>1. MayWrite(g) /\ Works(g) /\ Appends(g, JobOf(g), Line(g)) /\ server' = server
    BY <1>8 DEF Write, MayWrite, At, Works, WorkSteps
  <2>2. run'[g] = Written(g) /\ \A h \in Gates \ {g} : run'[h] = run[h]
    BY <1>8, Gone DEF Write
  <2>3. run[g] \in Working
    BY <2>1, WorkingRun
  <2>4. CASE At(g, "reserve")
    <3>1. run'[g] = [To(g, "sign") EXCEPT !.releasable = TRUE]
      BY <2>2, <2>4 DEF Written, At
    <3>2. run'[g].claim = run[g].claim /\ run[g].step \in Early
      BY <2>3, <2>4, <3>1 DEF To, Working, At, Early
    <3> QED
      BY <2>1, <2>2, <3>2, LineServed
  <2>5. CASE ~At(g, "reserve")
    <3>1. \/ run'[g] = [To(g, "upload") EXCEPT !.releasable = FALSE]
          \/ run'[g] = Idle
          \/ run'[g] = To(g, "report")
      <4>1. At(g, "mark") \/ At(g, "record") \/ At(g, "unsent")
        BY <2>1, <2>5 DEF MayWrite
      <4>2. CASE At(g, "mark")
        BY <2>2, <4>2 DEF Written, At
      <4>3. CASE At(g, "record")
        BY <2>2, <4>3 DEF Written, At
      <4>4. CASE At(g, "unsent")
        BY <2>2, <4>4 DEF Written, At
      <4> QED
        BY <4>1, <4>2, <4>3, <4>4
    <3>2. run'[g].step \notin Early
      <4>1. [To(g, "upload") EXCEPT !.releasable = FALSE].step = "upload"
        BY <2>3 DEF To, Working
      <4>2. To(g, "report").step = "report" /\ Idle.step = "idle"
        BY <2>3 DEF To, Working, Idle
      <4> QED
        BY <3>1, <4>1, <4>2 DEF Early
    <3> QED
      BY <2>1, <2>2, <3>2, LineServed
  <2> QED
    BY <2>4, <2>5
<1>9. CASE Upload(g)
  <2>1. /\ Works(g) /\ IsMarked(g) /\ log' = log /\ At(g, "upload")
    BY <1>9 DEF Upload, At, Works, WorkSteps, GateInv, RunsKnow, KnowsItsLog
  <2>2. run[g] \in Working /\ JobOf(g) \in Jobs
    BY <2>1, WorkingRun
  <2>3. /\ run'[g].step \notin Early /\ \A h \in Gates \ {g} : run'[h] = run[h]
    <3>1. \/ run' = run
          \/ Goes(g, To(g, "complete"))
          \/ Goes(g, Reporting(g, "stale", FALSE))
      BY <1>9 DEF Upload
    <3>2. To(g, "complete").step \notin Early /\ Reporting(g, "stale", FALSE).step \notin Early
      BY <2>2 DEF To, Reporting, Working, Early
    <3> QED
      BY <2>1, <3>1, <3>2, Gone DEF At, Early
  <2>4. CASE ~Current(g, run[g].claim)
    BY <1>9, <2>1, <2>3, <2>4, OnlyRunServed DEF Upload
  <2>5. CASE Current(g, run[g].claim)
    <3> DEFINE j == JobOf(g)
    <3>1. server[j].status = "signing" /\ server[j].by = {g}
      BY <2>5 DEF Current, IsOf, JobOf
    <3>2. server' = [server EXCEPT ![j].uploaded = {run[g].package}]
      BY <1>9, <2>5 DEF Upload
    <3>3. /\ server'[j].status = "signing" /\ server'[j].by = {g}
          /\ server'[j].uploaded = {run[g].package}
          /\ \A k \in Jobs \ {j} : server'[k] = server[k]
      <4>1. server[j] \in [status : {"built", "signing", "succeeded", "failed"}, input : Inputs,
                          attempt : Nat, failures : Nat, by : SUBSET Gates, uploaded : SUBSET Nat]
        BY <2>2, <3>1, JobFields
      <4> QED
        BY <2>2, <3>1, <3>2, <4>1 DEF TypeOK
    <3>4. OneSigner'
      BY <3>3 DEF ServerInv, OneSigner, Claimed
    <3>5. EntryOf(g).status = "signed" /\ EntryOf(g).package = run[g].package
      BY <2>1 DEF IsMarked, At
    <3>6. UploadIsRecorded'
      <4> SUFFICES ASSUME NEW k \in Jobs, NEW h \in Gates, Claimed(k)', server'[k].by = {h}
                   PROVE  \/ server'[k].uploaded = {} /\ ~IsReleased(k)'
                          \/ Final(log'[h][k]) /\ server'[k].uploaded = {log'[h][k].package}
        BY DEF UploadIsRecorded, Final
      <4>1. CASE k = j
        BY <2>1, <3>3, <3>5, <4>1 DEF EntryOf, Final
      <4>2. CASE k # j
        BY <2>1, <3>3, <4>2 DEF ServerInv, UploadIsRecorded, Claimed, IsReleased
      <4> QED
        BY <4>1, <4>2
    <3>7. NotYetUploaded'
      <4> SUFFICES ASSUME NEW h \in Gates, run'[h].step \in Early, Claimed(JobOf(h))',
                          (server[JobOf(h)].by)' = {h}
                   PROVE  (server[JobOf(h)].uploaded)' = {}
        BY DEF NotYetUploaded
      <4>1. h # g /\ run'[h] = run[h] /\ run[h].step \in Early
        BY <2>3
      <4>2. run[h].claim.job \in Jobs /\ run[h].claim.job # j
        BY <3>3, <4>1, WorkingRun DEF Early, Works, WorkSteps, JobOf
      <4>3. server'[run[h].claim.job] = server[run[h].claim.job]
        BY <3>3, <4>2
      <4> QED
        BY <4>1, <4>3 DEF ServerInv, NotYetUploaded, Claimed, JobOf
    <3> QED
      BY <3>4, <3>6, <3>7 DEF ServerInv
  <2> QED
    BY <2>4, <2>5
<1>10. CASE Complete(g)
  <2>1. Works(g) /\ UNCHANGED <<log, server>> /\ Goes(g, To(g, "waiting"))
    BY <1>10 DEF Complete, Works, WorkSteps
  <2>2. run'[g].step = "waiting" /\ \A h \in Gates \ {g} : run'[h] = run[h]
    BY <2>1, Gone, Fields DEF WorkSteps
  <2> QED
    BY <2>1, <2>2, OnlyRunServed DEF Early
<1>11. CASE Report(g)
  <2>1. Works(g) /\ log' = log /\ Goes(g, IF run[g].fatal THEN Down ELSE Idle)
    BY <1>11 DEF Report, At, Works, WorkSteps
  <2>2. run'[g].step \notin Early /\ \A h \in Gates \ {g} : run'[h] = run[h]
    BY <2>1, Gone DEF Down, Idle, Early
  <2>3. JobOf(g) \in Jobs
    BY <2>1, WorkingRun
  <2>4. \A k \in Jobs : server'[k] = server[k] \/ server'[k].status \notin {"signing", "succeeded"}
    <3>1. CASE server' = server
      BY <3>1
    <3>2. CASE server' # server
      <4>1. /\ Current(g, run[g].claim)
            /\ \/ server' = BackToBuilt(JobOf(g))
               \/ server' = SigningFailed(JobOf(g))
               \/ server' = [server EXCEPT ![JobOf(g)].status = "failed", ![JobOf(g)].uploaded = {}]
        BY <1>11, <3>2 DEF Report
      <4>2. server[JobOf(g)] \in [status : {"built", "signing", "succeeded", "failed"}, input : Inputs,
                          attempt : Nat, failures : Nat, by : SUBSET Gates, uploaded : SUBSET Nat]
        BY <2>3, <4>1, JobFields DEF Current, JobOf
      <4>3. server'[JobOf(g)].status \in {"built", "failed"}
            /\ \A k \in Jobs \ {JobOf(g)} : server'[k] = server[k]
        BY <2>3, <4>1, <4>2 DEF BackToBuilt, SigningFailed, TypeOK
      <4> QED
        BY <4>3
    <3> QED
      BY <3>1, <3>2
  <2> QED
    BY <2>1, <2>2, <2>4, ServerFrame
<1> QED
  BY <1>1, <1>2, <1>4, <1>5, <1>6, <1>7, <1>8, <1>9, <1>10, <1>11 DEF Daemon

(* A failure starts nothing and uploads nothing.                           *)
LEMMA TroubleServed ==
    ASSUME TypeOK, GateInv, ServerInv, NEW g \in Gates, Trouble(g)
    PROVE  ServerInv'
<1> USE DEF records, history
<1>1. CASE Crash(g)
  <2>1. run'[g].step = "down" /\ \A h \in Gates \ {g} : run'[h] = run[h]
    BY <1>1, Gone DEF Crash, Down
  <2> QED
    BY <1>1, <2>1, OnlyRunServed DEF Crash, Early
<1>2. CASE Repair(g)
  BY <1>2, OnlyRunServed DEF Repair
<1>3. CASE WriteBreaks(g)
  <2>1. /\ MayWrite(g) /\ Works(g) /\ server' = server
        /\ AppendsHalf(g, JobOf(g), Line(g))
    BY <1>3 DEF WriteBreaks, MayWrite, At, Works, WorkSteps
  <2>2. run[g].outcome \in Outcomes
    BY <2>1, WorkingRun DEF Working
  <2>3. Unwritten(g).step \in {"down", "report"}
    BY <2>1, <2>2, Fields DEF Unwritten, Down, Outcomes
  <2>4. run'[g].step \in {"down", "report"} /\ \A h \in Gates \ {g} : run'[h] = run[h]
    BY <1>3, <2>3, Gone DEF WriteBreaks, Down
  <2>5. run'[g].step \notin Early
    BY <2>4 DEF Early
  <2>6. CASE Appends(g, JobOf(g), Line(g))
    BY <2>1, <2>4, <2>5, <2>6, LineServed
  <2>7. CASE log' = log
    BY <2>1, <2>4, <2>5, <2>7, OnlyRunServed
  <2> QED
    BY <2>1, <2>6, <2>7 DEF AppendsHalf
<1>4. ASSUME NEW o \in Outcomes, NEW b \in BOOLEAN, Goes(g, Unsent(g, o, b)),
             run[g].step \in {"look", "check", "sign", "mark", "upload", "waiting"},
             UNCHANGED <<log, server>>
      PROVE  ServerInv'
  <2>1. Works(g) /\ KnowsItsLog(g)
    BY <1>4 DEF Works, WorkSteps, GateInv, RunsKnow
  <2>2. run'[g] = Unsent(g, o, b) /\ \A h \in Gates \ {g} : run'[h] = run[h]
    BY <1>4, Gone
  <2>3. /\ run'[g].step = (IF run[g].releasable THEN "unsent" ELSE "report")
        /\ run'[g].claim = run[g].claim
    BY <2>1, <2>2, Fields
  <2>4. run'[g].step \in Early => run[g].step \in Early
    BY <1>4, <2>1, <2>3 DEF KnowsItsLog, IsMarked, Early
  <2> QED
    BY <1>4, <2>2, <2>3, <2>4, OnlyRunServed
<1>5. CASE Interrupted(g)
  BY <1>4, <1>5 DEF Interrupted, Outcomes
<1>6. ASSUME NEW kind \in FailureKinds, NEW fatal \in BOOLEAN, Fail(g, kind, fatal)
      PROVE  ServerInv'
  <2>1. kind \in Outcomes
    BY FailuresAssumption DEF Outcomes
  <2> QED
    BY <1>4, <1>6, <2>1 DEF Fail
<1> QED
  BY <1>1, <1>2, <1>3, <1>5, <1>6 DEF Trouble

(* The operator replaces no line of a delivery.                            *)
LEMMA OperatorServed ==
    ASSUME TypeOK, GateInv, ServerInv, NEW g \in Gates, Operator(g)
    PROVE  ServerInv'
<1> USE DEF records, history
<1>1. ASSUME NEW j \in Jobs, Abandon(g, j) PROVE ServerInv'
  <2>1. log[g][j].status = "reserved" /\ UNCHANGED <<server, run>>
    BY <1>1 DEF Abandon
  <2>2. \A h \in Gates, k \in Jobs : (h # g \/ k # j) => log'[h][k] = log[h][k]
    BY <1>1 DEF Abandon, Appends, TypeOK
  <2>3. \A h \in Gates, k \in Jobs : Final(log[h][k]) => log'[h][k] = log[h][k]
    BY <2>1, <2>2 DEF Final
  <2> QED
    BY <2>1, <2>3, ServerFrame
<1>2. CASE Retire(g)
  <2>1. run'[g].step = "down" /\ \A h \in Gates \ {g} : run'[h] = run[h]
    BY <1>2, Gone DEF Retire, Down
  <2> QED
    BY <1>2, <2>1, OnlyRunServed DEF Retire, Early
<1>3. CASE PromoteFirst(g)
  BY <1>3, OnlyRunServed DEF PromoteFirst
<1>4. ASSUME NEW to, Goes(g, to), to.step \in {"down", "role", "baselines"},
             UNCHANGED <<log, server>>
      PROVE  ServerInv'
  <2>1. run'[g] = to /\ \A h \in Gates \ {g} : run'[h] = run[h]
    BY <1>4, Gone
  <2> QED
    BY <1>4, <2>1, OnlyRunServed DEF Early
<1>5. CASE PromoteManual(g)
  <2>1. [step |-> "role", from |-> {}].step = "role"
    OBVIOUS
  <2> QED
    BY <1>4, <1>5, <2>1 DEF PromoteManual
<1>6. ASSUME NEW old \in Gates, NEW new \in SUBSET Imported(g, old), Importable(g, old),
             log' = Merged(g, old, new), server' = server,
             \A h \in Gates \ {g} : run'[h] = run[h], run'[g].step \in {"down", "baselines"}
      PROVE  ServerInv'
  <2>1. \A h \in Gates, k \in Jobs : Final(log[h][k]) => log'[h][k] = log[h][k]
    BY <1>6 DEF Merged, Imported, Importable, Final, Live, TypeOK
  <2>2. \A h \in Gates : run'[h].step \in Early => run[h].step \in Early /\ run'[h].claim = run[h].claim
    BY <1>6 DEF Early
  <2> QED
    BY <1>6, <2>1, <2>2, ServerFrame
<1>7. ASSUME NEW old \in Gates, Import(g, old) PROVE ServerInv'
  <2>1. run'[g].step = "baselines" /\ \A h \in Gates \ {g} : run'[h] = run[h]
    BY <1>7, Gone DEF Import
  <2> QED
    BY <1>6, <1>7, <2>1 DEF Import
<1>8. ASSUME NEW old \in Gates, ImportBreaks(g, old) PROVE ServerInv'
  <2>1. run'[g].step = "down" /\ \A h \in Gates \ {g} : run'[h] = run[h]
    BY <1>8 DEF ImportBreaks, MayPromote, Stopped, At
  <2> QED
    BY <1>6, <1>8, <2>1 DEF ImportBreaks
<1>9. CASE ImportBaselines(g)
  <2>1. run[g] \in Promoting
    BY <1>9 DEF ImportBaselines, At, TypeOK, Down, Idle, Working, WorkSteps
  <2>2. [run[g] EXCEPT !.step = "role"].step = "role"
    BY <2>1 DEF Promoting
  <2> QED
    BY <1>4, <1>9, <2>2 DEF ImportBaselines
<1>10. CASE Promote(g)
  <2>1. Down.step = "down"
    BY DEF Down
  <2> QED
    BY <1>4, <1>10, <2>1 DEF Promote
<1> QED
  BY <1>1, <1>2, <1>3, <1>5, <1>7, <1>8, <1>9, <1>10 DEF Operator

(* The server releases what was uploaded, and forgets uploads only with    *)
(* the attempt.                                                            *)
LEMMA ServerServed ==
    ASSUME TypeOK, GateInv, ServerInv, Server
    PROVE  ServerInv'
<1> USE DEF records, history
<1>1. ASSUME NEW j \in Jobs, NEW input \in Inputs, Build(j, input) PROVE ServerInv'
  <2>1. \A k \in Jobs : server'[k] = server[k] \/ server'[k].status \notin {"signing", "succeeded"}
    BY <1>1 DEF Build, BuiltJob, TypeOK
  <2> QED
    BY <1>1, <2>1, ServerFrame DEF Build
<1>2. ASSUME NEW back \in SUBSET Jobs, NEW gone \in SUBSET (Jobs \ back),
             NEW input \in [back -> Inputs], Restore(back, gone, input)
      PROVE  ServerInv'
  <2>1. \A k \in Jobs : server'[k] = server[k] \/ server'[k].status \notin {"signing", "succeeded"}
    BY <1>2 DEF Restore, BuiltJob, NewJob
  <2> QED
    BY <1>2, <2>1, ServerFrame DEF Restore
<1>3. ASSUME NEW j \in Jobs, Reap(j) PROVE ServerInv'
  <2>1. server[j] \in [status : {"built", "signing", "succeeded", "failed"}, input : Inputs,
                      attempt : Nat, failures : Nat, by : SUBSET Gates, uploaded : SUBSET Nat]
    BY <1>3, JobFields DEF Reap
  <2>2. \A k \in Jobs : server'[k] = server[k] \/ server'[k].status \notin {"signing", "succeeded"}
    BY <1>3, <2>1 DEF Reap, SigningFailed, TypeOK
  <2> QED
    BY <1>3, <2>2, ServerFrame DEF Reap
<1>4. ASSUME NEW r \in requests, Handle(r) PROVE ServerInv'
  <2> DEFINE g == r.gate
             j == r.claim.job
  <2>1. g \in Gates /\ j \in Jobs /\ log' = log
    BY <1>4 DEF Handle, TypeOK, Claims
  <2>2. \A h \in Gates : run'[h].step \in Early => run[h].step \in Early /\ run'[h].claim = run[h].claim
    <3>1. CASE run' = run
      BY <3>1
    <3>2. CASE At(g, "waiting") /\ Goes(g, Answered(r))
      <4>1. Works(g)
        BY <3>2 DEF At, Works, WorkSteps
      <4> DEFINE o == IF ~Current(g, r.claim) THEN "stale"
                      ELSE IF ~Delivers(r) THEN "violation" ELSE "transient"
      <4>2. o \in Outcomes
        BY DEF Outcomes
      <4>3. Reporting(g, o, FALSE).step \notin Early /\ To(g, "record").step \notin Early
        <5>1. Reporting(g, o, FALSE).step = "report"
          BY <2>1, <4>1, <4>2, Fields
        <5>2. To(g, "record").step = "record"
          BY <2>1, <4>1, Fields DEF WorkSteps
        <5> QED
          BY <5>1, <5>2 DEF Early
      <4>4. Answered(r).step \notin Early
        BY <4>3 DEF Answered
      <4> QED
        BY <2>1, <3>2, <4>4, Gone
    <3> QED
      BY <1>4, <3>1, <3>2 DEF Handle
  <2>3. CASE ~Accepts(r)
    BY <1>4, <2>1, <2>2, <2>3, ServerFrame DEF Handle
  <2>4. CASE Accepts(r)
    <3>1. server[j].status = "signing" /\ server[j].by = {g} /\ server[j].uploaded = {r.package}
      BY <2>4 DEF Accepts, Current, IsOf, Delivers
    <3>2. /\ server'[j].status = "succeeded" /\ server'[j].by = {g}
          /\ server'[j].uploaded = {r.package}
          /\ \A k \in Jobs \ {j} : server'[k] = server[k]
      <4>1. server[j] \in [status : {"built", "signing", "succeeded", "failed"}, input : Inputs,
                          attempt : Nat, failures : Nat, by : SUBSET Gates, uploaded : SUBSET Nat]
        BY <2>1, <3>1, JobFields
      <4>2. server' = [server EXCEPT ![j].status = "succeeded"]
        BY <1>4, <2>4 DEF Handle, SetJob
      <4> HIDE DEF j
      <4>3. /\ server'[j] = [server[j] EXCEPT !.status = "succeeded"]
            /\ \A k \in Jobs \ {j} : server'[k] = server[k]
        BY <2>1, <4>2 DEF TypeOK
      <4> QED
        BY <3>1, <4>1, <4>3
    <3>3. OneSigner'
      BY <2>1, <3>2 DEF ServerInv, OneSigner, Claimed
    <3>4. UploadIsRecorded'
      <4> SUFFICES ASSUME NEW k \in Jobs, NEW h \in Gates, Claimed(k)', server'[k].by = {h}
                   PROVE  \/ server'[k].uploaded = {} /\ ~IsReleased(k)'
                          \/ Final(log'[h][k]) /\ server'[k].uploaded = {log'[h][k].package}
        BY DEF UploadIsRecorded, Final
      <4>1. CASE k = j
        BY <2>1, <3>1, <3>2, <4>1 DEF ServerInv, UploadIsRecorded, Claimed
      <4>2. CASE k # j
        BY <2>1, <3>2, <4>2 DEF ServerInv, UploadIsRecorded, Claimed, IsReleased
      <4> QED
        BY <4>1, <4>2
    <3>5. NotYetUploaded'
      <4> SUFFICES ASSUME NEW h \in Gates, run'[h].step \in Early, Claimed(JobOf(h))',
                          (server[JobOf(h)].by)' = {h}
                   PROVE  (server[JobOf(h)].uploaded)' = {}
        BY DEF NotYetUploaded
      <4>1. run[h].step \in Early /\ run'[h].claim = run[h].claim
        BY <2>2
      <4>2. run[h].claim.job \in Jobs
        BY <4>1, WorkingRun DEF Early, Works, WorkSteps, JobOf
      <4>3. /\ server'[run[h].claim.job].uploaded = server[run[h].claim.job].uploaded
            /\ server'[run[h].claim.job].by = server[run[h].claim.job].by
            /\ Claimed(run[h].claim.job)
        BY <3>1, <3>2, <4>1, <4>2 DEF Claimed, JobOf
      <4> QED
        BY <4>1, <4>3 DEF ServerInv, NotYetUploaded, JobOf
    <3> QED
      BY <3>3, <3>4, <3>5 DEF ServerInv
  <2> QED
    BY <2>3, <2>4
<1> QED
  BY <1>1, <1>2, <1>3, <1>4 DEF Server

-----------------------------------------------------------------------------
(***************************************************************************)
(* The theorems                                                            *)
(***************************************************************************)

(* What follows from the invariant.                                        *)
LEMMA InvariantSuffices ==
    ASSUME IInv
    PROVE  OneInputPerCode /\ SentIsRecorded /\ RunAndLogAgree /\ ReleaseIsRecorded
<1> USE DEF IInv
<1>1. OneInputPerCode
  <2> SUFFICES ASSUME NEW s \in sent, NEW t \in sent, s.gate = t.gate,
                      NumberOf[s.job] = NumberOf[t.job]
               PROVE  s.job = t.job /\ s.input = t.input
    BY DEF OneInputPerCode
  <2>1. s.gate \in Gates /\ s.job \in Jobs /\ t.job \in Jobs
    BY DEF TypeOK, Packages
  <2>2. /\ Live(log[s.gate][s.job]) /\ log[s.gate][s.job].input = s.input
        /\ Live(log[s.gate][t.job]) /\ log[s.gate][t.job].input = t.input
    BY DEF GateInv, SentIsRecorded, Live
  <2> QED
    BY <2>1, <2>2 DEF GateInv, OneHolder
<1>2. RunAndLogAgree
  <2>1. ASSUME NEW g \in Gates, At(g, "reserve")
        PROVE  MayWrite(g) \/ (Resumes(g) /\ EntryOf(g).status # "completed")
    <3>1. Works(g) /\ MayGoOn(g) /\ CodeIsFree(g)
      BY <2>1 DEF At, Works, WorkSteps, GateInv, RunsKnow, KnowsItsLog
    <3>2. JobOf(g) \in Jobs /\ CodeOf(g) \in Nat
      BY <3>1, WorkingRun
    <3>3. CASE Live(EntryOf(g))
      BY <2>1, <3>1, <3>2, <3>3 DEF MayGoOn, At, Resumes, Holder, IsFor, EntryOf, CodeOf, Open
    <3>4. CASE ~Live(EntryOf(g))
      <4>1. WithinLimits(CodeOf(g), Taken(g, JobOf(g), InputOf(g)))
        BY <2>1, <3>1 DEF MayGoOn, CodeIsFree, At
      <4>2. Holder(g, CodeOf(g)) = {}
        <5> SUFFICES ASSUME NEW k \in Jobs, Live(log[g][k]), NumberOf[k] = CodeOf(g) PROVE FALSE
          BY DEF Holder
        <5>1. k # JobOf(g)
          BY <3>4 DEF EntryOf
        <5>2. CodeOf(g) \in Taken(g, JobOf(g), InputOf(g))
          BY <5>1 DEF Taken
        <5> QED
          BY <3>2, <4>1, <5>2 DEF WithinLimits, Rises
      <4>3. ~Resumes(g)
        BY <4>2 DEF Resumes
      <4> QED
        BY <2>1, <3>4, <4>1, <4>2, <4>3 DEF MayWrite, MayReserve
    <3> QED
      BY <3>3, <3>4
  <2>2. ASSUME NEW g \in Gates, run[g].step \in {"mark", "record", "unsent"}
        PROVE  MayWrite(g)
    <3>1. IsReserved(g) /\ IsUnsent(g) /\ IsMarked(g)
      BY DEF GateInv, RunsKnow, KnowsItsLog
    <3> QED
      BY <2>2, <3>1 DEF IsReserved, IsUnsent, IsMarked, MayWrite, At, IsFor, Live, Open
  <2> QED
    BY <2>1, <2>2 DEF RunAndLogAgree
<1>3. ReleaseIsRecorded
  <2> SUFFICES ASSUME NEW j \in Jobs, IsReleased(j), NEW g \in server[j].by
               PROVE  Final(log[g][j]) /\ {log[g][j].package} = server[j].uploaded
    BY DEF ReleaseIsRecorded, Final
  <2>1. Claimed(j)
    BY DEF Claimed, IsReleased
  <2>2. g \in Gates /\ server[j].by = {g}
    BY <2>1 DEF ServerInv, OneSigner
  <2> QED
    BY <2>1, <2>2 DEF ServerInv, UploadIsRecorded
<1> QED
  BY <1>1, <1>2, <1>3 DEF GateInv

(* The invariant holds always: for any number of gates and jobs, however   *)
(* often they crash and the server is restored.                            *)
THEOREM GatesInvariant == Spec => []IInv
<1>1. Init /\ TypeOK => IInv
  BY DEF Init, IInv, GateInv, ServerInv, OneHolder, PackagesAreMade, RunsKnow, SentIsRecorded,
         KnowsItsLog, NothingSent, MayGoOn, CodeIsFree, IsReserved, IsNewer, IsUnsent, IsMarked,
         OneSigner, UploadIsRecorded, NotYetUploaded, Early, Claimed, Live, NoEntry, NewJob, Down, At
<1>2. IInv /\ TypeOK' /\ [Next]_vars => IInv'
  <2> SUFFICES ASSUME IInv, TypeOK', [Next]_vars PROVE IInv'
    OBVIOUS
  <2>1. CASE Next
    <3>1. GateInv'
      BY <2>1, ReadingKeeps, WriteKeeps, UploadKeeps, TroubleKeeps, OperatorKeeps, ServerKeeps
         DEF IInv, Next, Daemon
    <3>2. ServerInv'
      BY <2>1, DaemonServed, TroubleServed, OperatorServed, ServerServed DEF IInv, Next
    <3> QED
      BY <3>1, <3>2 DEF IInv
  <2>2. CASE UNCHANGED vars
    <3>1. GateInv'
      BY <2>2, NoRun DEF IInv, vars
    <3>2. ServerInv'
      BY <2>2, ServerFrame DEF IInv, vars
    <3> QED
      BY <3>1, <3>2 DEF IInv
  <2> QED
    BY <2>1, <2>2
<1> QED
  BY <1>1, <1>2, TypeCorrect, PTL DEF Spec

(* A gate never lets two packages with one version code out.               *)
THEOREM OneInputPerCodeHolds == Spec => []OneInputPerCode
<1>1. IInv => OneInputPerCode
  BY InvariantSuffices
<1> QED
  BY <1>1, GatesInvariant, PTL

(* What left a gate is in its log for good.                                *)
THEOREM SentIsRecordedHolds == Spec => []SentIsRecorded
<1>1. IInv => SentIsRecorded
  BY InvariantSuffices
<1> QED
  BY <1>1, GatesInvariant, PTL

(* No check of a record refuses the line of a daemon that came so far.     *)
THEOREM RunAndLogAgreeHolds == Spec => []RunAndLogAgree
<1>1. IInv => RunAndLogAgree
  BY InvariantSuffices
<1> QED
  BY <1>1, GatesInvariant, PTL

(* A released package is the one its gate recorded last.                   *)
THEOREM ReleaseIsRecordedHolds == Spec => []ReleaseIsRecorded
<1>1. IInv => ReleaseIsRecorded
  BY InvariantSuffices
<1> QED
  BY <1>1, GatesInvariant, PTL

-----------------------------------------------------------------------------
(***************************************************************************)
(* All gates together                                                      *)
(*                                                                         *)
(* The primary knows every release, no two releases share a version code,  *)
(* releases rise, and what is delivered is not sent again.                 *)
(*                                                                         *)
(* The invariant has four parts: one gate works at a time, what it sends   *)
(* lies above its baseline, a promotion carries over what was released,    *)
(* and a working gate goes from lower to higher numbers.                   *)
(***************************************************************************)
-----------------------------------------------------------------------------
(***************************************************************************)
(* One primary at a time                                                   *)
(***************************************************************************)
OnePrimary == latest = {} \/ \E g \in Gates : latest = {g}
LatestIsPrimary == \A g \in latest : role[g] = "primary"
IsPrimary(g) == latest = {g} /\ g \notin retired

(* Only the primary works, only its attempts are current, and a gate that  *)
(* is being promoted finds no other one at work.                           *)
WorkersArePrimary == \A g \in Gates : Works(g) => IsPrimary(g)
SignersArePrimary ==
    \A j \in Jobs, g \in Gates :
        server[j].status = "signing" /\ server[j].by = {g} /\ g \notin retired => IsPrimary(g)
RetiredAreDown == \A g \in retired : At(g, "down")
PromotedAreAlone ==
    \A g \in Gates : IsPromoted(g) =>
        /\ role[g] = "standby"
        /\ latest # {} /\ latest \subseteq retired
        /\ At(g, "baselines") => run[g].from = latest
        /\ \A h \in Gates : IsPromoted(h) => h = g
OneAtWork ==
    /\ OnePrimary /\ LatestIsPrimary /\ WorkersArePrimary /\ SignersArePrimary
    /\ RetiredAreDown /\ PromotedAreAlone

(***************************************************************************)
(* What is sent lies above the baseline                                    *)
(***************************************************************************)
Package(g, claim, package) ==
    [gate |-> g, job |-> claim.job, input |-> claim.input, package |-> package]

IsAboveBaseline ==
    \A g \in Gates : run[g].step \in {"sign", "mark", "upload"} => baseline[g] < CodeOf(g)
SentAboveBaseline ==
    \A s \in sent : role[s.gate] = "primary" /\ baseline[s.gate] < NumberOf[s.job]
CompletedAreSent ==
    /\ \A r \in requests : Package(r.gate, r.claim, r.package) \in sent
    /\ \A g \in Gates : run[g].step \in {"complete", "waiting", "record"} =>
          Package(g, run[g].claim, run[g].package) \in sent
SendsAreRecorded == IsAboveBaseline /\ SentAboveBaseline /\ CompletedAreSent

(***************************************************************************)
(* What a promotion carries over                                           *)
(***************************************************************************)

(* A line says "completed" once the server has released the job.           *)
CompletedAreReleased ==
    /\ \A g \in Gates, j \in Jobs :
          log[g][j].status = "completed" => \E r \in released : r.job = j
    /\ \A g \in Gates : At(g, "record") => \E r \in released : r.job = JobOf(g)
    /\ \A j \in Jobs : IsReleased(j) => \E r \in released : r.job = j

(* g knows a release, or will when it has taken over the baseline x.       *)
IsBelow(g, j, x) == NumberOf[j] <= baseline[g] \/ NumberOf[j] <= x
KnowsUpTo(g, r, x) ==
    \/ Final(log[g][r.job]) /\ log[g][r.job].input = r.input
    \/ IsBelow(g, r.job, x)
KnowsDelivered(g, j, x) == log[g][j].status = "completed" \/ IsBelow(g, j, x)
KnowsAllUpTo(g, x) ==
    /\ \A r \in released : KnowsUpTo(g, r, x)
    /\ \A h \in Gates, j \in Jobs : log[h][j].status = "completed" => KnowsDelivered(g, j, x)
KnowsAll(g) == KnowsAllUpTo(g, 0)

KnowledgeIsCarried ==
    /\ latest = {} => released = {}
    /\ \A g \in latest : KnowsAll(g)
    /\ \A g \in Gates : At(g, "role") => KnowsAll(g)
    /\ \A g \in Gates : At(g, "baselines") =>
          \A old \in run[g].from : KnowsAllUpTo(g, baseline[old])
Carried == CompletedAreReleased /\ KnowledgeIsCarried /\ OneReleasePerCode

(***************************************************************************)
(* What is released rises                                                  *)
(***************************************************************************)
IsAboveAll(g, j) == \A k \in Jobs \ {j} : Live(log[g][k]) => NumberOf[k] < NumberOf[j]

Takes(status) == status \in {"built", "signing", "succeeded"}
NumbersAreOnce ==
    \A j, k \in Jobs :
        Takes(server[j].status) /\ Takes(server[k].status) /\ NumberOf[j] = NumberOf[k] => j = k
WorkIsBelow ==
    \A g \in Gates, j \in Jobs :
        /\ Works(g) /\ j # JobOf(g)
        /\ server[j].status = "signing" /\ server[j].by = {g}
        => CodeOf(g) < NumberOf[j]
WorkIsAbove ==
    \A g \in Gates :
        run[g].step \in {"sign", "mark", "upload"} => IsAboveAll(g, JobOf(g))
UploadedIsAbove ==
    \A g \in Gates, j \in Jobs :
        /\ server[j].status = "signing" /\ server[j].by = {g} /\ g \notin retired
        /\ server[j].uploaded # {}
        => IsAboveAll(g, j)
Rise == NumbersAreOnce /\ WorkIsBelow /\ WorkIsAbove /\ UploadedIsAbove

ReleaseInv == OneAtWork /\ SendsAreRecorded /\ Carried /\ Rise

-----------------------------------------------------------------------------
(***************************************************************************)
(* How the steps of the daemons and of the server move                     *)
(***************************************************************************)
Plain == (\E g \in Gates : Daemon(g) \/ Trouble(g)) \/ Server

(* A process stays, rests, begins to work on a candidate, or goes on.      *)
Rests(g) == run'[g].step = "down" \/ (run'[g].step = "idle" /\ g \notin retired)
BeginsWork(g) ==
    /\ At(g, "idle") /\ IsPrimary(g) /\ run'[g].step = "look"
    /\ run'[g].claim.job \in Jobs /\ IsCandidate(run'[g].claim.job)
    /\ \A k \in Jobs \ {run'[g].claim.job} : server'[k] = server[k]
GoesOn(g) ==
    /\ Works(g) /\ run'[g].claim = run[g].claim
    /\ \/ run'[g].step \in {"check", "reserve", "unsent", "report"}
       \/ At(g, "reserve") /\ run'[g].step = "sign"
       \/ At(g, "sign") /\ run'[g].step = "mark"
       \/ At(g, "mark") /\ run'[g].step = "upload"
       \/ run'[g].step = "complete" /\ Package(g, run[g].claim, run'[g].package) \in sent'
       \/ /\ run[g].step \in {"complete", "waiting"} /\ run'[g].step = "waiting"
          /\ run'[g].package = run[g].package
       \/ /\ At(g, "waiting") /\ run'[g].step = "record"
          /\ run'[g].package = run[g].package
          /\ \E r \in released' : r.job = JobOf(g)
RunMoves(g) == run'[g] = run[g] \/ Rests(g) \/ BeginsWork(g) \/ GoesOn(g)

(* A daemon adds its line.                                                 *)
AddsLine(g) == MayWrite(g) /\ log' = [log EXCEPT ![g][JobOf(g)] = Line(g)]
LogMoves == log' = log \/ \E g \in Gates : AddsLine(g)

(* A job gets an attempt of the primary, an upload of its gate, is         *)
(* released, or stops being signed.                                        *)
GetsAttempt(j) ==
    \E g \in Gates :
        /\ At(g, "idle") /\ IsPrimary(g)
        /\ server'[j].status = "signing" /\ server'[j].by = {g} /\ server'[j].uploaded = {}
GetsUpload(j) ==
    \E g \in Gates :
        /\ At(g, "upload") /\ JobOf(g) = j
        /\ server[j].status = "signing" /\ server[j].by = {g}
        /\ server'[j].status = "signing" /\ server'[j].by = {g}
IsConcluded(j) == server'[j].status = "succeeded" /\ \E r \in released' : r.job = j
ServerMoves(j) ==
    \/ server'[j] = server[j] \/ server'[j].status \in {"absent", "built", "failed"}
    \/ GetsAttempt(j) \/ GetsUpload(j) \/ IsConcluded(j)

(* What leaves a gate, what is asked, and what is released.                *)
SentMoves ==
    \/ sent' = sent
    \/ \E g \in Gates : /\ At(g, "upload")
                        /\ sent' = sent \cup {Package(g, run[g].claim, run[g].package)}
Asked(r) ==
    \E g \in Gates :
        /\ run[g].step \in {"complete", "waiting"}
        /\ r = [gate |-> g, claim |-> run[g].claim, package |-> run[g].package]
RequestsMove == \A r \in requests' : r \in requests \/ Asked(r)
Release(r) == [job |-> r.claim.job, input |-> r.claim.input, package |-> r.package]
ReleasedMoves ==
    \/ released' = released
    \/ \E r \in requests : Accepts(r) /\ released' = released \cup {Release(r)}

PlainMoves ==
    /\ UNCHANGED <<roles, baseline>>
    /\ \A g \in Gates : RunMoves(g)
    /\ \A j \in Jobs : ServerMoves(j)
    /\ LogMoves /\ SentMoves /\ RequestsMove /\ ReleasedMoves

(* A step that moves one process.                                          *)
LEMMA OneMoves ==
    ASSUME TypeOK, NEW g \in Gates, NEW r, Goes(g, r), run'[g] = r => RunMoves(g)
    PROVE  \A h \in Gates : RunMoves(h)
  BY Gone DEF RunMoves

(* A step that leaves what it does not name.                               *)
LEMMA MovesOnly ==
    ASSUME UNCHANGED <<roles, baseline, log, sent, requests, released>>,
           \A g \in Gates : RunMoves(g), \A j \in Jobs : ServerMoves(j)
    PROVE  PlainMoves
  BY DEF PlainMoves, LogMoves, SentMoves, RequestsMove, ReleasedMoves

(* What the steps of sign leave of the claim.                              *)
LEMMA ClaimStays ==
    ASSUME TypeOK, NEW g \in Gates, Works(g)
    PROVE  /\ \A s \in WorkSteps :
                  To(g, s).step = s /\ To(g, s).claim = run[g].claim /\ To(g, s).package = run[g].package
           /\ \A s \in WorkSteps, b \in BOOLEAN :
                  LET r == [To(g, s) EXCEPT !.releasable = b] IN
                      r.step = s /\ r.claim = run[g].claim /\ r.package = run[g].package
           /\ \A s \in WorkSteps, x \in SUBSET Nat :
                  LET r == [To(g, s) EXCEPT !.seen = x] IN r.step = s /\ r.claim = run[g].claim
           /\ \A s \in WorkSteps, p \in Nat :
                  LET r == [To(g, s) EXCEPT !.package = p] IN r.step = s /\ r.claim = run[g].claim
           /\ \A o \in Outcomes, b \in BOOLEAN :
                  Reporting(g, o, b).step = "report" /\ Reporting(g, o, b).claim = run[g].claim
           /\ \A o \in Outcomes, b \in BOOLEAN :
                  Unsent(g, o, b).step \in {"unsent", "report"} /\ Unsent(g, o, b).claim = run[g].claim
<1>1. run[g] \in Working
  BY WorkingRun
<1> QED
  BY <1>1 DEF To, Reporting, Unsent, Working

(* What a report leaves of it.                                             *)
LEMMA ReportStays ==
    ASSUME TypeOK, NEW g \in Gates, Works(g), NEW o \in Outcomes, NEW b \in BOOLEAN
    PROVE  Reporting(g, o, b).step = "report" /\ Reporting(g, o, b).claim = run[g].claim
<1>1. run[g] \in Working
  BY WorkingRun
<1> QED
  BY <1>1 DEF Reporting, Working

(* And a next step.                                                        *)
LEMMA StepStays ==
    ASSUME TypeOK, NEW g \in Gates, Works(g), NEW s \in WorkSteps
    PROVE  To(g, s).step = s /\ To(g, s).claim = run[g].claim /\ To(g, s).package = run[g].package
<1>1. run[g] \in Working
  BY WorkingRun
<1> QED
  BY <1>1 DEF To, Working

(* The daemon at its steps without a line or an upload.                    *)
LEMMA ReadingMoves ==
    ASSUME IInv, NEW g \in Gates,
           Start(g) \/ Look(g) \/ Check(g) \/ Resume(g) \/ Sign(g) \/ Complete(g)
    PROVE  PlainMoves
<1> USE DEF IInv
<1>1. \A j \in Jobs : ServerMoves(j)
  BY DEF Start, Look, Check, Resume, Sign, Complete, ServerMoves
<1>2. CASE Start(g)
  <2>1. \A h \in Gates : RunMoves(h)
    BY <1>2, OneMoves DEF Start, RunMoves, Rests, Idle
  <2> QED
    BY <1>1, <1>2, <2>1, MovesOnly DEF Start, records, roles, history
<1>3. CASE Look(g)
  <2>1. Works(g)
    BY <1>3 DEF Look, At, Works, WorkSteps
  <2>2. Taken(g, JobOf(g), InputOf(g)) \in SUBSET Nat
    BY NumbersAssumption DEF Taken, TypeOK
  <2>3. \/ Goes(g, Reporting(g, "violation", FALSE))
        \/ Goes(g, [To(g, "check") EXCEPT !.seen = Taken(g, JobOf(g), InputOf(g))])
    BY <1>3 DEF Look
  <2>4. /\ Reporting(g, "violation", FALSE).step = "report"
        /\ Reporting(g, "violation", FALSE).claim = run[g].claim
        /\ [To(g, "check") EXCEPT !.seen = Taken(g, JobOf(g), InputOf(g))].step = "check"
        /\ [To(g, "check") EXCEPT !.seen = Taken(g, JobOf(g), InputOf(g))].claim = run[g].claim
    <3>1. "check" \in WorkSteps /\ "violation" \in Outcomes
      BY DEF WorkSteps, Outcomes
    <3>2. \A x \in SUBSET Nat : LET r == [To(g, "check") EXCEPT !.seen = x]
                              IN  r.step = "check" /\ r.claim = run[g].claim
      BY <2>1, <3>1, ClaimStays
    <3>3. /\ [To(g, "check") EXCEPT !.seen = Taken(g, JobOf(g), InputOf(g))].step = "check"
          /\ [To(g, "check") EXCEPT !.seen = Taken(g, JobOf(g), InputOf(g))].claim = run[g].claim
      BY <2>2, <3>2
    <3> QED
      BY <2>1, <3>1, <3>3, ReportStays
  <2>5. \A h \in Gates : RunMoves(h)
    BY <2>1, <2>3, <2>4, OneMoves DEF RunMoves, GoesOn
  <2> QED
    BY <1>1, <1>3, <2>5, MovesOnly DEF Look, records, roles, history
<1>4. CASE Check(g)
  <2>1. Works(g)
    BY <1>4 DEF Check, At, Works, WorkSteps
  <2>2. Goes(g, To(g, "reserve")) \/ Goes(g, Reporting(g, "violation", FALSE))
    BY <1>4 DEF Check
  <2>3. /\ To(g, "reserve").step = "reserve" /\ To(g, "reserve").claim = run[g].claim
        /\ Reporting(g, "violation", FALSE).step = "report"
        /\ Reporting(g, "violation", FALSE).claim = run[g].claim
    <3>1. "reserve" \in WorkSteps /\ "violation" \in Outcomes
      BY DEF WorkSteps, Outcomes
    <3> QED
      BY <2>1, <3>1, ReportStays, StepStays
  <2>4. \A h \in Gates : RunMoves(h)
    BY <2>1, <2>2, <2>3, OneMoves DEF RunMoves, GoesOn
  <2> QED
    BY <1>1, <1>4, <2>4, MovesOnly DEF Check, records, roles, history
<1>5. CASE Resume(g)
  <2>1. Works(g) /\ At(g, "reserve")
    BY <1>5 DEF Resume, At, Works, WorkSteps
  <2> DEFINE r == [To(g, "sign") EXCEPT !.releasable = (EntryOf(g).status = "reserved")]
  <2>2. r.step = "sign" /\ r.claim = run[g].claim
    <3>1. (EntryOf(g).status = "reserved") \in BOOLEAN /\ "sign" \in WorkSteps
      BY DEF WorkSteps
    <3> QED
      BY <2>1, <3>1, ClaimStays
  <2>3. \A h \in Gates : RunMoves(h)
    <3>1. Goes(g, r)
      BY <1>5 DEF Resume
    <3> HIDE DEF r
    <3> QED
      BY <2>1, <2>2, <3>1, OneMoves DEF RunMoves, GoesOn
  <2> QED
    BY <1>1, <1>5, <2>3, MovesOnly DEF Resume, records, roles, history
<1>6. CASE Sign(g)
  <2>1. Works(g) /\ At(g, "sign") /\ packages + 1 \in Nat
    BY <1>6 DEF Sign, At, Works, WorkSteps, TypeOK
  <2> DEFINE r == [To(g, "mark") EXCEPT !.package = packages + 1]
  <2>2. \A h \in Gates : RunMoves(h)
    <3>1. r.step = "mark" /\ r.claim = run[g].claim
      <4>1. "mark" \in WorkSteps
        BY DEF WorkSteps
      <4> QED
        BY <2>1, <4>1, ClaimStays
    <3>2. Goes(g, r)
      BY <1>6 DEF Sign
    <3> HIDE DEF r
    <3> QED
      BY <2>1, <3>1, <3>2, OneMoves DEF RunMoves, GoesOn
  <2> QED
    BY <1>1, <1>6, <2>2, MovesOnly DEF Sign, records, roles
<1>7. CASE Complete(g)
  <2>1. Works(g)
    BY <1>7 DEF Complete, Works, WorkSteps
  <2>2. \A h \in Gates : RunMoves(h)
    BY <1>7, <2>1, ClaimStays, OneMoves DEF Complete, RunMoves, GoesOn, WorkSteps
  <2>3. RequestsMove
    BY <1>7 DEF Complete, RequestsMove, Asked
  <2> QED
    BY <1>1, <1>7, <2>2, <2>3
       DEF Complete, PlainMoves, LogMoves, SentMoves, ReleasedMoves, records, roles, history
<1> QED
  BY <1>2, <1>3, <1>4, <1>5, <1>6, <1>7

(* The daemon claims a job.                                                *)
LEMMA ClaimMoves ==
    ASSUME IInv, NEW g \in Gates, NEW j \in Jobs, Claim(g, j)
    PROVE  PlainMoves
<1> DEFINE r == [step |-> "look",
                 claim |-> [job |-> j, attempt |-> server[j].attempt + 1, input |-> server[j].input],
                 seen |-> {}, releasable |-> FALSE, package |-> 0,
                 outcome |-> "none", fatal |-> FALSE]
<1>1. TypeOK /\ IsPrimary(g) /\ At(g, "idle") /\ IsCandidate(j)
  BY DEF IInv, Claim, IsPrimary
<1>2. r.step = "look" /\ r.claim.job = j
  OBVIOUS
<1>3. \/ run' = run \/ Goes(g, r)
  BY DEF Claim
<1>4. \/ server' = [server EXCEPT ![j].status = "failed"]
      \/ server' = [server EXCEPT ![j].status = "signing", ![j].attempt = @ + 1,
                                 ![j].by = {g}, ![j].uploaded = {}]
  BY DEF Claim, SetJob
<1> HIDE DEF r
<1>5. \A k \in Jobs \ {j} : server'[k] = server[k]
  BY <1>1, <1>4 DEF TypeOK
<1>6. server[j].status = "built" /\ server[j].status # "absent"
  BY <1>1 DEF IsCandidate
<1>7. ServerMoves(j)
  <2>1. server[j] \in [status : {"built", "signing", "succeeded", "failed"}, input : Inputs,
                       attempt : Nat, failures : Nat, by : SUBSET Gates, uploaded : SUBSET Nat]
    BY <1>1, <1>6, JobFields
  <2>2. CASE server' = [server EXCEPT ![j].status = "failed"]
    BY <1>1, <2>1, <2>2 DEF ServerMoves, TypeOK
  <2>3. CASE server' = [server EXCEPT ![j].status = "signing", ![j].attempt = @ + 1,
                                      ![j].by = {g}, ![j].uploaded = {}]
    <3>1. server'[j].status = "signing" /\ server'[j].by = {g} /\ server'[j].uploaded = {}
      BY <1>1, <2>1, <2>3 DEF TypeOK
    <3> QED
      BY <1>1, <3>1 DEF ServerMoves, GetsAttempt
  <2> QED
    BY <1>4, <2>2, <2>3
<1>8. \A k \in Jobs : ServerMoves(k)
  BY <1>5, <1>7 DEF ServerMoves
<1>9. \A h \in Gates : RunMoves(h)
  <2>1. run'[g] = r => RunMoves(g)
    BY <1>1, <1>2, <1>5 DEF RunMoves, BeginsWork
  <2> QED
    BY <1>1, <1>3, <2>1, OneMoves DEF RunMoves
<1> QED
  BY <1>8, <1>9, MovesOnly DEF Claim, records, roles, history

(* The daemon adds its line.                                               *)
LEMMA WriteMoves ==
    ASSUME IInv, ReleaseInv, NEW g \in Gates, Write(g)
    PROVE  PlainMoves
<1>1. TypeOK /\ Works(g) /\ MayWrite(g)
  BY DEF IInv, Write, MayWrite, At, Works, WorkSteps
<1>2. log' = [log EXCEPT ![g][JobOf(g)] = Line(g)] /\ UNCHANGED baseline
  BY DEF Write, Appends
<1>3. \A h \in Gates : RunMoves(h)
  <2> USE DEF WorkSteps
  <2>1. CASE At(g, "reserve")
    <3> DEFINE r == [To(g, "sign") EXCEPT !.releasable = TRUE]
    <3>1. r.step = "sign" /\ r.claim = run[g].claim
      BY <1>1, ClaimStays
    <3>2. Goes(g, r)
      BY <2>1 DEF Write, Written, At
    <3> HIDE DEF r
    <3> QED
      BY <1>1, <2>1, <3>1, <3>2, OneMoves DEF RunMoves, GoesOn
  <2>2. CASE At(g, "mark")
    <3> DEFINE r == [To(g, "upload") EXCEPT !.releasable = FALSE]
    <3>1. r.step = "upload" /\ r.claim = run[g].claim
      BY <1>1, ClaimStays
    <3>2. Goes(g, r)
      BY <2>2 DEF Write, Written, At
    <3> HIDE DEF r
    <3> QED
      BY <1>1, <2>2, <3>1, <3>2, OneMoves DEF RunMoves, GoesOn
  <2>3. CASE At(g, "record")
    <3>1. Goes(g, Idle) /\ Idle.step = "idle"
      BY <2>3 DEF Write, Written, At, Idle
    <3>2. g \notin retired
      BY <1>1, <2>3 DEF ReleaseInv, OneAtWork, WorkersArePrimary, IsPrimary
    <3> QED
      BY <1>1, <3>1, <3>2, OneMoves DEF RunMoves, Rests
  <2>4. CASE At(g, "unsent")
    <3>1. Goes(g, To(g, "report"))
      BY <2>4 DEF Write, Written, At
    <3>2. To(g, "report").step = "report" /\ To(g, "report").claim = run[g].claim
      BY <1>1, ClaimStays
    <3> QED
      BY <1>1, <3>1, <3>2, OneMoves DEF RunMoves, GoesOn
  <2> QED
    BY <1>1, <2>1, <2>2, <2>3, <2>4 DEF MayWrite
<1> QED
  BY <1>1, <1>2, <1>3
     DEF Write, PlainMoves, LogMoves, AddsLine, SentMoves, RequestsMove, ReleasedMoves, ServerMoves,
         roles, history

(* The daemon uploads.                                                     *)
LEMMA UploadMoves ==
    ASSUME IInv, ReleaseInv, NEW g \in Gates, Upload(g)
    PROVE  PlainMoves
<1>1. TypeOK /\ Works(g) /\ At(g, "upload") /\ run[g].package \in Nat /\ JobOf(g) \in Jobs
  <2>1. TypeOK /\ Works(g) /\ At(g, "upload")
    BY DEF IInv, Upload, At, Works, WorkSteps
  <2> QED
    BY <2>1, WorkingRun DEF Working
<1>2. sent' = sent \cup {Package(g, run[g].claim, run[g].package)}
  BY DEF Upload, Package, JobOf, InputOf
<1>3. \A h \in Gates : RunMoves(h)
  <2>1. /\ To(g, "complete").step = "complete" /\ To(g, "complete").claim = run[g].claim
        /\ To(g, "complete").package = run[g].package
        /\ Reporting(g, "stale", FALSE).step = "report"
        /\ Reporting(g, "stale", FALSE).claim = run[g].claim
    <3>1. "complete" \in WorkSteps /\ "stale" \in Outcomes
      BY DEF WorkSteps, Outcomes
    <3> QED
      BY <1>1, <3>1, ReportStays, StepStays
  <2>2. run' = run \/ Goes(g, To(g, "complete")) \/ Goes(g, Reporting(g, "stale", FALSE))
    BY DEF Upload
  <2>3. CASE run' = run
    BY <2>3 DEF RunMoves
  <2>4. CASE Goes(g, To(g, "complete"))
    <3>1. Package(g, run[g].claim, To(g, "complete").package) \in sent'
      BY <1>2, <2>1
    <3> QED
      BY <1>1, <2>1, <2>4, <3>1, OneMoves DEF RunMoves, GoesOn
  <2>5. CASE Goes(g, Reporting(g, "stale", FALSE))
    BY <1>1, <2>1, <2>5, OneMoves DEF RunMoves, GoesOn
  <2> QED
    BY <2>2, <2>3, <2>4, <2>5
<1>4. \A j \in Jobs : ServerMoves(j)
  <2>1. CASE server' = server
    BY <2>1 DEF ServerMoves
  <2>2. CASE ~(server' = server)
    <3>1. /\ Current(g, run[g].claim)
          /\ server' = [server EXCEPT ![JobOf(g)].uploaded = {run[g].package}]
      BY <2>2 DEF Upload
    <3>2. server[JobOf(g)].status = "signing" /\ server[JobOf(g)].by = {g}
      BY <3>1 DEF Current, IsOf, JobOf
    <3>3. server'[JobOf(g)].status = "signing" /\ server'[JobOf(g)].by = {g}
      <4>1. server[JobOf(g)] \in [status : {"built", "signing", "succeeded", "failed"}, input : Inputs,
                    attempt : Nat, failures : Nat, by : SUBSET Gates, uploaded : SUBSET Nat]
        BY <1>1, <3>2, JobFields
      <4> QED
        BY <1>1, <3>1, <3>2, <4>1 DEF TypeOK
    <3>4. \A k \in Jobs \ {JobOf(g)} : server'[k] = server[k]
      BY <1>1, <3>1 DEF TypeOK
    <3> QED
      BY <1>1, <3>2, <3>3, <3>4 DEF ServerMoves, GetsUpload
  <2> QED
    BY <2>1, <2>2
<1> QED
  BY <1>1, <1>2, <1>3, <1>4
     DEF Upload, PlainMoves, LogMoves, SentMoves, RequestsMove, ReleasedMoves, records, roles

(* A job that stops being signed.                                          *)
LEMMA StopsMoves ==
    ASSUME TypeOK, NEW j \in Jobs, server[j].status # "absent",
           \/ server' = server
           \/ server' = BackToBuilt(j)
           \/ server' = SigningFailed(j)
           \/ server' = [server EXCEPT ![j].status = "failed", ![j].uploaded = {}]
    PROVE  \A k \in Jobs : ServerMoves(k)
<1>1. server[j] \in [status : {"built", "signing", "succeeded", "failed"}, input : Inputs,
                     attempt : Nat, failures : Nat, by : SUBSET Gates, uploaded : SUBSET Nat]
  BY JobFields
<1>2. \A k \in Jobs \ {j} : server'[k] = server[k]
  BY DEF TypeOK, BackToBuilt, SigningFailed
<1>3. server' = server \/ server'[j].status \in {"built", "failed"}
  BY <1>1 DEF TypeOK, BackToBuilt, SigningFailed
<1> QED
  BY <1>2, <1>3 DEF ServerMoves

(* The daemon reports.                                                     *)
LEMMA ReportMoves ==
    ASSUME IInv, ReleaseInv, NEW g \in Gates, Report(g)
    PROVE  PlainMoves
<1>1. TypeOK /\ Works(g) /\ JobOf(g) \in Jobs
  <2>1. TypeOK /\ Works(g)
    BY DEF IInv, Report, At, Works, WorkSteps
  <2> QED
    BY <2>1, WorkingRun
<1>2. \A k \in Jobs : ServerMoves(k)
  <2>1. CASE Current(g, run[g].claim)
    <3>1. server[JobOf(g)].status # "absent"
      BY <2>1 DEF Current, JobOf
    <3>2. \/ server' = server
          \/ server' = BackToBuilt(JobOf(g))
          \/ server' = SigningFailed(JobOf(g))
          \/ server' = [server EXCEPT ![JobOf(g)].status = "failed", ![JobOf(g)].uploaded = {}]
      BY <2>1 DEF Report
    <3> QED
      BY <1>1, <3>1, <3>2, StopsMoves
  <2>2. CASE ~Current(g, run[g].claim)
    BY <2>2 DEF Report, ServerMoves
  <2> QED
    BY <2>1, <2>2
<1>3. \A h \in Gates : RunMoves(h)
  <2>1. Goes(g, Down) \/ Goes(g, Idle)
    BY DEF Report
  <2>2. g \notin retired
    BY <1>1 DEF ReleaseInv, OneAtWork, WorkersArePrimary, IsPrimary
  <2> QED
    BY <1>1, <2>1, <2>2, OneMoves DEF RunMoves, Rests, Idle, Down
<1> QED
  BY <1>2, <1>3, MovesOnly DEF Report, records, roles, history

(* What goes wrong on a gate.                                              *)
LEMMA TroubleMoves ==
    ASSUME IInv, NEW g \in Gates, Trouble(g)
    PROVE  PlainMoves
<1>1. TypeOK
  BY DEF IInv
<1>2. UNCHANGED <<roles, baseline, sent, released, server, requests>>
  BY DEF Trouble, Crash, Repair, WriteBreaks, Interrupted, Fail, AppendsHalf, Appends, records, history
<1>3. LogMoves
  BY DEF Trouble, Crash, Repair, WriteBreaks, Interrupted, Fail, AppendsHalf, Appends, records,
         LogMoves, AddsLine
<1>4. \A h \in Gates : RunMoves(h)
  <2>1. CASE Crash(g)
    BY <1>1, <2>1, OneMoves DEF Crash, RunMoves, Rests, Down
  <2>2. CASE Repair(g)
    BY <2>2 DEF Repair, RunMoves
  <2>3. CASE WriteBreaks(g)
    <3>1. Works(g)
      BY <2>3 DEF WriteBreaks, MayWrite, At, Works, WorkSteps
    <3>2. CASE Goes(g, Down)
      BY <1>1, <3>2, OneMoves DEF RunMoves, Rests, Down
    <3>3. CASE Goes(g, Unwritten(g)) /\ ~At(g, "record")
      <4> DEFINE o == IF At(g, "unsent") THEN run[g].outcome ELSE "deferred"
      <4>1. o \in Outcomes
        BY <1>1, <3>1, WorkingRun DEF Working, Outcomes
      <4>2. Reporting(g, o, TRUE).step = "report" /\ Reporting(g, o, TRUE).claim = run[g].claim
        BY <1>1, <3>1, <4>1, ReportStays
      <4>3. Goes(g, Reporting(g, o, TRUE))
        BY <3>3 DEF Unwritten
      <4> HIDE DEF o
      <4> QED
        BY <1>1, <3>1, <4>2, <4>3, OneMoves DEF RunMoves, GoesOn
    <3>4. CASE Goes(g, Unwritten(g)) /\ At(g, "record")
      BY <1>1, <3>4, OneMoves DEF Unwritten, RunMoves, Rests, Down
    <3> QED
      BY <2>3, <3>2, <3>3, <3>4 DEF WriteBreaks
  <2>4. CASE Interrupted(g)
    <3>1. Works(g) /\ "stale" \in Outcomes
      BY <2>4 DEF Interrupted, Works, WorkSteps, Outcomes
    <3>2. Unsent(g, "stale", FALSE).step \in {"unsent", "report"}
          /\ Unsent(g, "stale", FALSE).claim = run[g].claim
      BY <1>1, <3>1, ClaimStays
    <3>3. Goes(g, Unsent(g, "stale", FALSE))
      BY <2>4 DEF Interrupted
    <3> QED
      BY <1>1, <3>1, <3>2, <3>3, OneMoves DEF RunMoves, GoesOn
  <2>5. ASSUME NEW kind \in FailureKinds, NEW fatal \in BOOLEAN, Fail(g, kind, fatal)
        PROVE  \A h \in Gates : RunMoves(h)
    <3>1. Works(g) /\ kind \in Outcomes
      BY <2>5, FailuresAssumption DEF Fail, Works, WorkSteps, Outcomes
    <3>2. Unsent(g, kind, fatal).step \in {"unsent", "report"}
          /\ Unsent(g, kind, fatal).claim = run[g].claim
      BY <1>1, <3>1, ClaimStays
    <3>3. Goes(g, Unsent(g, kind, fatal))
      BY <2>5 DEF Fail
    <3> QED
      BY <1>1, <3>1, <3>2, <3>3, OneMoves DEF RunMoves, GoesOn
  <2> QED
    BY <2>1, <2>2, <2>3, <2>4, <2>5 DEF Trouble
<1> QED
  BY <1>2, <1>3, <1>4 DEF PlainMoves, ServerMoves, SentMoves, RequestsMove, ReleasedMoves

(* The server handles a completion.                                        *)
LEMMA HandleMoves ==
    ASSUME IInv, ReleaseInv, NEW r \in requests, Handle(r)
    PROVE  PlainMoves
<1> DEFINE g == r.gate  j == r.claim.job
<1>1. TypeOK /\ g \in Gates /\ j \in Jobs
  BY DEF IInv, TypeOK, Claims
<1>2. IF Accepts(r)
      THEN server' = [server EXCEPT ![j].status = "succeeded"] /\ released' = released \cup {Release(r)}
      ELSE UNCHANGED <<server, released>>
  BY DEF Handle, SetJob, Release
<1>3. \A k \in Jobs : ServerMoves(k)
  <2>1. CASE Accepts(r)
    <3>1. server[j].status # "absent"
      BY <2>1 DEF Accepts, Current
    <3>2. server[j] \in [status : {"built", "signing", "succeeded", "failed"}, input : Inputs,
                         attempt : Nat, failures : Nat, by : SUBSET Gates, uploaded : SUBSET Nat]
      BY <1>1, <3>1, JobFields
    <3>3. server'[j].status = "succeeded" /\ \A k \in Jobs \ {j} : server'[k] = server[k]
      BY <1>1, <1>2, <2>1, <3>2 DEF TypeOK
    <3>4. Release(r) \in released' /\ Release(r).job = j
      BY <1>2, <2>1 DEF Release
    <3> QED
      BY <3>3, <3>4 DEF ServerMoves, IsConcluded
  <2>2. CASE ~Accepts(r)
    BY <1>2, <2>2 DEF ServerMoves
  <2> QED
    BY <2>1, <2>2
<1>4. \A h \in Gates : RunMoves(h)
  <2>1. CASE run' = run
    BY <2>1 DEF RunMoves
  <2>2. CASE ~(run' = run)
    <3>1. Goes(g, Answered(r)) /\ At(g, "waiting") /\ run[g].claim = r.claim
      BY <2>2 DEF Handle
    <3>2. Works(g)
      BY <3>1 DEF At, Works, WorkSteps
    <3>3. CASE Accepts(r) \/ Accepted(r)
      <4>1. \E q \in released' : q.job = JobOf(g)
        <5>1. CASE Accepts(r)
          <6>1. Release(r) \in released' /\ Release(r).job = JobOf(g)
            BY <1>2, <3>1, <5>1 DEF Release, JobOf
          <6> QED
            BY <6>1
        <5>2. CASE Accepted(r)
          <6>1. \E q \in released : q.job = j
            BY <1>1, <5>2 DEF Accepted, ReleaseInv, Carried, CompletedAreReleased
          <6> QED
            BY <1>2, <3>1, <6>1 DEF JobOf
        <5> QED
          BY <3>3, <5>1, <5>2
      <4>2. /\ To(g, "record").step = "record" /\ To(g, "record").claim = run[g].claim
            /\ To(g, "record").package = run[g].package
        BY <1>1, <3>2, StepStays DEF WorkSteps
      <4>3. Goes(g, To(g, "record"))
        BY <3>1, <3>3 DEF Answered
      <4> QED
        BY <1>1, <3>1, <3>2, <4>1, <4>2, <4>3, OneMoves DEF RunMoves, GoesOn
    <3>4. CASE ~(Accepts(r) \/ Accepted(r))
      <4> DEFINE o == IF ~Current(r.gate, r.claim) THEN "stale"
                      ELSE IF ~Delivers(r) THEN "violation" ELSE "transient"
      <4>1. Goes(g, Reporting(g, o, FALSE))
        BY <3>1, <3>4 DEF Answered
      <4>2. o \in Outcomes
        BY DEF Outcomes
      <4> HIDE DEF o
      <4>3. Reporting(g, o, FALSE).step = "report" /\ Reporting(g, o, FALSE).claim = run[g].claim
        BY <1>1, <3>2, <4>2, ReportStays
      <4> QED
        BY <1>1, <3>2, <4>1, <4>3, OneMoves DEF RunMoves, GoesOn
    <3> QED
      BY <3>3, <3>4
  <2> QED
    BY <2>1, <2>2
<1>5. ReleasedMoves
  BY <1>2 DEF ReleasedMoves
<1> QED
  BY <1>3, <1>4, <1>5
     DEF Handle, PlainMoves, LogMoves, SentMoves, RequestsMove, records, roles

(* The other steps of the server.                                          *)
LEMMA ServingMoves ==
    ASSUME IInv,
           \/ \E j \in Jobs, input \in Inputs : Build(j, input)
           \/ \E back \in SUBSET Jobs : \E gone \in SUBSET (Jobs \ back), input \in [back -> Inputs] :
                  Restore(back, gone, input)
           \/ \E j \in Jobs : Reap(j)
    PROVE  PlainMoves
<1>1. TypeOK
  BY DEF IInv
<1>2. UNCHANGED <<roles, baseline, log, sent, released, run>> /\ requests' \subseteq requests
  BY DEF Build, Restore, Reap, records, history
<1>3. \A k \in Jobs : ServerMoves(k)
  <2>1. ASSUME NEW j \in Jobs, NEW input \in Inputs, Build(j, input) PROVE \A k \in Jobs : ServerMoves(k)
    BY <1>1, <2>1 DEF Build, BuiltJob, ServerMoves, TypeOK
  <2>2. ASSUME NEW back \in SUBSET Jobs, NEW gone \in SUBSET (Jobs \ back), NEW input \in [back -> Inputs],
               Restore(back, gone, input)
        PROVE  \A k \in Jobs : ServerMoves(k)
    BY <2>2 DEF Restore, BuiltJob, NewJob, ServerMoves
  <2>3. ASSUME NEW j \in Jobs, Reap(j) PROVE \A k \in Jobs : ServerMoves(k)
    BY <1>1, <2>3, StopsMoves DEF Reap
  <2> QED
    BY <2>1, <2>2, <2>3
<1> QED
  BY <1>2, <1>3 DEF PlainMoves, RunMoves, LogMoves, SentMoves, RequestsMove, ReleasedMoves

(* All of them.                                                            *)
LEMMA PlainStep ==
    ASSUME IInv, ReleaseInv, Plain
    PROVE  PlainMoves
  BY ReadingMoves, ClaimMoves, WriteMoves, UploadMoves, ReportMoves, TroubleMoves, HandleMoves,
     ServingMoves DEF Plain, Daemon, Server

-----------------------------------------------------------------------------
(***************************************************************************)
(* What these moves preserve                                               *)
(***************************************************************************)

(* Who works is the primary.                                               *)
LEMMA OneAtWorkPlain ==
    ASSUME TypeOK, OneAtWork, PlainMoves
    PROVE  OneAtWork'
<1>1. UNCHANGED <<role, latest, retired>>
  BY DEF PlainMoves, roles
<1>2. OnePrimary' /\ LatestIsPrimary'
  BY <1>1 DEF OneAtWork, OnePrimary, LatestIsPrimary
<1>3. WorkersArePrimary'
  <2> SUFFICES ASSUME NEW g \in Gates, Works(g)' PROVE IsPrimary(g)
    BY <1>1 DEF WorkersArePrimary, IsPrimary
  <2>1. ~Rests(g)
    BY DEF Rests, Works, WorkSteps
  <2>2. RunMoves(g)
    BY DEF PlainMoves
  <2> QED
    BY <2>1, <2>2 DEF RunMoves, BeginsWork, GoesOn, OneAtWork, WorkersArePrimary, Works
<1>4. SignersArePrimary'
  <2> SUFFICES ASSUME NEW j \in Jobs, NEW g \in Gates, server'[j].status = "signing",
                      server'[j].by = {g}, g \notin retired
               PROVE  IsPrimary(g)
    BY <1>1 DEF SignersArePrimary, IsPrimary
  <2>1. ServerMoves(j)
    BY DEF PlainMoves
  <2>2. CASE server'[j] = server[j]
    BY <2>2 DEF OneAtWork, SignersArePrimary
  <2>3. CASE GetsAttempt(j)
    BY <2>3 DEF GetsAttempt
  <2>4. CASE GetsUpload(j)
    BY <2>4 DEF GetsUpload, OneAtWork, SignersArePrimary
  <2>5. ~IsConcluded(j) /\ server'[j].status \notin {"absent", "built", "failed"}
    BY DEF IsConcluded
  <2> QED
    BY <2>1, <2>2, <2>3, <2>4, <2>5 DEF ServerMoves
<1>5. RetiredAreDown'
  <2> SUFFICES ASSUME NEW g \in retired PROVE At(g, "down")'
    BY <1>1 DEF RetiredAreDown
  <2>1. At(g, "down") /\ RunMoves(g)
    BY DEF PlainMoves, OneAtWork, RetiredAreDown, TypeOK
  <2> QED
    BY <2>1 DEF RunMoves, Rests, BeginsWork, GoesOn, Works, WorkSteps, At
<1>6. PromotedAreAlone'
  <2>1. ASSUME NEW g \in Gates, IsPromoted(g)' PROVE run'[g] = run[g] /\ IsPromoted(g)
    <3>1. RunMoves(g)
      BY DEF PlainMoves
    <3> QED
      BY <2>1, <3>1 DEF RunMoves, Rests, BeginsWork, GoesOn, IsPromoted
  <2>2. ASSUME NEW g \in Gates, IsPromoted(g)'
        PROVE  /\ role[g] = "standby" /\ latest # {} /\ latest \subseteq retired
               /\ At(g, "baselines")' => run'[g].from = latest
               /\ \A h \in Gates : IsPromoted(h)' => h = g
    BY <2>1, <2>2 DEF OneAtWork, PromotedAreAlone, At
  <2> QED
    BY <1>1, <2>2 DEF PromotedAreAlone
<1> QED
  BY <1>2, <1>3, <1>4, <1>5, <1>6 DEF OneAtWork

(* What a gate says to be delivered or to have left stays so.              *)
LEMMA LineKeepsFinal ==
    ASSUME TypeOK, NEW g \in Gates, AddsLine(g), NEW h \in Gates, NEW j \in Jobs
    PROVE  /\ (h # g \/ j # JobOf(g)) => log'[h][j] = log[h][j]
           /\ Final(log[h][j]) => Final(log'[h][j]) /\ log'[h][j].input = log[h][j].input
           /\ log[h][j].status = "completed" => log'[h][j] = log[h][j]
           /\ log'[h][j].status = "completed" =>
                  log[h][j].status = "completed" \/ (At(g, "record") /\ h = g /\ j = JobOf(g))
<1>1. Works(g) /\ MayWrite(g)
  BY DEF AddsLine, MayWrite, At, Works, WorkSteps
<1>2. JobOf(g) \in Jobs
  BY <1>1, WorkingRun
<1>3. log' = [log EXCEPT ![g][JobOf(g)] = Line(g)]
  BY DEF AddsLine
<1>4. (h # g \/ j # JobOf(g)) => log'[h][j] = log[h][j]
  BY <1>2, <1>3 DEF TypeOK
<1>5. ASSUME h = g, j = JobOf(g)
      PROVE  /\ Final(log[h][j]) => Final(log'[h][j]) /\ log'[h][j].input = log[h][j].input
             /\ log[h][j].status # "completed"
             /\ log'[h][j].status = "completed" => At(g, "record")
  <2>1. log'[h][j] = Line(g) /\ log[h][j] = EntryOf(g)
    BY <1>2, <1>3, <1>5 DEF TypeOK, EntryOf
  <2>2. CASE At(g, "reserve")
    <3>1. ~Live(EntryOf(g)) /\ Line(g).status = "reserved"
      BY <1>1, <2>2 DEF MayWrite, MayReserve, At, Line
    <3> QED
      BY <2>1, <3>1 DEF Live, Final
  <2>3. CASE At(g, "mark")
    <3>1. /\ EntryOf(g).status \in {"reserved", "signed"} /\ EntryOf(g).input = InputOf(g)
          /\ Line(g).status = "signed" /\ Line(g).input = InputOf(g)
      BY <1>1, <2>3 DEF MayWrite, IsFor, At, Line
    <3> QED
      BY <2>1, <3>1 DEF Final
  <2>4. CASE At(g, "record")
    <3>1. EntryOf(g).status = "signed"
      BY <1>1, <2>4 DEF MayWrite, At
    <3>2. EntryOf(g) \in [status : Statuses, input : Inputs, package : Nat]
      BY <2>1, <3>1, <1>5, EntryFields
    <3>3. Line(g).status = "completed" /\ Line(g).input = EntryOf(g).input
      BY <2>4, <3>2 DEF Line, At
    <3> QED
      BY <2>1, <2>4, <3>1, <3>3 DEF Final
  <2>5. CASE At(g, "unsent")
    <3>1. EntryOf(g).status = "reserved"
      BY <1>1, <2>5 DEF MayWrite, At
    <3>2. EntryOf(g) \in [status : Statuses, input : Inputs, package : Nat]
      BY <2>1, <3>1, <1>5, EntryFields
    <3>3. Line(g).status = "abandoned"
      BY <2>5, <3>2 DEF Line, At
    <3> QED
      BY <2>1, <3>1, <3>3 DEF Final
  <2> QED
    BY <1>1, <2>2, <2>3, <2>4, <2>5 DEF MayWrite
<1> QED
  BY <1>4, <1>5

(* Also for a step that adds no line.                                      *)
LEMMA FinalStays ==
    ASSUME TypeOK, LogMoves, NEW g \in Gates, NEW j \in Jobs
    PROVE  /\ Final(log[g][j]) => Final(log'[g][j]) /\ log'[g][j].input = log[g][j].input
           /\ log[g][j].status = "completed" => log'[g][j].status = "completed"
  BY LineKeepsFinal DEF LogMoves

(* Only a gate that works changes its log, and only for its job.           *)
LEMMA OwnLine ==
    ASSUME TypeOK, LogMoves, NEW g \in Gates
    PROVE  \/ log'[g] = log[g]
           \/ /\ Works(g) /\ MayWrite(g)
              /\ \A k \in Jobs \ {JobOf(g)} : log'[g][k] = log[g][k]
<1>1. CASE log' = log
  BY <1>1
<1>2. ASSUME NEW h \in Gates, AddsLine(h)
      PROVE  \/ log'[g] = log[g]
             \/ /\ Works(g) /\ MayWrite(g)
                /\ \A k \in Jobs \ {JobOf(g)} : log'[g][k] = log[g][k]
  <2>1. Works(h) /\ MayWrite(h)
    BY <1>2 DEF AddsLine, MayWrite, At, Works, WorkSteps
  <2>2. CASE h = g
    BY <1>2, <2>1, <2>2, LineKeepsFinal
  <2>3. CASE h # g
    BY <1>2, <2>3 DEF AddsLine, TypeOK
  <2> QED
    BY <2>2, <2>3
<1> QED
  BY <1>1, <1>2 DEF LogMoves

(* What is signed lies above the baseline.                                 *)
LEMMA LimitsAreAbove ==
    ASSUME TypeOK, NEW g \in Gates, Works(g),
           WithinLimits(CodeOf(g), Taken(g, JobOf(g), InputOf(g)))
    PROVE  baseline[g] < CodeOf(g) /\ IsAboveAll(g, JobOf(g))
<1>1. CodeOf(g) \in Nat \ {0} /\ baseline[g] \in Nat
  BY WorkingRun DEF TypeOK
<1>2. \A x \in Taken(g, JobOf(g), InputOf(g)) : x < CodeOf(g)
  BY DEF WithinLimits, Rises
<1>3. baseline[g] < CodeOf(g)
  <2>1. baseline[g] # 0 => baseline[g] \in Taken(g, JobOf(g), InputOf(g))
    BY DEF Taken
  <2> QED
    BY <1>1, <1>2, <2>1
<1>4. IsAboveAll(g, JobOf(g))
  BY <1>2 DEF IsAboveAll, Taken, CodeOf
<1> QED
  BY <1>3, <1>4

(* Reserve measured the code against all that is taken now.                *)
LEMMA ReservedIsAbove ==
    ASSUME IInv, NEW g \in Gates, At(g, "reserve")
    PROVE  baseline[g] < CodeOf(g) /\ IsAboveAll(g, JobOf(g))
<1>1. Works(g) /\ MayGoOn(g) /\ CodeIsFree(g)
  BY DEF At, Works, WorkSteps, IInv, GateInv, RunsKnow, KnowsItsLog
<1>2. WithinLimits(CodeOf(g), Taken(g, JobOf(g), InputOf(g)))
  BY <1>1 DEF MayGoOn, CodeIsFree, At
<1> QED
  BY <1>1, <1>2, LimitsAreAbove DEF IInv

(* A gate that is past its reservation was reserving or past it before.    *)
LEMMA ReservedBefore ==
    ASSUME NEW g \in Gates, RunMoves(g), run'[g].step \in {"sign", "mark", "upload"}
    PROVE  /\ run[g].step \in {"reserve", "sign", "mark", "upload"}
           /\ run'[g].claim = run[g].claim
  BY DEF RunMoves, Rests, BeginsWork, GoesOn, At

LEMMA SendsPlain ==
    ASSUME IInv, OneAtWork, SendsAreRecorded, PlainMoves
    PROVE  SendsAreRecorded'
<1>1. TypeOK /\ UNCHANGED <<role, latest, retired, baseline>>
  BY DEF IInv, PlainMoves, roles
<1>2. sent \subseteq sent'
  BY DEF PlainMoves, SentMoves
<1>3. IsAboveBaseline'
  <2> SUFFICES ASSUME NEW g \in Gates, run'[g].step \in {"sign", "mark", "upload"}
               PROVE  baseline[g] < CodeOf(g)'
    BY <1>1 DEF IsAboveBaseline
  <2>1. run[g].step \in {"reserve", "sign", "mark", "upload"} /\ CodeOf(g)' = CodeOf(g)
    BY ReservedBefore DEF PlainMoves, CodeOf, JobOf
  <2> QED
    BY <2>1, ReservedIsAbove DEF SendsAreRecorded, IsAboveBaseline, At
<1>4. SentAboveBaseline'
  <2> SUFFICES ASSUME NEW s \in sent' PROVE role[s.gate] = "primary" /\ baseline[s.gate] < NumberOf[s.job]
    BY <1>1 DEF SentAboveBaseline
  <2>1. CASE s \in sent
    BY <2>1 DEF SendsAreRecorded, SentAboveBaseline
  <2>2. CASE s \notin sent
    <3>1. PICK g \in Gates : At(g, "upload") /\ s = Package(g, run[g].claim, run[g].package)
      BY <2>2 DEF PlainMoves, SentMoves
    <3>2. s.gate = g /\ s.job = JobOf(g)
      BY <3>1 DEF Package, JobOf
    <3>3. role[g] = "primary"
      BY <3>1 DEF OneAtWork, WorkersArePrimary, LatestIsPrimary, IsPrimary, Works, WorkSteps, At
    <3> QED
      BY <3>1, <3>2, <3>3 DEF SendsAreRecorded, IsAboveBaseline, At, CodeOf
  <2> QED
    BY <2>1, <2>2
<1>5. CompletedAreSent'
  <2>1. ASSUME NEW r \in requests' PROVE Package(r.gate, r.claim, r.package) \in sent'
    <3>1. CASE r \in requests
      BY <1>2, <3>1 DEF SendsAreRecorded, CompletedAreSent
    <3>2. CASE Asked(r)
      <4>1. PICK g \in Gates : /\ run[g].step \in {"complete", "waiting"}
                               /\ r = [gate |-> g, claim |-> run[g].claim, package |-> run[g].package]
        BY <3>2 DEF Asked
      <4>2. Package(g, run[g].claim, run[g].package) \in sent
        BY <4>1 DEF SendsAreRecorded, CompletedAreSent
      <4> QED
        BY <1>2, <4>1, <4>2
    <3> QED
      BY <3>1, <3>2 DEF PlainMoves, RequestsMove
  <2>2. ASSUME NEW g \in Gates, run'[g].step \in {"complete", "waiting", "record"}
        PROVE  Package(g, run'[g].claim, run'[g].package) \in sent'
    <3>1. RunMoves(g)
      BY DEF PlainMoves
    <3>2. CASE run'[g] = run[g]
      BY <1>2, <2>2, <3>2 DEF SendsAreRecorded, CompletedAreSent
    <3>3. CASE GoesOn(g)
      <4>1. CASE run'[g].step = "complete"
        BY <3>3, <4>1 DEF GoesOn
      <4>2. CASE run'[g].step \in {"waiting", "record"}
        <5>1. /\ run[g].step \in {"complete", "waiting"}
              /\ run'[g].claim = run[g].claim /\ run'[g].package = run[g].package
          BY <3>3, <4>2 DEF GoesOn, At
        <5> QED
          BY <1>2, <5>1 DEF SendsAreRecorded, CompletedAreSent
      <4> QED
        BY <2>2, <4>1, <4>2
    <3> QED
      BY <2>2, <3>1, <3>2, <3>3 DEF RunMoves, Rests, BeginsWork
  <2> QED
    BY <2>1, <2>2 DEF CompletedAreSent
<1> QED
  BY <1>3, <1>4, <1>5 DEF SendsAreRecorded

(* A completion that is accepted was sent by the primary, which has it in  *)
(* its log and above its baseline, and had to be above all it knew.        *)
LEMMA AcceptedBy ==
    ASSUME IInv, OneAtWork, SendsAreRecorded, NEW r \in requests, Accepts(r)
    PROVE  /\ r.gate \in Gates /\ r.claim.job \in Jobs
           /\ IsPrimary(r.gate)
           /\ Final(log[r.gate][r.claim.job])
           /\ log[r.gate][r.claim.job].input = r.claim.input
           /\ baseline[r.gate] < NumberOf[r.claim.job]
<1>1. r.gate \in Gates /\ r.claim.job \in Jobs
  BY DEF IInv, TypeOK, Claims
<1>2. IsPrimary(r.gate)
  BY <1>1 DEF Accepts, Current, IsOf, OneAtWork, SignersArePrimary
<1>3. Package(r.gate, r.claim, r.package) \in sent
  BY DEF SendsAreRecorded, CompletedAreSent
<1>4. /\ Package(r.gate, r.claim, r.package).gate = r.gate
      /\ Package(r.gate, r.claim, r.package).job = r.claim.job
      /\ Package(r.gate, r.claim, r.package).input = r.claim.input
  BY DEF Package
<1>5. Final(log[r.gate][r.claim.job]) /\ log[r.gate][r.claim.job].input = r.claim.input
  BY <1>3, <1>4 DEF IInv, GateInv, SentIsRecorded, Final
<1>6. baseline[r.gate] < NumberOf[r.claim.job]
  BY <1>3, <1>4 DEF SendsAreRecorded, SentAboveBaseline
<1> QED
  BY <1>1, <1>2, <1>5, <1>6

(* What a gate knows it goes on knowing.                                   *)
LEMMA KnowsOn ==
    ASSUME TypeOK, LogMoves, UNCHANGED baseline, NEW g \in Gates, NEW x
    PROVE  /\ \A r \in released : KnowsUpTo(g, r, x) => KnowsUpTo(g, r, x)'
           /\ \A j \in Jobs : KnowsDelivered(g, j, x) => KnowsDelivered(g, j, x)'
<1>1. ASSUME NEW r \in released, KnowsUpTo(g, r, x) PROVE KnowsUpTo(g, r, x)'
  <2>1. r.job \in Jobs
    BY DEF TypeOK
  <2> QED
    BY <1>1, <2>1, FinalStays DEF KnowsUpTo, IsBelow
<1>2. ASSUME NEW j \in Jobs, KnowsDelivered(g, j, x) PROVE KnowsDelivered(g, j, x)'
  BY <1>2, FinalStays DEF KnowsDelivered, IsBelow
<1> QED
  BY <1>1, <1>2

LEMMA CarriedPlain ==
    ASSUME IInv, OneAtWork, SendsAreRecorded, Carried, PlainMoves
    PROVE  Carried'
<1>1. /\ TypeOK /\ UNCHANGED <<role, latest, retired, baseline>>
      /\ LogMoves /\ ReleasedMoves
  BY DEF IInv, PlainMoves, roles
<1>2. released \subseteq released'
  BY <1>1 DEF ReleasedMoves
<1>3. released' # released =>
         \E r \in requests : Accepts(r) /\ released' = released \cup {Release(r)}
  BY <1>1 DEF ReleasedMoves
<1>4. CompletedAreReleased'
  <2>1. ASSUME NEW g \in Gates, NEW j \in Jobs, log'[g][j].status = "completed"
        PROVE  \E r \in released' : r.job = j
    <3>1. CASE log[g][j].status = "completed"
      BY <1>2, <3>1 DEF Carried, CompletedAreReleased
    <3>2. CASE log[g][j].status # "completed"
      <4>1. At(g, "record") /\ j = JobOf(g)
        BY <1>1, <2>1, <3>2, LineKeepsFinal DEF LogMoves
      <4> QED
        BY <1>2, <4>1 DEF Carried, CompletedAreReleased
    <3> QED
      BY <3>1, <3>2
  <2>2. ASSUME NEW g \in Gates, At(g, "record")' PROVE \E r \in released' : r.job = JobOf(g)'
    <3>1. RunMoves(g) /\ run'[g].step = "record"
      BY <2>2 DEF PlainMoves, At
    <3>2. CASE run'[g] = run[g]
      BY <1>2, <3>1, <3>2 DEF Carried, CompletedAreReleased, At, JobOf
    <3>3. CASE GoesOn(g)
      BY <3>1, <3>3 DEF GoesOn, JobOf
    <3> QED
      BY <3>1, <3>2, <3>3 DEF RunMoves, Rests, BeginsWork
  <2>3. ASSUME NEW j \in Jobs, IsReleased(j)' PROVE \E r \in released' : r.job = j
    <3>1. ServerMoves(j) /\ server'[j].status = "succeeded"
      BY <2>3 DEF PlainMoves, IsReleased
    <3>2. CASE server'[j] = server[j]
      BY <1>2, <3>1, <3>2 DEF Carried, CompletedAreReleased, IsReleased
    <3>3. CASE IsConcluded(j)
      BY <3>3 DEF IsConcluded
    <3>4. ~GetsAttempt(j) /\ ~GetsUpload(j) /\ server'[j].status \notin {"absent", "built", "failed"}
      BY <3>1 DEF GetsAttempt, GetsUpload
    <3> QED
      BY <3>1, <3>2, <3>3, <3>4 DEF ServerMoves
  <2> QED
    BY <2>1, <2>2, <2>3 DEF CompletedAreReleased
<1>5. \A r \in released' \ released : \E q \in requests : Accepts(q) /\ r = Release(q)
  BY <1>3
<1>6. ASSUME latest \subseteq retired PROVE released' = released /\ log' = log
  <2>1. released' = released
    BY <1>3, <1>6, AcceptedBy DEF IsPrimary
  <2>2. log' = log
    <3> SUFFICES ASSUME NEW g \in Gates, AddsLine(g) PROVE FALSE
      BY <1>1 DEF LogMoves
    <3>1. IsPrimary(g)
      BY DEF AddsLine, MayWrite, At, Works, WorkSteps, OneAtWork, WorkersArePrimary
    <3> QED
      BY <1>6, <3>1 DEF IsPrimary
  <2> QED
    BY <2>1, <2>2
<1>7. ASSUME NEW g \in latest PROVE KnowsAll(g)'
  <2>1. g \in Gates /\ KnowsAll(g) /\ latest = {g}
    BY DEF Carried, KnowledgeIsCarried, OneAtWork, OnePrimary
  <2>2. ASSUME NEW r \in released' PROVE KnowsUpTo(g, r, 0)'
    <3>1. CASE r \in released
      BY <1>1, <2>1, <3>1, KnowsOn DEF KnowsAll, KnowsAllUpTo
    <3>2. CASE r \notin released
      <4>1. PICK q \in requests : Accepts(q) /\ r = Release(q)
        BY <1>5, <3>2
      <4>2. IsPrimary(q.gate) /\ Final(log[q.gate][q.claim.job])
            /\ log[q.gate][q.claim.job].input = q.claim.input /\ q.claim.job \in Jobs
        BY <4>1, AcceptedBy
      <4>3. q.gate = g /\ r.job = q.claim.job /\ r.input = q.claim.input
        BY <2>1, <4>1, <4>2 DEF IsPrimary, Release
      <4>4. Final(log'[g][r.job]) /\ log'[g][r.job].input = r.input
        BY <1>1, <2>1, <4>2, <4>3, FinalStays
      <4> QED
        BY <4>4 DEF KnowsUpTo, Final
    <3> QED
      BY <3>1, <3>2
  <2>3. ASSUME NEW h \in Gates, NEW j \in Jobs, log'[h][j].status = "completed"
        PROVE  KnowsDelivered(g, j, 0)'
    <3>1. CASE log[h][j].status = "completed"
      BY <1>1, <2>1, <3>1, KnowsOn DEF KnowsAll, KnowsAllUpTo
    <3>2. CASE log[h][j].status # "completed"
      <4>1. At(h, "record")
        BY <1>1, <2>3, <3>2, LineKeepsFinal DEF LogMoves
      <4>2. h = g
        BY <2>1, <4>1 DEF At, Works, WorkSteps, OneAtWork, WorkersArePrimary, IsPrimary
      <4> QED
        BY <2>3, <4>2 DEF KnowsDelivered
    <3> QED
      BY <3>1, <3>2
  <2> QED
    BY <2>2, <2>3 DEF KnowsAll, KnowsAllUpTo
<1>8. KnowledgeIsCarried'
  <2>1. latest = {} => released' = {}
    BY <1>6 DEF Carried, KnowledgeIsCarried
  <2>2. ASSUME NEW g \in Gates, IsPromoted(g)'
        PROVE  run'[g] = run[g] /\ IsPromoted(g) /\ UNCHANGED <<released, log>>
    <3>1. RunMoves(g)
      BY DEF PlainMoves
    <3>2. run'[g] = run[g] /\ IsPromoted(g)
      BY <2>2, <3>1 DEF RunMoves, Rests, BeginsWork, GoesOn, IsPromoted
    <3>3. latest \subseteq retired
      BY <3>2 DEF OneAtWork, PromotedAreAlone
    <3> QED
      BY <3>2, <3>3, <1>6
  <2>3. ASSUME NEW g \in Gates, At(g, "role")' PROVE KnowsAll(g)'
    <3>1. At(g, "role") /\ UNCHANGED <<released, log>>
      BY <2>2, <2>3 DEF At, IsPromoted
    <3> QED
      BY <1>1, <3>1 DEF Carried, KnowledgeIsCarried, KnowsAll, KnowsAllUpTo, KnowsUpTo,
                        KnowsDelivered, IsBelow, Final
  <2>4. ASSUME NEW g \in Gates, At(g, "baselines")', NEW old \in run'[g].from
        PROVE  KnowsAllUpTo(g, baseline[old])'
    <3>1. At(g, "baselines") /\ old \in run[g].from /\ UNCHANGED <<released, log>>
      BY <2>2, <2>4 DEF At, IsPromoted
    <3>2. KnowsAllUpTo(g, baseline[old])
      BY <3>1 DEF Carried, KnowledgeIsCarried
    <3> QED
      BY <1>1, <3>1, <3>2 DEF KnowsAllUpTo, KnowsUpTo, KnowsDelivered, IsBelow, Final
  <2> QED
    BY <1>1, <1>7, <2>1, <2>3, <2>4 DEF KnowledgeIsCarried
<1>9. OneReleasePerCode'
  <2>1. ASSUME NEW r \in released' \ released, NEW q \in released, NumberOf[r.job] = NumberOf[q.job]
        PROVE  r.job = q.job /\ r.input = q.input
    <3>1. PICK p \in requests : Accepts(p) /\ r = Release(p)
      BY <1>5
    <3> DEFINE g == p.gate
    <3>2. /\ g \in Gates /\ IsPrimary(g) /\ r.job \in Jobs /\ q.job \in Jobs
          /\ Final(log[g][r.job]) /\ log[g][r.job].input = r.input
          /\ baseline[g] < NumberOf[r.job]
      BY <1>1, <3>1, AcceptedBy DEF Release, TypeOK
    <3>3. KnowsUpTo(g, q, 0)
      BY <3>2 DEF Carried, KnowledgeIsCarried, IsPrimary, KnowsAll, KnowsAllUpTo
    <3>4. baseline[g] \in Nat /\ NumberOf[r.job] \in Nat \ {0}
      BY <1>1, <3>2, NumbersAssumption DEF TypeOK
    <3>5. Final(log[g][q.job]) /\ log[g][q.job].input = q.input
      BY <2>1, <3>2, <3>3, <3>4 DEF KnowsUpTo, IsBelow
    <3>6. r.job = q.job
      BY <2>1, <3>2, <3>5 DEF IInv, GateInv, OneHolder, Final, Live
    <3> QED
      BY <3>2, <3>5, <3>6
  <2>2. ASSUME NEW r \in released' \ released, NEW q \in released' \ released PROVE r = q
    BY <1>3
  <2> QED
    BY <2>1, <2>2 DEF OneReleasePerCode, Carried
<1> QED
  BY <1>4, <1>8, <1>9 DEF Carried

(* The server gives no number twice.                                       *)
LEMMA NumbersPlain ==
    ASSUME IInv, NumbersAreOnce, Plain
    PROVE  NumbersAreOnce'
<1>1. TypeOK
  BY DEF IInv
<1>2. ASSUME \A j \in Jobs : Takes(server'[j].status) => Takes(server[j].status)
      PROVE  NumbersAreOnce'
  BY <1>2 DEF NumbersAreOnce
<1>3. ASSUME NEW j \in Jobs, Takes(server[j].status) \/ UNCHANGED server,
             \A k \in Jobs \ {j} : server'[k] = server[k]
      PROVE  NumbersAreOnce'
  BY <1>2, <1>3
<1>4. ASSUME NEW g \in Gates, Daemon(g) PROVE NumbersAreOnce'
  <2>1. CASE UNCHANGED server
    BY <1>2, <2>1
  <2>2. ASSUME NEW j \in Jobs, Claim(g, j) PROVE NumbersAreOnce'
    <3>1. server[j].status = "built"
      BY <2>2 DEF Claim, IsCandidate
    <3>2. \A k \in Jobs \ {j} : server'[k] = server[k]
      BY <1>1, <2>2 DEF Claim, SetJob, TypeOK
    <3> QED
      BY <1>3, <3>1, <3>2 DEF Takes
  <2>3. CASE Upload(g) /\ ~(UNCHANGED server)
    <3>1. Works(g) /\ server[JobOf(g)].status = "signing"
      BY <2>3 DEF Upload, Current, JobOf, At, Works, WorkSteps
    <3>2. \A k \in Jobs \ {JobOf(g)} : server'[k] = server[k]
      BY <1>1, <2>3 DEF Upload, TypeOK
    <3> QED
      BY <1>1, <1>3, <3>1, <3>2, WorkingRun DEF Takes
  <2>4. CASE Report(g) /\ ~(UNCHANGED server)
    <3>1. Works(g) /\ server[JobOf(g)].status = "signing"
      BY <2>4 DEF Report, Current, JobOf, At, Works, WorkSteps
    <3>2. \A k \in Jobs \ {JobOf(g)} : server'[k] = server[k]
      BY <1>1, <2>4 DEF Report, BackToBuilt, SigningFailed, TypeOK
    <3> QED
      BY <1>1, <1>3, <3>1, <3>2, WorkingRun DEF Takes
  <2> QED
    BY <1>4, <2>1, <2>2, <2>3, <2>4 DEF Daemon, Start, Look, Check, Resume, Sign, Write, Complete
<1>5. ASSUME NEW g \in Gates, Trouble(g) PROVE NumbersAreOnce'
  <2>1. UNCHANGED server
    BY <1>5 DEF Trouble, Crash, Repair, WriteBreaks, Interrupted, Fail
  <2> QED
    BY <1>2, <2>1
<1>6. ASSUME NEW j \in Jobs, NEW input \in Inputs, Build(j, input) PROVE NumbersAreOnce'
  <2>1. /\ NumberIsFree(j) /\ \A k \in Jobs \ {j} : server'[k] = server[k]
    BY <1>1, <1>6 DEF Build, TypeOK
  <2>2. \A k \in Jobs \ {j} : NumberOf[k] = NumberOf[j] => ~Takes(server'[k].status)
    BY <2>1 DEF NumberIsFree, Takes
  <2> QED
    BY <2>1, <2>2 DEF NumbersAreOnce
<1>7. ASSUME NEW back \in SUBSET Jobs, NEW gone \in SUBSET (Jobs \ back), NEW input \in [back -> Inputs],
             Restore(back, gone, input)
      PROVE  NumbersAreOnce'
  <2>1. \A j \in Jobs \ back : Takes(server'[j].status) => Takes(server[j].status)
    BY <1>7 DEF Restore, NewJob, Takes
  <2>2. \A j \in back, k \in Jobs \ back : NumberOf[j] = NumberOf[k] => ~Takes(server'[k].status)
    BY <1>7 DEF Restore, Takes
  <2>3. \A j, k \in back : NumberOf[j] = NumberOf[k] => j = k
    BY <1>7 DEF Restore
  <2> SUFFICES ASSUME NEW j \in Jobs, NEW k \in Jobs, Takes(server'[j].status),
                      Takes(server'[k].status), NumberOf[j] = NumberOf[k]
               PROVE  j = k
    BY DEF NumbersAreOnce
  <2>4. CASE j \in back /\ k \in back
    BY <2>3, <2>4
  <2>5. CASE j \notin back /\ k \notin back
    BY <2>1, <2>5 DEF NumbersAreOnce
  <2> QED
    BY <2>2, <2>4, <2>5
<1>8. ASSUME NEW j \in Jobs, Reap(j) PROVE NumbersAreOnce'
  <2>1. server[j].status = "signing" /\ \A k \in Jobs \ {j} : server'[k] = server[k]
    BY <1>1, <1>8 DEF Reap, SigningFailed, TypeOK
  <2> QED
    BY <1>3, <2>1 DEF Takes
<1>9. ASSUME NEW r \in requests, Handle(r) PROVE NumbersAreOnce'
  <2>1. CASE Accepts(r)
    <3>1. r.claim.job \in Jobs /\ server[r.claim.job].status = "signing"
      BY <1>1, <2>1 DEF Accepts, Current, TypeOK, Claims
    <3>2. \A k \in Jobs \ {r.claim.job} : server'[k] = server[k]
      BY <1>1, <1>9, <2>1 DEF Handle, SetJob, TypeOK
    <3> QED
      BY <1>3, <3>1, <3>2 DEF Takes
  <2>2. CASE ~Accepts(r)
    BY <1>2, <1>9, <2>2 DEF Handle
  <2> QED
    BY <2>1, <2>2
<1> QED
  BY <1>4, <1>5, <1>6, <1>7, <1>8, <1>9 DEF Plain, Server

(* A gate goes from lower to higher numbers.                               *)
LEMMA RisePlain ==
    ASSUME IInv, OneAtWork, Rise, Plain, PlainMoves
    PROVE  Rise'
<1>1. /\ TypeOK /\ UNCHANGED <<role, latest, retired, baseline>> /\ LogMoves
  BY DEF IInv, PlainMoves, roles
<1>2. NumbersAreOnce'
  BY NumbersPlain DEF Rise
<1>3. ASSUME NEW g \in Gates, NEW j \in Jobs, IsAboveAll(g, j),
             Works(g) => j = JobOf(g) \/ CodeOf(g) < NumberOf[j],
             NEW k \in Jobs \ {j}, Live(log'[g][k])
      PROVE  NumberOf[k] < NumberOf[j]
  <2>1. CASE log'[g][k] = log[g][k]
    BY <1>3, <2>1 DEF IsAboveAll
  <2>2. CASE log'[g][k] # log[g][k]
    BY <1>1, <1>3, <2>2, OwnLine DEF CodeOf
  <2> QED
    BY <2>1, <2>2
<1>4. WorkIsAbove'
  <2> SUFFICES ASSUME NEW g \in Gates, run'[g].step \in {"sign", "mark", "upload"}
               PROVE  IsAboveAll(g, JobOf(g))'
    BY DEF WorkIsAbove
  <2>1. run[g].step \in {"reserve", "sign", "mark", "upload"} /\ JobOf(g)' = JobOf(g)
    BY ReservedBefore DEF PlainMoves, JobOf
  <2>2. IsAboveAll(g, JobOf(g)) /\ JobOf(g) \in Jobs
    BY <1>1, <2>1, ReservedIsAbove, WorkingRun DEF Rise, WorkIsAbove, At, Works, WorkSteps
  <2> QED
    BY <1>3, <2>1, <2>2 DEF IsAboveAll
<1>5. WorkIsBelow'
  <2> SUFFICES ASSUME NEW g \in Gates, NEW j \in Jobs, Works(g)', j # JobOf(g)',
                      server'[j].status = "signing", server'[j].by = {g}
               PROVE  CodeOf(g)' < NumberOf[j]
    BY DEF WorkIsBelow
  <2>1. RunMoves(g) /\ ServerMoves(j) /\ ~Rests(g)
    BY DEF PlainMoves, Rests, Works, WorkSteps
  <2>2. CASE BeginsWork(g)
    <3> DEFINE k == run'[g].claim.job
    <3>1. k \in Jobs /\ IsCandidate(k) /\ j # k /\ CodeOf(g)' = NumberOf[k] /\ server'[j] = server[j]
      BY <2>2 DEF BeginsWork, JobOf, CodeOf
    <3>2. NumberOf[k] <= NumberOf[j] /\ NumberOf[k] # NumberOf[j]
      BY <3>1 DEF IsCandidate, Rise, NumbersAreOnce, Takes
    <3> QED
      BY <3>1, <3>2, NumbersAssumption
  <2>3. CASE ~BeginsWork(g)
    <3>1. Works(g) /\ JobOf(g)' = JobOf(g) /\ CodeOf(g)' = CodeOf(g)
      BY <2>1, <2>3 DEF RunMoves, GoesOn, Works, JobOf, CodeOf
    <3>2. ~GetsAttempt(j)
      BY <3>1 DEF GetsAttempt, Works, WorkSteps, At
    <3>3. server[j].status = "signing" /\ server[j].by = {g}
      <4>1. CASE server'[j] = server[j]
        BY <4>1
      <4>2. CASE GetsUpload(j)
        BY <4>2 DEF GetsUpload
      <4>3. ~IsConcluded(j) /\ server'[j].status \notin {"absent", "built", "failed"}
        BY DEF IsConcluded
      <4> QED
        BY <2>1, <3>2, <4>1, <4>2, <4>3 DEF ServerMoves
    <3> QED
      BY <3>1, <3>3 DEF Rise, WorkIsBelow
  <2> QED
    BY <2>2, <2>3
<1>6. UploadedIsAbove'
  <2> SUFFICES ASSUME NEW g \in Gates, NEW j \in Jobs, server'[j].status = "signing",
                      server'[j].by = {g}, g \notin retired, server'[j].uploaded # {}
               PROVE  IsAboveAll(g, j)'
    BY <1>1 DEF UploadedIsAbove
  <2>1. ServerMoves(j)
    BY DEF PlainMoves
  <2>2. CASE server'[j] = server[j]
    <3>1. IsAboveAll(g, j)
      BY <2>2 DEF Rise, UploadedIsAbove
    <3>2. Works(g) => j = JobOf(g) \/ CodeOf(g) < NumberOf[j]
      BY <2>2 DEF Rise, WorkIsBelow
    <3> QED
      BY <1>3, <3>1, <3>2 DEF IsAboveAll
  <2>3. CASE GetsUpload(j)
    <3>1. At(g, "upload") /\ j = JobOf(g)
      BY <2>3 DEF GetsUpload
    <3>2. IsAboveAll(g, j)
      BY <3>1 DEF Rise, WorkIsAbove, At
    <3> QED
      BY <1>3, <3>1, <3>2 DEF IsAboveAll
  <2>4. ~GetsAttempt(j) /\ ~IsConcluded(j) /\ server'[j].status \notin {"absent", "built", "failed"}
    BY DEF GetsAttempt, IsConcluded
  <2> QED
    BY <2>1, <2>2, <2>3, <2>4 DEF ServerMoves
<1> QED
  BY <1>2, <1>4, <1>5, <1>6 DEF Rise

-----------------------------------------------------------------------------
(***************************************************************************)
(* How the operator's commands move, and what they preserve                *)
(***************************************************************************)
Commands == \E g \in Gates : Operator(g)

(* Only the standby that is promoted gains lines and baselines.            *)
LogShrinks(g) ==
    \A j \in Jobs :
        log'[g][j] = log[g][j] \/ (log[g][j].status = "reserved" /\ log'[g][j].status = "abandoned")
CommandMoves ==
    /\ UNCHANGED <<server, requests, sent, released>>
    /\ \A g \in Gates : run'[g] = run[g] \/ At(g, "down")' \/ IsPromoted(g)'
    /\ \A g \in Gates : Works(g) => log'[g] = log[g] \/ At(g, "down")'
    /\ \A g \in Gates : LogShrinks(g) \/ role[g] = "standby"
    /\ \A g \in Gates : baseline'[g] = baseline[g] \/ (role[g] = "standby" /\ baseline[g] <= baseline'[g])
    /\ \A g \in Gates : role'[g] = role[g] \/ role'[g] = "primary"

(* The steps of a promotion.                                               *)
LEMMA PromotingRun ==
    ASSUME TypeOK, NEW g \in Gates, IsPromoted(g)
    PROVE  run[g] \in Promoting
<1>1. run[g] \in {Down, Idle} \cup Promoting \cup Working
  BY DEF TypeOK
<1> QED
  BY <1>1 DEF IsPromoted, Down, Idle, Working, WorkSteps

(* A baseline never goes down.                                             *)
LEMMA Raised ==
    ASSUME TypeOK, NEW g \in Gates, NEW code \in Nat, Raise(g, code)
    PROVE  /\ \A h \in Gates \ {g} : baseline'[h] = baseline[h]
           /\ baseline[g] <= baseline'[g] /\ code <= baseline'[g]
  BY DEF Raise, TypeOK

(* What an import makes of the logs.                                       *)
LEMMA MergedLogs ==
    ASSUME TypeOK, NEW g \in Gates, NEW old \in Gates, NEW new, log' = Merged(g, old, new)
    PROVE  /\ \A h \in Gates \ {g} : log'[h] = log[h]
           /\ \A j \in Jobs : log'[g][j] = IF j \in new THEN log[old][j] ELSE log[g][j]
  BY DEF Merged, TypeOK

(* A promotion does not touch who works, and raises what it promotes.      *)
LEMMA CommandStep ==
    ASSUME IInv, OneAtWork, NEW g \in Gates, Operator(g)
    PROVE  CommandMoves
<1>1. TypeOK
  BY DEF IInv
<1>2. UNCHANGED <<server, requests, sent, released>>
  BY DEF Operator, Abandon, Retire, PromoteFirst, PromoteManual, Import, ImportBreaks,
         ImportBaselines, Promote, history
<1>3. ASSUME NEW j \in Jobs, Abandon(g, j) PROVE CommandMoves
  <2>1. At(g, "down") /\ log' = [log EXCEPT ![g][j] = [log[g][j] EXCEPT !.status = "abandoned"]]
        /\ UNCHANGED <<run, baseline, role>>
    BY <1>3 DEF Abandon, Stopped, Appends, roles
  <2>2. log[g][j].status = "reserved"
    BY <1>3 DEF Abandon
  <2>3. log[g][j] \in [status : Statuses, input : Inputs, package : Nat]
    BY <1>1, <2>2, EntryFields
  <2>4. \A h \in Gates \ {g} : log'[h] = log[h]
    BY <1>1, <2>1 DEF TypeOK
  <2>5. log'[g][j].status = "abandoned" /\ \A k \in Jobs \ {j} : log'[g][k] = log[g][k]
    BY <1>1, <2>1, <2>3 DEF TypeOK
  <2>6. \A h \in Gates : LogShrinks(h)
    BY <2>2, <2>4, <2>5 DEF LogShrinks
  <2> QED
    BY <1>2, <2>1, <2>4, <2>6 DEF CommandMoves, At
<1>4. CASE Retire(g)
  <2>1. \A h \in Gates : run'[h] = run[h] \/ At(h, "down")'
    BY <1>1, <1>4, Gone DEF Retire, At, Down
  <2> QED
    BY <1>2, <1>4, <2>1 DEF Retire, CommandMoves, LogShrinks, records
<1>5. CASE PromoteFirst(g)
  <2>1. \A h \in Gates : role'[h] = role[h] \/ role'[h] = "primary"
    BY <1>1, <1>5 DEF PromoteFirst, BecomesPrimary, TypeOK
  <2> QED
    BY <1>2, <1>5, <2>1 DEF PromoteFirst, CommandMoves, LogShrinks, records
<1>6. CASE PromoteManual(g)
  <2>1. role[g] = "standby" /\ UNCHANGED <<log, role>>
    BY <1>6 DEF PromoteManual, MayPromote, roles
  <2>2. \A h \in Gates : run'[h] = run[h] \/ IsPromoted(h)'
    BY <1>1, <1>6, Gone DEF PromoteManual, IsPromoted
  <2>3. ReleasedCodes \subseteq Nat
    BY <1>1, NumbersAssumption DEF ReleasedCodes, TypeOK
  <2>4. \A h \in Gates : baseline'[h] = baseline[h] \/ (h = g /\ baseline[h] <= baseline'[h])
    <3>1. CASE UNCHANGED baseline
      BY <3>1
    <3>2. ASSUME NEW code \in ReleasedCodes, Raise(g, code)
          PROVE  \A h \in Gates : baseline'[h] = baseline[h] \/ (h = g /\ baseline[h] <= baseline'[h])
      BY <1>1, <2>3, <3>2, Raised
    <3> QED
      BY <1>6, <3>1, <3>2 DEF PromoteManual
  <2> QED
    BY <1>2, <2>1, <2>2, <2>4 DEF CommandMoves, LogShrinks
<1>7. ASSUME NEW old \in Gates, NEW new, log' = Merged(g, old, new), MayPromote(g), UNCHANGED <<baseline, role>>,
             \A h \in Gates : run'[h] = run[h] \/ IsPromoted(h)'
      PROVE  CommandMoves
  <2>1. role[g] = "standby" /\ ~Works(g)
    BY <1>7 DEF MayPromote, Stopped, At, Works, WorkSteps
  <2>2. \A h \in Gates \ {g} : log'[h] = log[h]
    BY <1>1, <1>7, MergedLogs
  <2> QED
    BY <1>2, <1>7, <2>1, <2>2 DEF CommandMoves, LogShrinks
<1>8. ASSUME NEW old \in Gates, Import(g, old) PROVE CommandMoves
  <2>1. \A h \in Gates : run'[h] = run[h] \/ IsPromoted(h)'
    BY <1>1, <1>8, Gone DEF Import, IsPromoted
  <2> QED
    BY <1>7, <1>8, <2>1 DEF Import, roles
<1>9. ASSUME NEW old \in Gates, ImportBreaks(g, old) PROVE CommandMoves
  BY <1>7, <1>9 DEF ImportBreaks, roles
<1>10. CASE ImportBaselines(g)
  <2>1. run[g] \in Promoting
    BY <1>1, <1>10, PromotingRun DEF ImportBaselines, At, IsPromoted
  <2>2. [run[g] EXCEPT !.step = "role"].step = "role"
    BY <2>1 DEF Promoting
  <2>3. \A h \in Gates : run'[h] = run[h] \/ IsPromoted(h)'
    BY <1>1, <1>10, <2>2, Gone DEF ImportBaselines, IsPromoted
  <2>4. role[g] = "standby"
    BY <1>10 DEF ImportBaselines, OneAtWork, PromotedAreAlone, IsPromoted, At
  <2>5. PICK old \in run[g].from : Raise(g, baseline[old])
    BY <1>10 DEF ImportBaselines
  <2>6. baseline[old] \in Nat
    BY <1>1, <2>1 DEF TypeOK, Promoting
  <2>7. \A h \in Gates : baseline'[h] = baseline[h] \/ (h = g /\ baseline[h] <= baseline'[h])
    BY <1>1, <2>5, <2>6, Raised
  <2> QED
    BY <1>2, <1>10, <2>3, <2>4, <2>7 DEF ImportBaselines, CommandMoves, LogShrinks, roles
<1>11. CASE Promote(g)
  <2>1. \A h \in Gates : run'[h] = run[h] \/ At(h, "down")'
    BY <1>1, <1>11, Gone DEF Promote, At, Down
  <2>2. \A h \in Gates : role'[h] = role[h] \/ role'[h] = "primary"
    BY <1>1, <1>11 DEF Promote, BecomesPrimary, TypeOK
  <2> QED
    BY <1>2, <1>11, <2>1, <2>2 DEF Promote, CommandMoves, LogShrinks, records
<1> QED
  BY <1>3, <1>4, <1>5, <1>6, <1>8, <1>9, <1>10, <1>11 DEF Operator

(* A gate that works on works as before.                                   *)
LEMMA WorkersStay ==
    ASSUME CommandMoves, NEW g \in Gates, Works(g)'
    PROVE  run'[g] = run[g] /\ Works(g) /\ log'[g] = log[g]
<1>1. ~At(g, "down")' /\ ~IsPromoted(g)'
  BY DEF Works, WorkSteps, At, IsPromoted
<1> QED
  BY <1>1 DEF CommandMoves, Works

LEMMA SendsCommand ==
    ASSUME TypeOK, OneAtWork, SendsAreRecorded, CommandMoves
    PROVE  SendsAreRecorded'
<1>1. ASSUME NEW g \in Gates, role[g] = "primary" PROVE baseline'[g] = baseline[g] /\ role'[g] = "primary"
  BY <1>1 DEF CommandMoves
<1>2. IsAboveBaseline'
  <2> SUFFICES ASSUME NEW g \in Gates, run'[g].step \in {"sign", "mark", "upload"}
               PROVE  (baseline[g] < CodeOf(g))'
    BY DEF IsAboveBaseline
  <2>1. run'[g] = run[g] /\ Works(g)
    BY WorkersStay DEF Works, WorkSteps
  <2>2. role[g] = "primary"
    BY <2>1 DEF OneAtWork, WorkersArePrimary, LatestIsPrimary, IsPrimary
  <2> QED
    BY <1>1, <2>1, <2>2 DEF SendsAreRecorded, IsAboveBaseline, CodeOf, JobOf
<1>3. SentAboveBaseline'
  <2>1. UNCHANGED sent /\ \A s \in sent : s.gate \in Gates
    BY DEF CommandMoves, TypeOK, Packages
  <2> QED
    BY <1>1, <2>1 DEF SendsAreRecorded, SentAboveBaseline
<1>4. CompletedAreSent'
  <2>1. UNCHANGED <<sent, requests>>
    BY DEF CommandMoves
  <2>2. ASSUME NEW g \in Gates, run'[g].step \in {"complete", "waiting", "record"} PROVE run'[g] = run[g]
    BY <2>2, WorkersStay DEF Works, WorkSteps
  <2> QED
    BY <2>1, <2>2 DEF SendsAreRecorded, CompletedAreSent
<1> QED
  BY <1>2, <1>3, <1>4 DEF SendsAreRecorded

LEMMA RiseCommand ==
    ASSUME TypeOK, OneAtWork, Rise, CommandMoves, \A g \in retired : g \in retired'
    PROVE  Rise'
<1>1. UNCHANGED server
  BY DEF CommandMoves
<1>2. NumbersAreOnce'
  BY <1>1 DEF Rise, NumbersAreOnce
<1>3. WorkIsBelow'
  BY <1>1, WorkersStay DEF Rise, WorkIsBelow, CodeOf, JobOf
<1>4. WorkIsAbove'
  <2> SUFFICES ASSUME NEW g \in Gates, run'[g].step \in {"sign", "mark", "upload"}
               PROVE  IsAboveAll(g, JobOf(g))'
    BY DEF WorkIsAbove
  <2>1. run'[g] = run[g] /\ log'[g] = log[g]
    BY WorkersStay DEF Works, WorkSteps
  <2> QED
    BY <2>1 DEF Rise, WorkIsAbove, IsAboveAll, JobOf
<1>5. UploadedIsAbove'
  <2> SUFFICES ASSUME NEW g \in Gates, NEW j \in Jobs, server[j].status = "signing",
                      server[j].by = {g}, g \notin retired, server[j].uploaded # {}
               PROVE  IsAboveAll(g, j)'
    BY <1>1 DEF UploadedIsAbove
  <2>1. role[g] = "primary" /\ IsAboveAll(g, j)
    BY DEF OneAtWork, SignersArePrimary, LatestIsPrimary, IsPrimary, Rise, UploadedIsAbove
  <2>2. LogShrinks(g)
    BY <2>1 DEF CommandMoves
  <2> QED
    BY <2>1, <2>2 DEF IsAboveAll, LogShrinks, Live
<1> QED
  BY <1>2, <1>3, <1>4, <1>5 DEF Rise

(* Roles stay, and so does what is promoted.                               *)
LEMMA SameRoles ==
    ASSUME TypeOK, TypeOK', OneAtWork, CommandMoves, UNCHANGED <<role, latest>>,
           retired \subseteq retired', \A h \in retired' : At(h, "down")', PromotedAreAlone'
    PROVE  OneAtWork'
<1>1. OnePrimary' /\ LatestIsPrimary'
  BY DEF OneAtWork, OnePrimary, LatestIsPrimary
<1>2. WorkersArePrimary'
  <2> SUFFICES ASSUME NEW h \in Gates, Works(h)' PROVE IsPrimary(h)'
    BY DEF WorkersArePrimary
  <2>1. IsPrimary(h) /\ ~At(h, "down")'
    BY WorkersStay DEF Works, WorkSteps, At, OneAtWork, WorkersArePrimary
  <2> QED
    BY <2>1 DEF IsPrimary
<1>3. SignersArePrimary'
  BY DEF CommandMoves, OneAtWork, SignersArePrimary, IsPrimary
<1> QED
  BY <1>1, <1>2, <1>3 DEF OneAtWork, RetiredAreDown

(* The old primary is gone when there is a new one.                        *)
LEMMA NewPrimary ==
    ASSUME TypeOK, OneAtWork, CommandMoves, NEW g \in Gates, BecomesPrimary(g),
           latest \subseteq retired, \A h \in Gates : ~IsPromoted(h)'
    PROVE  OneAtWork'
<1>1. latest' = {g} /\ role'[g] = "primary" /\ UNCHANGED <<retired, server>>
  BY DEF BecomesPrimary, CommandMoves, TypeOK
<1>2. \A h \in Gates : ~IsPrimary(h)
  BY DEF IsPrimary
<1>3. \A h \in Gates : ~Works(h)'
  BY <1>2, WorkersStay DEF OneAtWork, WorkersArePrimary
<1>4. RetiredAreDown'
  <2> SUFFICES ASSUME NEW h \in retired PROVE At(h, "down")'
    BY <1>1 DEF RetiredAreDown
  <2>1. h \in Gates /\ At(h, "down")
    BY DEF TypeOK, OneAtWork, RetiredAreDown
  <2> QED
    BY <2>1 DEF CommandMoves, At
<1> QED
  BY <1>1, <1>2, <1>3, <1>4
     DEF OneAtWork, OnePrimary, LatestIsPrimary, WorkersArePrimary, SignersArePrimary,
         PromotedAreAlone

(* The gate that begins to be promoted is the only one.                    *)
LEMMA BeginsPromotion ==
    ASSUME TypeOK, OneAtWork, NEW g \in Gates, MayPromote(g), latest # {}, UNCHANGED roles,
           \A h \in Gates \ {g} : run'[h] = run[h], IsPromoted(g)',
           At(g, "baselines")' => run'[g].from = latest
    PROVE  PromotedAreAlone' /\ \A h \in retired' : At(h, "down")'
<1>1. \A h \in Gates \ {g} : ~IsPromoted(h)'
  BY DEF MayPromote, IsPromoted
<1>2. role[g] = "standby" /\ latest \subseteq retired /\ g \notin retired
  BY DEF MayPromote, Stopped
<1>3. PromotedAreAlone'
  BY <1>1, <1>2 DEF PromotedAreAlone, roles
<1>4. \A h \in retired' : At(h, "down")'
  BY <1>2 DEF OneAtWork, RetiredAreDown, At, TypeOK, roles
<1> QED
  BY <1>3, <1>4

(* One gate works at a time, whatever the operator enters.                 *)
LEMMA OneAtWorkCommand ==
    ASSUME IInv, TypeOK', OneAtWork, CommandMoves, NEW g \in Gates, Operator(g)
    PROVE  OneAtWork'
<1>1. TypeOK
  BY DEF IInv
<1>2. ASSUME UNCHANGED <<run, roles>> PROVE OneAtWork'
  <2>1. PromotedAreAlone' /\ \A h \in retired' : At(h, "down")'
    BY <1>2 DEF OneAtWork, PromotedAreAlone, RetiredAreDown, IsPromoted, At, roles
  <2> QED
    BY <1>1, <1>2, <2>1, SameRoles DEF roles
<1>3. CASE Retire(g)
  <2>1. run'[g].step = "down" /\ \A h \in Gates \ {g} : run'[h] = run[h]
    BY <1>1, <1>3, Gone DEF Retire, Down
  <2>2. UNCHANGED <<role, latest>> /\ retired' = retired \cup {g}
    BY <1>3 DEF Retire
  <2>3. PromotedAreAlone'
    BY <2>1, <2>2 DEF OneAtWork, PromotedAreAlone, IsPromoted, At
  <2>4. \A h \in retired' : At(h, "down")'
    BY <1>1, <2>1, <2>2 DEF OneAtWork, RetiredAreDown, At, TypeOK
  <2> QED
    BY <1>1, <2>2, <2>3, <2>4, SameRoles
<1>4. CASE PromoteFirst(g)
  <2>1. \A h \in Gates : ~IsPromoted(h)'
    BY <1>4 DEF PromoteFirst, MayPromote, IsPromoted
  <2> QED
    BY <1>1, <1>4, <2>1, NewPrimary DEF PromoteFirst, MayPromote
<1>5. CASE PromoteManual(g)
  <2>1. run'[g].step = "role" /\ \A h \in Gates \ {g} : run'[h] = run[h]
    BY <1>1, <1>5, Gone DEF PromoteManual
  <2>2. PromotedAreAlone' /\ \A h \in retired' : At(h, "down")'
    BY <1>1, <1>5, <2>1, BeginsPromotion DEF PromoteManual, IsPromoted, At
  <2> QED
    BY <1>1, <1>5, <2>2, SameRoles DEF PromoteManual, roles
<1>6. ASSUME NEW old \in Gates, Import(g, old) PROVE OneAtWork'
  <2>1. run'[g] = [step |-> "baselines", from |-> {old}] /\ \A h \in Gates \ {g} : run'[h] = run[h]
    BY <1>1, <1>6, Gone DEF Import
  <2>2. PromotedAreAlone' /\ \A h \in retired' : At(h, "down")'
    BY <1>1, <1>6, <2>1, BeginsPromotion DEF Import, IsPromoted, At
  <2>3. role' = role /\ latest' = latest /\ retired' = retired
    BY <1>6 DEF Import, roles
  <2>4. retired \subseteq retired'
    BY <2>3
  <2> QED
    BY <1>1, <2>2, <2>3, <2>4, SameRoles
<1>7. CASE ImportBaselines(g)
  <2>1. run[g] \in Promoting
    BY <1>1, <1>7, PromotingRun DEF ImportBaselines, At, IsPromoted
  <2>2. run'[g].step = "role" /\ \A h \in Gates \ {g} : run'[h] = run[h]
    BY <1>1, <1>7, <2>1, Gone DEF ImportBaselines, Promoting
  <2>3. UNCHANGED roles /\ IsPromoted(g) /\ IsPromoted(g)'
    BY <1>7, <2>2 DEF ImportBaselines, IsPromoted, At
  <2>4. PromotedAreAlone'
    BY <2>2, <2>3 DEF OneAtWork, PromotedAreAlone, IsPromoted, At, roles
  <2>5. \A h \in retired' : At(h, "down")'
    BY <1>1, <2>2, <2>3 DEF OneAtWork, RetiredAreDown, At, TypeOK, roles, IsPromoted
  <2> QED
    BY <1>1, <2>3, <2>4, <2>5, SameRoles DEF roles
<1>8. CASE Promote(g)
  <2>1. IsPromoted(g) /\ run'[g].step = "down" /\ \A h \in Gates \ {g} : run'[h] = run[h]
    BY <1>1, <1>8, Gone DEF Promote, IsPromoted, At, Down
  <2>2. latest \subseteq retired /\ \A h \in Gates : ~IsPromoted(h)'
    BY <2>1 DEF OneAtWork, PromotedAreAlone, IsPromoted
  <2> QED
    BY <1>1, <1>8, <2>2, NewPrimary DEF Promote
<1>9. ASSUME (\E j \in Jobs : Abandon(g, j)) \/ (\E old \in Gates : ImportBreaks(g, old))
      PROVE  OneAtWork'
  BY <1>2, <1>9 DEF Abandon, ImportBreaks
<1> QED
  BY <1>3, <1>4, <1>5, <1>6, <1>7, <1>8, <1>9 DEF Operator

(* The operator takes nothing from a log that may have left the gate, and  *)
(* a line that says "completed" comes from another log.                    *)
LEMMA CommandLogs ==
    ASSUME IInv, NEW g \in Gates, Operator(g)
    PROVE  /\ \A h \in Gates, j \in Jobs : Final(log[h][j]) => log'[h][j] = log[h][j]
           /\ \A h \in Gates, j \in Jobs : log'[h][j].status = "completed" =>
                  \E i \in Gates : log[i][j].status = "completed"
<1>1. TypeOK
  BY DEF IInv
<1>2. CASE UNCHANGED log
  BY <1>2
<1>3. ASSUME NEW j \in Jobs, Abandon(g, j)
      PROVE  \A h \in Gates, k \in Jobs :
                 log'[h][k] = log[h][k] \/ (log[h][k].status = "reserved" /\ log'[h][k].status = "abandoned")
  <2>1. log[g][j].status = "reserved" /\ log' = [log EXCEPT ![g][j] = [log[g][j] EXCEPT !.status = "abandoned"]]
    BY <1>3 DEF Abandon, Appends
  <2>2. log[g][j] \in [status : Statuses, input : Inputs, package : Nat]
    BY <1>1, <2>1, EntryFields
  <2>3. [log[g][j] EXCEPT !.status = "abandoned"].status = "abandoned"
    BY <2>2
  <2> DEFINE e == [log[g][j] EXCEPT !.status = "abandoned"]
  <2>4. log' = [log EXCEPT ![g][j] = e] /\ e.status = "abandoned"
    BY <2>1, <2>3
  <2> HIDE DEF e
  <2> QED
    BY <1>1, <2>1, <2>4 DEF TypeOK
<1>4. ASSUME NEW old \in Gates, Importable(g, old), NEW new \in SUBSET Imported(g, old),
             log' = Merged(g, old, new)
      PROVE  /\ \A h \in Gates, j \in Jobs : Final(log[h][j]) => log'[h][j] = log[h][j]
             /\ \A h \in Gates, j \in Jobs : log'[h][j].status = "completed" =>
                    \E i \in Gates : log[i][j].status = "completed"
  <2>1. /\ \A h \in Gates \ {g} : log'[h] = log[h]
        /\ \A j \in Jobs : log'[g][j] = IF j \in new THEN log[old][j] ELSE log[g][j]
    BY <1>1, <1>4, MergedLogs
  <2>2. \A j \in new : ~Live(log[g][j])
    BY <1>4 DEF Importable
  <2> QED
    BY <2>1, <2>2 DEF Final, Live
<1>5. ASSUME NEW old \in Gates, Import(g, old) \/ ImportBreaks(g, old)
      PROVE  Importable(g, old) /\ \E new \in SUBSET Imported(g, old) : log' = Merged(g, old, new)
  BY <1>5 DEF Import, ImportBreaks
<1>6. \/ UNCHANGED log
      \/ \E j \in Jobs : Abandon(g, j)
      \/ \E old \in Gates : Import(g, old) \/ ImportBreaks(g, old)
  BY DEF Operator, Retire, PromoteFirst, PromoteManual, ImportBaselines, Promote, records
<1>7. ASSUME NEW j \in Jobs, Abandon(g, j)
      PROVE  /\ \A h \in Gates, k \in Jobs : Final(log[h][k]) => log'[h][k] = log[h][k]
             /\ \A h \in Gates, k \in Jobs : log'[h][k].status = "completed" =>
                    \E i \in Gates : log[i][k].status = "completed"
  BY <1>3, <1>7 DEF Final
<1> QED
  BY <1>2, <1>4, <1>5, <1>6, <1>7

(* What a gate knows it knows after a command, and under a higher baseline.*)
LEMMA KnowsKept ==
    ASSUME IInv, Carried, CommandMoves, NEW g \in Gates, Operator(g), NEW h \in Gates,
           NEW x \in Nat, NEW y \in Nat, x <= y, KnowsAllUpTo(h, x)
    PROVE  /\ \A r \in released :
                  \/ Final(log'[h][r.job]) /\ log'[h][r.job].input = r.input
                  \/ NumberOf[r.job] <= baseline'[h] \/ NumberOf[r.job] <= y
           /\ \A i \in Gates, j \in Jobs : log'[i][j].status = "completed" =>
                  \/ log'[h][j].status = "completed"
                  \/ NumberOf[j] <= baseline'[h] \/ NumberOf[j] <= y
<1>1. /\ TypeOK /\ baseline[h] \in Nat /\ baseline'[h] \in Nat /\ baseline[h] <= baseline'[h]
      /\ \A j \in Jobs : NumberOf[j] \in Nat
  BY OperatorType, NumbersAssumption DEF IInv, TypeOK, CommandMoves
<1>2. ASSUME NEW r \in released
      PROVE  \/ Final(log'[h][r.job]) /\ log'[h][r.job].input = r.input
             \/ NumberOf[r.job] <= baseline'[h] \/ NumberOf[r.job] <= y
  <2>1. r.job \in Jobs /\ KnowsUpTo(h, r, x)
    BY <1>1 DEF KnowsAllUpTo, TypeOK
  <2>2. CASE IsBelow(h, r.job, x)
    BY <1>1, <2>1, <2>2 DEF IsBelow
  <2>3. CASE Final(log[h][r.job]) /\ log[h][r.job].input = r.input
    BY <2>1, <2>3, CommandLogs
  <2> QED
    BY <2>1, <2>2, <2>3 DEF KnowsUpTo
<1>3. ASSUME NEW i \in Gates, NEW j \in Jobs, log'[i][j].status = "completed"
      PROVE  \/ log'[h][j].status = "completed"
             \/ NumberOf[j] <= baseline'[h] \/ NumberOf[j] <= y
  <2>1. KnowsDelivered(h, j, x)
    BY <1>3, CommandLogs DEF KnowsAllUpTo
  <2>2. CASE IsBelow(h, j, x)
    BY <1>1, <2>2 DEF IsBelow
  <2>3. CASE log[h][j].status = "completed"
    BY <2>3, CommandLogs DEF Final
  <2> QED
    BY <2>1, <2>2, <2>3 DEF KnowsDelivered
<1> QED
  BY <1>2, <1>3

(* What is released is known to the gate that was primary last, to the one *)
(* that becomes it, and to the one that has yet to take over a baseline.   *)
LEMMA CarriedCommand ==
    ASSUME IInv, OneAtWork, Carried, CommandMoves, NEW g \in Gates, Operator(g)
    PROVE  Carried'
<1>1. TypeOK /\ UNCHANGED <<released, server>>
  BY DEF IInv, CommandMoves
<1>2. CompletedAreReleased'
  <2>1. ASSUME NEW h \in Gates, At(h, "record")' PROVE At(h, "record") /\ JobOf(h)' = JobOf(h)
    <3>1. run'[h] = run[h]
      BY <2>1, WorkersStay DEF Works, WorkSteps, At
    <3> QED
      BY <2>1, <3>1 DEF At, JobOf
  <2> QED
    BY <1>1, <2>1, CommandLogs DEF Carried, CompletedAreReleased, IsReleased
<1>14. OneReleasePerCode'
  BY <1>1 DEF Carried, OneReleasePerCode
<1> SUFFICES KnowledgeIsCarried'
  BY <1>2, <1>14 DEF Carried
<1>3. ASSUME NEW h \in Gates, KnowsAll(h) PROVE KnowsAll(h)'
  BY <1>1, <1>3, KnowsKept DEF KnowsAll, KnowsAllUpTo, KnowsUpTo, KnowsDelivered, IsBelow, Final
<1>4. ASSUME latest' = latest,
             \A h \in Gates : run'[h] = run[h] \/ At(h, "down")'
      PROVE  KnowledgeIsCarried'
  <2>1. ASSUME NEW h \in Gates, IsPromoted(h)' PROVE run'[h] = run[h]
    BY <1>4, <2>1 DEF At, IsPromoted
  <2>2. ASSUME NEW h \in Gates, At(h, "baselines")', NEW old \in run'[h].from
        PROVE  KnowsAllUpTo(h, baseline[old])'
    <3>1. At(h, "baselines") /\ old \in run[h].from
      BY <2>1, <2>2 DEF IsPromoted, At
    <3>2. old \in Gates /\ KnowsAllUpTo(h, baseline[old])
      BY <1>1, <3>1 DEF Carried, KnowledgeIsCarried, OneAtWork, PromotedAreAlone, IsPromoted, At, TypeOK
    <3>3. baseline[old] \in Nat /\ baseline'[old] \in Nat /\ baseline[old] <= baseline'[old]
      BY <1>1, <3>2, OperatorType DEF TypeOK, CommandMoves
    <3> QED
      BY <1>1, <3>2, <3>3, KnowsKept DEF KnowsAllUpTo, KnowsUpTo, KnowsDelivered, IsBelow, Final
  <2>3. ASSUME NEW h \in Gates, At(h, "role")' PROVE KnowsAll(h)'
    BY <1>3, <2>1, <2>3 DEF IsPromoted, At, Carried, KnowledgeIsCarried
  <2>4. \A h \in latest' : KnowsAll(h)'
    BY <1>1, <1>3, <1>4 DEF Carried, KnowledgeIsCarried, TypeOK
  <2>5. latest' = {} => released' = {}
    BY <1>1, <1>4 DEF Carried, KnowledgeIsCarried
  <2> QED
    BY <2>2, <2>3, <2>4, <2>5 DEF KnowledgeIsCarried
<1>5. ASSUME latest' = latest, \A h \in Gates : IsPromoted(h)' => h = g,
             At(g, "role")' => KnowsAll(g)',
             At(g, "baselines")' => \A old \in run'[g].from : KnowsAllUpTo(g, baseline[old])'
      PROVE  KnowledgeIsCarried'
  <2>1. \A h \in latest' : KnowsAll(h)'
    BY <1>1, <1>3, <1>5 DEF Carried, KnowledgeIsCarried, TypeOK
  <2>2. latest' = {} => released' = {}
    BY <1>1, <1>5 DEF Carried, KnowledgeIsCarried
  <2> QED
    BY <1>5, <2>1, <2>2 DEF KnowledgeIsCarried, IsPromoted, At
<1>6. ASSUME BecomesPrimary(g), KnowsAll(g)', \A h \in Gates : ~IsPromoted(h)'
      PROVE  KnowledgeIsCarried'
  BY <1>6 DEF BecomesPrimary, KnowledgeIsCarried, IsPromoted, At
<1>7. CASE (\E j \in Jobs : Abandon(g, j)) \/ Retire(g) \/ (\E old \in Gates : ImportBreaks(g, old))
  <2>1. latest' = latest
    BY <1>7 DEF Abandon, Retire, ImportBreaks, roles
  <2>2. \A h \in Gates : run'[h] = run[h] \/ At(h, "down")'
    <3>1. CASE UNCHANGED run
      BY <3>1
    <3>2. CASE Goes(g, Down)
      BY <1>1, <3>2, Gone DEF At, Down
    <3> QED
      BY <1>7, <3>1, <3>2 DEF Abandon, Retire, ImportBreaks
  <2> QED
    BY <1>4, <2>1, <2>2
<1>8. CASE PromoteFirst(g)
  <2>1. released = {} /\ \A h \in Gates, j \in Jobs : log[h][j].status # "completed"
    BY <1>8 DEF PromoteFirst, Carried, KnowledgeIsCarried, CompletedAreReleased
  <2>2. KnowsAll(g)'
    BY <1>1, <2>1, CommandLogs DEF KnowsAll, KnowsAllUpTo
  <2>3. \A h \in Gates : ~IsPromoted(h)'
    BY <1>8 DEF PromoteFirst, MayPromote, IsPromoted
  <2> QED
    BY <1>6, <1>8, <2>2, <2>3 DEF PromoteFirst
<1>9. CASE Promote(g)
  <2>1. KnowsAll(g)'
    BY <1>3, <1>9 DEF Promote, Carried, KnowledgeIsCarried
  <2>2. IsPromoted(g) /\ run'[g].step = "down" /\ \A h \in Gates \ {g} : run'[h] = run[h]
    BY <1>1, <1>9, Gone DEF Promote, IsPromoted, At, Down
  <2>3. \A h \in Gates : ~IsPromoted(h)'
    BY <2>2 DEF OneAtWork, PromotedAreAlone, IsPromoted
  <2> QED
    BY <1>6, <1>9, <2>1, <2>3 DEF Promote
<1>10. CASE PromoteManual(g)
  <2>1. run'[g].step = "role" /\ \A h \in Gates \ {g} : run'[h] = run[h]
    BY <1>1, <1>10, Gone DEF PromoteManual
  <2>2. \A h \in Gates : IsPromoted(h)' => h = g
    BY <1>10, <2>1 DEF PromoteManual, MayPromote, IsPromoted
  <2>3. \A r \in released : NumberOf[r.job] <= baseline'[g]
    <3>1. CASE ReleasedCodes = {}
      BY <3>1 DEF ReleasedCodes
    <3>2. ASSUME NEW code \in ReleasedCodes, \A x \in ReleasedCodes : x <= code, Raise(g, code)
          PROVE  \A r \in released : NumberOf[r.job] <= baseline'[g]
      <4>1. code \in Nat /\ baseline'[g] \in Nat
        BY <1>1, OperatorType, NumbersAssumption DEF ReleasedCodes, TypeOK
      <4>2. code <= baseline'[g]
        BY <1>1, <3>2, <4>1, Raised
      <4>3. ASSUME NEW r \in released PROVE NumberOf[r.job] \in Nat /\ NumberOf[r.job] <= code
        BY <1>1, <3>2, NumbersAssumption DEF ReleasedCodes, TypeOK
      <4> QED
        BY <4>1, <4>2, <4>3
    <3> QED
      BY <1>10, <3>1, <3>2 DEF PromoteManual
  <2>4. \A h \in Gates, j \in Jobs : log'[h][j].status = "completed" => NumberOf[j] <= baseline'[g]
    BY <2>3, CommandLogs DEF Carried, CompletedAreReleased
  <2>5. KnowsAll(g)'
    BY <1>1, <2>3, <2>4 DEF KnowsAll, KnowsAllUpTo, KnowsUpTo, KnowsDelivered, IsBelow
  <2>6. latest' = latest /\ ~At(g, "baselines")'
    BY <1>10, <2>1 DEF PromoteManual, roles, At
  <2> QED
    BY <1>5, <2>2, <2>5, <2>6
<1>11. ASSUME NEW old \in Gates, Import(g, old) PROVE KnowledgeIsCarried'
  <2>1. run'[g] = [step |-> "baselines", from |-> {old}] /\ \A h \in Gates \ {g} : run'[h] = run[h]
    BY <1>1, <1>11, Gone DEF Import
  <2>2. \A h \in Gates : IsPromoted(h)' => h = g
    BY <1>11, <2>1 DEF Import, MayPromote, IsPromoted
  <2>3. /\ latest = {old} /\ UNCHANGED <<baseline, latest>> /\ Importable(g, old)
        /\ log' = Merged(g, old, Imported(g, old))
    BY <1>11 DEF Import, roles
  <2>4. \A j \in Jobs : Live(log[old][j]) => log'[g][j] = log[old][j]
    BY <1>1, <2>3, MergedLogs DEF Imported, Same
  <2>5. KnowsAll(old)
    BY <2>3 DEF Carried, KnowledgeIsCarried
  <2>6. ASSUME NEW j \in Jobs, IsBelow(old, j, 0) PROVE IsBelow(g, j, baseline[old])'
    BY <1>1, <2>3, <2>6, NumbersAssumption DEF IsBelow, TypeOK
  <2>7. ASSUME NEW r \in released PROVE KnowsUpTo(g, r, baseline[old])'
    <3>1. r.job \in Jobs /\ KnowsUpTo(old, r, 0)
      BY <1>1, <2>5 DEF KnowsAll, KnowsAllUpTo, TypeOK
    <3>2. CASE IsBelow(old, r.job, 0)
      BY <2>6, <3>1, <3>2 DEF KnowsUpTo
    <3>3. CASE Final(log[old][r.job]) /\ log[old][r.job].input = r.input
      BY <2>4, <3>1, <3>3 DEF KnowsUpTo, Final, Live
    <3> QED
      BY <3>1, <3>2, <3>3 DEF KnowsUpTo
  <2>8. ASSUME NEW h \in Gates, NEW j \in Jobs, log'[h][j].status = "completed"
        PROVE  KnowsDelivered(g, j, baseline[old])'
    <3>1. KnowsDelivered(old, j, 0)
      BY <2>5, <2>8, CommandLogs DEF KnowsAll, KnowsAllUpTo
    <3>2. CASE IsBelow(old, j, 0)
      BY <2>6, <3>2 DEF KnowsDelivered
    <3>3. CASE log[old][j].status = "completed"
      BY <2>4, <3>3 DEF KnowsDelivered, Live
    <3> QED
      BY <3>1, <3>2, <3>3 DEF KnowsDelivered
  <2>9. KnowsAllUpTo(g, baseline[old])'
    BY <1>1, <2>7, <2>8 DEF KnowsAllUpTo
  <2>10. ~At(g, "role")' /\ latest' = latest /\ run'[g].from = {old}
    BY <2>1, <2>3 DEF At
  <2> QED
    BY <1>5, <2>2, <2>9, <2>10
<1>12. CASE ImportBaselines(g)
  <2>1. run[g] \in Promoting
    BY <1>1, <1>12, PromotingRun DEF ImportBaselines, At, IsPromoted
  <2>2. run'[g].step = "role" /\ \A h \in Gates \ {g} : run'[h] = run[h]
    BY <1>1, <1>12, <2>1, Gone DEF ImportBaselines, Promoting
  <2>3. \A h \in Gates : IsPromoted(h)' => h = g
    BY <1>12, <2>2 DEF ImportBaselines, OneAtWork, PromotedAreAlone, IsPromoted, At
  <2>4. PICK old \in run[g].from : Raise(g, baseline[old])
    BY <1>12 DEF ImportBaselines
  <2>5. old \in Gates /\ baseline[old] \in Nat /\ baseline'[g] \in Nat /\ KnowsAllUpTo(g, baseline[old])
    BY <1>1, <1>12, <2>1, OperatorType
       DEF TypeOK, Promoting, ImportBaselines, Carried, KnowledgeIsCarried
  <2>6. baseline[old] <= baseline'[g]
    BY <1>1, <2>4, <2>5, Raised
  <2>7. KnowsAll(g)'
    BY <1>1, <2>5, <2>6, KnowsKept DEF KnowsAll, KnowsAllUpTo, KnowsUpTo, KnowsDelivered, IsBelow, Final
  <2>8. latest' = latest /\ ~At(g, "baselines")'
    BY <1>12, <2>2 DEF ImportBaselines, roles, At
  <2> QED
    BY <1>5, <2>3, <2>7, <2>8
<1> QED
  BY <1>7, <1>8, <1>9, <1>10, <1>11, <1>12 DEF Operator

-----------------------------------------------------------------------------
(***************************************************************************)
(* What follows for every behaviour                                        *)
(***************************************************************************)

(* The four parts hold together, step by step.                             *)
LEMMA ReleaseStep ==
    ASSUME IInv, TypeOK', ReleaseInv, [Next]_vars
    PROVE  ReleaseInv'
<1> USE DEF ReleaseInv
<1>1. TypeOK
  BY DEF IInv
<1>2. CASE Plain
  <2>1. PlainMoves
    BY <1>2, PlainStep
  <2> QED
    BY <1>1, <1>2, <2>1, OneAtWorkPlain, SendsPlain, CarriedPlain, RisePlain
<1>3. ASSUME NEW g \in Gates, Operator(g) PROVE ReleaseInv'
  <2>1. CommandMoves
    BY <1>3, CommandStep
  <2>2. \A h \in retired : h \in retired'
    BY <1>3 DEF Operator, Abandon, Retire, PromoteFirst, PromoteManual, Import, ImportBreaks,
                ImportBaselines, Promote, BecomesPrimary, roles
  <2> QED
    BY <1>1, <1>3, <2>1, <2>2, OneAtWorkCommand, SendsCommand, CarriedCommand, RiseCommand
<1>4. CASE UNCHANGED vars
  <2>1. /\ UNCHANGED <<log, baseline, torn, role, latest, retired, run, server, requests, packages,
                       sent, released>>
    BY <1>4 DEF vars
  <2>2. OneAtWork'
    BY <2>1 DEF OneAtWork, OnePrimary, LatestIsPrimary, WorkersArePrimary, SignersArePrimary,
                RetiredAreDown, PromotedAreAlone, IsPrimary, IsPromoted, Works, At
  <2>3. SendsAreRecorded'
    BY <2>1 DEF SendsAreRecorded, IsAboveBaseline, SentAboveBaseline, CompletedAreSent, CodeOf, JobOf
  <2>4. Carried'
    BY <2>1 DEF Carried, CompletedAreReleased, KnowledgeIsCarried, KnowsAll, KnowsAllUpTo, KnowsUpTo,
                KnowsDelivered, IsBelow, OneReleasePerCode, IsReleased, At, JobOf, Final
  <2>5. Rise'
    BY <2>1 DEF Rise, NumbersAreOnce, WorkIsBelow, WorkIsAbove, UploadedIsAbove, IsAboveAll, Works,
                CodeOf, JobOf, Live
  <2> QED
    BY <2>2, <2>3, <2>4, <2>5
<1> QED
  BY <1>2, <1>3, <1>4 DEF Next, Plain

LEMMA ReleaseInit ==
    ASSUME Init
    PROVE  ReleaseInv
  BY DEF Init, ReleaseInv, OneAtWork, OnePrimary, LatestIsPrimary, WorkersArePrimary,
         SignersArePrimary, RetiredAreDown, PromotedAreAlone, IsPromoted, Works, WorkSteps, At, Down,
         SendsAreRecorded, IsAboveBaseline, SentAboveBaseline, CompletedAreSent,
         Carried, CompletedAreReleased, KnowledgeIsCarried, OneReleasePerCode, IsReleased, NoEntry,
         NewJob, Rise, NumbersAreOnce, Takes, WorkIsBelow, WorkIsAbove, UploadedIsAbove

(* The invariant of all gates together.                                    *)
THEOREM ReleasesInvariant == Spec => []ReleaseInv
<1>1. Init => ReleaseInv
  BY ReleaseInit
<1>2. IInv /\ TypeOK' /\ ReleaseInv /\ [Next]_vars => ReleaseInv'
  BY ReleaseStep
<1> QED
  BY <1>1, <1>2, TypeCorrect, GatesInvariant, PTL DEF Spec

(* The gate that became primary last knows every release that ever was,    *)
(* from its log or by its baseline, whatever was promoted, imported,       *)
(* entered by hand or restored before.                                     *)
THEOREM PrimaryKnows == Spec => []PrimaryKnowsTheReleases
<1>1. TypeOK /\ ReleaseInv => PrimaryKnowsTheReleases
  <2> SUFFICES ASSUME TypeOK, ReleaseInv, NEW g \in latest, NEW r \in released PROVE Knows(g, r)
    BY DEF PrimaryKnowsTheReleases
  <2>1. r.job \in Jobs /\ KnowsUpTo(g, r, 0)
    BY DEF ReleaseInv, Carried, KnowledgeIsCarried, KnowsAll, KnowsAllUpTo, TypeOK
  <2>2. NumberOf[r.job] \in Nat \ {0}
    BY <2>1, NumbersAssumption
  <2> QED
    BY <2>1, <2>2 DEF KnowsUpTo, IsBelow, Knows, Final
<1> QED
  BY <1>1, TypeCorrect, ReleasesInvariant, PTL

(* Two releases never share a version code.                                *)
THEOREM OneReleasePerCodeHolds == Spec => []OneReleasePerCode
<1>1. ReleaseInv => OneReleasePerCode
  BY DEF ReleaseInv, Carried
<1> QED
  BY <1>1, ReleasesInvariant, PTL

(* A release is above every earlier one of another job.                    *)
THEOREM ReleasedCodesRiseHolds == Spec => ReleasedCodesRise
<1>1. IInv /\ ReleaseInv /\ [Next]_vars =>
          [\A r \in released' \ released : \A q \in released :
               q.job = r.job \/ NumberOf[q.job] < NumberOf[r.job]]_vars
  <2> SUFFICES ASSUME IInv, ReleaseInv, Next, NEW r \in released' \ released, NEW q \in released,
                      q.job # r.job
               PROVE  NumberOf[q.job] < NumberOf[r.job]
    OBVIOUS
  <2> USE DEF ReleaseInv
  <2>1. TypeOK
    BY DEF IInv
  <2>2. Plain
    <3>1. \A g \in Gates : ~Operator(g)
      BY CommandStep DEF CommandMoves
    <3> QED
      BY <3>1 DEF Next, Plain
  <2>3. PICK p \in requests : Accepts(p) /\ r = Release(p)
    BY <2>2, PlainStep DEF PlainMoves, ReleasedMoves
  <2> DEFINE g == p.gate
  <2>4. /\ g \in Gates /\ IsPrimary(g) /\ r.job \in Jobs /\ q.job \in Jobs
        /\ r.job = p.claim.job /\ baseline[g] < NumberOf[r.job]
    BY <2>1, <2>3, AcceptedBy DEF Release, TypeOK
  <2>5. KnowsUpTo(g, q, 0)
    BY <2>4 DEF Carried, KnowledgeIsCarried, IsPrimary, KnowsAll, KnowsAllUpTo
  <2>6. baseline[g] \in Nat /\ NumberOf[r.job] \in Nat \ {0} /\ NumberOf[q.job] \in Nat \ {0}
    BY <2>1, <2>4, NumbersAssumption DEF TypeOK
  <2>7. CASE IsBelow(g, q.job, 0)
    BY <2>4, <2>6, <2>7 DEF IsBelow
  <2>8. CASE Final(log[g][q.job])
    <3>1. server[r.job].status = "signing" /\ server[r.job].by = {g} /\ server[r.job].uploaded # {}
      BY <2>3, <2>4 DEF Accepts, Current, IsOf, Delivers
    <3>2. IsAboveAll(g, r.job)
      BY <2>4, <3>1 DEF Rise, UploadedIsAbove, IsPrimary
    <3> QED
      BY <2>4, <2>8, <3>2 DEF IsAboveAll, Final, Live
  <2> QED
    BY <2>5, <2>7, <2>8 DEF KnowsUpTo
<1> QED
  BY <1>1, GatesInvariant, ReleasesInvariant, PTL DEF Spec, ReleasedCodesRise

(* What some gate knows to be delivered is not sent again, and only the    *)
(* primary sends.                                                          *)
THEOREM NotSentAgain == Spec => DeliveredIsNotSentAgain
<1>1. IInv /\ ReleaseInv /\ [Next]_vars =>
          [\A s \in sent' \ sent :
              /\ latest = {s.gate}
              /\ \A g \in Gates : log[g][s.job].status # "completed"]_vars
  <2> SUFFICES ASSUME IInv, ReleaseInv, Next, NEW s \in sent' \ sent
               PROVE  /\ latest = {s.gate}
                      /\ \A g \in Gates : log[g][s.job].status # "completed"
    OBVIOUS
  <2> USE DEF ReleaseInv
  <2>1. TypeOK
    BY DEF IInv
  <2>2. Plain
    <3>1. \A g \in Gates : ~Operator(g)
      BY CommandStep DEF CommandMoves
    <3> QED
      BY <3>1 DEF Next, Plain
  <2>3. PICK g \in Gates : At(g, "upload") /\ s = Package(g, run[g].claim, run[g].package)
    BY <2>2, PlainStep DEF PlainMoves, SentMoves
  <2>4. s.gate = g /\ s.job = JobOf(g) /\ Works(g)
    BY <2>3 DEF Package, JobOf, Works, WorkSteps, At
  <2>5. latest = {g} /\ CodeOf(g) \in Nat \ {0} /\ baseline[g] \in Nat /\ JobOf(g) \in Jobs
    BY <2>1, <2>4, WorkingRun DEF OneAtWork, WorkersArePrimary, IsPrimary, TypeOK
  <2>6. baseline[g] < CodeOf(g)
    BY <2>3 DEF SendsAreRecorded, IsAboveBaseline, At
  <2>7. log[g][JobOf(g)].status = "signed"
    <3>1. EntryOf(g) = [status |-> "signed", input |-> InputOf(g), package |-> run[g].package]
      BY <2>3 DEF IInv, GateInv, RunsKnow, KnowsItsLog, IsMarked, At
    <3> QED
      BY <3>1 DEF EntryOf
  <2>8. ASSUME NEW h \in Gates, log[h][JobOf(g)].status = "completed" PROVE FALSE
    <3>1. KnowsDelivered(g, JobOf(g), 0)
      BY <2>5, <2>8 DEF Carried, KnowledgeIsCarried, KnowsAll, KnowsAllUpTo
    <3> QED
      BY <2>5, <2>6, <2>7, <3>1 DEF KnowsDelivered, IsBelow, CodeOf
  <2> QED
    BY <2>4, <2>5, <2>8
<1> QED
  BY <1>1, GatesInvariant, ReleasesInvariant, PTL DEF Spec, DeliveredIsNotSentAgain
=============================================================================
