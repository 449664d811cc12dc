--------------------------- MODULE ChainScanControl ---------------------------
(***************************************************************************)
(* What administrators do to the scan of one chain: they save, pause and   *)
(* resume its configuration, which the runner of the indexer process       *)
(* follows by its version, and they queue and cancel jobs, which the       *)
(* worker carries out step by step between its rounds.                     *)
(***************************************************************************)
EXTENDS Naturals, Sequences, SequencesExt, FiniteSets

CONSTANTS
    Editors,       \* requests of administrators
    Chunk          \* blocks of a step of a job
CONSTANTS          \* bounds of the model
    MaxVersion, MaxContent, MaxHeight, MaxJobs, MaxQueue, MaxCrashes

BoundsAssumption ==
    {MaxVersion, MaxContent, MaxHeight, MaxJobs, MaxQueue, MaxCrashes} \subseteq Nat /\ Chunk \in Nat \ {0}

VARIABLES
    config,      \* app_configs, key chain-scan.<chain>
    edit,        \* the requests between two steps
    contents,    \* how many contents were ever entered
    jobs,        \* chain_scan_state.jobs
    created,     \* how many jobs there ever were
    cancelled,
    scanned,     \* the blocks that the steps of each job have covered
    confirmed,   \* the confirmed block of the chain
    worker,      \* of the process, with the state it loaded
    crashes

controlVars == <<config, edit, contents>>
jobVars == <<jobs, created, cancelled, scanned>>
vars == <<config, edit, contents, jobs, created, cancelled, scanned, confirmed, worker, crashes>>

-----------------------------------------------------------------------------
NoConfig == [version |-> 0, content |-> 0, enabled |-> FALSE, paused |-> FALSE]
Config == [version : 0..MaxVersion, content : 0..MaxContent, enabled : BOOLEAN, paused : BOOLEAN]
NoRequest == [step |-> "none"]
Request == [step : {"open", "read"}, expected : 0..MaxVersion, seen : 0..MaxContent,
            content : 0..MaxContent, enabled : BOOLEAN, paused : BOOLEAN]

Ids == 1..MaxJobs
Job == [id : Ids, from : 1..MaxHeight, to : 1..MaxHeight, progress : 0..MaxHeight, state : {"pending", "running", "failed"}]
NoJob == [id |-> 0]
NoWorker == [step |-> "none"]
Worker == [step : {"idle", "round", "job", "done", "broken"}, config : Config, jobs : Seq(Job), job : {NoJob} \cup Job]

Least(a, b) == IF a < b THEN a ELSE b

-----------------------------------------------------------------------------
(***************************************************************************)
(* The configuration.  A page shows a version; a request to save it brings *)
(* new contents, one to pause or resume reads the contents again and       *)
(* writes them all with the flag changed.                                  *)
(***************************************************************************)
Open(r) ==
    /\ edit[r] = NoRequest
    /\ \E enabled, paused \in BOOLEAN, content \in {config.content, contents + 1} :
         /\ content <= MaxContent
         /\ content # 0
         /\ contents' = IF content > contents THEN content ELSE contents
         /\ edit' = [edit EXCEPT ![r] = [step |-> IF content = config.content THEN "open" ELSE "read",
                                         expected |-> config.version, seen |-> config.content,
                                         content |-> content, enabled |-> enabled, paused |-> paused]]
    /\ UNCHANGED <<config, jobVars, confirmed, worker, crashes>>

ReadForToggle(r) ==
    /\ edit[r].step = "open"
    /\ edit' = [edit EXCEPT ![r].step = "read", ![r].content = config.content, ![r].enabled = config.enabled]
    /\ UNCHANGED <<config, contents, jobVars, confirmed, worker, crashes>>

(* One transaction, with the row locked.                                   *)
MaySave(r) == config.version = edit[r].expected

SaveConfig(r) ==
    /\ edit[r].step = "read"
    /\ config.version < MaxVersion
    /\ config' = IF MaySave(r)
                 THEN [version |-> config.version + 1, content |-> edit[r].content,
                       enabled |-> edit[r].enabled, paused |-> edit[r].paused]
                 ELSE config
    /\ edit' = [edit EXCEPT ![r] = NoRequest]
    /\ UNCHANGED <<contents, jobVars, confirmed, worker, crashes>>

-----------------------------------------------------------------------------
(***************************************************************************)
(* The runner reads the configurations every half minute.  It keeps a      *)
(* worker of the same version, and otherwise cancels it, waits for it and  *)
(* starts another one if the chain is enabled.  A worker that is cancelled *)
(* writes no more.                                                         *)
(***************************************************************************)
Kept(c) == worker # NoWorker /\ c.enabled /\ worker.config.version = c.version

Reload ==
    /\ ~Kept(config) /\ (config.enabled \/ worker # NoWorker)
    /\ worker' = IF config.enabled THEN [step |-> "idle", config |-> config, jobs |-> <<>>, job |-> NoJob] ELSE NoWorker
    /\ UNCHANGED <<controlVars, jobVars, confirmed, crashes>>

(* The process dies, and starts again with the next reload.                *)
Crash ==
    /\ worker # NoWorker
    /\ crashes < MaxCrashes /\ crashes' = crashes + 1
    /\ worker' = NoWorker
    /\ UNCHANGED <<controlVars, jobVars, confirmed>>

-----------------------------------------------------------------------------
(***************************************************************************)
(* The jobs.  Both sides change the array under the lock of its row:       *)
(* MutateJobs.                                                             *)
(***************************************************************************)
Live(j) == j.state \in {"pending", "running"}
With(j) == [i \in 1..Len(jobs) |-> IF jobs[i].id = j.id THEN j ELSE jobs[i]]
Without(id) == SelectSeq(jobs, LAMBDA j : j.id # id)
Queued(id) == \E i \in 1..Len(jobs) : jobs[i].id = id

MayQueue == Len(jobs) < MaxQueue

CreateJob ==
    /\ MayQueue
    /\ created < MaxJobs /\ created' = created + 1
    /\ \E from, to \in 1..MaxHeight :
         /\ from <= to
         /\ jobs' = Append(jobs, [id |-> created', from |-> from, to |-> to, progress |-> from - 1, state |-> "pending"])
    /\ UNCHANGED <<controlVars, cancelled, scanned, confirmed, worker, crashes>>

CancelJob(id) ==
    /\ Queued(id)
    /\ jobs' = Without(id)
    /\ cancelled' = cancelled \cup {id}
    /\ UNCHANGED <<controlVars, created, scanned, confirmed, worker, crashes>>

(* A round loads the state; a paused chain goes no further; a job is       *)
(* worked on when the cursor has reached the confirmed block.              *)
Works(c) == ~c.paused

BeginRound ==
    /\ worker.step = "idle"
    /\ Works(worker.config)
    /\ worker' = [worker EXCEPT !.step = "round", !.jobs = jobs]
    /\ UNCHANGED <<controlVars, jobVars, confirmed, crashes>>

PickJob ==
    /\ worker.step = "round"
    /\ LET live == SelectSeq(worker.jobs, Live) IN
       worker' = IF live = <<>> THEN [worker EXCEPT !.step = "idle"]
                 ELSE [worker EXCEPT !.step = "job", !.job = live[1]]
    /\ UNCHANGED <<controlVars, jobVars, confirmed, crashes>>

(* A step covers a chunk of confirmed blocks; the progress is written to   *)
(* the job if it is still there.                                           *)
First(j) == j.progress + 1
Limit(j) == Least(j.to, confirmed)

Updated(j) == With(j)

JobStep ==
    /\ worker.step = "job"
    /\ LET j == worker.job  to == Least(j.progress + Chunk, Limit(j))
           next == [j EXCEPT !.progress = to, !.state = "running"] IN
       /\ First(j) <= Limit(j)
       /\ scanned' = [scanned EXCEPT ![j.id] = @ \cup First(j)..to]
       /\ jobs' = Updated(next)
       /\ worker' = IF Queued(j.id) THEN [worker EXCEPT !.job = next, !.jobs = jobs']
                    ELSE [worker EXCEPT !.step = "idle", !.job = NoJob]
    /\ UNCHANGED <<controlVars, created, cancelled, confirmed, crashes>>

FailJob ==
    /\ worker.step = "job" /\ First(worker.job) <= Limit(worker.job)
    /\ jobs' = Updated([worker.job EXCEPT !.state = "failed"])
    /\ worker' = [worker EXCEPT !.step = "idle", !.job = NoJob]
    /\ UNCHANGED <<controlVars, created, cancelled, scanned, confirmed, crashes>>

(* The round ends when its time is over or the blocks are; the job goes    *)
(* only if it has reached its last block.                                  *)
IsDone_Limit(j) == First(j) > Limit(j)
IsDone(j) == First(j) > j.to

EndJobRound ==
    /\ worker.step = "job"
    /\ jobs' = IF IsDone(worker.job) THEN Without(worker.job.id) ELSE jobs
    /\ worker' = [worker EXCEPT !.step = "idle", !.job = NoJob]
    /\ UNCHANGED <<controlVars, created, cancelled, scanned, confirmed, crashes>>

Confirm ==
    /\ confirmed < MaxHeight /\ confirmed' = confirmed + 1
    /\ UNCHANGED <<controlVars, jobVars, worker, crashes>>

-----------------------------------------------------------------------------
Init ==
    /\ config = NoConfig /\ contents = 0
    /\ edit = [r \in Editors |-> NoRequest]
    /\ jobs = <<>> /\ created = 0 /\ cancelled = {}
    /\ scanned = [id \in Ids |-> {}]
    /\ confirmed = 1
    /\ worker = NoWorker /\ crashes = 0

Admin ==
    \/ \E r \in Editors : Open(r) \/ ReadForToggle(r) \/ SaveConfig(r)
    \/ CreateJob \/ \E id \in Ids : CancelJob(id)

RunJobs == BeginRound \/ PickJob \/ JobStep \/ EndJobRound

Next == Admin \/ Reload \/ Crash \/ RunJobs \/ FailJob \/ Confirm

Spec == Init /\ [][Next]_vars

(* The runner reloads, the worker goes on, a round has time for a step     *)
(* before it ends, and the chain grows.                                    *)
FairSpec ==
    /\ Spec
    /\ WF_vars(Reload) /\ WF_vars(BeginRound \/ PickJob) /\ SF_vars(JobStep) /\ WF_vars(EndJobRound)
    /\ WF_vars(Confirm)

-----------------------------------------------------------------------------
TypeOK ==
    /\ config \in Config /\ contents \in 0..MaxContent
    /\ edit \in [Editors -> {NoRequest} \cup Request]
    /\ jobs \in Seq(Job) /\ Len(jobs) <= MaxQueue
    /\ created \in 0..MaxJobs /\ cancelled \subseteq Ids
    /\ scanned \in [Ids -> SUBSET (1..MaxHeight)]
    /\ confirmed \in 1..MaxHeight
    /\ worker = NoWorker \/ worker \in Worker
    /\ crashes \in 0..MaxCrashes

(* The cancellation by an administrator and the progress of the worker do  *)
(* not undo each other: a job that was cancelled is gone for good, however *)
(* old the state is that the worker loaded.                                *)
CancelledJobsAreGone == \A id \in cancelled : ~Queued(id)

(* A job that leaves the queue without having been cancelled has covered   *)
(* every block it was created for, over any number of rounds, restarts and *)
(* new configurations.                                                     *)
JobsCoverTheirBlocks ==
    [][\A i \in 1..Len(jobs) :
         LET j == jobs[i] IN
         ~(\E k \in 1..Len(jobs') : jobs'[k].id = j.id) =>
             j.id \in cancelled' \/ j.from..j.to \subseteq scanned[j.id]]_vars

(* Saving, pausing and resuming a configuration at the same time: contents *)
(* are replaced only by somebody who had seen them, and to pause or resume *)
(* changes nothing but the flag.                                           *)
NoEditIsLost ==
    [][config'.content # config.content =>
         \E r \in Editors : edit[r] # NoRequest /\ edit[r].seen = config.content
                            /\ edit[r].content = config'.content]_vars

(* A chain that stays paused is not scanned for ever: the worker that does *)
(* not know is replaced, and the new one begins no round.                  *)
PauseTakesEffect == <>[](config.paused) => <>[](worker = NoWorker \/ worker.step = "idle")

(* A chain that stays enabled and not paused works its jobs off: each is   *)
(* carried out, has failed or is cancelled in the end.                     *)
Running == config.enabled /\ ~config.paused
JobsAreWorkedOff ==
    <>[]Running => \A id \in Ids : []<>(\A i \in 1..Len(jobs) : jobs[i].id = id => jobs[i].state = "failed")
=============================================================================
