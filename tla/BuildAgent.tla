----------------------------- MODULE BuildAgent -----------------------------
(***************************************************************************)
(* One build machine: the controlling process of cmd/build-agent, its job  *)
(* directories and its spool on disk, the build runner it starts as        *)
(* another user, and the rows and packages of the server it reports to.    *)
(* The agent claims a job, checks out the source, has the runner build it, *)
(* copies the outputs into a spool of its own, delivers them and cleans    *)
(* up.  Requests and answers may be lost, and a request may arrive long    *)
(* after its caller gave up; the process may die at any step, leaving the  *)
(* runner's processes behind; the server may take the job away meanwhile.  *)
(*                                                                         *)
(* A package is what one run of a build made: the job, the attempt, and    *)
(* whether a process left behind rewrote it afterwards.  Left aside: the   *)
(* provenance key, which is accepted here (Enrolment has it); jobs for iOS *)
(* (IosQueue); a machine that says it is paused; and answers the server    *)
(* never gives (a job for a paused machine, one with signing material).    *)
(***************************************************************************)
EXTENDS Naturals, FiniteSets

CONSTANTS
    Jobs,        \* the queued jobs
    KindOf,      \* the kind of each job: "apk" or "ota"
    MaxAttempts, \* maxBuildAttempts
    MaxTries,    \* how often one call is tried
    MaxFaults,   \* a bound on losses, deaths, failed cleanups, timeouts, revocations and
                 \* approvals of another version, together
    Overlaps,    \* a save goes on although its caller has given up
    None

AgentAssumption ==
    /\ KindOf \in [Jobs -> {"apk", "ota"}]
    /\ MaxAttempts \in Nat \ {0} /\ MaxTries \in Nat \ {0}
    /\ MaxFaults \in Nat
    /\ Overlaps \in BOOLEAN

VARIABLES
    rows,      \* the server's row of each job
    staged,    \* the OTA packages uploaded and not yet saved, by ticket
    saving,    \* the requests to save an OTA revision under way
    revisions, \* the OTA revisions saved
    revoked,   \* the machine was revoked in the console
    outdated,  \* the version approved is not the one this machine runs
    agent,     \* what the process does
    reply,     \* the answer to the agent's call, on its way
    disk,      \* the job directories, the spool, the processes left behind
    late,      \* requests that arrive after their caller gave up
    stop,      \* the process was asked to stop
    faults,    \* how much has gone wrong
    past       \* what happened to attempts; only the properties read it

vars == <<rows, staged, saving, revisions, revoked, outdated, agent, reply, disk,
          late, stop, faults, past>>

BuilderActive == {"claimed", "running"}
Sending == {"upload", "revise", "result"}
InJob == {"checkout", "prepared", "building", "spooling", "binding"} \cup Sending

Fault == /\ faults.number < MaxFaults
         /\ faults' = [faults EXCEPT !.number = @ + 1]
Loss == /\ faults.number < MaxFaults
        /\ faults' = [number |-> faults.number + 1, lost |-> TRUE]

Build(j, n) == [job |-> j, attempt |-> n]
Package(b) == [build |-> b, rewritten |-> FALSE]
NoFiles == [pkg |-> None, sbom |-> None]

Resting(phase, darwin) ==
    [phase |-> phase, job |-> None, attempt |-> 0, tries |-> 0, cause |-> "none",
     err |-> FALSE, orphaned |-> FALSE, ticket |-> None, knows |-> FALSE, darwin |-> darwin]
Mine == Build(agent.job, agent.attempt)

Init ==
    /\ rows = [j \in Jobs |-> [status |-> "queued", attempt |-> 0,
                               stored |-> None, attested |-> None]]
    /\ staged = {} /\ saving = {} /\ revisions = {}
    /\ revoked = FALSE /\ outdated = FALSE
    /\ \E darwin \in BOOLEAN : agent = Resting("stopped", darwin)
    /\ reply = None
    /\ disk = [dirs |-> {}, out |-> NoFiles, spool |-> NoFiles, stray |-> None]
    /\ late = {} /\ stop = FALSE
    /\ faults = [number |-> 0, lost |-> FALSE]
    /\ past = [ended |-> {}, delivered |-> {}, refused |-> {}]

----------------------------------------------------------------------------
(* The server's handlers.  Its answer goes to the caller, is lost on the   *)
(* way, or goes to nobody when the caller gave up before.                  *)

Active(j, n) == rows[j].status \in BuilderActive /\ rows[j].attempt = n
Current(req) == Active(req.job, req.attempt)
SetRow(j, row) == rows' = [rows EXCEPT ![j] = row]
WithoutPackage(row) == [row EXCEPT !.stored = None]

Answer(kind) == [kind |-> kind, job |-> None, attempt |-> 0]
AnswerJob(kind, j, n) == [kind |-> kind, job |-> j, attempt |-> n]
Later == Answer("later")

Tells(to, a) ==
    reply' = CASE to = "caller" -> a [] to = "lost" -> Later [] OTHER -> reply

(* The version approved is looked at first, then whether the machine still *)
(* has a job, and only then the queue.                                     *)
HandleClaim(to) ==
    /\ UNCHANGED <<staged, saving, revisions, past>>
    /\ \/ outdated /\ Tells(to, Answer("upgrade")) /\ UNCHANGED rows
       \/ /\ ~outdated
          /\ \E j \in Jobs : /\ rows[j].status \in BuilderActive
                             /\ Tells(to, AnswerJob("active", j, rows[j].attempt))
          /\ UNCHANGED rows
       \/ /\ ~outdated
          /\ \A j \in Jobs : rows[j].status \notin BuilderActive
          /\ \/ \E j \in Jobs :
                   /\ rows[j].status = "queued"
                   /\ Tells(to, AnswerJob("job", j, rows[j].attempt + 1))
                   /\ SetRow(j, [rows[j] EXCEPT !.status = "claimed", !.attempt = @ + 1])
             \/ /\ \A j \in Jobs : rows[j].status # "queued"
                /\ Tells(to, Answer("none")) /\ UNCHANGED rows

(* A failure report.  One that hands back a claim nothing was done for     *)
(* puts a package job back in the queue while it has attempts left.        *)
Ends(req) == Current(req)
HandleFail(req, to) ==
    /\ UNCHANGED <<staged, saving, revisions>>
    /\ \/ /\ Ends(req)
          /\ Tells(to, Answer("ok"))
          /\ SetRow(req.job, [WithoutPackage(rows[req.job]) EXCEPT !.status =
                 IF req.orphaned /\ KindOf[req.job] = "apk" /\ req.attempt < MaxAttempts
                 THEN "queued" ELSE "failed"])
          /\ past' = [past EXCEPT !.ended = @ \cup {Build(req.job, rows[req.job].attempt)}]
       \/ ~Ends(req) /\ Tells(to, Answer("stale")) /\ UNCHANGED <<rows, past>>

(* The unsigned package and its SBOM are kept for the row; the package of  *)
(* an OTA job is kept under the ticket it was uploaded with.               *)
StorePackage(req) == SetRow(req.job, [rows[req.job] EXCEPT !.stored = req.pkg])
StagePackage(req) == staged' = staged \cup {req.ticket}
HandleUpload(req, to) ==
    /\ UNCHANGED <<saving, revisions, past>>
    /\ \/ ~Current(req) /\ Tells(to, Answer("stale")) /\ UNCHANGED <<rows, staged>>
       \/ /\ Current(req) /\ Tells(to, Answer("ok"))
          /\ \/ KindOf[req.job] = "apk" /\ StorePackage(req) /\ UNCHANGED staged
             \/ KindOf[req.job] = "ota" /\ StagePackage(req) /\ UNCHANGED rows

(* /built takes the statement of the package stored, /complete ends an OTA *)
(* job.  A second report of the same result finds the claim stale.         *)
Attests(req) == KindOf[req.job] = "ota" \/ rows[req.job].stored = req.pkg
MarkBuilt(req) ==
    SetRow(req.job, [rows[req.job] EXCEPT !.status = "built", !.attested = req.pkg])
Complete(req) ==
    SetRow(req.job, [rows[req.job] EXCEPT !.status = "succeeded", !.attested = req.pkg])
HandleResult(req, to) ==
    /\ UNCHANGED <<staged, saving, revisions>>
    /\ \/ ~Current(req) /\ Tells(to, Answer("stale")) /\ UNCHANGED <<rows, past>>
       \/ /\ Current(req) /\ ~Attests(req)
          /\ Tells(to, Answer("refused")) /\ UNCHANGED rows
          /\ past' = [past EXCEPT !.refused = @ \cup {Build(req.job, req.attempt)}]
       \/ /\ Current(req) /\ Attests(req)
          /\ Tells(to, Answer("ok"))
          /\ IF KindOf[req.job] = "apk" THEN MarkBuilt(req) ELSE Complete(req)
          /\ past' = [past EXCEPT !.delivered = @ \cup {Build(req.job, req.attempt)}]

(* /ota-release reads the package under the ticket.  Saving takes a while. *)
HandleRevise(req, to) ==
    /\ UNCHANGED <<rows, staged, revisions, past>>
    /\ \/ ~Current(req) /\ Tells(to, Answer("stale")) /\ UNCHANGED saving
       \/ /\ Current(req) /\ req.ticket \notin staged
          /\ Tells(to, Answer("refused")) /\ UNCHANGED saving
       \/ /\ Current(req) /\ req.ticket \in staged
          /\ saving' = saving \cup {[req |-> req, heard |-> to = "caller"]}
          /\ reply' = IF to = "caller" THEN Answer("pending")
                      ELSE IF to = "lost" THEN Later ELSE reply

Handle(req, to) ==
    \/ /\ revoked
       /\ Tells(to, Answer("revoked"))
       /\ UNCHANGED <<rows, staged, saving, revisions, past>>
    \/ /\ ~revoked
       /\ \/ req.op = "claim" /\ HandleClaim(to)
          \/ req.op = "fail" /\ HandleFail(req, to)
          \/ req.op = "upload" /\ HandleUpload(req, to)
          \/ req.op = "result" /\ HandleResult(req, to)
          \/ req.op = "revise" /\ HandleRevise(req, to)

(* However the save ends, the package under the ticket is deleted.         *)
Unstage(ticket) == staged' = staged \ {ticket}
Save(s) ==
    /\ saving' = saving \ {s}
    /\ revisions' = revisions \cup {[build |-> Build(s.req.job, s.req.attempt),
                                     number |-> Cardinality(revisions) + 1]}
    /\ Unstage(s.req.ticket)
    /\ \/ UNCHANGED faults /\ reply' = IF s.heard THEN Answer("ok") ELSE reply
       \/ s.heard /\ Loss /\ reply' = Later
    /\ UNCHANGED <<rows, revoked, outdated, agent, disk, late, stop, past>>

(* A failed save: of the database (5xx), or a refusal that is not retried, *)
(* such as OTA_SEQUENCE_BUSY.  A caller that gives up ends the save too,   *)
(* unless it is past what the request can still interrupt.                 *)
FailSave(s) ==
    /\ Loss
    /\ \/ /\ saving' = saving \ {s} /\ Unstage(s.req.ticket)
          /\ IF s.heard THEN reply' \in {Later, Answer("refused")} ELSE UNCHANGED reply
       \/ /\ Overlaps /\ s.heard
          /\ saving' = (saving \ {s}) \cup {[s EXCEPT !.heard = FALSE]}
          /\ reply' = Later /\ UNCHANGED staged
    /\ UNCHANGED <<rows, revisions, revoked, outdated, agent, disk, late, stop, past>>

(* A request arrives whose caller gave up on it.                           *)
Arrive(req) ==
    /\ late' = late \ {req}
    /\ Handle(req, "nobody")
    /\ UNCHANGED <<revoked, outdated, agent, disk, stop, faults>>

(* The reaper finds a claim whose heartbeats stopped, or cannot be heard.  *)
Reap(j) ==
    /\ rows[j].status \in BuilderActive
    /\ SetRow(j, [WithoutPackage(rows[j]) EXCEPT !.status =
           IF KindOf[j] = "apk" /\ rows[j].attempt < MaxAttempts THEN "queued" ELSE "failed"])
    /\ UNCHANGED <<staged, saving, revisions, revoked, outdated, agent, reply, disk,
                   late, stop, faults, past>>

Cancel(j) ==
    /\ rows[j].status \in BuilderActive \cup {"queued", "built"}
    /\ SetRow(j, [WithoutPackage(rows[j]) EXCEPT !.status = "canceled"])
    /\ UNCHANGED <<staged, saving, revisions, revoked, outdated, agent, reply, disk,
                   late, stop, faults, past>>

(* The console revokes the machine, or approves another version of it.     *)
Administer ==
    /\ Fault
    /\ \/ ~revoked /\ revoked' = TRUE /\ UNCHANGED outdated
       \/ ~outdated /\ outdated' = TRUE /\ UNCHANGED revoked
    /\ UNCHANGED <<rows, staged, saving, revisions, agent, reply, disk, late, stop,
                   past>>

----------------------------------------------------------------------------
(* A call of the agent: answered, or lost on one of the two ways.  A       *)
(* request that times out may still arrive.                                *)

Call(req) ==
    /\ reply = None
    /\ \/ Handle(req, "caller") /\ UNCHANGED <<faults, late>>
       \/ /\ Loss
          /\ \/ Handle(req, "lost") /\ (req.op = "revise" => Overlaps) /\ UNCHANGED late
             \/ /\ reply' = Later
                /\ \/ UNCHANGED late
                   \/ /\ req.op = "revise" => Overlaps
                      /\ late' = late \cup {req}
                /\ UNCHANGED <<rows, staged, saving, revisions, past>>
    /\ UNCHANGED <<revoked, outdated, disk, stop>>

Request(op, pkg, ticket) ==
    [op |-> op, job |-> agent.job, attempt |-> agent.attempt,
     orphaned |-> agent.orphaned, pkg |-> pkg, ticket |-> ticket]

Goes(phase) == agent' = [agent EXCEPT !.phase = phase, !.tries = 0]
Fails == agent' = [agent EXCEPT !.phase = "cleaning", !.tries = 0, !.err = TRUE]
Rests == agent' = [Resting("idle", agent.darwin) EXCEPT !.knows = agent.knows]

(* The loop of the process asks for a job unless it was asked to stop.     *)
(* The claim itself is not abandoned when the request to stop comes later. *)
Poll ==
    /\ agent.phase = "idle" /\ ~agent.knows /\ ~stop
    /\ Goes("asking")
    /\ UNCHANGED <<rows, staged, saving, revisions, revoked, outdated, reply, disk, late,
                   stop, faults, past>>

Ask ==
    /\ agent.phase = "asking"
    /\ Call(Request("claim", None, None))
    /\ UNCHANGED agent

(* A job the server still counts as this machine's is handed back: it was  *)
(* interrupted, or the answer to its claim was lost.  A machine without    *)
(* the upgrader waits for a deployment; one with it stops for the upgrade. *)
Asked ==
    /\ agent.phase = "asking" /\ reply # None
    /\ reply' = None
    /\ \/ reply.kind \in {"none", "later"} /\ Rests
       \/ reply.kind = "upgrade" /\ ~agent.darwin /\ Rests
       \/ reply.kind = "upgrade" /\ agent.darwin /\ Goes("halted")
       \/ /\ reply.kind = "revoked"
          /\ agent' = [Resting("idle", agent.darwin) EXCEPT !.knows = TRUE]
       \/ /\ reply.kind = "active"
          /\ agent' = [Resting("reporting", agent.darwin) EXCEPT
                 !.job = reply.job, !.attempt = reply.attempt, !.orphaned = TRUE]
       \/ /\ reply.kind = "job"
          /\ agent' = [Resting("checkout", agent.darwin) EXCEPT
                 !.job = reply.job, !.attempt = reply.attempt]
    /\ UNCHANGED <<rows, staged, saving, revisions, revoked, outdated, disk, late, stop,
                   faults, past>>

(* The job directory is made anew: one that is there already is an error.  *)
(* Everything else that is checked before the build may fail too.          *)
Checkout ==
    /\ agent.phase = "checkout" /\ agent.cause = "none"
    /\ \/ Fails /\ UNCHANGED disk
       \/ /\ agent.job \notin disk.dirs
          /\ disk' = [disk EXCEPT !.dirs = @ \cup {agent.job}]
          /\ Goes("prepared") \/ Fails
    /\ UNCHANGED <<rows, staged, saving, revisions, revoked, outdated, reply, late, stop,
                   faults, past>>

(* The runner ends what an earlier build left running before it starts.    *)
Reaped == [disk EXCEPT !.stray = None, !.out = NoFiles]
RunnerStarts ==
    /\ agent.phase = "prepared" /\ agent.cause = "none"
    /\ disk' = Reaped
    /\ Goes("building")
    /\ UNCHANGED <<rows, staged, saving, revisions, revoked, outdated, reply, late, stop,
                   faults, past>>

(* It hands over the package and an SBOM bound to it, or fails.  A process *)
(* of the build may outlive it.                                            *)
Outputs == [pkg |-> Package(Mine),
            sbom |-> IF KindOf[agent.job] = "apk" THEN Package(Mine) ELSE None]
RunnerEnds ==
    /\ agent.phase = "building"
    /\ \E stray \in {None, Mine} :
          \/ /\ agent.cause = "none"
             /\ disk' = [disk EXCEPT !.stray = stray, !.out = Outputs]
             /\ Goes("spooling")
          \/ disk' = [disk EXCEPT !.stray = stray] /\ Fails
    /\ UNCHANGED <<rows, staged, saving, revisions, revoked, outdated, reply, late, stop,
                   faults, past>>

(* What the build left running may still write to its outputs.             *)
StrayWrites ==
    /\ disk.out.pkg # None /\ disk.stray = disk.out.pkg.build
    /\ ~disk.out.pkg.rewritten
    /\ disk' = [disk EXCEPT !.out.pkg.rewritten = TRUE]
    /\ UNCHANGED <<rows, staged, saving, revisions, revoked, outdated, agent, reply, late,
                   stop, faults, past>>

(* Outputs are copied and digested in one pass; from here on only the copy *)
(* counts.  A copy left from before is an error.                           *)
Spool ==
    /\ agent.phase = "spooling" /\ agent.cause = "none"
    /\ \/ /\ disk.spool.pkg = None
          /\ disk' = [disk EXCEPT !.spool.pkg = disk.out.pkg]
          /\ Goes(IF KindOf[agent.job] = "apk" THEN "binding" ELSE "upload")
       \/ disk.spool.pkg # None /\ Fails /\ UNCHANGED disk
    /\ UNCHANGED <<rows, staged, saving, revisions, revoked, outdated, reply, late, stop,
                   faults, past>>

IsBound == disk.out.sbom = disk.spool.pkg
Bind ==
    /\ agent.phase = "binding" /\ agent.cause = "none"
    /\ disk' = [disk EXCEPT !.spool.sbom = disk.out.sbom]
    /\ IF IsBound THEN Goes("upload") ELSE Fails
    /\ UNCHANGED <<rows, staged, saving, revisions, revoked, outdated, reply, late, stop,
                   faults, past>>

----------------------------------------------------------------------------
(* The delivery: the package, for an OTA job its revision, and the result. *)

Sent == disk.spool.pkg
Ticket == [build |-> Mine, try |-> agent.tries]
Send ==
    /\ agent.phase \in Sending /\ agent.cause = "none"
    /\ IF agent.phase = "upload"
       THEN Call(Request("upload", Sent, Ticket)) /\ agent' = [agent EXCEPT !.ticket = Ticket]
       ELSE Call(Request(agent.phase, disk.spool.pkg, agent.ticket)) /\ UNCHANGED agent

After(phase) ==
    CASE phase = "upload" -> IF KindOf[agent.job] = "apk" THEN "result" ELSE "revise"
      [] phase = "revise" -> "result"
      [] OTHER            -> "cleaning"

(* An answer moves the delivery on; what may pass is tried again.          *)
Heard ==
    /\ agent.phase \in Sending /\ reply # None /\ reply.kind # "pending"
    /\ reply' = None
    /\ \/ reply.kind = "ok" /\ Goes(After(agent.phase))
       \/ reply.kind = "refused" /\ Fails
       \/ /\ reply.kind \in {"stale", "revoked"}
          /\ agent' = [agent EXCEPT !.phase = "cleaning", !.tries = 0, !.err = TRUE,
                                    !.cause = reply.kind,
                                    !.knows = @ \/ reply.kind = "revoked"]
       \/ /\ reply.kind = "later"
          /\ IF agent.tries + 1 < MaxTries /\ agent.cause = "none"
             THEN agent' = [agent EXCEPT !.tries = @ + 1] ELSE Fails
    /\ UNCHANGED <<rows, staged, saving, revisions, revoked, outdated, disk, late, stop,
                   faults, past>>

(* Heartbeats go out beside the build, until one is told that the claim is *)
(* stale; one that is not answered changes nothing.                        *)
Aborts(kind) == kind \in {"stale", "revoked"}
HeartbeatAnswers ==
    IF revoked THEN {"revoked", "later"}
    ELSE IF Active(agent.job, agent.attempt) THEN {"ok", "later"} ELSE {"stale", "later"}
Heartbeat ==
    /\ agent.phase \in InJob /\ agent.cause \notin {"stale", "revoked"}
    /\ \E kind \in HeartbeatAnswers :
          /\ IF Aborts(kind)
             THEN agent' = [agent EXCEPT !.cause = IF kind = "later" THEN "stale" ELSE kind,
                                         !.knows = @ \/ kind = "revoked"]
             ELSE UNCHANGED agent
          /\ IF kind = "ok"
             THEN SetRow(agent.job, [rows[agent.job] EXCEPT !.status = "running"])
             ELSE UNCHANGED rows
    /\ UNCHANGED <<staged, saving, revisions, revoked, outdated, reply, disk, late, stop,
                   faults, past>>

Timeout ==
    /\ agent.phase \in InJob /\ agent.cause = "none" /\ Fault
    /\ agent' = [agent EXCEPT !.cause = "timeout"]
    /\ UNCHANGED <<rows, staged, saving, revisions, revoked, outdated, reply, disk, late,
                   stop, past>>

(* The build stops as soon as there is a cause; a call is not waited for.  *)
Abort ==
    /\ agent.phase \in InJob \ {"building"} /\ agent.cause # "none"
    /\ Fails
    /\ reply' = None
    /\ saving' = IF Overlaps THEN {[s EXCEPT !.heard = FALSE] : s \in saving} ELSE {}
    /\ staged' = staged \ {s.req.ticket : s \in saving \ saving'}
    /\ UNCHANGED <<rows, revisions, revoked, outdated, disk, late, stop, faults, past>>

(* Cleaning up, the runner may fail; the spool is the agent's own.  Then   *)
(* the failure is reported, unless the server does not want to hear of it. *)
Emptied == [disk EXCEPT !.dirs = @ \ {agent.job}, !.out = NoFiles, !.spool = NoFiles,
                        !.stray = IF agent.job \in disk.dirs THEN None ELSE @]
Leftover == [disk EXCEPT !.spool = NoFiles]
Unwanted == agent.cause \in {"stale", "revoked"}
CleanUp ==
    /\ agent.phase = "cleaning"
    /\ \/ disk' = Emptied /\ UNCHANGED faults
       \/ Fault /\ disk' = Leftover
    /\ IF Unwanted \/ ~agent.err THEN Rests ELSE Goes("reporting")
    /\ UNCHANGED <<rows, staged, saving, revisions, revoked, outdated, reply, late, stop, past>>

Report ==
    /\ agent.phase = "reporting"
    /\ Call(Request("fail", None, None))
    /\ UNCHANGED agent

Reported ==
    /\ agent.phase = "reporting" /\ reply # None
    /\ reply' = None
    /\ IF reply.kind = "later" /\ agent.tries + 1 < MaxTries
       THEN agent' = [agent EXCEPT !.tries = @ + 1]
       ELSE agent' = [Resting("idle", agent.darwin) EXCEPT !.knows = reply.kind = "revoked"]
    /\ UNCHANGED <<rows, staged, saving, revisions, revoked, outdated, disk, late, stop,
                   faults, past>>

----------------------------------------------------------------------------
(* The life of the process.  At the start everything in the jobs root and  *)
(* the spool is an orphan, since there is no job in hand.                  *)

Pruned == [dirs |-> {}, out |-> NoFiles, spool |-> NoFiles,
           stray |-> IF disk.dirs = {} THEN disk.stray ELSE None]
Start ==
    /\ agent.phase = "stopped"
    /\ agent' = Resting("idle", agent.darwin)
    /\ stop' = FALSE
    /\ \/ disk' = Pruned /\ UNCHANGED faults
       \/ disk.dirs # {} /\ Fault /\ disk' = Leftover
    /\ UNCHANGED <<rows, staged, saving, revisions, revoked, outdated, reply, late, past>>

Live == agent.phase \notin {"stopped", "halted", "retired"}
AskToStop ==
    /\ Live /\ ~stop
    /\ stop' = TRUE
    /\ UNCHANGED <<rows, staged, saving, revisions, revoked, outdated, agent, reply, disk,
                   late, faults, past>>

Stop ==
    /\ agent.phase = "idle" /\ (stop \/ agent.knows)
    /\ agent' = Resting(IF agent.knows THEN "retired" ELSE "stopped", agent.darwin)
    /\ reply' = None
    /\ UNCHANGED <<rows, staged, saving, revisions, revoked, outdated, disk, late, stop,
                   faults, past>>

(* The process is killed.  What the runner was running goes on.            *)
Die ==
    /\ Live /\ Loss
    /\ agent' = Resting("stopped", agent.darwin)
    /\ reply' = None
    /\ disk' = [disk EXCEPT !.stray = IF agent.phase = "building" THEN Mine ELSE @]
    /\ saving' = IF Overlaps THEN {[s EXCEPT !.heard = FALSE] : s \in saving} ELSE {}
    /\ staged' = staged \ {s.req.ticket : s \in saving \ saving'}
    /\ UNCHANGED <<rows, revisions, revoked, outdated, late, stop, past>>

(* The upgrader, or a deployment, brings the version approved, or fails.   *)
Install ==
    /\ agent.phase = IF agent.darwin THEN "halted" ELSE "stopped"
    /\ agent.darwin \/ outdated
    /\ outdated' \in IF agent.darwin THEN {FALSE, outdated} ELSE {FALSE}
    /\ Goes("stopped")
    /\ UNCHANGED <<rows, staged, saving, revisions, revoked, reply, disk, late, stop,
                   faults, past>>

Next ==
    \/ Poll \/ Ask \/ Asked \/ Checkout \/ RunnerStarts \/ RunnerEnds \/ StrayWrites
    \/ Spool \/ Bind \/ Send \/ Heard \/ Heartbeat \/ Timeout \/ Abort \/ CleanUp
    \/ Report \/ Reported \/ Start \/ AskToStop \/ Stop \/ Die \/ Install
    \/ Administer
    \/ \E s \in saving : Save(s) \/ FailSave(s)
    \/ \E req \in late : Arrive(req)
    \/ \E j \in Jobs : Reap(j) \/ Cancel(j)

Spec == Init /\ [][Next]_vars

----------------------------------------------------------------------------
(* No message of the agent, however late, ends the attempt it works on.    *)
WorkIsNotUndone == agent.phase \in InJob => Mine \notin past.ended

(* A build the server took is never turned into a failure by the agent,    *)
(* although the answer was lost, the time was up or the claim seemed stale *)
(* to a heartbeat: only the console may still cancel it.                   *)
DeliveredIsKept ==
    \A b \in past.delivered :
        rows[b.job].attempt = b.attempt /\ rows[b.job].status \in {"built", "succeeded", "canceled"}

(* A build is dropped without a word only when the server no longer counts *)
(* it: otherwise the row would stay claimed until the reaper comes.        *)
OnlyStaleWorkIsDropped ==
    agent.phase = "cleaning" /\ Unwanted /\ ~agent.knows => ~Active(agent.job, agent.attempt)

(* What is stored is what is attested, whatever the build left running     *)
(* does to its outputs: the server never has to refuse a delivery.         *)
DeliveriesMatch == past.refused = {}

(* While a build runs, nothing of an earlier one runs beside it.           *)
BuildsRunAlone ==
    agent.phase \in {"building", "spooling", "binding"} => disk.stray \in {None, Mine}

(* The spool holds nothing but the outputs of the build in hand.           *)
SpoolIsOfThisBuild ==
    Live /\ disk.spool.pkg # None =>
        agent.phase \in InJob \cup {"cleaning"} /\ disk.spool.pkg.build = Mine

(* Asked to stop, the process leaves no job behind: without a loss and a   *)
(* crash the server counts none as this machine's.                         *)
StoppingStrandsNothing ==
    agent.phase = "stopped" /\ ~faults.lost =>
        \A j \in Jobs : rows[j].status \notin BuilderActive

(* A job has at most one revision, however often it was asked for.         *)
OneRevisionPerJob == \A r, s \in revisions : r.build.job = s.build.job => r = s
=============================================================================
