----------------------------- MODULE MCProgress -----------------------------
(***************************************************************************)
(* What must eventually happen, on small instances of six components.      *)
(* They share no state here, so a behaviour is one of one of them: `part`  *)
(* says of which, and the other five stay as they begin.  (Nothing of what *)
(* BuildPipeline and AgentUpgrade are fair to can happen in their initial  *)
(* states.)                                                                *)
(***************************************************************************)
EXTENDS Naturals, FiniteSets, Sequences, TLC

CONSTANTS j1, m1, s1, x1, c1, r1, r2, g1, p1, w1, w2, t1, e1, v1, v2, none, mac1, u1,
          agent, runner

VARIABLES
    part,
    rows, releases, objects, uploads, calls, claims, primary, revoked, identity,
    log, baseline, torn, role, latest, retired, run, server, requests, packages, sent,
        released, gateFaults, restores,
    outbox, tokens, active, registering, revoking, device, dispatch, received, saved,
        exposed, pushFaults,
    chain, blocks, top, cursor, lease, index, pushes, round, scanFaults,
    config, edit, contents, jobs, created, cancelled, scanned, confirmed, worker,
        workerCrashes,
    deployed, approved, signature, upload, newest, program, marker, seen, helper, powerCuts

(* One package, its builder and its signer; the server's reaper.           *)
Builds == INSTANCE BuildPipeline WITH
    Jobs <- {j1}, KindOf <- j1 :> "apk", BuildNumberOf <- j1 :> 1, ManualBuilds <- {},
    Builders <- {m1}, Signers <- {s1}, Contents <- {x1}, Certificates <- {1},
    BuildFiles <- {}, Calls <- {c1}, Reapers <- {r1}, Administered <- {m1, s1},
    MaxBuildAttempts <- 2, MaxSignFailures <- 2, MaxSignAttempts <- 2, MaxUploads <- 1

(* One gate and one job, with fewer faults than the server tolerates.      *)
Signing == INSTANCE SigningGates WITH
    Gates <- {g1}, Jobs <- {j1}, NumberOf <- j1 :> 1, Inputs <- {x1}, Unsound <- {},
    FailureKinds <- {"transient", "deferred"}, MaxVersionCode <- 3, MaxJump <- 1,
    FirstSignMax <- 2, MaxSignFailures <- 4, MaxFaults <- 3, MaxPackages <- 4,
    MaxRestores <- 0, faults <- gateFaults

(* Two dispatchers and two events; no process is killed.                   *)
Outbox == INSTANCE PushOutbox WITH
    Phones <- {p1}, Workers <- {w1, w2}, Events <- {1, 2}, TargetsOf <- <<{p1}, {p1}>>,
    Broken <- {2}, MaxAttempts <- 2, SlowSends <- FALSE, MaxTokens <- 1, MaxFaults <- 0,
    faults <- pushFaults

(* Two replicas and a chain that loses up to two blocks.                   *)
Scan == INSTANCE ChainScan WITH
    Workers <- {w1, w2}, Transfers <- {t1}, Confirmations <- 1, Span <- 2, MaxHeight <- 4,
    MaxBlocks <- 4, MaxDepth <- 2, Races <- {}, Faults <- 1, faults <- scanFaults

(* The jobs of a chain, its configuration, and a worker that dies once.    *)
Control == INSTANCE ChainScanControl WITH
    Editors <- {e1}, Chunk <- 1, MaxVersion <- 2, MaxContent <- 1, MaxHeight <- 1,
    MaxJobs <- 2, MaxQueue <- 2, MaxCrashes <- 1, crashes <- workerCrashes

(* Two versions, one Mac, a bundle of two programs, and power that fails.  *)
Upgrade == INSTANCE AgentUpgrade WITH
    Commits <- {v1, v2}, NoCommit <- none, Agents <- {mac1}, Uploaders <- {u1},
    Programs <- {agent, runner}, Reported <- agent, MaxSequence <- 3, MaxCrashes <- 1,
    latest <- newest, crashes <- powerCuts

buildVars == <<rows, releases, objects, uploads, calls, claims, primary, revoked, identity>>
gateVars == <<log, baseline, torn, role, latest, retired, run, server, requests, packages,
              sent, released, gateFaults, restores>>
outboxVars == <<outbox, tokens, active, registering, revoking, device, dispatch, received,
                saved, exposed, pushFaults>>
scanVars == <<chain, blocks, top, cursor, lease, index, pushes, round, scanFaults>>
controlVars == <<config, edit, contents, jobs, created, cancelled, scanned, confirmed,
                 worker, workerCrashes>>
upgradeVars == <<deployed, approved, signature, upload, newest, program, marker, seen,
                 helper, powerCuts>>

Init ==
    /\ part \in {"builds", "signing", "outbox", "scan", "control", "upgrade"}
    /\ Builds!Init /\ Signing!Init /\ Outbox!Init /\ Scan!Init /\ Control!Init
    /\ Upgrade!Init
    /\ deployed = v1

Next ==
    /\ \/ /\ part = "builds" /\ Builds!Next
          /\ UNCHANGED <<gateVars, outboxVars, scanVars, controlVars, upgradeVars>>
       \/ /\ part = "signing" /\ Signing!Next
          /\ UNCHANGED <<buildVars, outboxVars, scanVars, controlVars, upgradeVars>>
       \/ /\ part = "outbox" /\ Outbox!Next
          /\ UNCHANGED <<buildVars, gateVars, scanVars, controlVars, upgradeVars>>
       \/ /\ part = "scan" /\ Scan!Next
          /\ UNCHANGED <<buildVars, gateVars, outboxVars, controlVars, upgradeVars>>
       \/ /\ part = "control" /\ Control!Next
          /\ UNCHANGED <<buildVars, gateVars, outboxVars, scanVars, upgradeVars>>
       \/ /\ part = "upgrade" /\ Upgrade!Next
          /\ UNCHANGED <<buildVars, gateVars, outboxVars, scanVars, controlVars>>
    /\ UNCHANGED part

vars == <<part, buildVars, gateVars, outboxVars, scanVars, controlVars, upgradeVars>>

(* The fairness of each component, as its own module states it.            *)
Fairness ==
    /\ Builds!Fairness /\ Upgrade!Fairness
    /\ WF_gateVars(part = "signing" /\ Signing!Daemon(g1))
    /\ WF_gateVars(part = "signing" /\ Signing!Repair(g1))
    /\ WF_gateVars(part = "signing" /\ Signing!Reap(j1))
    /\ WF_gateVars(part = "signing" /\ \E r \in requests : Signing!Handle(r))
    /\ \A w \in {w1, w2} :
          /\ WF_outboxVars(part = "outbox" /\ Outbox!Start(w))
          /\ WF_outboxVars(part = "outbox" /\ Outbox!Work(w))
          /\ WF_scanVars(part = "scan" /\ Scan!Work(w))
    /\ \A e \in {1, 2} :
          /\ WF_outboxVars(part = "outbox" /\ Outbox!Due(e))
          /\ WF_outboxVars(part = "outbox" /\ Outbox!LockAges(e))
    /\ WF_scanVars(part = "scan" /\ Scan!Expire)
    /\ WF_controlVars(part = "control" /\ Control!Reload)
    /\ WF_controlVars(part = "control" /\ (Control!BeginRound \/ Control!PickJob))
    /\ SF_controlVars(part = "control" /\ Control!JobStep)
    /\ WF_controlVars(part = "control" /\ Control!EndJobRound)
    /\ WF_controlVars(part = "control" /\ Control!Confirm)

FairSpec == Init /\ [][Next]_vars /\ Fairness

(* A job whose holder has been silent past the timeout is taken from it,   *)
(* or the holder reports again; a revoked machine loses what it held; and  *)
(* a job is released in the end, wherever its gate was when something went *)
(* wrong.                                                                  *)
JobsGoOn ==
    /\ Builds!SilenceIsNoticed
    /\ Builds!RevokedMachinesLoseTheirJobs
    /\ Signing!DeliveredAfterAll


(* Every confirmed block is indexed, a pause reaches the worker, and jobs  *)
(* are worked off.                                                         *)
ChainsAreFollowed ==
    /\ part = "scan" => Scan!CatchesUp
    /\ Control!PauseTakesEffect
    /\ Control!JobsAreWorkedOff

(* A machine that stopped for an upgrade runs again, and a version that    *)
(* stays deployed and approved arrives.                                    *)
UpgradesComplete == Upgrade!HaltedMachinesComeBack /\ Upgrade!UpgradesArrive
=============================================================================
