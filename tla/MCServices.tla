----------------------------- MODULE MCServices -----------------------------
(***************************************************************************)
(* The services beside the pipeline, on small instances: the registry of   *)
(* machines, push messages and their credentials, the deliveries and the   *)
(* signing material of iOS, the keystores of Android, the trust log of a   *)
(* gate and the enrolment of a host.  They share no state here: `part`     *)
(* says of which component, and within which bounds, a behaviour is; the   *)
(* others stay as they begin, so that the state spaces add up.             *)
(***************************************************************************)
EXTENDS MachineRegistry, Sequences, TLC

CONSTANTS sv1, c1, c2, mac1, gate1, f1, f2, f3, p1, p2, w1, w2, t0, t1, proc1, r1, r2, g1, g2

VARIABLES
    part,
    outbox, tokens, active, registering, revoking, device, dispatch, received, saved,
        exposed, faults,
    row, cache, use, edit, keys, deletes,
    rows, releases, apple, objects, uploads, mode, mac, report, admin, cleaner,
    material, clock, delivery, switches, manager, request, sync, installed, refused, index,
        keychain, files, interruptions,
    keystore, identity, order, checks, signing, routed, roots, asked, gate, round, done, calls,
        typed, backup, ordered, made, edits, losses, takeovers, restores, accepted,
    lines, torn, synced, hashes, view, plan, breaks, acknowledged,
    host, token, disk, enrolled, command, agent, keysMade, deaths,
    builds, staged, saving, revisions, expelled, outdated, builder, reply, jobsRoot, late, stop,
        mishaps, past

registryVars == vars
outboxVars == <<outbox, tokens, active, registering, revoking, device, dispatch, received,
                saved, exposed, faults>>
keyVars == <<row, cache, use, edit, keys, deletes>>
iosVars == <<rows, releases, apple, objects, uploads, mode, mac, report, admin, cleaner>>

materialVars == <<material, clock, delivery, switches, manager, request, sync, installed,
                  refused, index, keychain, files, interruptions>>

keystoreVars == <<keystore, identity, order, checks, signing, routed, roots, asked, gate, round,
                  done, calls, typed, backup, ordered, made, edits, losses, takeovers, restores,
                  accepted>>

trustVars == <<lines, torn, synced, hashes, view, plan, breaks, acknowledged>>
enrolVars == <<host, token, disk, enrolled, command, agent, keysMade, deaths>>
agentVars == <<builds, staged, saving, revisions, expelled, outdated, builder, reply, jobsRoot,
               late, stop, mishaps, past>>

KeysOfMachines == gate1 :> {{f1, f2}, {f1, f3}} @@ mac1 :> {{f1}, {f2}}

(* Two dispatchers, one of which is killed, and two phones.                *)
Outbox == INSTANCE PushOutbox WITH
    Phones <- {p1, p2}, Workers <- {w1, w2}, Events <- {1}, TargetsOf <- <<{p1, p2}>>,
    Broken <- {}, MaxAttempts <- 2, SlowSends <- FALSE, MaxTokens <- 1, MaxFaults <- 1

(* One dispatcher that may be slow, and a phone with two tokens.           *)
Tokens == INSTANCE PushOutbox WITH
    Phones <- {p1, p2}, Workers <- {w1, w2}, Events <- {1}, TargetsOf <- <<{p1, p2}>>,
    Broken <- {}, MaxAttempts <- 1, SlowSends <- TRUE, MaxTokens <- 2, MaxFaults <- 0
OnePhone == p2 \in active /\ device[p2] = 0 /\ dispatch[w2] = Tokens!Down

(* Two administrators and two workers that share a cache.                  *)
Credentials == INSTANCE PushCredentials WITH
    Tenants <- {t1}, Platform <- t0, Processes <- {proc1}, Senders <- {w1, w2},
    ProcessOf <- [w \in {w1, w2} |-> proc1], Editors <- {r1, r2}, MaxKeys <- 3, MaxDeletes <- 0

(* Two Macs and two packages for TestFlight.                               *)
Queued == INSTANCE IosQueue WITH
    Macs <- {w1, w2}, Uploaders <- {w1, w2}, HandBackMacs <- {}, Calls <- {p1}, Admins <- {t1},
    Cleaners <- {}, MaxJobs <- 2, MaxNumber <- 2, MaxAttempts <- 2, MaxUploads <- 0,
    MaxSwitches <- 0, HandReleases <- FALSE, SlowClaims <- FALSE, call <- report

(* One package that the tenant may have to upload itself, or not.          *)
Handed == INSTANCE IosQueue WITH
    Macs <- {mac1}, Uploaders <- {mac1}, HandBackMacs <- {mac1}, Calls <- Calls, Admins <- {t1},
    Cleaners <- {sv1}, MaxJobs <- 1, MaxNumber <- 1, MaxAttempts <- 2, MaxUploads <- 3,
    MaxSwitches <- 1, HandReleases <- FALSE, SlowClaims <- FALSE, call <- report

(* A profile, which depends on a certificate; two tenants that may share a *)
(* certificate; and an upload key.                                         *)
OfKind(tenant, kind) == [tenant |-> tenant, kind |-> kind]
Profiles == INSTANCE IosMaterial WITH
    Tenants <- {t1}, Slots <- {OfKind(t1, "certificate"), OfKind(t1, "profile")}, MaxSwitches <- 0, MaxKeys <- 0, MaxFaults <- 1,
    Contents <- {r1, r2}, None <- t0, MaxClock <- 3, SlowUploads <- FALSE,
    rows <- material, mode <- delivery, mac <- sync, record <- installed,
    faults <- interruptions
Shared == INSTANCE IosMaterial WITH
    Tenants <- {w1, w2}, Slots <- {OfKind(w1, "certificate"), OfKind(w2, "certificate")}, MaxSwitches <- 0, MaxKeys <- 0, MaxFaults <- 1,
    Contents <- {r1, r2}, None <- t0, MaxClock <- 3, SlowUploads <- FALSE,
    rows <- material, mode <- delivery, mac <- sync, record <- installed,
    faults <- interruptions
UploadKeys == INSTANCE IosMaterial WITH
    Tenants <- {t1}, Slots <- {OfKind(t1, "upload")}, MaxSwitches <- 2, MaxKeys <- 2, MaxFaults <- 1,
    Contents <- {r1, r2}, None <- t0, MaxClock <- 3, SlowUploads <- FALSE,
    rows <- material, mode <- delivery, mac <- sync, record <- installed,
    faults <- interruptions

(* Two gates: three orders and a loss; a gate that joins late, a primary    *)
(* that is replaced and roots that change; keys from outside; operators    *)
(* who confirm; and a return to a backup.                                  *)
Ordered == INSTANCE Keystores WITH
    Gates <- {g1, g2}, First <- g1, Late <- {}, NoGate <- t0, MaxKeys <- 3, MaxOrders <- 3,
    MaxVersions <- 3, MaxRoots <- 1, MaxEdits <- 0, MaxFaults <- 1, MaxTakeOvers <- 0,
    MaxRestores <- 0, Unconfirmed <- FALSE, ByHand <- FALSE, active <- signing, faults <- losses
Sealed == INSTANCE Keystores WITH
    Gates <- {g1, g2}, First <- g1, Late <- {g2}, NoGate <- t0, MaxKeys <- 1, MaxOrders <- 2,
    MaxVersions <- 3, MaxRoots <- 2, MaxEdits <- 0, MaxFaults <- 0, MaxTakeOvers <- 1,
    MaxRestores <- 0, Unconfirmed <- FALSE, ByHand <- FALSE, active <- signing, faults <- losses
Edited == INSTANCE Keystores WITH
    Gates <- {g1}, First <- g1, Late <- {}, NoGate <- t0, MaxKeys <- 2, MaxOrders <- 1,
    MaxVersions <- 2, MaxRoots <- 1, MaxEdits <- 2, MaxFaults <- 0, MaxTakeOvers <- 0,
    MaxRestores <- 0, Unconfirmed <- FALSE, ByHand <- FALSE, active <- signing, faults <- losses
Typed == INSTANCE Keystores WITH
    Gates <- {g1}, First <- g1, Late <- {}, NoGate <- t0, MaxKeys <- 2, MaxOrders <- 2,
    MaxVersions <- 2, MaxRoots <- 1, MaxEdits <- 1, MaxFaults <- 0, MaxTakeOvers <- 0,
    MaxRestores <- 0, Unconfirmed <- FALSE, ByHand <- TRUE, active <- signing, faults <- losses
Restored == INSTANCE Keystores WITH
    Gates <- {g1, g2}, First <- g1, Late <- {}, NoGate <- t0, MaxKeys <- 2, MaxOrders <- 2,
    MaxVersions <- 3, MaxRoots <- 1, MaxEdits <- 0, MaxFaults <- 0, MaxTakeOvers <- 0,
    MaxRestores <- 1, Unconfirmed <- TRUE, ByHand <- FALSE, active <- signing, faults <- losses

(* The daemon of a gate and a command of its operator.                     *)
Trust == INSTANCE TrustLog WITH
    Processes <- {w1, w2}, Names <- {r1, r2}, Keys <- {f1}, NoKey <- t0, Certs <- Calls,
    MaxLines <- 4, MaxFaults <- 1, faults <- breaks

(* A host, gate or builder, on which one command enrols at a time.         *)
Enrol == INSTANCE Enrolment WITH
    Commands <- {p1}, Agents <- {p1}, MaxMachines <- 2, MaxKeys <- 4, MaxFaults <- 2,
    kind <- host, machines <- enrolled, made <- keysMade, faults <- deaths

(* A build machine: two packages to build; one whose attempts and calls    *)
(* are repeated; and one for phones that have the app already.             *)
Builder == INSTANCE BuildAgent WITH
    Jobs <- {w1, w2}, KindOf <- [j \in {w1, w2} |-> "apk"], MaxAttempts <- 1, MaxTries <- 1,
    MaxFaults <- 1, Overlaps <- FALSE, None <- t0,
    rows <- builds, revoked <- expelled, agent <- builder, disk <- jobsRoot, faults <- mishaps
Retried == INSTANCE BuildAgent WITH
    Jobs <- {mac1}, KindOf <- [j \in {mac1} |-> "apk"], MaxAttempts <- 2, MaxTries <- 2,
    MaxFaults <- 1, Overlaps <- FALSE, None <- t0,
    rows <- builds, revoked <- expelled, agent <- builder, disk <- jobsRoot, faults <- mishaps
OtaBuilder == INSTANCE BuildAgent WITH
    Jobs <- {mac1}, KindOf <- [j \in {mac1} |-> "ota"], MaxAttempts <- 2, MaxTries <- 2,
    MaxFaults <- 1, Overlaps <- FALSE, None <- t0,
    rows <- builds, revoked <- expelled, agent <- builder, disk <- jobsRoot, faults <- mishaps

(* What the instances take for granted of their constants.                 *)
ASSUME ServicesAssumption ==
    /\ Outbox!EventsAssumption /\ Outbox!TargetsAssumption /\ Outbox!BoundsAssumption
    /\ Tokens!EventsAssumption /\ Tokens!TargetsAssumption /\ Tokens!BoundsAssumption
    /\ Credentials!PlatformAssumption /\ Credentials!SendersAssumption
    /\ Credentials!BoundsAssumption
    /\ Queued!BoundsAssumption /\ Handed!BoundsAssumption
    /\ Profiles!SlotsAssumption /\ Shared!SlotsAssumption /\ UploadKeys!SlotsAssumption
    /\ Ordered!GatesAssumption /\ Sealed!GatesAssumption /\ Edited!GatesAssumption
    /\ Typed!GatesAssumption /\ Restored!GatesAssumption
    /\ Trust!KeysAssumption
    /\ Builder!AgentAssumption /\ Retried!AgentAssumption /\ OtaBuilder!AgentAssumption

Symmetry == Permutations({w1, w2}) \cup Permutations({r1, r2}) \cup Permutations(Calls)

ServicesInit ==
    /\ part \in {"registry", "outbox", "tokens", "keys", "queued", "handed", "profiles", "shared",
                "uploadkeys", "ordered", "sealed", "edited", "typed", "restored", "trust", "enrolment",
                "builder", "retried", "ota"}
    /\ Init /\ Outbox!Init /\ Credentials!Init /\ Trust!Init
    /\ Enrol!Init /\ (part # "enrolment" => host = "gate")
    /\ IF part = "builder" THEN Builder!Init ELSE Retried!Init
    /\ part \notin {"builder", "retried", "ota"} => builder.darwin
    /\ IF part = "shared" THEN Shared!Init
       ELSE IF part = "uploadkeys" THEN UploadKeys!Init ELSE Profiles!Init
    /\ IF part = "sealed" THEN Sealed!Init
       ELSE IF part \in {"edited", "typed"} THEN Edited!Init ELSE Ordered!Init
    /\ IF part = "handed" THEN Handed!Init ELSE Queued!Init /\ mode.value = "testflight"

ServicesNext ==
    /\ \/ /\ part = "registry" /\ Next
          /\ UNCHANGED <<outboxVars, keyVars, iosVars, materialVars, keystoreVars, trustVars, enrolVars, agentVars>>
       \/ /\ \/ part = "outbox" /\ Outbox!Next
             \/ part = "tokens" /\ Tokens!Next /\ OnePhone'
          /\ UNCHANGED <<registryVars, keyVars, iosVars, materialVars, keystoreVars, trustVars, enrolVars, agentVars>>
       \/ /\ part = "keys" /\ Credentials!Next
          /\ UNCHANGED <<registryVars, outboxVars, iosVars, materialVars, keystoreVars, trustVars, enrolVars, agentVars>>
       \/ /\ \/ part = "queued" /\ Queued!Next
             \/ part = "handed" /\ Handed!Next
          /\ UNCHANGED <<registryVars, outboxVars, keyVars, materialVars, keystoreVars, trustVars, enrolVars, agentVars>>
       \/ /\ \/ part = "profiles" /\ Profiles!Next
             \/ part = "shared" /\ Shared!Next
             \/ part = "uploadkeys" /\ UploadKeys!Next
          /\ UNCHANGED <<registryVars, outboxVars, keyVars, iosVars, keystoreVars, trustVars, enrolVars, agentVars>>
       \/ /\ \/ part = "ordered" /\ Ordered!Next
             \/ part = "sealed" /\ Sealed!Next
             \/ part = "edited" /\ Edited!Next
             \/ part = "typed" /\ Typed!Next
             \/ part = "restored" /\ Restored!Next
          /\ UNCHANGED <<registryVars, outboxVars, keyVars, iosVars, materialVars, trustVars, enrolVars, agentVars>>
       \/ /\ part = "trust" /\ Trust!Next
          /\ UNCHANGED <<registryVars, outboxVars, keyVars, iosVars, materialVars, keystoreVars, enrolVars, agentVars>>
       \/ /\ part = "enrolment" /\ Enrol!Next
          /\ UNCHANGED <<registryVars, outboxVars, keyVars, iosVars, materialVars, keystoreVars, trustVars, agentVars>>
       \/ /\ \/ part = "builder" /\ Builder!Next
             \/ part = "retried" /\ Retried!Next
             \/ part = "ota" /\ OtaBuilder!Next
          /\ UNCHANGED <<registryVars, outboxVars, keyVars, iosVars, materialVars, keystoreVars, trustVars, enrolVars>>
    /\ UNCHANGED part

ServicesSpec == ServicesInit /\ [][ServicesNext]_<<part, registryVars, outboxVars, keyVars,
                                              iosVars, materialVars, keystoreVars, trustVars, enrolVars, agentVars>>

-----------------------------------------------------------------------------
(* Every component keeps its types.                                        *)
TypesOK ==
    /\ part = "registry" => TypeOK
    /\ part = "outbox" => Outbox!TypeOK
    /\ part = "tokens" => Tokens!TypeOK
    /\ part = "keys" => Credentials!TypeOK
    /\ part = "queued" => Queued!TypeOK
    /\ part = "handed" => Handed!TypeOK
    /\ part = "profiles" => Profiles!TypeOK
    /\ part = "shared" => Shared!TypeOK
    /\ part = "uploadkeys" => UploadKeys!TypeOK
    /\ part = "ordered" => Ordered!TypeOK
    /\ part = "sealed" => Sealed!TypeOK
    /\ part = "edited" => Edited!TypeOK
    /\ part = "typed" => Typed!TypeOK
    /\ part = "restored" => Restored!TypeOK
    /\ part = "trust" => Trust!TypeOK
    /\ part = "enrolment" => Enrol!TypeOK

(* A phone gets an event once, keeps the token it has, and is sent to with *)
(* the key that was in force when the event was taken; and everything has  *)
(* its type.                                                               *)
PushesAreRight ==
    /\ TypesOK
    /\ part = "outbox" => Outbox!NotSentTwice
    /\ part = "tokens" => Tokens!GoodTokensStay
    /\ part = "keys" => Credentials!SendsUseTheKeyRead

(* A build that Apple has is released, one that the tenant gets is kept,   *)
(* and both are delivered in the tenant's mode, one after the other.       *)
IosBuildsAreRight ==
    /\ part = "queued" => Queued!AppleIsNeverAhead /\ Queued!OneAtATime
    /\ part = "handed" => Handed!PackagesAreKept /\ Handed!JobsFollowTheMode

(* What a Mac signs with is what its tenants last gave, nothing that they  *)
(* took back stays, and one who uploads alone has no key here.  A tenant   *)
(* has one Android key, which is what the gates confirmed, whatever is     *)
(* ordered, imported, sealed again or restored.                            *)
MaterialIsRight ==
    /\ part = "profiles" => /\ Profiles!SkippedIsInstalled /\ Profiles!NothingIsForgotten
                            /\ Profiles!RefusalsHold
    /\ part = "shared" => /\ Shared!SkippedIsInstalled /\ Shared!NothingIsForgotten
                          /\ Shared!CertificatesAreThere
    /\ part = "uploadkeys" => /\ UploadKeys!NoKeysInSelfUpload
                              /\ UploadKeys!SkippedIsInstalled
    /\ part = "ordered" => /\ Ordered!OneKeyPerOrder /\ Ordered!ConfirmedWasAccepted
                           /\ Ordered!ChecksAreTrue /\ Ordered!NobodyIsLeftBehind
    /\ part = "sealed" => /\ Sealed!RootsAgree /\ Sealed!ChecksAreTrue
                          /\ Sealed!OneKeyPerOrder
    /\ part = "edited" => /\ Edited!RowsAgree /\ Edited!ImportsStand
                          /\ Edited!ChecksAreTrue
    /\ part = "typed" => Typed!RowsAgree /\ Typed!OneKeyPerOrder
    /\ part = "restored" => Restored!RootsAgree /\ Restored!ConfirmedWasAccepted

(* Whatever is lost or dies, a machine ends no build but the one it gave   *)
(* up, delivers what it built, and leaves nothing behind.                  *)
AndroidBuildsAreRight ==
    /\ part = "builder" => /\ Builder!DeliveriesMatch /\ Builder!BuildsRunAlone
                           /\ Builder!SpoolIsOfThisBuild
    /\ part = "retried" => /\ Retried!WorkIsNotUndone /\ Retried!DeliveredIsKept
                           /\ Retried!OnlyStaleWorkIsDropped /\ Retried!DeliveriesMatch
                           /\ Retried!StoppingStrandsNothing
    /\ part = "ota" => /\ OtaBuilder!OneRevisionPerJob /\ OtaBuilder!DeliveredIsKept
                       /\ OtaBuilder!StoppingStrandsNothing


(* What a gate trusts is what its log says: complete, in the order in which *)
(* it was recorded, and as the one who recorded it had read it.  What the  *)
(* server trusts of a host are keys that the host has.                     *)
TrustIsRecorded ==
    /\ part = "trust" => /\ Trust!LogReplays /\ Trust!AcknowledgedStays
                         /\ Trust!ViewsAreOfTheFile /\ Trust!AutoConfirmsWhatItRead
                         /\ Trust!PromotionSupersedes
    /\ part = "enrolment" => /\ Enrol!KeysAreAtHand /\ Enrol!RunsOnCompleteState
                             /\ Enrol!KeysAreOfOneMachine /\ Enrol!MemoryIsTheDisk

(* What is concluded, revoked, replaced or marked stays so, and jobs move  *)
(* along the declared edges.                                               *)
RecordsKeepTheirOrder ==
    /\ Outbox!ConcludedEventsStay
    /\ Outbox!NothingAfterRevocation
    /\ Credentials!NoKeyIsReplacedUnseen
    /\ Handed!MarksSurvive
    /\ Queued!FollowsTheStateMachine
    /\ [][part \notin {"edited", "typed"} => Ordered!KeysAdvance]_gate
=============================================================================
