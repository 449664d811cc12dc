------------------------------ MODULE MCBackend ------------------------------
(***************************************************************************)
(* What the server keeps and learns, on small instances: ChainScan, the    *)
(* balances and the jobs beside it, the database itself, and what          *)
(* administrators edit: texts, tokens, the configuration of the app and    *)
(* settings.  They share no state here: `part` says of which component,    *)
(* and within which bounds, a behaviour is; the others stay as they begin, *)
(* so that the state spaces add up.                                        *)
(***************************************************************************)
EXTENDS ChainScan, Sequences, TLC

CONSTANTS w1, w2, t1, t2, t3, d1, d2, e1, e2, s1, s2, r1, r2

VARIABLES
    part,
    coinChain, replaced, coinCursor, watched, snapshot, since, coinIndex, gaps, coinJobs,
        coinRound,
    config, edit, contents, jobs, created, cancelled, scanned, confirmed, worker, crashes,
    schema, ledger, schemaLock, servers, interrupted, failed, crowded, deaths, losses,
    textRow, texts, bucket, textRequests, settings, publishes, clock,
    tokenRows, versions, decimals, tokenRequests, intended, upgrades,
    own, base, forms, appLock, installable, rejected,
    kind, rows, drafts, deletes

scanVars == <<chain, blocks, top, cursor, lease, index, pushes, round, faults>>
coinVars == <<coinChain, replaced, coinCursor, watched, snapshot, since, coinIndex, gaps,
              coinJobs, coinRound>>
controlVars == <<config, edit, contents, jobs, created, cancelled, scanned, confirmed,
                 worker, crashes>>
schemaVars == <<schema, ledger, schemaLock, servers, interrupted, failed, crowded, deaths,
                losses>>
textVars == <<textRow, texts, bucket, textRequests, settings, publishes, clock>>
tokenVars == <<tokenRows, versions, decimals, tokenRequests, intended, upgrades>>
appVars == <<own, base, forms, appLock, installable, rejected>>
settingVars == <<kind, rows, drafts, deletes>>
contentVars == <<textVars, tokenVars, appVars, settingVars>>
learntVars == <<scanVars, coinVars, controlVars, schemaVars>>

BackendSymmetry == Permutations(Workers) \cup Permutations({r1, r2})

(* Receipts that blocks show and one that they do not, found at once or by *)
(* a job.                                                                  *)
Coins == INSTANCE ChainBalances WITH
    Receipts <- {t1, t2, t3}, Addresses <- {d1, d2},
    AddressOf <- t1 :> d1 @@ t2 :> d1 @@ t3 :> d2,
    Internal <- {t2}, Confirmations <- 1, NativeGapCap <- 1, AttributeChunk <- 1,
    MaxHeight <- 5, MaxJobs <- 2, Faults <- {},
    chain <- coinChain, cursor <- coinCursor, index <- coinIndex, jobs <- coinJobs,
    round <- coinRound

(* Rounds break off anywhere, but every receipt is in a block and near.    *)
Rewritten == INSTANCE ChainBalances WITH
    Receipts <- {t1, t2, t3}, Addresses <- {d1, d2},
    AddressOf <- t1 :> d1 @@ t2 :> d1 @@ t3 :> d2,
    Internal <- {}, Confirmations <- 1, NativeGapCap <- 5, AttributeChunk <- 1,
    MaxHeight <- 5, MaxJobs <- 2, Faults <- {"crash"},
    chain <- coinChain, cursor <- coinCursor, index <- coinIndex, jobs <- coinJobs,
    round <- coinRound

(* The jobs of a chain, with an administrator and a worker that dies once; *)
(* or two administrators and no jobs.                                      *)
Control == INSTANCE ChainScanControl WITH
    Editors <- {e1, e2}, Chunk <- 1, MaxVersion <- 3, MaxContent <- 2, MaxHeight <- 2,
    MaxJobs <- 2, MaxQueue <- 2, MaxCrashes <- 1
OneEditor == edit[e2] = Control!NoRequest /\ contents <= 1 /\ config.version <= 2
NoJobs == created = 0 /\ crashes = 0 /\ confirmed = 1

(* Two servers on an empty database, one of which dies; and on a database  *)
(* to which the last migrations are missing, while a lock is lost.         *)
L == INSTANCE MigrationList
AllSteps == L!Steps
AllLeft == L!Complete
Deploys == [n \in {0, 64} |-> IF n = 0 THEN {} ELSE L!Left(n)]
Empty == INSTANCE Migrations WITH
    Servers <- {s1, s2}, NoServer <- "none", Steps <- AllSteps, FirstNumber <- L!FirstNumber,
    SeedNumber <- L!SeedNumber, NotRepeatable <- L!NotRepeatable, Complete <- AllLeft,
    Deployed <- 0, InitialSchema <- Deploys[0], MaxDeaths <- 1, MaxLosses <- 0, lock <- schemaLock
Relocked == INSTANCE Migrations WITH
    Servers <- {s1, s2}, NoServer <- "none", Steps <- AllSteps, FirstNumber <- L!FirstNumber,
    SeedNumber <- L!SeedNumber, NotRepeatable <- L!NotRepeatable, Complete <- AllLeft,
    Deployed <- 64, InitialSchema <- Deploys[64], MaxDeaths <- 1, MaxLosses <- 1, lock <- schemaLock

-----------------------------------------------------------------------------
(* One language, published twice; two, one of which the platform has no    *)
(* text for, while only one administrator changes the settings.            *)
OneLanguage == INSTANCE Localization WITH
    Languages <- {"z"}, Texts <- {"a"}, NoText <- "none", GlobalText <- [z |-> "g"],
    Requests <- {r1, r2}, MaxVersion <- 3, MaxPublishes <- 2, SameSecond <- FALSE,
    config <- textRow, objects <- bucket, requests <- textRequests
TwoLanguages == INSTANCE Localization WITH
    Languages <- {"z", "e"}, Texts <- {"a"}, NoText <- "none",
    GlobalText <- [z |-> "g", e |-> "none"],
    Requests <- {r1, r2}, MaxVersion <- 2, MaxPublishes <- 1, SameSecond <- FALSE,
    config <- textRow, objects <- bucket, requests <- textRequests
FewEdits ==
    /\ Cardinality({r \in {r1, r2} : textRequests[r].step = "settings"}) <= 1
    /\ \A r \in {r1, r2} : LET req == textRequests[r] IN
           /\ req.step = "settings" => req.wanted.fallback = "z"
           /\ req.step = "publish" => req.selected \in {{"z", "e"}, {"e"}}
           /\ req.step = "texts" => req.edit.kind \in {"disable", "enable"} \/ req.edit.language = "e"

(* The platform and a tenant edit the tokens of a chain; one of them does, *)
(* and a contract is replaced.                                             *)
Catalogue == INSTANCE Tokens WITH
    Tokens <- {"native", "coin"}, Native <- "native", Owners <- {"tenant", "platform"},
    Platform <- "platform", Precisions <- {1}, Requests <- {r1, r2}, MaxVersion <- 2,
    MaxUpgrades <- 0, rows <- tokenRows, requests <- tokenRequests
Upgraded == INSTANCE Tokens WITH
    Tokens <- {"native", "coin"}, Native <- "native", Owners <- {"tenant", "platform"},
    Platform <- "platform", Precisions <- {1, 2}, Requests <- {r1}, MaxVersion <- 2,
    MaxUpgrades <- 1, rows <- tokenRows, requests <- tokenRequests
FewVersions == versions["tenant"] + versions["platform"] <= 2

(* Two administrators of a tenant and one of the platform.                 *)
App == INSTANCE AppConfig WITH
    Editors <- {r1, r2}, Platform <- "platform", NoEditor <- "none", Chains <- {"chain"},
    NoChain <- "none", Builds <- {1}, MaxVersion <- 3, lock <- appLock

(* Every kind of row, for two tenants; storage for one.                    *)
Saved == INSTANCE Settings WITH
    Tenants <- {"t", "u"}, Platform <- "platform", Places <- {"x", "y"}, Slug <- "x",
    Editors <- {r1, r2},
    Kinds <- {"signIn", "mail", "storage", "updates", "branding", "identity", "build",
              "declaration"},
    Overlaps <- FALSE, MaxVersion <- 3, MaxDeletes <- 1, forms <- drafts
OneTenantStores ==
    kind = "storage" =>
        /\ rows["u"] = Saved!NoRow
        /\ \A r \in {r1, r2} : drafts[r] # Saved!Closed => drafts[r].owner # "u"
        /\ rows["t"].version + rows["platform"].version <= 4

(* What the instances take for granted of their constants.                 *)
ASSUME BackendAssumption ==
    /\ Coins!AddressesAssumption /\ Coins!NumbersAssumption
    /\ Rewritten!AddressesAssumption /\ Rewritten!NumbersAssumption
    /\ Control!BoundsAssumption

-----------------------------------------------------------------------------
Parts == {"scan", "coins", "rewritten", "edits", "jobs", "empty", "relocked",
          "language", "languages", "tokens", "upgraded", "app", "settings"}
BackendInit ==
    /\ part \in Parts
    /\ Init /\ Coins!Init /\ Control!Init
    /\ part \notin {"coins", "rewritten"} => watched = {}
    /\ IF part = "relocked" THEN Relocked!Init ELSE Empty!Init
    /\ IF part = "languages" THEN TwoLanguages!Init ELSE OneLanguage!Init
    /\ IF part = "upgraded" THEN Upgraded!Init ELSE Catalogue!Init
    /\ App!Init /\ (part # "app" => base.version = 0)
    /\ Saved!Init /\ (part # "settings" => kind = "mail")

BackendNext ==
    /\ \/ /\ part = "scan" /\ Next
          /\ UNCHANGED <<coinVars, controlVars, schemaVars, contentVars>>
       \/ /\ \/ part = "coins" /\ Coins!Next
             \/ part = "rewritten" /\ Rewritten!Next
          /\ UNCHANGED <<scanVars, controlVars, schemaVars, contentVars>>
       \/ /\ \/ part = "edits" /\ Control!Next /\ NoJobs'
             \/ part = "jobs" /\ Control!Next /\ OneEditor'
          /\ UNCHANGED <<scanVars, coinVars, schemaVars, contentVars>>
       \/ /\ \/ part = "empty" /\ Empty!Next
             \/ part = "relocked" /\ Relocked!Next
          /\ UNCHANGED <<scanVars, coinVars, controlVars, contentVars>>
       \/ /\ \/ part = "language" /\ OneLanguage!Next
             \/ part = "languages" /\ TwoLanguages!Next /\ FewEdits'
          /\ UNCHANGED <<learntVars, tokenVars, appVars, settingVars>>
       \/ /\ \/ part = "tokens" /\ Catalogue!Next /\ FewVersions'
             \/ part = "upgraded" /\ Upgraded!Next /\ FewVersions'
          /\ UNCHANGED <<learntVars, textVars, appVars, settingVars>>
       \/ /\ part = "app" /\ App!Next
          /\ UNCHANGED <<learntVars, textVars, tokenVars, settingVars>>
       \/ /\ part = "settings" /\ Saved!Next /\ OneTenantStores'
          /\ UNCHANGED <<learntVars, textVars, tokenVars, appVars>>
    /\ UNCHANGED part

BackendSpec == BackendInit /\ [][BackendNext]_<<part, learntVars, contentVars>>

-----------------------------------------------------------------------------
(* Every component keeps its types.                                        *)
TypesOK ==
    /\ part = "scan" => TypeOK
    /\ part = "coins" => Coins!TypeOK
    /\ part = "rewritten" => Rewritten!TypeOK
    /\ part \in {"edits", "jobs"} => Control!TypeOK
    /\ part = "empty" => Empty!TypeOK
    /\ part = "relocked" => Relocked!TypeOK


(* Migrations can be run again after an interruption, one server runs them *)
(* at a time, in their order, and a server that serves has them all behind *)
(* it.                                                                     *)
SchemaIsRight ==
    /\ part = "empty" => /\ Empty!Repeatable /\ Empty!ServingIsComplete
                         /\ Empty!LedgerIsInOrder /\ Empty!OneMigratesAtATime
    /\ part = "relocked" => /\ Relocked!Repeatable /\ Relocked!ServingIsComplete
                            /\ Relocked!LedgerIsInOrder /\ Relocked!OneMigratesAtATime

(* Phones get the texts, tokens and configuration that administrators have *)
(* left, an app that is told to start can start, and secrets stay with     *)
(* what they are for.                                                      *)
ContentIsRight ==
    /\ part = "language" => OneLanguage!TypeOK /\ OneLanguage!TextsAreRight
    /\ part = "languages" => TwoLanguages!TypeOK /\ TwoLanguages!TextsAreRight
    /\ part = "tokens" => Catalogue!TypeOK /\ Catalogue!TokensAreRight
    /\ part = "upgraded" => Upgraded!TypeOK /\ Upgraded!TokensAreRight
    /\ part = "app" => App!TypeOK /\ App!ConfigIsRight
    /\ part = "settings" => Saved!TypeOK /\ Saved!SettingsAreRight

(* A job leaves the queue when it is done or cancelled, and a cancelled    *)
(* job for good; what somebody saved is replaced by somebody who saw it,   *)
(* and what is the platform's by the platform.                             *)
JobsAndEditsAreKept ==
    /\ Control!JobsCoverTheirBlocks
    /\ []Control!CancelledJobsAreGone
    /\ Control!NoEditIsLost
    /\ App!NoContentIsReplacedUnseen
    /\ App!OnlyThePlatformLinks
    /\ Saved!NoSettingIsReplacedUnseen
    /\ Saved!OnlyThePlatformMoves
=============================================================================
