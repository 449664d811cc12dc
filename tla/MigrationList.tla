--------------------------- MODULE MigrationList ---------------------------
(***************************************************************************)
(* The migrations of the database, each as the list of its statements, in  *)
(* the order in which every server applies them.                           *)
(*                                                                         *)
(* A schema is a set of names: tables, columns, indexes, checks and rows.  *)
(* A statement is a record: what must be there, what it takes away, what   *)
(* it adds (and fails if that is there) and what it leaves there in any    *)
(* case.  It is left out, with the next `jump` statements, when one of     *)
(* `found` is there or none of `absent`.  Left aside: types, comments and  *)
(* rows of tenants, which the statements either guard or do not touch.     *)
(***************************************************************************)
EXTENDS Naturals, FiniteSets, SequencesExt

-----------------------------------------------------------------------------
Nothing == [jump |-> 0, found |-> {}, absent |-> {},
            needs |-> {}, loses |-> {}, adds |-> {}, leaves |-> {}]

CreateWith(table, things) == <<[Nothing EXCEPT !.found = {table}, !.adds = {table} \cup things]>>
Create(table) == CreateWith(table, {})
Make(table) == <<[Nothing EXCEPT !.adds = {table}]>>
DropTable(things) == <<[Nothing EXCEPT !.loses = things]>>
Add(table, things) == <<[Nothing EXCEPT !.needs = {table}, !.adds = things]>>
Replace(table, old, new) ==
    <<[Nothing EXCEPT !.needs = {table} \cup old, !.loses = old, !.adds = new]>>
Drop(table, thing) == Replace(table, {thing}, {})
Modify(things) == <<[Nothing EXCEPT !.needs = things]>>
Write(table, rows) == <<[Nothing EXCEPT !.needs = {table}, !.leaves = rows]>>
Delete(table, rows) == <<[Nothing EXCEPT !.needs = {table}, !.loses = rows]>>

(* The next n statements are left out when one of the things is there, or  *)
(* when none of them is.                                                   *)
Unless(things, n) == <<[Nothing EXCEPT !.jump = n, !.found = things]>>
When(things, n) == <<[Nothing EXCEPT !.jump = n, !.absent = things]>>

AddIfMissing_Plain(table, thing) == Add(table, {thing})
AddIfMissing(table, thing) == Unless({thing}, 1) \o Add(table, {thing})
AddAll(table, things) == FlattenSeq([i \in DOMAIN things |-> AddIfMissing(table, things[i])])
DropIfPresent(table, thing) == When({thing}, 1) \o Drop(table, thing)
DropAll(table, things) == FlattenSeq([i \in DOMAIN things |-> DropIfPresent(table, things[i])])
Upsert(rows) == Write("language_document", rows)

-----------------------------------------------------------------------------
(* The migrations, each as the list of its statements.                     *)
Reset == FlattenSeq([i \in 1..7 |-> DropTable(
            <<{"app_releases"}, {"audit_events"}, {"app_configs", "release.platforms"},
              {"admin_sessions"}, {"tenant_applications"}, {"tenant_storage_configs"},
              {"artifacts"}>>[i])])
Final == Reset \o Create("tenants") \o Create("tenant_domain") \o Make("app_configs")
            \o Make("app_releases") \o Make("audit_events") \o Make("admin_sessions")
            \o Write("tenants", {"the first tenant"}) \o Write("tenant_domain", {"its domain"})
            \o Add("app_configs", {"release.platforms"})
Localization == Create("language_document") \o Modify({"language_document"})
            \o Write("app_configs", {"languages"}) \o Upsert({"app.name", "first texts"})
            \o Modify({"app_configs"})
DocumentStatus == Modify({"language_document"})
ResetLocalization ==
    <<[Nothing EXCEPT !.needs = {"language_document", "app_configs"}, !.loses = {"first texts"},
                      !.leaves = {"languages", "texts"}]>>
LowerKeys == Modify({"language_document"})
OtaReleases == Create("ota_releases")
OtaApplyStrategy == Add("ota_releases", {"ota.apply_strategy"})
UploadSessions == Create("upload_sessions")
LaunchCopy == Upsert({"app.name", "launch.title"})
Installations == Create("device_clients") \o Create("app_installations")
            \o Create("app_push_tokens") \o Create("app_push_outbox")
ProductShellCopy == Upsert({"app.name", "shell texts"})
PushDeliveries == Create("app_push_deliveries")
OutboxError == Add("app_push_outbox", {"outbox.last_error"})
InstallationCredentials == Add("app_installations", {"installation.credentials"})
BrandingVersion == Add("app_installations", {"installation.branding_version"})
RevokedStatus == Modify({"app_installations"})
DeviceComments == Modify({"device_clients"})
            \o Modify({"app_installations", "installation.credentials",
                       "installation.branding_version"})
            \o Modify({"app_push_tokens"}) \o Modify({"app_push_outbox", "outbox.last_error"})
            \o Modify({"app_push_deliveries"})
PushCopy == Upsert({"push texts"})
ModulesConfig == Modify({"app_configs"})
VersionCopy == Upsert({"version text"})
WalletIdentity == Create("wallet_auth_nonce") \o Create("wallet_user") \o Create("wallet_session")
WalletSection == Modify({"app_configs"})
MandatoryFlag == AddIfMissing("app_releases", "release.mandatory")
SeedTokens == Write("chain_token_catalog", {"tokens"})
TokenCatalog == Create("chain_token_catalog") \o SeedTokens
SeedTexts == Upsert({"texts"})
LogoColor == Modify({"chain_token_catalog"})
LogoColorNoDefault == Modify({"chain_token_catalog"})
SeedMonad == SeedTokens
ChainScan == Create("chain_scan_state") \o Create("wallet_transfer_index")
            \o AddIfMissing("wallet_user", "user.scan_state")
            \o AddIfMissing("wallet_session", "session.installation_id")
ReceivedCopy == Upsert({"received texts"})
RuntimeReport == AddAll("app_installations", <<"installation.launch_source",
                "installation.running_update_id", "installation.running_ota_revision">>)
            \o Modify({"app_installations"})
UserInstallation == Create("wallet_user_installation")
            \o AddIfMissing("wallet_session", "session.ended_reason")
            \o AddIfMissing("wallet_session", "index of session installations")
            \o AddIfMissing("wallet_user", "index of addresses")
            \o Create("platform_wallet_block")
            \o Write("wallet_user_installation", {"earlier logins"})
ObjectMetadata == AddIfMissing("ota_releases", "ota.object_metadata")
NotesOf(table) == Modify({table})
ReleaseNotes == NotesOf("app_releases") \o NotesOf("ota_releases")
ReleaseCanary == Modify({"app_releases"}) \o AddIfMissing("app_releases", "release.canary")
            \o Modify({"ota_releases"}) \o AddIfMissing("ota_releases", "ota.canary")

(* The number of a job that still counts, as three migrations define it,   *)
(* and the unique index on it.                                             *)
Live(by) == "live number " \o by
LiveIndex == "index of live numbers"
BuildJobs == CreateWith("build_jobs", {"index of numbers"})
Retryable == Unless({Live("of jobs")}, 1) \o Add("build_jobs", {Live("of jobs")})
            \o DropIfPresent("build_jobs", "index of numbers")
            \o AddIfMissing("build_jobs", LiveIndex)
JobNotes == AddIfMissing("build_jobs", "job.release_notes")
DeviceIntegrity == AddIfMissing("app_installations", "installation.device_integrity")
ConsistentDefault == Modify({"app_configs"})
RebuildLive == Unless({Live("of packages"), Live("while signed")}, 6)
            \o Modify({Live("of jobs")}) \o DropIfPresent("build_jobs", LiveIndex)
            \o Drop("build_jobs", Live("of jobs")) \o Add("build_jobs", {Live("of packages")})
            \o Add("build_jobs", {LiveIndex})
JobsOta == AddAll("build_jobs", <<"job.kind", "job.base_release_id", "job.channel",
                "job.apply_strategy", "job.ota_release_id">>)
            \o RebuildLive
            \o AddIfMissing("build_jobs", "job.live_ota_slot")
            \o AddIfMissing("build_jobs", "index of live updates")
DiagnosticReports == Create("app_diagnostic_reports") \o Modify({"app_configs"})
BootstrapTtl == Modify({"app_configs"})
ReferralColumns == AddAll("wallet_user", <<"user.invite_code", "user.inviter_user_id",
                "user.invited_at", "user.invite_source">>)
CodeBackfill == Modify({"wallet_user", "user.invite_code"})
ReferralIndexes == AddAll("wallet_user", <<"unique invite codes", "index of inviters",
                "index of invitations", "check of invitations">>)
NeutralBrand == Delete("language_document", {"launch.title"})
DropAppName == Delete("language_document", {"app.name"})
PlatformBackups == Create("platform_backups")
SigningGate == Modify({"build_jobs"}) \o Unless({Live("while signed")}, 1)
            \o Replace("build_jobs", {Live("of packages"), LiveIndex},
                       {Live("while signed"), LiveIndex})
            \o AddAll("build_jobs", <<"job.attempt", "job.claimed_machine_id",
                "job.unsigned_object_key", "job.unsigned_size", "job.unsigned_sha256",
                "job.sbom_object_key", "job.sbom_size", "job.sbom_sha256",
                "job.native_fingerprint", "job.provenance", "job.sign_attempt",
                "job.sign_failures", "job.signing_machine_id", "job.signing_claimed_at",
                "job.signing_heartbeat_at", "job.sign_outcome", "job.signed_object_key",
                "index of machines">>)
MachineLiveness == Create("build_machine_liveness")
            \o AddAll("build_machine_liveness", <<"liveness.upgrade_error",
                                                  "liveness.paused_reason">>)
BundleSignatures == Create("machine_bundle_signatures")
SigningMaterial == Create("ios_signing_material")
IosDelivery == AddAll("build_jobs", <<"job.delivery", "job.delivery_state">>)
            \o AddIfMissing("build_machine_liveness", "liveness.capabilities")
MaterialVersion == Modify({"ios_signing_material"})
TenantAccounts == CreateWith("tenant_admin_accounts", {"account.login_name", "account.password",
                "account.bound_at", "account.idp", "account.updated_at",
                "unique logins", "unique subjects"})
SessionTenant == AddAll("admin_sessions", <<"session.tenant_id", "session.account_id",
                "session.login_method", "index of accounts">>)
SecondFactor == AddIfMissing("admin_sessions", "session.second_factor_at")
ByTenantKey(old, new) == When({old}, 1) \o Replace("tenant_admin_accounts", {old}, {new})
            \o AddIfMissing("tenant_admin_accounts", new)
PlatformAccounts == AddIfMissing("tenant_admin_accounts", "account.scope")
            \o Modify({"tenant_admin_accounts"})
            \o AddIfMissing("tenant_admin_accounts", "account.tenant_key")
            \o ByTenantKey("unique logins", "unique logins by tenant key")
            \o ByTenantKey("unique subjects", "unique subjects by tenant key")
            \o AddAll("tenant_admin_accounts", <<"index of subjects", "index of logins",
                                                 "check of scopes">>)
            \o Modify({"tenant_admin_accounts"}) \o Modify({"session.tenant_id"})
            \o Modify({"session.account_id"}) \o Modify({"session.second_factor_at"})
ExternalAccounts == Modify({"tenant_admin_accounts"}) \o Modify({"session.account_id"})
            \o AddIfMissing("tenant_admin_accounts", "one account of a subject")
            \o DropAll("tenant_admin_accounts", <<"unique logins by tenant key", "index of logins",
                    "unique subjects by tenant key", "index of subjects">>)
            \o DropIfPresent("admin_sessions", "index of accounts")
            \o DropAll("tenant_admin_accounts", <<"account.login_name", "account.password",
                    "account.bound_at", "account.idp", "account.updated_at">>)
            \o DropIfPresent("admin_sessions", "session.login_method")
            \o Modify({"tenant_admin_accounts"})
            \o AddAll("tenant_admin_accounts", <<"check of status", "check of subjects",
                                                 "check of mail">>)
            \o AddIfMissing("admin_sessions", "session.idp_subject")
            \o Modify({"session.account_id", "session.idp_subject"})
            \o Modify({"tenant_admin_accounts"}) \o Modify({"session.second_factor_at"})
AccountsOnly == Modify({"session.account_id", "session.idp_subject"})
            \o Modify({"admin_sessions", "session.tenant_id", "session.second_factor_at"})
MaterialByTenant == AddIfMissing("ios_signing_material", "material.tenant_id")
            \o Write("ios_signing_material", {"material of tenants"})
            \o AddIfMissing("build_machine_liveness", "liveness.tenant_material")
StoreInfo == AddAll("build_jobs", <<"job.appstore_info_object_key", "job.appstore_info_size",
                                    "job.appstore_info_sha256">>)
TestFlightState == AddIfMissing("build_jobs", "job.testflight_state")
DropBackups == Modify({"app_configs"}) \o Modify({"app_configs"}) \o DropTable({"platform_backups"})

(* The list, whose first migration has the number 5.                       *)
List == <<Final, Localization, DocumentStatus, ResetLocalization, LowerKeys, OtaReleases,
          OtaApplyStrategy, UploadSessions, LaunchCopy, Installations, ProductShellCopy,
          PushDeliveries, OutboxError, InstallationCredentials, BrandingVersion, RevokedStatus,
          DeviceComments, PushCopy, ModulesConfig, VersionCopy, WalletIdentity, WalletSection,
          MandatoryFlag, TokenCatalog, SeedTexts, LogoColor, LogoColorNoDefault, SeedMonad,
          ChainScan, ReceivedCopy, RuntimeReport, UserInstallation, ObjectMetadata, ReleaseNotes,
          ReleaseCanary, BuildJobs, Retryable, JobNotes, DeviceIntegrity, ConsistentDefault,
          JobsOta, DiagnosticReports, BootstrapTtl, ReferralColumns, CodeBackfill,
          ReferralIndexes, NeutralBrand, DropAppName, PlatformBackups, SigningGate,
          MachineLiveness, BundleSignatures, SigningMaterial, IosDelivery, MaterialVersion,
          TenantAccounts, SessionTenant, SecondFactor, PlatformAccounts, ExternalAccounts,
          AccountsOnly, MaterialByTenant, StoreInfo, TestFlightState, DropBackups>>
FirstNumber == 5
Numbers == FirstNumber..(FirstNumber + Len(List) - 1)
Steps == [n \in Numbers |-> List[n - FirstNumber + 1]]
SeedNumber == FirstNumber + Len(List)   \* the texts that every start brings up to date

(* What the migrations up to one leave when nothing interrupts them.       *)
Left(n) ==
    LET all == FlattenSeq(SubSeq(List, 1, n - FirstNumber + 1))
        Gives(i) == all[i].adds \cup all[i].leaves
    IN  UNION {{x \in Gives(i) : \A j \in (i + 1)..Len(all) : x \notin all[j].loses \ Gives(j)} :
                   i \in DOMAIN all}
Complete == Left(FirstNumber + Len(List) - 1)

(* Migrations that add a column outright or take a table apart in several  *)
(* statements: a server that dies in one of them has to be helped by hand. *)
NotRepeatable == {11, 17, 18, 19, 45}
=============================================================================
