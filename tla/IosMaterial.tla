----------------------------- MODULE IosMaterial -----------------------------
(***************************************************************************)
(* The signing material of tenants: what the server stores in a slot       *)
(* (ios_material.go, ios_material_tenant.go), the key of App Store Connect *)
(* beside it (ios_asc.go), both of which leave with the switch to          *)
(* self-upload (ios_delivery.go), and the agent on a Mac that installs and *)
(* withdraws it (cmd/build-agent/ios_material.go, build-runner/iostenant.go*)
(*                                                                         *)
(* A content stands for a certificate, the profile made for it or an upload*)
(* key.  The box of an entry is fetched and installed in one step.  Lists  *)
(* are complete, and the layout by team, which is being retired, is left   *)
(* out.                                                                    *)
(***************************************************************************)
EXTENDS Naturals, FiniteSets

CONSTANTS
    Tenants,
    Slots,          \* records of a tenant and a kind
    Contents,
    None,
    MaxClock,       \* bound: versions, which are times of the server
    MaxSwitches,    \* bound: switches of the delivery mode
    MaxKeys,        \* bound: versions of the key of App Store Connect
    MaxFaults,      \* bound: crashes, and programs killed after their work
    SlowUploads     \* may the mode be switched while an upload key is uploaded?

Kinds == <<"certificate", "profile", "upload">>

SlotsAssumption == Slots \subseteq [tenant : Tenants, kind : {Kinds[i] : i \in DOMAIN Kinds}]

VARIABLES
    rows,       \* ios_signing_material
    clock,
    mode,       \* ios.delivery of each tenant
    switches,
    manager,    \* the version of ios.asc of each tenant, 0 without a row
    request,    \* a request between its checks and its transaction
    mac,        \* the sync of the agent
    record,     \* ios-material.json: the version installed in each slot
    refused,    \* the versions the Mac found unfit, remembered until it restarts
    index,      \* the certificate of each tenant on the Mac
    keychain,   \* the identities of its keychain
    files,      \* the profiles and upload keys on the Mac
    faults

vars == <<rows, clock, mode, switches, manager, request, mac, record, refused, index, keychain,
          files, faults>>

Idle == [at |-> "idle"]
NoVersions == [s \in Slots |-> 0]

Init ==
    /\ rows = [s \in Slots |-> None] /\ clock = 1
    /\ mode = [t \in Tenants |-> "testflight"] /\ switches = 0
    /\ manager = [t \in Tenants |-> 0]
    /\ request = Idle /\ mac = Idle
    /\ record = NoVersions /\ refused = NoVersions
    /\ index = [t \in Tenants |-> None] /\ keychain = {}
    /\ files = [s \in Slots |-> None] /\ faults = 0

-----------------------------------------------------------------------------
(* The server *)

(* nextIOSMaterialVersion: the time, so that a slot that is deleted and    *)
(* filled again does not start over, but always more than before.          *)
NextVersion(previous) == IF clock > previous THEN clock ELSE previous + 1

VersionOf(s) == IF rows[s] = None THEN 0 ELSE rows[s].version

(* storeIOSMaterial locks the row.  Two uploads may be of one millisecond. *)
Store(s, c) ==
    /\ NextVersion(VersionOf(s)) <= MaxClock
    /\ rows' = [rows EXCEPT ![s] = [version |-> NextVersion(VersionOf(s)), content |-> c]]
    /\ clock' \in {clock, clock + 1}

(* uploadTenantIOSMaterial *)
Upload(s, c) ==
    /\ s.kind # "upload"
    /\ Store(s, c)
    /\ UNCHANGED <<mode, switches, manager, request, mac, record, refused, index, keychain,
                   files, faults>>

(* For an upload key it reads the mode first ...                           *)
CheckUpload(s, c) ==
    /\ s.kind = "upload" /\ clock <= MaxClock
    /\ request = Idle /\ mode[s.tenant] = "testflight"
    /\ request' = [at |-> "upload", slot |-> s, content |-> c]
    /\ UNCHANGED <<rows, clock, mode, switches, manager, mac, record, refused, index, keychain,
                   files, faults>>

(* ... and stores the key in a transaction.                                *)
StoreUpload ==
    /\ request.at = "upload"
    /\ Store(request.slot, request.content)
    /\ request' = Idle
    /\ UNCHANGED <<mode, switches, manager, mac, record, refused, index, keychain, files, faults>>

(* Rows leave in a transaction that takes its time: what is stored in      *)
(* their slots afterwards is stored later than they were.                  *)
Withdraw(gone) ==
    LET last == CHOOSE v \in {clock} \cup {VersionOf(s) : s \in gone} :
                    clock <= v /\ \A s \in gone : VersionOf(s) <= v
    IN /\ rows' = [s \in Slots |-> IF s \in gone THEN None ELSE rows[s]]
       /\ clock' = last + 1

(* deleteIOSMaterial *)
Delete(s) ==
    /\ rows[s] # None /\ clock <= MaxClock /\ Withdraw({s})
    /\ UNCHANGED <<mode, switches, manager, request, mac, record, refused, index, keychain,
                   files, faults>>

(* updateIOSASCCredentials asks Apple about the key before its transaction *)
CheckManager(t) ==
    /\ request = Idle /\ mode[t] = "testflight" /\ manager[t] < MaxKeys
    /\ request' = [at |-> "manager", tenant |-> t, version |-> manager[t]]
    /\ UNCHANGED <<rows, clock, mode, switches, manager, mac, record, refused, index, keychain,
                   files, faults>>

(* iosDeliveryModeLocked: the mode once more, with a lock *)
MaySaveManager(t, version) == mode[t] = "testflight" /\ manager[t] = version

SaveManager ==
    /\ request.at = "manager"
    /\ LET t == request.tenant
       IN IF MaySaveManager(t, request.version)
          THEN manager' = [manager EXCEPT ![t] = @ + 1]
          ELSE UNCHANGED manager
    /\ request' = Idle
    /\ UNCHANGED <<rows, clock, mode, switches, mac, record, refused, index, keychain, files,
                   faults>>

DeleteManager(t) ==
    /\ manager[t] > 0 /\ manager' = [manager EXCEPT ![t] = 0]
    /\ UNCHANGED <<rows, clock, mode, switches, request, mac, record, refused, index, keychain,
                   files, faults>>

(* updateIOSDelivery: with self-upload both keys leave in one transaction. *)
Switch(t) ==
    /\ switches < MaxSwitches /\ switches' = switches + 1
    /\ SlowUploads \/ request.at # "upload"
    /\ IF mode[t] = "testflight"
       THEN /\ mode' = [mode EXCEPT ![t] = "ipa"]
            /\ manager' = [manager EXCEPT ![t] = 0]
            /\ Withdraw({s \in Slots : s.tenant = t /\ s.kind = "upload"})
       ELSE mode' = [mode EXCEPT ![t] = "testflight"] /\ UNCHANGED <<manager, rows, clock>>
    /\ UNCHANGED <<request, mac, record, refused, index, keychain, files, faults>>

-----------------------------------------------------------------------------
(* The Mac: what the programs of the roles do *)

Certificate(t) == [tenant |-> t, kind |-> "certificate"]
OnMac(s) == IF s.kind = "certificate" THEN index[s.tenant] ELSE files[s]

(* referenced: does another tenant still use the identity?                 *)
Unused(now, c) == \A t \in Tenants : now[t] # c

(* The keychain after the index is `now`, without what only `old` used     *)
Cleared(identities, now, old) == IF Unused(now, old) THEN identities \ {old} ELSE identities

(* installTenantCertificate, installTenantProfile and installKey *)
Put(s, c) ==
    IF s.kind = "certificate"
    THEN /\ index' = [index EXCEPT ![s.tenant] = c]
         /\ keychain' = IF c = index[s.tenant] THEN keychain \cup {c}
                        ELSE Cleared(keychain \cup {c}, index', index[s.tenant])
         /\ UNCHANGED files
    ELSE files' = [files EXCEPT ![s] = c] /\ UNCHANGED <<index, keychain>>

(* removeIOSMaterial, and removeKey of the upload account *)
Take(s) ==
    IF s.kind = "certificate"
    THEN /\ index' = [index EXCEPT ![s.tenant] = None]
         /\ keychain' = Cleared(keychain, index', index[s.tenant])
         /\ UNCHANGED files
    ELSE files' = [files EXCEPT ![s] = None] /\ UNCHANGED <<index, keychain>>

(* A profile is checked against the certificate of its tenant: without one *)
(* it is tried again, with another one it is unfit.                        *)
Early(s) == s.kind = "profile" /\ index[s.tenant] = None
Unfit(s) == s.kind = "profile" /\ index[s.tenant] \notin {None, rows[s].content}

-----------------------------------------------------------------------------
(* The Mac: the agent *)

Listed(list) == {s \in Slots : list[s] > 0}

(* syncIOSMaterial reads the list and its record.                          *)
ReadList ==
    /\ mac = Idle
    /\ LET list == [s \in Slots |-> VersionOf(s)]
       IN mac' = [at |-> "install", list |-> list, have |-> record,
                  todo |-> {s \in Listed(list) : record[s] < list[s]}]
    /\ UNCHANGED <<rows, clock, mode, switches, manager, request, record, refused, index,
                   keychain, files, faults>>

(* kindOrder: a certificate comes before the profile made for it.          *)
Order(s) == CHOOSE i \in DOMAIN Kinds : Kinds[i] = s.kind
IsNext(s) == s \in mac.todo /\ \A o \in mac.todo : Order(s) <= Order(o)

(* forgetRejectedProfiles: a new certificate gives profiles another chance *)
Forgotten(s, versions) ==
    [o \in Slots |-> IF o = s \/ (s.kind = "certificate" /\ o.kind = "profile"
                                    /\ o.tenant = s.tenant)
                     THEN 0 ELSE versions[o]]

Done(s) == mac' = [mac EXCEPT !.todo = @ \ {s}]

(* An entry that cannot be installed now, or was found unfit before        *)
Skip(s) ==
    /\ mac.at = "install" /\ IsNext(s) /\ Done(s)
    /\ \/ refused[s] = mac.list[s] /\ UNCHANGED refused
       \/ /\ refused[s] # mac.list[s]
          /\ \/ (rows[s] = None \/ Early(s)) /\ refused' = [refused EXCEPT ![s] = 0]
             \/ /\ rows[s] # None /\ Unfit(s)
                /\ refused' = [refused EXCEPT ![s] = mac.list[s]]
    /\ UNCHANGED <<rows, clock, mode, switches, manager, request, record, index, keychain, files,
                   faults>>

Fits(s) == rows[s] # None /\ ~Early(s) /\ ~Unfit(s) /\ refused[s] # mac.list[s]

Install(s) ==
    /\ mac.at = "install" /\ IsNext(s) /\ Fits(s)
    /\ Put(s, rows[s].content)
    /\ mac' = [mac EXCEPT !.todo = @ \ {s}, !.have[s] = mac.list[s]]
    /\ refused' = Forgotten(s, refused)
    /\ UNCHANGED <<rows, clock, mode, switches, manager, request, record, faults>>

(* The program did its work and was killed before it said so.              *)
InstallUnheard(s) ==
    /\ mac.at = "install" /\ IsNext(s) /\ Fits(s) /\ faults < MaxFaults
    /\ Put(s, rows[s].content) /\ Done(s)
    /\ refused' = [refused EXCEPT ![s] = 0]
    /\ faults' = faults + 1
    /\ UNCHANGED <<rows, clock, mode, switches, manager, request, record>>

(* What was installed and is not listed any more is taken away ...         *)
StartRemoving ==
    /\ mac.at = "install" /\ mac.todo = {}
    /\ mac' = [mac EXCEPT !.at = "remove",
                          !.todo = {s \in Slots : mac.have[s] > 0} \ Listed(mac.list)]
    /\ refused' = [s \in Slots |-> IF s \in Listed(mac.list) THEN refused[s] ELSE 0]
    /\ UNCHANGED <<rows, clock, mode, switches, manager, request, record, index, keychain, files,
                   faults>>

Remove(s) ==
    /\ mac.at = "remove" /\ s \in mac.todo
    /\ Take(s)
    /\ mac' = [mac EXCEPT !.todo = @ \ {s}, !.have[s] = 0]
    /\ UNCHANGED <<rows, clock, mode, switches, manager, request, record, refused, faults>>

(* ... and the record is written when all is done.                         *)
WriteRecord ==
    /\ mac.at = "remove" /\ mac.todo = {}
    /\ record' = mac.have /\ mac' = Idle
    /\ UNCHANGED <<rows, clock, mode, switches, manager, request, refused, index, keychain,
                   files, faults>>

Crash ==
    /\ mac # Idle /\ faults < MaxFaults /\ faults' = faults + 1
    /\ mac' = Idle /\ refused' = NoVersions
    /\ UNCHANGED <<rows, clock, mode, switches, manager, request, record, index, keychain, files>>

-----------------------------------------------------------------------------
Next ==
    \/ \E s \in Slots : \/ Delete(s)
                        \/ Skip(s) \/ Install(s) \/ InstallUnheard(s) \/ Remove(s)
                        \/ \E c \in Contents : Upload(s, c) \/ CheckUpload(s, c)
    \/ \E t \in Tenants : CheckManager(t) \/ DeleteManager(t) \/ Switch(t)
    \/ StoreUpload \/ SaveManager \/ ReadList \/ StartRemoving \/ WriteRecord \/ Crash

Spec == Init /\ [][Next]_vars

-----------------------------------------------------------------------------
TypeOK ==
    /\ \A s \in Slots : rows[s] = None \/ (rows[s].version \in Nat /\ rows[s].content \in Contents)
    /\ record \in [Slots -> Nat] /\ refused \in [Slots -> Nat]
    /\ index \in [Tenants -> Contents \cup {None}] /\ keychain \subseteq Contents
    /\ files \in [Slots -> Contents \cup {None}]
    /\ mode \in [Tenants -> {"testflight", "ipa"}] /\ manager \in [Tenants -> 0..MaxKeys]

(* What the record lets the agent skip is what the server stores, also     *)
(* after a slot was deleted and filled again (nextIOSMaterialVersion).     *)
SkippedIsInstalled ==
    \A s \in Slots : rows[s] # None /\ record[s] >= rows[s].version => OnMac(s) = rows[s].content

(* Every certificate a tenant is signed with is in the keychain, although  *)
(* tenants share identities that leave with their last user (referenced).  *)
CertificatesAreThere == \A t \in Tenants : index[t] # None => index[t] \in keychain

(* Between two syncs, without crashes, all that is on the Mac is recorded, *)
(* so that it can be withdrawn, and no identity is left over               *)
(* (removeWithdrawnTenantMaterial finds slots by the record).              *)
NothingIsForgotten ==
    mac = Idle /\ faults = 0 =>
        /\ \A s \in Slots : OnMac(s) # None => record[s] > 0
        /\ keychain \subseteq {index[t] : t \in Tenants}

(* A tenant that uploads itself has left no key with the platform          *)
(* (iosDeliveryModeLocked).                                                *)
NoKeysInSelfUpload ==
    \A t \in Tenants : mode[t] = "ipa" =>
        /\ manager[t] = 0
        /\ \A s \in Slots : s.tenant = t /\ s.kind = "upload" => rows[s] = None

(* A profile is passed over only while it does not go with the certificate *)
(* that is recorded (forgetRejectedProfiles).                              *)
RefusalsHold ==
    \A s \in Slots : s.kind = "profile" /\ mac = Idle /\ faults = 0 /\ rows[s] # None
                        /\ refused[s] = rows[s].version
                     => index[s.tenant] # rows[s].content
=============================================================================
