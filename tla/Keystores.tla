------------------------------ MODULE Keystores ------------------------------
(***************************************************************************)
(* The Android signing key of a tenant: the rows of the server that name   *)
(* it (build_keystore.go, release_identity.go), the order for a new one    *)
(* (keystore_generation.go), the same one sealed again for more gates      *)
(* (keystore_reseal.go), and the rounds of the signing gates that generate,*)
(* accept and confirm keys (signing/internal/signer: run.go, generation.go,*)
(* reseal.go, confirm.go).                                                 *)
(*                                                                         *)
(* One tenant with one package.  A key is a number and stands for its      *)
(* certificate, and a digest of trust roots is a number.  Every gate       *)
(* trusts the others and the recovery keys.  Signatures verify and boxes   *)
(* open for their recipients; what a round fetches, it fetches at once.    *)
(***************************************************************************)
EXTENDS Naturals, FiniteSets, Sequences

CONSTANTS
    Gates,
    First,          \* the gate that is primary at the beginning
    Late,           \* gates that become active only later
    NoGate,
    MaxKeys,        \* bound: keys generated or brought from outside
    MaxOrders,      \* bound: orders for a key
    MaxVersions,    \* bound: versions of the row of the key
    MaxRoots,       \* bound: digests of trust roots
    MaxEdits,       \* bound: keys imported and identities edited by an administrator
    MaxFaults,      \* bound: crashes and lost answers
    MaxTakeOvers,   \* bound: primaries that are replaced
    MaxRestores,    \* bound: returns of the server to a backup
    Unconfirmed,    \* may a key be ordered although gates have not confirmed the last one?
    ByHand          \* may an operator run signer confirm?

GatesAssumption == First \in Gates /\ Late \subseteq Gates \ {First} /\ NoGate \notin Gates

VARIABLES
    keystore,   \* build.keystore
    identity,   \* release.android
    order,      \* build.keystore.request
    checks,     \* build.keystore.check: what each gate reported
    active,     \* the registry: gates that are active
    routed,     \* and the one with the role of the primary
    roots,      \* the digest of the trust roots the server composes
    asked,      \* an order between its checks and its transaction: the active gates it read
    gate,       \* the records of each gate
    round,      \* its round of checks
    done,       \* generationsDone: orders its process is finished with
    calls,      \* submissions under way to the server
    typed,      \* signer confirm, between what it fetched and what it writes
    backup,     \* of the rows of the server
    ordered, made, edits, faults, takeovers, restores,
    accepted    \* auxiliary: the keys that the rows came to name, with their orders, and
                \* the number of orders there were

vars == <<keystore, identity, order, checks, active, routed, roots, asked, gate, round, done,
          calls, typed, made, edits, faults, takeovers, accepted, backup, ordered, restores>>
backupVars == <<backup, ordered, restores>>
adminVars == <<roots, asked, edits, active, routed, takeovers, backup, ordered, restores>>
rowVars == <<keystore, identity, order, accepted>>

Idle == [at |-> "idle"]
NoKey == [version |-> 0, cert |-> 0, seal |-> "none", by |-> NoGate, id |-> 0, supersedes |-> 0,
          roots |-> 0, recipients |-> {}]

Init ==
    /\ keystore = NoKey /\ identity = [version |-> 0, cert |-> 0]
    /\ order = [id |-> 0, status |-> "none", keystore |-> 0, identity |-> 0, late |-> FALSE]
    /\ checks = [g \in Gates |-> [version |-> 0, confirmed |-> FALSE]]
    /\ active = Gates \ Late /\ routed = First
    /\ roots = 1 /\ asked = {}
    /\ gate = [g \in Gates |-> [primary |-> g = First, cert |-> 0, roots |-> 0, seen |-> {},
                                writes |-> 0]]
    /\ round = [g \in Gates |-> Idle] /\ done = [g \in Gates |-> {}]
    /\ calls = {} /\ typed = Idle
    /\ made = 0 /\ edits = 0 /\ faults = 0 /\ takeovers = 0 /\ accepted = <<>>
    /\ backup = Idle /\ ordered = 0 /\ restores = 0

-----------------------------------------------------------------------------
(* The rows of the server, each written in one transaction *)

(* effective: an order is void when a row it names has changed since, or   *)
(* after half an hour.                                                     *)
IsPending ==
    /\ order.status = "pending" /\ ~order.late
    /\ order.keystore = keystore.version /\ order.identity = identity.version

(* unsyncedRecipientSigners, of the registry the request read.             *)
Unsynced(registry) ==
    {g \in keystore.recipients \cap registry :
        checks[g] # [version |-> keystore.version, confirmed |-> TRUE]}

(* generateBuildKeystore reads the registry ...                            *)
Ask ==
    /\ asked = {} /\ routed \in active /\ ordered < MaxOrders
    /\ asked' = active
    /\ UNCHANGED <<keystore, identity, order, checks, active, routed, roots, gate, round, done,
                   calls, typed, made, edits, faults, takeovers, accepted, backupVars>>

(* ... and records the order in a transaction.                             *)
Order ==
    /\ asked # {} /\ asked' = {}
    /\ IF IsPending \/ (Unsynced(asked) # {} /\ ~Unconfirmed) THEN UNCHANGED <<order, ordered>>
       ELSE /\ ordered' = ordered + 1
            /\ order' = [id |-> ordered + 1, status |-> "pending", keystore |-> keystore.version,
                          identity |-> identity.version, late |-> FALSE]
    /\ UNCHANGED <<keystore, identity, checks, active, routed, roots, gate, round, done, calls,
                   typed, made, edits, faults, takeovers, accepted, backup, restores>>

TimeOut ==
    /\ order.status = "pending" /\ ~order.late
    /\ order' = [order EXCEPT !.late = TRUE]
    /\ UNCHANGED <<keystore, identity, checks, active, routed, roots, asked, gate, round, done,
                   calls, typed, made, edits, faults, takeovers, accepted, backupVars>>

(* saveBuildKeystore: a key from outside and the identity that goes with   *)
(* it, for gates of the registry.                                          *)
Import ==
    /\ edits < MaxEdits /\ edits' = edits + 1 /\ keystore.version < MaxVersions
    /\ \E cert \in 1..made + 1, to \in SUBSET active :
          /\ cert <= MaxKeys
          /\ keystore' = [NoKey EXCEPT !.version = keystore.version + 1, !.cert = cert,
                                       !.seal = "import", !.recipients = to]
          /\ identity' = [version |-> identity.version + 1, cert |-> cert]
          /\ made' = IF cert > made THEN cert ELSE made
          /\ accepted' = Append(accepted, [order |-> 0, cert |-> cert, after |-> ordered])
    /\ UNCHANGED <<order, checks, active, routed, roots, asked, gate, round, done, calls, typed,
                   faults, takeovers, backupVars>>

(* updateAndroidReleaseIdentity: alone, only as the key says.              *)
EditIdentity ==
    /\ edits < MaxEdits /\ edits' = edits + 1
    /\ \E cert \in 1..MaxKeys :
          /\ keystore.version > 0 => cert = keystore.cert
          /\ identity' = [version |-> identity.version + 1, cert |-> cert]
    /\ UNCHANGED <<keystore, order, checks, active, routed, roots, asked, gate, round, done,
                   calls, typed, made, faults, takeovers, accepted, backupVars>>

-----------------------------------------------------------------------------
(* Submissions of gates *)

(* requirePrimaryGenerator *)
IsPrimary(g) == g \in active /\ g = routed

(* The answer of a call reaches the gate if it still waits for it.         *)
Answer(call, answer) ==
    \E heard \in BOOLEAN :
        /\ faults' = IF heard THEN faults ELSE faults + 1
        /\ faults' <= MaxFaults
        /\ round' = IF heard /\ round[call.by].at = "sent" /\ round[call.by].call = call
                    THEN [round EXCEPT ![call.by].answer = answer] ELSE round

Refuse(call, answer) == Answer(call, answer) /\ UNCHANGED rowVars

(* recordDerivedGenerationFailure writes back what effective says.         *)
RefuseVoid(call) ==
    /\ Answer(call, "stale")
    /\ order' = [order EXCEPT !.status = "failed"]
    /\ UNCHANGED <<keystore, identity, accepted>>

(* completeKeystoreGeneration *)
Accept(call) ==
    /\ keystore.version < MaxVersions
    /\ keystore' = [NoKey EXCEPT !.version = keystore.version + 1, !.cert = call.cert,
                        !.seal = "generation", !.by = call.by, !.id = call.id,
                        !.supersedes = call.supersedes, !.roots = call.roots,
                        !.recipients = call.recipients]
    /\ identity' = [version |-> identity.version + 1, cert |-> call.cert]
    /\ order' = [order EXCEPT !.status = "done"]
    /\ accepted' = Append(accepted, [order |-> call.id, cert |-> call.cert, after |-> ordered])
    /\ Answer(call, "accepted")

IsRetry(call) ==
    /\ order.status = "done" /\ keystore.seal = "generation"
    /\ keystore.id = call.id /\ keystore.cert = call.cert

Complete(call) ==
    /\ call.kind = "generation"
    /\ \/ order.id # call.id /\ Refuse(call, "stale")
       \/ order.id = call.id /\ ~IsPrimary(call.by) /\ Refuse(call, "refused")
       \/ /\ order.id = call.id /\ IsPrimary(call.by)
          /\ \/ IsRetry(call) /\ Refuse(call, "accepted")
             \/ order.status # "pending" /\ ~IsRetry(call) /\ Refuse(call, "stale")
             \/ order.status = "pending" /\ ~IsPending /\ RefuseVoid(call)
             \/ IsPending /\ ~(call.recipients \subseteq active) /\ Refuse(call, "refused")
             \/ IsPending /\ call.recipients \subseteq active /\ Accept(call)

(* failKeystoreGeneration *)
Fail(call) ==
    /\ call.kind = "failure"
    /\ IF order.id = call.id /\ order.status = "pending" /\ IsPrimary(call.by)
       THEN RefuseVoid(call) ELSE Refuse(call, "stale")

IsSealed(call) ==
    /\ IsPrimary(call.by) /\ keystore.seal = "reseal"
    /\ keystore.id = call.version /\ keystore.recipients = call.recipients

(* resealBuildKeystore: the same certificate for more recipients.  It may  *)
(* be too early after the last time.                                       *)
Reseal(call) ==
    /\ call.kind = "reseal"
    /\ \/ IsSealed(call) /\ Refuse(call, "accepted")
       \/ /\ \/ ~IsPrimary(call.by) \/ keystore.version # call.version \/ IsPending
             \/ keystore.seal = "reseal" \/ ~(call.recipients \subseteq active)
          /\ ~IsSealed(call) /\ Refuse(call, "refused")
       \/ /\ IsPrimary(call.by) /\ keystore.version = call.version /\ ~IsPending
          /\ keystore.cert = call.cert /\ call.recipients \subseteq active
          /\ keystore.version < MaxVersions
          /\ keystore' = [keystore EXCEPT !.version = @ + 1, !.seal = "reseal", !.by = call.by,
                              !.id = call.version, !.supersedes = call.cert,
                              !.roots = call.roots, !.recipients = call.recipients]
          /\ Answer(call, "accepted")
          /\ UNCHANGED <<identity, order, accepted>>

(* A call that was given up may still arrive.                              *)
Arrive(call) ==
    /\ calls' = calls \ {call}
    /\ Complete(call) \/ Fail(call) \/ Reseal(call)
    /\ UNCHANGED <<checks, active, routed, roots, asked, gate, done, typed, made, edits,
                   takeovers, backupVars>>

-----------------------------------------------------------------------------
(* The round of a gate *)

(* signerKeystoreChecks: its box, and the order if it is the primary.      *)
Fetch(g) ==
    /\ round[g] = Idle /\ g \in active
    /\ g \in keystore.recipients \/ (IsPrimary(g) /\ IsPending)
    /\ round' = [round EXCEPT ![g] =
          [at |-> "fetched", key |-> IF g \in keystore.recipients THEN keystore ELSE NoKey,
           roots |-> roots, order |-> IF IsPrimary(g) /\ IsPending THEN order.id ELSE 0]]
    /\ UNCHANGED <<rowVars, adminVars, checks, gate, done, calls, typed, made, faults>>

(* acceptGenerated and acceptResealed: may gate g confirm this key without *)
(* its operator, if the server says that the roots are these?              *)
Acceptable(g, key, served) ==
    /\ key.by # NoGate
    /\ IF key.by = g THEN key.seal = "generation" ELSE ~gate[g].primary
    /\ \/ /\ gate[g].cert # 0 /\ key.seal = "generation"
          /\ key.cert \notin gate[g].seen
          /\ key.supersedes = gate[g].cert /\ key.roots = gate[g].roots
       \/ gate[g].cert = 0 /\ key.roots = served

Confirmed(g, cert, digest) ==
    [gate EXCEPT ![g] = [@ EXCEPT !.cert = cert, !.roots = digest, !.seen = @ \cup {cert},
                                  !.writes = @ + 1]]

(* localRecipients: itself, and the active ones of those it trusts.        *)
Recipients(g) == {g} \cup active

(* checkItem and planReseals.  A primary with no order and a key that it   *)
(* has confirmed, which an active gate does not have, seals it again.      *)
Check(g) ==
    LET item == round[g]
        has == item.key.cert # 0
        known == has /\ item.key.cert = gate[g].cert
        accepts == has /\ ~known /\ Acceptable(g, item.key, item.roots)
    IN /\ item.at = "fetched"
       /\ gate' = IF accepts THEN Confirmed(g, item.key.cert, item.key.roots) ELSE gate
       /\ round' = [round EXCEPT ![g] =
             [at |-> "checked", key |-> item.key, roots |-> item.roots, order |-> item.order,
              confirmed |-> known \/ accepts,
              reseals |-> /\ (known \/ accepts) /\ gate[g].primary /\ item.order = 0
                          /\ gate'[g].roots = item.roots
                          /\ ~(Recipients(g) \subseteq item.key.recipients)]]
       /\ UNCHANGED <<rowVars, adminVars, checks, done, calls, typed, made, faults>>

(* reportSignerKeystoreChecks takes what is about the present version.  A  *)
(* report may be lost.                                                     *)
Report(g) ==
    /\ round[g].at = "checked"
    /\ \E heard \in BOOLEAN :
          /\ faults' = IF heard THEN faults ELSE faults + 1
          /\ faults' <= MaxFaults
          /\ checks' = IF /\ heard /\ g \in keystore.recipients
                          /\ round[g].key.version = keystore.version
                       THEN [checks EXCEPT ![g] = [version |-> keystore.version,
                                                   confirmed |-> round[g].confirmed]]
                       ELSE checks
    /\ round' = [round EXCEPT ![g].at = "reported"]
    /\ UNCHANGED <<rowVars, adminVars, gate, done, calls, typed, made>>

Send(g, call) ==
    /\ calls' = calls \cup {call}
    /\ round' = [round EXCEPT ![g] = [at |-> "sent", call |-> call, answer |-> "none",
                                      writes |-> gate[g].writes]]

(* planConfirmation: what it confirmed before, or, for a new tenant, what  *)
(* the server says.                                                        *)
MayGenerate(g) ==
    gate[g].primary /\ (gate[g].cert # 0 => gate[g].roots = round[g].roots)

HasOrder(g) == round[g].at = "reported" /\ round[g].order \notin done[g] \cup {0}

(* generate: every try makes a key of its own.                             *)
Generate(g) ==
    /\ HasOrder(g) /\ MayGenerate(g) /\ made < MaxKeys
    /\ made' = made + 1
    /\ Send(g, [kind |-> "generation", by |-> g, id |-> round[g].order, cert |-> made + 1,
                supersedes |-> gate[g].cert, roots |-> round[g].roots,
                recipients |-> Recipients(g)])
    /\ UNCHANGED <<rowVars, adminVars, checks, gate, done, typed, faults>>

Decline(g) ==
    /\ HasOrder(g) /\ ~MayGenerate(g)
    /\ Send(g, [kind |-> "failure", by |-> g, id |-> round[g].order])
    /\ UNCHANGED <<rowVars, adminVars, checks, gate, done, typed, made, faults>>

SealAgain(g) ==
    /\ round[g].at = "reported" /\ round[g].reseals
    /\ Send(g, [kind |-> "reseal", by |-> g, version |-> round[g].key.version,
                cert |-> round[g].key.cert, roots |-> round[g].roots,
                recipients |-> Recipients(g)])
    /\ UNCHANGED <<rowVars, adminVars, checks, gate, done, typed, made, faults>>

Rest(g) ==
    /\ round[g].at = "reported" /\ ~HasOrder(g) /\ ~round[g].reseals
    /\ round' = [round EXCEPT ![g] = Idle]
    /\ UNCHANGED <<rowVars, adminVars, checks, gate, done, calls, typed, made, faults>>

(* The key it generated is accepted: it confirms it, unless its operator   *)
(* has confirmed another one since.                                        *)
HearAccepted(g) ==
    /\ round[g].at = "sent" /\ round[g].answer = "accepted"
    /\ IF round[g].call.kind = "generation"
       THEN /\ done' = [done EXCEPT ![g] = @ \cup {round[g].call.id}]
            /\ gate' = IF gate[g].writes = round[g].writes
                       THEN Confirmed(g, round[g].call.cert, round[g].call.roots) ELSE gate
       ELSE UNCHANGED <<done, gate>>
    /\ round' = [round EXCEPT ![g] = Idle]
    /\ UNCHANGED <<rowVars, adminVars, checks, calls, typed, made, faults>>

HearStale(g) ==
    /\ round[g].at = "sent" /\ round[g].answer = "stale"
    /\ done' = [done EXCEPT ![g] = @ \cup {round[g].call.id}]
    /\ round' = [round EXCEPT ![g] = Idle]
    /\ UNCHANGED <<rowVars, adminVars, checks, gate, calls, typed, made, faults>>

(* A key that is refused is reported as a failure.                         *)
HearRefused(g) ==
    /\ round[g].at = "sent" /\ round[g].answer = "refused"
    /\ IF round[g].call.kind = "generation"
       THEN Send(g, [kind |-> "failure", by |-> g, id |-> round[g].call.id])
       ELSE round' = [round EXCEPT ![g] = Idle] /\ UNCHANGED calls
    /\ UNCHANGED <<rowVars, adminVars, checks, gate, done, typed, made, faults>>

(* retry: the same call again, or none in this round.                      *)
Unanswered(g) == round[g].at = "sent" /\ round[g].answer = "none"

Repeat(g) ==
    /\ Unanswered(g) /\ round[g].call \notin calls
    /\ calls' = calls \cup {round[g].call}
    /\ UNCHANGED <<rowVars, adminVars, checks, gate, round, done, typed, made, faults>>

GiveUp(g) ==
    /\ Unanswered(g) /\ faults < MaxFaults /\ faults' = faults + 1
    /\ round' = [round EXCEPT ![g] = Idle]
    /\ UNCHANGED <<rowVars, adminVars, checks, gate, done, calls, typed, made>>

Crash(g) ==
    /\ faults < MaxFaults /\ faults' = faults + 1
    /\ round[g] # Idle \/ done[g] # {}
    /\ round' = [round EXCEPT ![g] = Idle] /\ done' = [done EXCEPT ![g] = {}]
    /\ UNCHANGED <<rowVars, adminVars, checks, gate, calls, typed, made>>

-----------------------------------------------------------------------------
(* Operators and administrators of the platform *)

(* signer confirm fetches a key ...                                        *)
StartConfirm(g) ==
    /\ ByHand /\ typed = Idle /\ g \in keystore.recipients \cap active
    /\ typed' = [at |-> g, cert |-> keystore.cert, roots |-> roots]
    /\ UNCHANGED <<rowVars, adminVars, checks, gate, round, done, calls, made, faults>>

(* ... and, when everything is typed in, writes whatever is there by then. *)
Confirm ==
    /\ typed # Idle /\ gate[typed.at].writes < MaxKeys + 1
    /\ gate' = Confirmed(typed.at, typed.cert, typed.roots)
    /\ typed' = Idle
    /\ UNCHANGED <<rowVars, adminVars, checks, round, done, calls, made, faults>>

ChangeRoots ==
    /\ roots < MaxRoots /\ roots' = roots + 1
    /\ UNCHANGED <<rowVars, asked, edits, active, routed, takeovers, checks, gate, round, done,
                   calls, typed, made, faults, backupVars>>

Activate(g) ==
    /\ g \in Late \ active /\ active' = active \cup {g}
    /\ UNCHANGED <<rowVars, roots, asked, edits, routed, takeovers, checks, gate, round, done,
                   calls, typed, made, faults, backupVars>>

(* Another gate takes over: the server routes to it, the old one is        *)
(* revoked, and signer promote makes it the primary in its own records.    *)
TakeOver(g) ==
    /\ g \in active \ {routed} /\ takeovers < MaxTakeOvers /\ takeovers' = takeovers + 1
    /\ routed' = g /\ active' = active \ {routed}
    /\ gate' = [gate EXCEPT ![g].primary = TRUE]
    /\ UNCHANGED <<rowVars, roots, asked, edits, checks, round, done, calls, typed, made,
                   faults, backupVars>>

(* The server goes back to a backup of its database.                       *)
Backup ==
    /\ restores < MaxRestores /\ backup = Idle
    /\ backup' = [keystore |-> keystore, identity |-> identity, order |-> order,
                  checks |-> checks]
    /\ UNCHANGED <<rowVars, checks, roots, asked, edits, active, routed, takeovers, gate, round,
                   done, calls, typed, made, faults, ordered, restores>>

Restore ==
    /\ backup # Idle /\ backup' = Idle /\ restores' = restores + 1
    /\ keystore' = backup.keystore /\ identity' = backup.identity
    /\ order' = backup.order /\ checks' = backup.checks
    /\ UNCHANGED <<roots, asked, edits, active, routed, takeovers, gate, round, done, calls,
                   typed, made, faults, ordered, accepted>>

Next ==
    \/ Backup \/ Restore
    \/ Ask \/ Order \/ TimeOut \/ Import \/ EditIdentity
    \/ \E call \in calls : Arrive(call)
    \/ \E g \in Gates :
          \/ Fetch(g) \/ Check(g) \/ Report(g) \/ Generate(g) \/ Decline(g) \/ SealAgain(g)
          \/ Rest(g) \/ HearAccepted(g) \/ HearStale(g) \/ HearRefused(g) \/ Repeat(g)
          \/ GiveUp(g) \/ Crash(g) \/ StartConfirm(g) \/ Activate(g) \/ TakeOver(g)
    \/ Confirm \/ ChangeRoots

Spec == Init /\ [][Next]_vars

-----------------------------------------------------------------------------
(* Types: versions and the numbers of keys and orders are within bounds.   *)
TypeOK ==
    /\ keystore.version \in 0..MaxVersions /\ keystore.cert \in 0..MaxKeys
    /\ keystore.recipients \subseteq Gates /\ identity.cert \in 0..MaxKeys
    /\ order.id \in 0..MaxOrders
    /\ order.status \in {"none", "pending", "done", "failed"}
    /\ \A g \in Gates : gate[g].seen \subseteq 1..made /\ done[g] \subseteq 1..MaxOrders

(* The identity that packages are checked against is that of the key they  *)
(* are signed with, whoever writes either.                                 *)
RowsAgree == keystore.version > 0 => identity.cert = keystore.cert

(* However often an order is answered, it yields one key (a restored order *)
(* is answered again).                                                     *)
OneKeyPerOrder ==
    restores = 0 => \A i, j \in DOMAIN accepted :
        accepted[i].order = accepted[j].order /\ accepted[i].order # 0 => i = j

(* A key that was ordered before another one was brought from outside does *)
(* not replace it when it comes late (unless a backup undid that).         *)
ImportsStand ==
    restores = 0 => \A i, j \in DOMAIN accepted :
        accepted[i].order = 0 /\ accepted[j].order \in 1..accepted[i].after => j < i

(* A gate confirms only keys that the server has taken, never one that it  *)
(* generated for nothing.                                                  *)
ConfirmedWasAccepted ==
    \A g \in Gates : gate[g].seen \subseteq {accepted[i].cert : i \in DOMAIN accepted}

(* Two gates sign with one key under one set of trust roots, unless an     *)
(* operator says otherwise.                                                *)
RootsAgree ==
    ~ByHand => \A g, h \in Gates :
        gate[g].cert = gate[h].cert => gate[g].roots = gate[h].roots

(* What the console believes of a gate, the gate has done.  (A backup uses *)
(* the numbers of versions again.)                                         *)
ChecksAreTrue ==
    restores = 0 /\ ~ByHand => \A g \in Gates :
        checks[g] = [version |-> keystore.version, confirmed |-> TRUE] /\ keystore.version > 0
            => keystore.cert \in gate[g].seen

(* No gate needs its operator: whatever was lost or late, each one that    *)
(* has a box for the key has confirmed it or may still do so.              *)
NobodyIsLeftBehind ==
    \A g \in keystore.recipients \cap active :
        gate[g].cert = keystore.cert \/ Acceptable(g, keystore, roots)

(* Without its operator, a gate never goes back to a key that was in force *)
(* before the one it has, not even when the server does.                   *)
Position(cert) == CHOOSE i \in DOMAIN accepted :
    accepted[i].cert = cert /\ \A j \in 1..i - 1 : accepted[j].cert # cert
KeysAdvance ==
    ~ByHand => \A g \in Gates :
        gate[g].cert \notin {0, gate'[g].cert} =>
            Position(gate[g].cert) < Position(gate'[g].cert)
KeysComeInOrder == [][KeysAdvance]_gate
=============================================================================
