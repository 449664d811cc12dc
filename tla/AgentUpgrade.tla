----------------------------- MODULE AgentUpgrade -----------------------------
(***************************************************************************)
(* How a Mac build machine gets a new version of its programs              *)
(* (build_agent_bundle.go, build_agent_signature.go, machines.go,          *)
(* cmd/build-agent, cmd/build-agent/upgrade).  CI deploys bundles on the   *)
(* server; an administrator signs their manifest offline, uploads the      *)
(* signature and approves the version; a machine that asks for work with   *)
(* another version stops and leaves a halt marker; the upgrade helper,     *)
(* started by the marker, installs the version and removes the marker.     *)
(***************************************************************************)
EXTENDS Integers, FiniteSets

CONSTANTS
  Commits,     \* versions that may be deployed
  NoCommit,    \* no version: nothing approved, no marker
  Agents,      \* Mac build machines
  Uploaders,   \* signature uploads that can be in flight at the same time
  Programs,    \* the programs of a bundle that are replaced, one by one
  Reported,    \* the program whose version a machine reports: build-agent
  MaxSequence, \* bound: sequence numbers of signatures
  MaxCrashes   \* bound: times a machine loses power while the helper runs

VARIABLES
  deployed,   \* the version the server hands out
  approved,   \* the version the console approved
  signature,  \* signature[c]: sequence number of the stored signature, 0: none
  upload,     \* upload[u]: a signature that has been checked and not stored
  latest,     \* auxiliary: the version whose signature was stored last
  program,    \* program[a][p]: version of program p on machine a
  marker,     \* marker[a]: the halt marker, "revoked" or the version to install
  seen,       \* seen[a]: highest sequence number machine a has recorded
  helper,     \* helper[a]: the upgrade helper of machine a
  crashes

server == <<deployed, approved, signature, upload, latest>>
machine == <<program, marker, seen, helper, crashes>>
vars == <<server, machine>>

NoUpload == [commit |-> NoCommit, sequence |-> 0]
Stopped == [step |-> "stopped"]

Init ==
  /\ deployed \in Commits
  /\ approved = NoCommit
  /\ signature = [c \in Commits |-> 0]
  /\ upload = [u \in Uploaders |-> NoUpload]
  /\ latest = NoCommit
  /\ program = [a \in Agents |-> [p \in Programs |-> deployed]]
  /\ marker = [a \in Agents |-> NoCommit]
  /\ seen = [a \in Agents |-> 0]
  /\ helper = [a \in Agents |-> Stopped]
  /\ crashes = 0

-------------------------------------------------------------------------------
(* The server *)

Deploy(c) ==
  /\ deployed # c
  /\ deployed' = c
  /\ UNCHANGED <<approved, signature, upload, latest, machine>>

Highest(n) == \A c \in Commits : signature[c] <= n

(* Compared with every signature there is, not only with the one stored for *)
(* the same version.                                                        *)
SequenceIsNew_OfCommit(c, n) == signature[c] < n
SequenceIsNew(c, n) == Highest(n - 1)

(* An upload is checked against the deployed manifest and the signatures    *)
(* there are, and stored in a transaction that looks at neither.            *)
CheckUpload(u, c, n) ==
  /\ upload[u] = NoUpload
  /\ c = deployed /\ SequenceIsNew(c, n)
  /\ upload' = [upload EXCEPT ![u] = [commit |-> c, sequence |-> n]]
  /\ UNCHANGED <<deployed, approved, signature, latest, machine>>

StoreUpload(u) ==
  /\ upload[u] # NoUpload
  /\ signature' = [signature EXCEPT ![upload[u].commit] = upload[u].sequence]
  /\ latest' = upload[u].commit
  /\ upload' = [upload EXCEPT ![u] = NoUpload]
  /\ UNCHANGED <<deployed, approved, machine>>

Approve(c) ==
  /\ c \in {deployed, NoCommit} /\ c # approved
  /\ approved' = c
  /\ UNCHANGED <<deployed, signature, upload, latest, machine>>

-------------------------------------------------------------------------------
(* The machine *)

Running(a) == marker[a] = NoCommit /\ helper[a] = Stopped

(* An idle agent that is told to upgrade writes the marker and exits; the   *)
(* service manager does not start it again while the marker is there.       *)
ClaimRefused(a) ==
  /\ Running(a)
  /\ approved # NoCommit /\ program[a][Reported] # approved
  /\ marker' = [marker EXCEPT ![a] = approved]
  /\ UNCHANGED <<server, program, seen, helper, crashes>>

Revoked(a) ==
  /\ Running(a)
  /\ marker' = [marker EXCEPT ![a] = "revoked"]
  /\ UNCHANGED <<server, program, seen, helper, crashes>>

(* The helper ends: the marker goes, whether or not it succeeded. *)
MarkerAfter(a, done) == NoCommit

Ends(a, done) ==
  /\ marker' = [marker EXCEPT ![a] = MarkerAfter(a, done)]
  /\ helper' = [helper EXCEPT ![a] = IF marker'[a] = NoCommit THEN Stopped ELSE [step |-> "done"]]

(* What the server describes: nothing without a signature of what it has.   *)
Described == [step |-> "described", commit |-> deployed, sequence |-> signature[deployed]]

Acceptable(a) ==
  /\ Described.sequence > 0 /\ Described.sequence >= seen[a]
  /\ Described.commit = marker[a]

Describe(a) ==
  /\ marker[a] \in Commits /\ helper[a] = Stopped
  /\ IF Acceptable(a)
     THEN helper' = [helper EXCEPT ![a] = Described] /\ UNCHANGED marker
     ELSE Ends(a, FALSE)
  /\ UNCHANGED <<server, program, seen, crashes>>

(* The archive comes with another request: by then another version may be   *)
(* deployed, and its digest is not the one in the signed manifest.          *)
Download(a) ==
  /\ helper[a].step = "described"
  /\ IF deployed = helper[a].commit
     THEN helper' = [helper EXCEPT ![a] = [step |-> "staged", commit |-> @.commit,
                                           sequence |-> @.sequence, left |-> Programs]]
          /\ UNCHANGED marker
     ELSE Ends(a, FALSE)
  /\ UNCHANGED <<server, program, seen, crashes>>

(* A request fails although it was repeated. *)
DownloadFails(a) ==
  /\ helper[a].step = "described" /\ crashes < MaxCrashes
  /\ crashes' = crashes + 1
  /\ Ends(a, FALSE)
  /\ UNCHANGED <<server, program, seen>>

Order(p, left) == p = Reported \/ Reported \notin left

Replace(a, p) ==
  /\ helper[a].step = "staged" /\ p \in helper[a].left /\ Order(p, helper[a].left)
  /\ program' = [program EXCEPT ![a][p] = helper[a].commit]
  /\ helper' = [helper EXCEPT ![a].left = @ \ {p}]
  /\ UNCHANGED <<server, marker, seen, crashes>>

Record(a) ==
  /\ helper[a].step = "staged" /\ helper[a].left = {}
  /\ seen' = [seen EXCEPT ![a] = helper[a].sequence]
  /\ helper' = [helper EXCEPT ![a] = [step |-> "recorded"]]
  /\ UNCHANGED <<server, program, marker, crashes>>

Succeed(a) ==
  /\ helper[a].step = "recorded"
  /\ Ends(a, TRUE)
  /\ UNCHANGED <<server, program, seen, crashes>>

(* Power is lost at any point; a marker that is there starts the helper.    *)
Crash(a) ==
  /\ helper[a] # Stopped /\ crashes < MaxCrashes
  /\ crashes' = crashes + 1
  /\ helper' = [helper EXCEPT ![a] = Stopped]
  /\ UNCHANGED <<server, program, marker, seen>>

HelperStep(a) ==
  \/ Describe(a) \/ Download(a) \/ Record(a) \/ Succeed(a)
  \/ \E p \in Programs : Replace(a, p)

Next ==
  \/ \E c \in Commits : Deploy(c) \/ \E u \in Uploaders, n \in 1..MaxSequence : CheckUpload(u, c, n)
  \/ \E c \in Commits \cup {NoCommit} : Approve(c)
  \/ \E u \in Uploaders : StoreUpload(u)
  \/ \E a \in Agents : ClaimRefused(a) \/ Revoked(a) \/ HelperStep(a) \/ DownloadFails(a) \/ Crash(a)

Spec == Init /\ [][Next]_vars

(* An agent polls, the service manager runs the helper, and requests end.   *)
Fairness ==
  /\ \A a \in Agents : WF_vars(ClaimRefused(a)) /\ WF_vars(HelperStep(a))
  /\ \A u \in Uploaders : WF_vars(StoreUpload(u))

FairSpec == Spec /\ Fairness

-------------------------------------------------------------------------------
(* A machine that stopped for an upgrade runs again, whatever the server    *)
(* hands out and wherever the helper lost power: "成败都要删标记" (main.go). *)
HaltedMachinesComeBack == \A a \in Agents : marker[a] \in Commits ~> Running(a)

(* A machine that runs has the programs of one version: the server takes    *)
(* the version of build-agent for the version of the machine                *)
(* (version.go:14-16: it answers which version this machine runs).          *)
OneVersionRuns ==
  \A a \in Agents : Running(a) => \A p, q \in Programs : program[a][p] = program[a][q]

(* A version that stays deployed and approved, with the signature that was  *)
(* stored last, arrives on every machine that is not revoked: its sequence  *)
(* number is above any number a machine has recorded                        *)
(* (uploadBundleSignature: "和历史最高比，不是和这个提交上一次比").            *)
UpgradesArrive ==
  \A a \in Agents, c \in Commits :
    <>[](deployed = c /\ approved = c /\ latest = c) =>
      <>(marker[a] = "revoked" \/ [](program[a][Reported] = c))
=============================================================================
