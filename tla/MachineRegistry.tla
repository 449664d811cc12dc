--------------------------- MODULE MachineRegistry ---------------------------
(***************************************************************************)
(* The registry of build machines and signing gates (machines.go,          *)
(* machine_setup.go, signer.go): one JSON document with a version.         *)
(*                                                                         *)
(* An administrator's edit, and an enrolment, lock the document, so each   *)
(* is one step.  A machine's own report reads the document without a lock  *)
(* and writes all of it back under the version it read.  Every request of  *)
(* a machine is authenticated against a copy that each server keeps of the *)
(* document: it reads the version, and uses its copy or loads another.     *)
(***************************************************************************)
EXTENDS Integers, FiniteSets

CONSTANTS
  Machines,    \* ids of machines, each created at most once
  Gates,       \* the ones among them that are signing gates
  KeysOf,      \* KeysOf[m]: the keys m may have; a key is a set of fingerprints
  Servers,     \* server processes, each with its own copy
  Calls,       \* requests of machines that can be in flight at the same time
  WriteRetries, \* how often a report starts again: machineWriteRetries
  MaxVersion   \* bound: writes of the document

NoKey == {}

VARIABLES
  registry,  \* the document in the database, and its version
  copy,      \* copy[s]: what server s keeps of it
  call,      \* call[c]: a machine's request in flight
  revoked    \* auxiliary: the machines whose revocation has been committed

vars == <<registry, copy, call, revoked>>

Unregistered == [status |-> "none", role |-> "none", key |-> NoKey, pending |-> NoKey,
                 code |-> 0, local |-> "none"]
Idle == [op |-> "idle"]

Init ==
  /\ registry = [version |-> 1, doc |-> [m \in Machines |-> Unregistered]]
  /\ copy = [s \in Servers |-> [registry EXCEPT !.version = 0]]
  /\ call = [c \in Calls |-> Idle]
  /\ revoked = {}

Live(doc) == {m \in Machines : doc[m].status \notin {"none", "revoked"}}
Digests(row) == row.key \cup row.pending
KeyInUse_Accepted(doc, m, key) == \E n \in Live(doc) \ {m} : doc[n].key \cap key # {}
KeyInUse(doc, m, key) == \E n \in Live(doc) \ {m} : Digests(doc[n]) \cap key # {}

(* A write replaces the whole document and counts the version up. *)
Write(doc) ==
  /\ registry.version < MaxVersion
  /\ registry' = [version |-> registry.version + 1, doc |-> doc]

Edit(m, row) == Write([registry.doc EXCEPT ![m] = row])

-------------------------------------------------------------------------------
(* Edits of administrators: the page's version has to be the current one,   *)
(* so an edit made on an older page changes nothing.                        *)

CreateMachine(m, role) ==
  /\ registry.doc[m].status = "none"
  /\ role \in IF m \in Gates THEN {"primary", "standby"} ELSE {"none"}
  /\ role = "primary" => \A n \in Live(registry.doc) : registry.doc[n].role # "primary"
  /\ Edit(m, [Unregistered EXCEPT !.status = "pending_enrollment", !.role = role,
                                  !.code = registry.version])
  /\ UNCHANGED <<copy, call, revoked>>

(* A new code for a machine that has not enrolled: the old one is void. *)
ReissueEnrollment(m) ==
  /\ registry.doc[m].status = "pending_enrollment"
  /\ Edit(m, [registry.doc[m] EXCEPT !.code = registry.version])
  /\ UNCHANGED <<copy, call, revoked>>

RevokeMachine(m) ==
  /\ m \in Live(registry.doc)
  /\ Edit(m, [registry.doc[m] EXCEPT !.status = "revoked", !.role = "none"])
  /\ revoked' = revoked \cup {m}
  /\ UNCHANGED <<copy, call>>

(* The administrator types the fingerprints shown on the machine itself. *)
AcceptMachineKey(m, typed) ==
  /\ m \in Live(registry.doc)
  /\ registry.doc[m].pending # NoKey /\ typed = registry.doc[m].pending
  /\ ~KeyInUse(registry.doc, m, typed)
  /\ Edit(m, [registry.doc[m] EXCEPT !.status = "active", !.key = typed, !.pending = NoKey])
  /\ UNCHANGED <<copy, call, revoked>>

(* Promoting a gate demotes the other primary in the same write. *)
SetSignerRole(m, role) ==
  /\ m \in Gates \cap Live(registry.doc)
  /\ Write([n \in Machines |->
             IF n = m THEN [registry.doc[m] EXCEPT !.role = role]
             ELSE IF role = "primary" /\ registry.doc[n].role = "primary"
                  THEN [registry.doc[n] EXCEPT !.role = "standby"]
             ELSE registry.doc[n]])
  /\ UNCHANGED <<copy, call, revoked>>

-------------------------------------------------------------------------------
(* A machine enrols with its code and a key, and gets a token. *)
EnrollMachine(m, code, key) ==
  /\ registry.doc[m].status = "pending_enrollment" /\ registry.doc[m].code = code
  /\ ~KeyInUse(registry.doc, m, key)
  /\ Edit(m, [registry.doc[m] EXCEPT !.status = "pending_key", !.pending = key])
  /\ UNCHANGED <<copy, call, revoked>>

(* Authentication: the version is read first ... *)
ReadVersion(c, s, m) ==
  /\ call[c] = Idle
  /\ registry.doc[m].status \notin {"none", "pending_enrollment"}
  /\ call' = [call EXCEPT ![c] = [op |-> "auth", machine |-> m, server |-> s,
                                  version |-> registry.version, before |-> revoked]]
  /\ UNCHANGED <<registry, copy, revoked>>

HasToken(doc, m) == doc[m].status \in {"pending_key", "active"}

(* ... then the token is looked up in a document, and the request goes on   *)
(* or is refused.                                                           *)
Judged(c, doc) ==
  IF HasToken(doc, call[c].machine)
  THEN [op |-> "granted", machine |-> call[c].machine, attempt |-> 0, before |-> call[c].before]
  ELSE Idle

CopyIsUsed_AfterLoad(c) == copy[call[c].server].version >= call[c].version - 1
CopyIsUsed(c) == copy[call[c].server].version = call[c].version

UseCopy(c) ==
  /\ call[c].op = "auth"
  /\ CopyIsUsed(c)
  /\ call' = [call EXCEPT ![c] = Judged(c, copy[call[c].server].doc)]
  /\ UNCHANGED <<registry, copy, revoked>>

(* A document is loaded in one step and kept in another: a server may keep  *)
(* an older one over a newer one.                                           *)
LoadRegistry(c) ==
  /\ call[c].op = "auth"
  /\ ~CopyIsUsed(c)
  /\ call' = [call EXCEPT ![c] = [op |-> "loaded", machine |-> @.machine, server |-> @.server,
                                  found |-> registry, before |-> @.before]]
  /\ UNCHANGED <<registry, copy, revoked>>

KeepCopy(c) ==
  /\ call[c].op = "loaded"
  /\ copy' = [copy EXCEPT ![call[c].server] = call[c].found]
  /\ call' = [call EXCEPT ![c] = Judged(c, call[c].found.doc)]
  /\ UNCHANGED <<registry, revoked>>

Finish(c) ==
  /\ call[c].op = "granted"
  /\ call' = [call EXCEPT ![c] = Idle]
  /\ UNCHANGED <<registry, copy, revoked>>

-------------------------------------------------------------------------------
(* Reports of a machine: a key that is to be accepted, or the role a gate   *)
(* has on its own records.                                                  *)

(* A revoked machine is refused; an active one proves that it holds the     *)
(* current key, which is not modelled.                                      *)
MayReportKey(doc, m, key) ==
  /\ doc[m].status # "revoked"
  /\ key \notin {doc[m].key, doc[m].pending}
  /\ ~KeyInUse(doc, m, key)

ReadForReport(c, edit) ==
  LET m == call[c].machine IN
  /\ call[c].op = "granted" /\ call[c].attempt < WriteRetries
  /\ \/ edit.local = "none" /\ edit.key \in KeysOf[m] /\ MayReportKey(registry.doc, m, edit.key)
     \/ edit.key = NoKey /\ m \in Gates /\ registry.doc[m].local # edit.local
  /\ call' = [call EXCEPT ![c] = [op |-> "report", machine |-> m, edit |-> edit, found |-> registry,
                                  attempt |-> @.attempt, before |-> @.before]]
  /\ UNCHANGED <<registry, copy, revoked>>

Reported(doc, m, edit) ==
  [doc EXCEPT ![m] = IF edit.key # NoKey THEN [@ EXCEPT !.pending = edit.key]
                     ELSE [@ EXCEPT !.local = edit.local]]

IsCurrent(c) == registry.version = call[c].found.version

(* The whole document is written back if nobody wrote since; otherwise the  *)
(* report starts again.                                                     *)
WriteReport(c) ==
  /\ call[c].op = "report"
  /\ IsCurrent(c)
  /\ Write(Reported(call[c].found.doc, call[c].machine, call[c].edit))
  /\ call' = [call EXCEPT ![c] = Idle]
  /\ UNCHANGED <<copy, revoked>>

ReportAgain(c) ==
  /\ call[c].op = "report"
  /\ ~IsCurrent(c)
  /\ call' = [call EXCEPT ![c] = [op |-> "granted", machine |-> @.machine,
                                  attempt |-> @.attempt + 1, before |-> @.before]]
  /\ UNCHANGED <<registry, copy, revoked>>

Edits == {[key |-> k, local |-> "none"] : k \in UNION {KeysOf[m] : m \in Machines}}
           \cup {[key |-> NoKey, local |-> r] : r \in {"primary", "standby"}}

Next ==
  \/ \E m \in Machines :
       \/ \E role \in {"none", "primary", "standby"} : CreateMachine(m, role)
       \/ ReissueEnrollment(m)
       \/ RevokeMachine(m)
       \/ \E key \in KeysOf[m] :
            \/ AcceptMachineKey(m, key)
            \/ \E code \in 1..MaxVersion : EnrollMachine(m, code, key)
       \/ \E role \in {"primary", "standby"} : SetSignerRole(m, role)
       \/ \E c \in Calls, s \in Servers : ReadVersion(c, s, m)
  \/ \E c \in Calls :
       \/ UseCopy(c) \/ LoadRegistry(c) \/ KeepCopy(c) \/ Finish(c)
       \/ \E edit \in Edits : ReadForReport(c, edit)
       \/ WriteReport(c) \/ ReportAgain(c)

Spec == Init /\ [][Next]_vars

-------------------------------------------------------------------------------
(* The types of the registry, of the servers' copies and of the requests.   *)
TypeOK ==
  LET Rows == [status : {"none", "pending_enrollment", "pending_key", "active", "revoked"},
               role : {"none", "primary", "standby"}, key : SUBSET UNION UNION {KeysOf[m] : m \in Machines},
               pending : SUBSET UNION UNION {KeysOf[m] : m \in Machines},
               code : 0..MaxVersion, local : {"none", "primary", "standby"}]
      IsRegistry(r) == r.version \in 0..MaxVersion /\ \A m \in Machines : r.doc[m] \in Rows
  IN /\ IsRegistry(registry)
     /\ \A s \in Servers : IsRegistry(copy[s])
     /\ \A c \in Calls : call[c].op \in {"idle", "auth", "loaded", "granted", "report"}
     /\ revoked \subseteq Machines

(* No two live machines share a fingerprint, accepted or waiting, and at    *)
(* most one live gate is the primary: a ciphertext for a recipient is for   *)
(* one machine, although reports, enrolments and acceptances each check     *)
(* another version of the document (keyInUse, "收件人指纹到机器是一对一的").  *)
KeysIdentifyMachines ==
  /\ \A m \in Live(registry.doc), n \in Live(registry.doc) :
       m # n => Digests(registry.doc[m]) \cap Digests(registry.doc[n]) = {}
  /\ Cardinality({m \in Live(registry.doc) : registry.doc[m].role = "primary"}) <= 1

(* A revocation takes effect with the next request: no request that began   *)
(* after it was committed is authenticated, whichever copy a server had and *)
(* whatever the machine itself was writing at that time (machines.go:479).  *)
RevocationIsImmediate ==
  \A c \in Calls : call[c].op \in {"granted", "report"} => call[c].machine \notin call[c].before
=============================================================================
