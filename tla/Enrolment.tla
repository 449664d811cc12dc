------------------------------ MODULE Enrolment ------------------------------
(***************************************************************************)
(* How a machine gets its keys and its token: the enrol command on a       *)
(* signing gate (signing/internal/signer) or on a build machine            *)
(* (cmd/build-agent), the program that runs there afterwards, and what the *)
(* server and its administrators do about them.                            *)
(*                                                                         *)
(* One host.  The enrol command of a gate starts again from nothing while  *)
(* its marker is there; the one of a builder keeps the key that it finds.  *)
(* The registry's versions and the reissue of codes are MachineRegistry.   *)
(***************************************************************************)
EXTENDS Naturals, FiniteSets

CONSTANTS
    Commands,       \* enrol commands that may run at a time
    Agents,         \* programs that may run at a time
    MaxMachines,    \* bound: machines created in the registry
    MaxKeys,        \* bound: keys made on the host
    MaxFaults       \* bound: commands that die and answers that are lost

VARIABLES
    kind,       \* of the host: a gate or a builder
    token,      \* the machine whose token is in the env file, or 0
    disk,       \* the state directory
    machines,   \* the registry
    command,    \* enrol commands under way
    agent,      \* programs that run
    made, faults

vars == <<kind, token, disk, machines, command, agent, made, faults>>
hostVars == <<kind, token, disk, made>>

Numbers == 1..MaxMachines
Idle == [at |-> "idle"]
Off == [at |-> "off"]

(* marker: enroll.incomplete; half: init.incomplete, or some of the files; *)
(* recorded: the first role and the recovery key are in trust.jsonl.       *)
Empty == [marker |-> FALSE, half |-> FALSE, key |-> 0, next |-> 0, recorded |-> FALSE]

Init ==
    /\ kind \in {"gate", "builder"} /\ token = 0 /\ disk = Empty
    /\ machines = [m \in Numbers |-> [status |-> "absent", key |-> 0, pending |-> 0]]
    /\ command = [c \in Commands |-> Idle] /\ agent = [a \in Agents |-> Off]
    /\ made = 0 /\ faults = 0

KnownKeys(m) == {machines[m].key, machines[m].pending} \ {0}
KeyInUse(m, key) == \E n \in Numbers \ {m} : machines[n].status # "revoked" /\ key \in KnownKeys(n)
Returns(c) == command' = [command EXCEPT ![c] = Idle]
Fault == faults < MaxFaults /\ faults' = faults + 1

-----------------------------------------------------------------------------
(* The enrol command *)

IsInitialized == ~disk.marker /\ (disk.key # 0 \/ disk.half)

(* With a token there is nothing to do, but to take away the marker.       *)
BeginEnrolled(c) ==
    /\ command[c] = Idle /\ token # 0 /\ disk.marker
    /\ disk' = [disk EXCEPT !.marker = FALSE]
    /\ UNCHANGED <<kind, token, machines, command, agent, made, faults>>

(* Without one, the code says for which machine this host enrols.          *)
Begin(c) ==
    /\ command[c] = Idle /\ token = 0
    /\ kind = "gate" => ~IsInitialized
    /\ \E m \in Numbers :
          /\ machines[m].status = "code"
          /\ command' = [command EXCEPT ![c] = [at |-> "described", machine |-> m]]
    /\ UNCHANGED <<hostVars, machines, agent, faults>>

(* A gate wipes what an earlier command left under the marker, and makes   *)
(* its keys and first records; a builder makes a key unless it has one.    *)
Fresh == [Empty EXCEPT !.marker = TRUE, !.key = made + 1, !.recorded = TRUE]
MakesKey == kind = "gate" \/ disk.key = 0

Prepared ==
    IF kind = "gate" THEN Fresh
    ELSE IF MakesKey THEN [disk EXCEPT !.key = made + 1] ELSE disk

Prepare(c) ==
    /\ command[c].at = "described"
    /\ IF kind = "gate" /\ IsInitialized
       THEN Returns(c) /\ UNCHANGED <<hostVars, faults>>
       ELSE /\ MakesKey => made < MaxKeys
            /\ made' = IF MakesKey THEN made + 1 ELSE made
            /\ \/ /\ disk' = Prepared
                  /\ command' = [command EXCEPT ![c] = [at |-> "prepared", machine |-> @.machine,
                                                        key |-> Prepared.key]]
                  /\ UNCHANGED faults
               \/ \* it dies before all of it is there
                  /\ kind = "gate" /\ Fault /\ Returns(c)
                  /\ \E half \in BOOLEAN :
                        disk' = [Fresh EXCEPT !.half = half, !.recorded = FALSE,
                                              !.key = IF half THEN 0 ELSE @]
            /\ UNCHANGED <<kind, token>>
    /\ UNCHANGED <<machines, agent>>

(* enrollMachine: the code is good for one machine and one key.  The       *)
(* answer, with the token, may be lost.                                    *)
MayEnrol(m, key) == machines[m].status = "code" /\ ~KeyInUse(m, key)

Enrol(c) ==
    /\ command[c].at = "prepared"
    /\ LET m == command[c].machine
       IN IF MayEnrol(m, command[c].key)
          THEN /\ machines' = [machines EXCEPT ![m].status = "pending", ![m].pending = command[c].key]
               /\ \/ command' = [command EXCEPT ![c].at = "enrolled"] /\ UNCHANGED faults
                  \/ Fault /\ Returns(c)
          ELSE Returns(c) /\ UNCHANGED <<machines, faults>>
    /\ UNCHANGED <<hostVars, agent>>

(* The env file is replaced at once; then the marker goes.                 *)
WriteEnv(c) ==
    /\ command[c].at = "enrolled"
    /\ token' = command[c].machine
    /\ IF kind = "gate" THEN command' = [command EXCEPT ![c] = [at |-> "written"]] ELSE Returns(c)
    /\ UNCHANGED <<kind, disk, machines, agent, made, faults>>

Finish(c) ==
    /\ command[c].at = "written"
    /\ disk' = [disk EXCEPT !.marker = FALSE] /\ Returns(c)
    /\ UNCHANGED <<kind, token, machines, agent, made, faults>>

Die(c) ==
    /\ command[c] # Idle /\ Fault /\ Returns(c)
    /\ UNCHANGED <<hostVars, machines, agent>>

-----------------------------------------------------------------------------
(* The program that runs on the host *)

(* signer run refuses a marker and makes keys only where there is nothing; *)
(* build-agent makes a key if there is none.                               *)
MayStart == kind = "gate" => ~disk.marker

Start(a) ==
    /\ agent[a] = Off /\ token # 0 /\ MayStart
    /\ LET missing == disk.key = 0
           key == IF missing THEN made + 1 ELSE disk.key
       IN /\ missing => made < MaxKeys
          /\ made' = IF missing THEN made + 1 ELSE made
          /\ disk' = [disk EXCEPT !.key = key, !.half = FALSE,
                                  !.recorded = IF missing THEN FALSE ELSE @]
          /\ agent' = [agent EXCEPT ![a] = [at |-> "on", machine |-> token, key |-> key,
                                            next |-> disk.next]]
    /\ UNCHANGED <<kind, token, machines, command, faults>>

Stop(a) ==
    /\ agent[a] # Off /\ agent' = [agent EXCEPT ![a] = Off]
    /\ UNCHANGED <<hostVars, machines, command, faults>>

(* registerMachineKey on the server: a key it knows changes nothing, the   *)
(* first key waits to be accepted, another one needs the signature of the  *)
(* key that is accepted.                                                   *)
Registers(m, key, signedBy) ==
    /\ key \notin KnownKeys(m) /\ ~KeyInUse(m, key)
    /\ machines[m].status = "active" => signedBy = machines[m].key

Registered(m, key, signedBy) ==
    IF Registers(m, key, signedBy) THEN [machines EXCEPT ![m].pending = key] ELSE machines

(* A program that says which key it has; a gate stops if the server has    *)
(* another one.                                                            *)
Register(a) ==
    /\ agent[a] # Off /\ machines[agent[a].machine].status \in {"pending", "active"}
    /\ machines' = Registered(agent[a].machine, agent[a].key, 0)
    /\ UNCHANGED <<hostVars, command, agent, faults>>

(* proposeRotation, once the key it has is the accepted one.               *)
Propose(a) ==
    /\ agent[a] # Off /\ agent[a].next # 0
    /\ LET m == agent[a].machine
       IN /\ machines[m].status = "active" /\ machines[m].key = agent[a].key
          /\ machines[m].pending # agent[a].next
          /\ machines' = Registered(m, agent[a].next, agent[a].key)
    /\ UNCHANGED <<hostVars, command, agent, faults>>

(* promoteNext, once the server refuses the key and knows the next one as  *)
(* the accepted: the file of the next key replaces the one of the key.     *)

NextIsAccepted(m, next) == machines[m].status = "active" /\ machines[m].key = next

Promote(a) ==
    /\ agent[a] # Off /\ agent[a].next # 0 /\ disk.next # 0
    /\ agent[a].key \notin KnownKeys(agent[a].machine)
    /\ NextIsAccepted(agent[a].machine, agent[a].next)
    /\ disk' = [disk EXCEPT !.key = disk.next, !.next = 0]
    /\ agent' = [agent EXCEPT ![a].key = agent[a].next, ![a].next = 0]
    /\ UNCHANGED <<kind, token, machines, command, made, faults>>

-----------------------------------------------------------------------------
(* Operators and administrators *)

(* build-agent rotate-key.                                                 *)
RotateKey ==
    /\ kind = "builder" /\ disk.key # 0 /\ disk.next = 0 /\ made < MaxKeys
    /\ disk' = [disk EXCEPT !.next = made + 1] /\ made' = made + 1
    /\ UNCHANGED <<kind, token, machines, command, agent, faults>>

(* The token of a machine that was revoked is taken out of the env file.   *)
ClearEnv ==
    /\ kind = "builder" /\ token # 0 /\ machines[token].status = "revoked"
    /\ token' = 0
    /\ UNCHANGED <<kind, disk, machines, command, agent, made, faults>>

CreateMachine(m) ==
    /\ machines[m].status = "absent"
    /\ machines' = [machines EXCEPT ![m].status = "code"]
    /\ UNCHANGED <<hostVars, command, agent, faults>>

AcceptKey(m) ==
    /\ machines[m].status \in {"pending", "active"} /\ machines[m].pending # 0
    /\ ~KeyInUse(m, machines[m].pending)
    /\ machines' = [machines EXCEPT ![m] = [status |-> "active", key |-> @.pending, pending |-> 0]]
    /\ UNCHANGED <<hostVars, command, agent, faults>>

Revoke(m) ==
    /\ machines[m].status \in {"code", "pending", "active"}
    /\ machines' = [machines EXCEPT ![m].status = "revoked"]
    /\ UNCHANGED <<hostVars, command, agent, faults>>

Next ==
    \/ \E c \in Commands :
          BeginEnrolled(c) \/ Begin(c) \/ Prepare(c) \/ Enrol(c) \/ WriteEnv(c) \/ Finish(c) \/ Die(c)
    \/ \E a \in Agents : Start(a) \/ Stop(a) \/ Register(a) \/ Propose(a) \/ Promote(a)
    \/ RotateKey \/ ClearEnv
    \/ \E m \in Numbers : CreateMachine(m) \/ AcceptKey(m) \/ Revoke(m)

Spec == Init /\ [][Next]_vars

-----------------------------------------------------------------------------
(* Properties *)

TypeOK ==
    /\ kind \in {"gate", "builder"} /\ token \in 0..MaxMachines
    /\ disk \in [marker : BOOLEAN, half : BOOLEAN, key : 0..MaxKeys, next : 0..MaxKeys,
                 recorded : BOOLEAN]
    /\ machines \in [Numbers -> [status : {"absent", "code", "pending", "active", "revoked"},
                                  key : 0..MaxKeys, pending : 0..MaxKeys]]
    /\ \A c \in Commands : command[c].at \in {"idle", "described", "prepared", "enrolled", "written"}
    /\ \A a \in Agents : agent[a].at \in {"off", "on"}
    /\ made \in 0..MaxKeys /\ faults \in 0..MaxFaults

(* However enrolment and rotation end and are repeated: the keys that the  *)
(* server has for the token of a host are on that host.                    *)
KeysAreAtHand ==
    token # 0 /\ machines[token].status # "revoked" => KnownKeys(token) \subseteq {disk.key, disk.next}

(* A program only runs on keys whose enrolment was completed: the role of  *)
(* the gate and its recovery key are in its records.                       *)
RunsOnCompleteState ==
    \A a \in Agents : agent[a] # Off => disk.key # 0 /\ ~disk.half /\ (kind = "gate" => disk.recorded)

(* A key that was left behind and is found again does not stand for two    *)
(* machines.                                                               *)
KeysAreOfOneMachine ==
    \A m \in Numbers : machines[m].status # "revoked" =>
        \A key \in KnownKeys(m) : ~KeyInUse(m, key)

(* What runs has the keys that are on the disk.                            *)
MemoryIsTheDisk ==
    \A a \in Agents : agent[a] # Off =>
        agent[a].key = disk.key /\ agent[a].next \in {0, disk.next}
=============================================================================
