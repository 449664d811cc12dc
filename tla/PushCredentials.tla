--------------------------- MODULE PushCredentials ---------------------------
(***************************************************************************)
(* The push credentials of the tenants: rows of app_configs with a version *)
(* that administrators write, test and delete, and that the dispatchers of *)
(* several processes read through a cache of clients.  A tenant without a  *)
(* row of its own inherits that of the platform.  FCM and APNs go the same *)
(* way; a row stands for either.                                           *)
(***************************************************************************)
EXTENDS Naturals, FiniteSets

CONSTANTS
    Tenants,
    Platform,      \* tenant 0
    Processes,     \* each with a cache of clients
    Senders,       \* the workers of the processes
    ProcessOf,
    Editors        \* requests of administrators
CONSTANTS          \* bounds of the model
    MaxKeys, MaxDeletes

PlatformAssumption == Platform \notin Tenants
SendersAssumption == ProcessOf \in [Senders -> Processes]
BoundsAssumption == MaxKeys \in Nat /\ MaxDeletes \in Nat

VARIABLES
    row,      \* app_configs of the key push.fcm (or push.apns)
    cache,    \* the clients of a process, by the tenant of their row
    use,      \* what each worker has read and resolved
    edit,     \* the requests between two steps
    keys,     \* how many keys were ever entered
    deletes

vars == <<row, cache, use, edit, keys, deletes>>

-----------------------------------------------------------------------------
Owners == Tenants \cup {Platform}
NoRow == [version |-> 0, key |-> 0]
Credentials == [version : Nat, key : Nat]
Exists(t) == row[t] # NoRow

(* LoadFCM, LoadAPNs: the tenant's own row, or that of the platform.       *)
Source(t) == IF Exists(t) THEN t ELSE Platform

Steps == {"open", "checked", "tested"}
Request == [step : Steps, owner : Owners, expected : Nat, seen : Nat, key : Nat]
NoRequest == [step |-> "none"]
NotReading == [step |-> "none"]
Reading == [step : {"read", "sends"}, source : Owners, record : Credentials, key : Nat]

-----------------------------------------------------------------------------
(***************************************************************************)
(* An administrator has the page open and enters a key, which is verified  *)
(* with the provider.  The row is read and compared with what they saw;    *)
(* the write compares once more.                                           *)
(***************************************************************************)
Open(r) ==
    /\ edit[r] = NoRequest
    /\ keys < MaxKeys /\ keys' = keys + 1
    /\ \E t \in Owners :
         edit' = [edit EXCEPT ![r] = [step |-> "open", owner |-> t, expected |-> row[t].version,
                                      seen |-> row[t].key, key |-> keys']]
    /\ UNCHANGED <<row, cache, use, deletes>>

Check(r) ==
    /\ edit[r].step = "open"
    /\ edit' = [edit EXCEPT ![r] = IF row[@.owner].version = @.expected
                                   THEN [@ EXCEPT !.step = "checked"] ELSE NoRequest]
    /\ UNCHANGED <<row, cache, use, keys, deletes>>

(* One statement inserts where there is no row, one updates the version    *)
(* that was checked.                                                       *)
MaySave(r) == row[edit[r].owner].version = edit[r].expected
Saved(r) == [version |-> edit[r].expected + 1, key |-> edit[r].key]

Save(r) ==
    /\ edit[r].step = "checked"
    /\ row' = IF MaySave(r) THEN [row EXCEPT ![edit[r].owner] = Saved(r)] ELSE row
    /\ edit' = [edit EXCEPT ![r] = NoRequest]
    /\ UNCHANGED <<cache, use, keys, deletes>>

(* rn-server push-credentials import-env: finds no row of the platform and *)
(* inserts one; the primary key refuses a second.                          *)
Import(r) ==
    /\ edit[r] = NoRequest /\ ~Exists(Platform)
    /\ keys < MaxKeys /\ keys' = keys + 1
    /\ edit' = [edit EXCEPT ![r] = [step |-> "checked", owner |-> Platform, expected |-> 0,
                                    seen |-> 0, key |-> keys']]
    /\ UNCHANGED <<row, cache, use, deletes>>

(* A test reads the tenant's own row, asks the provider, and writes the    *)
(* document it read back with the time of the test.                        *)
Test(r) ==
    /\ edit[r] = NoRequest
    /\ \E t \in Tenants :
         /\ Exists(t)
         /\ edit' = [edit EXCEPT ![r] = [step |-> "tested", owner |-> t, expected |-> row[t].version,
                                         seen |-> row[t].key, key |-> row[t].key]]
    /\ UNCHANGED <<row, cache, use, keys, deletes>>

MayNote(r) == row[edit[r].owner].version = edit[r].expected

NoteTest(r) ==
    /\ edit[r].step = "tested"
    /\ row' = IF MayNote(r) THEN [row EXCEPT ![edit[r].owner].key = edit[r].key] ELSE row
    /\ edit' = [edit EXCEPT ![r] = NoRequest]
    /\ UNCHANGED <<cache, use, keys, deletes>>

Delete(t) ==
    /\ Exists(t)
    /\ deletes < MaxDeletes /\ deletes' = deletes + 1
    /\ row' = [row EXCEPT ![t] = NoRow]
    /\ UNCHANGED <<cache, use, edit, keys>>

(* The request ends anywhere: refused, or its connection is gone.          *)
GiveUp(r) ==
    /\ edit[r] # NoRequest
    /\ edit' = [edit EXCEPT ![r] = NoRequest]
    /\ UNCHANGED <<row, cache, use, keys, deletes>>

-----------------------------------------------------------------------------
(***************************************************************************)
(* A worker reads the row for every event; then it takes the client from   *)
(* the cache if the version is the same, or builds one and stores it.      *)
(***************************************************************************)
Read(w, t) ==
    /\ use[w].step # "read"
    /\ LET s == Source(t) IN
       use' = [use EXCEPT ![w] = IF Exists(s)
                                 THEN [step |-> "read", source |-> s, record |-> row[s], key |-> 0]
                                 ELSE NotReading]
    /\ UNCHANGED <<row, cache, edit, keys, deletes>>

Fresh(client, record) == client.version = record.version

Resolve(w) ==
    /\ use[w].step = "read"
    /\ LET p == ProcessOf[w]  s == use[w].source  r == use[w].record  client == cache[p][s] IN
       IF Fresh(client, r)
       THEN /\ use' = [use EXCEPT ![w].step = "sends", ![w].key = client.key]
            /\ UNCHANGED cache
       ELSE /\ use' = [use EXCEPT ![w].step = "sends", ![w].key = r.key]
            /\ cache' = [cache EXCEPT ![p][s] = r]
    /\ UNCHANGED <<row, edit, keys, deletes>>

Restart(p) ==
    /\ cache' = [cache EXCEPT ![p] = [t \in Owners |-> NoRow]]
    /\ use' = [w \in Senders |-> IF ProcessOf[w] = p THEN NotReading ELSE use[w]]
    /\ UNCHANGED <<row, edit, keys, deletes>>

-----------------------------------------------------------------------------
Init ==
    /\ row = [t \in Owners |-> NoRow]
    /\ cache = [p \in Processes |-> [t \in Owners |-> NoRow]]
    /\ use = [w \in Senders |-> NotReading]
    /\ edit = [r \in Editors |-> NoRequest]
    /\ keys = 0 /\ deletes = 0

Next ==
    \/ \E r \in Editors :
         Open(r) \/ Check(r) \/ Save(r) \/ Import(r) \/ Test(r) \/ NoteTest(r) \/ GiveUp(r)
    \/ \E t \in Owners : Delete(t)
    \/ \E w \in Senders : Resolve(w) \/ \E t \in Tenants : Read(w, t)
    \/ \E p \in Processes : Restart(p)

Spec == Init /\ [][Next]_vars

-----------------------------------------------------------------------------
TypeOK ==
    /\ row \in [Owners -> Credentials]
    /\ cache \in [Processes -> [Owners -> Credentials]]
    /\ use \in [Senders -> {NotReading} \cup Reading]
    /\ edit \in [Editors -> {NoRequest} \cup Request]
    /\ keys \in 0..MaxKeys /\ deletes \in 0..MaxDeletes

(* An event is sent with the key that was in the row when the event was    *)
(* taken: the comment of fcmSender says that a process uses a new key from *)
(* the next event on, without a restart, whatever other workers of it      *)
(* cached in between.                                                      *)
SendsUseTheKeyRead == \A w \in Senders : use[w].step = "sends" => use[w].key = use[w].record.key

(* Two administrators, a test and an import at the same time: a key is     *)
(* replaced only by somebody who saw it, and never without a new version,  *)
(* by which the caches notice.                                             *)
NoKeyIsReplacedUnseen ==
    [][\A t \in Owners :
         LET old == row[t]  new == row'[t] IN
         old.key # new.key /\ old.key # 0 /\ new.key # 0 =>
             /\ new.version > old.version
             /\ \E r \in Editors : edit[r] # NoRequest /\ edit[r].owner = t /\ edit[r].seen = old.key]_vars
=============================================================================
