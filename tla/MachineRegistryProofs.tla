------------------------ MODULE MachineRegistryProofs ------------------------
(***************************************************************************)
(* What the registry promises, for any number of machines, keys, servers   *)
(* and requests in flight: its keys tell machines apart, and a revocation  *)
(* takes effect with the next request.                                     *)
(*                                                                         *)
(* Both rest on the version.  A document someone read is the registry's    *)
(* own as long as their versions agree, so what was checked on it still    *)
(* holds when it is written back; and a copy whose version a request read  *)
(* from the database shows every revocation made before that request.      *)
(***************************************************************************)
EXTENDS MachineRegistry, FiniteSetTheorems, TLAPS

Prints == UNION UNION {KeysOf[m] : m \in Machines}
Row ==
    [status : {"none", "pending_enrollment", "pending_key", "active", "revoked"},
     role : {"none", "primary", "standby"}, key : SUBSET Prints, pending : SUBSET Prints,
     code : Nat, local : {"none", "primary", "standby"}]
Document == [version : Nat, doc : [Machines -> Row]]

Request ==
    {Idle}
      \cup [op : {"auth"}, machine : Machines, server : Servers, version : Nat,
            before : SUBSET Machines]
      \cup [op : {"loaded"}, machine : Machines, server : Servers, found : Document,
            before : SUBSET Machines]
      \cup [op : {"granted"}, machine : Machines, attempt : Nat, before : SUBSET Machines]
      \cup [op : {"report"}, machine : Machines, edit : Edits, found : Document,
            attempt : Nat, before : SUBSET Machines]

Types ==
    /\ registry \in Document
    /\ copy \in [Servers -> Document]
    /\ call \in [Calls -> Request]
    /\ revoked \subseteq Machines

(* A document that was read is the registry's own while their versions agree. *)
IsPast(d) == d.version <= registry.version /\ (d.version = registry.version => d = registry)
ReadsArePast ==
    /\ \A s \in Servers : IsPast(copy[s])
    /\ \A c \in Calls : call[c].op \in {"loaded", "report"} => IsPast(call[c].found)

(* What a report checked of the document it read. *)
ReportsAreChecked ==
    \A c \in Calls : call[c].op = "report" /\ call[c].edit.key # NoKey =>
        MayReportKey(call[c].found.doc, call[c].machine, call[c].edit.key)

KeysDiffer(doc) ==
    \A m \in Live(doc), n \in Live(doc) : m # n => Digests(doc[m]) \cap Digests(doc[n]) = {}
Primaries(doc) == {m \in Live(doc) : doc[m].role = "primary"}
OnePrimary(doc) == \A m \in Primaries(doc), n \in Primaries(doc) : m = n

Shows(doc, machines) == \A m \in machines : doc[m].status = "revoked"

(* Every document with the version a request read shows the revocations     *)
(* made before that request.                                                *)
RevocationsAreShown ==
    /\ Shows(registry.doc, revoked)
    /\ \A c \in Calls :
          /\ call[c].op = "auth" =>
                /\ call[c].version <= registry.version
                /\ call[c].before \subseteq revoked
                /\ \A s \in Servers : copy[s].version = call[c].version =>
                      Shows(copy[s].doc, call[c].before)
                /\ \A d \in Calls : call[d].op = "loaded" /\ call[d].found.version = call[c].version =>
                      Shows(call[d].found.doc, call[c].before)
          /\ call[c].op = "loaded" => Shows(call[c].found.doc, call[c].before)
          /\ call[c].op \in {"granted", "report"} => call[c].machine \notin call[c].before

IInv ==
    /\ Types
    /\ ReadsArePast
    /\ ReportsAreChecked
    /\ KeysDiffer(registry.doc)
    /\ OnePrimary(registry.doc)
    /\ RevocationsAreShown

-----------------------------------------------------------------------------
(* One row of a document is replaced by another. *)
LEMMA KeysStayApart ==
    ASSUME NEW doc \in [Machines -> Row], NEW m \in Machines, NEW row \in Row,
           KeysDiffer(doc),
           row.status \notin {"none", "revoked"} =>
               \A n \in Live(doc) \ {m} : Digests(doc[n]) \cap Digests(row) = {}
    PROVE  KeysDiffer([doc EXCEPT ![m] = row])
<1> DEFINE next == [doc EXCEPT ![m] = row]
<1>1. \A n \in Machines : next[n] = IF n = m THEN row ELSE doc[n]
  OBVIOUS
<1>2. \A n \in Live(next) \ {m} : n \in Live(doc) /\ next[n] = doc[n]
  BY <1>1 DEF Live
<1>3. m \in Live(next) => row.status \notin {"none", "revoked"} /\ next[m] = row
  BY <1>1 DEF Live
<1> QED
  BY <1>2, <1>3 DEF KeysDiffer

LEMMA OnePrimaryStays ==
    ASSUME NEW doc \in [Machines -> Row], NEW m \in Machines, NEW row \in Row,
           OnePrimary(doc),
           row.role = "primary" => \A n \in Live(doc) \ {m} : doc[n].role # "primary"
    PROVE  OnePrimary([doc EXCEPT ![m] = row])
<1> DEFINE next == [doc EXCEPT ![m] = row]
<1>1. \A n \in Machines : next[n] = IF n = m THEN row ELSE doc[n]
  OBVIOUS
<1>2. \A n \in Primaries(next) \ {m} : n \in Primaries(doc) /\ n \in Live(doc)
  BY <1>1 DEF Primaries, Live
<1>3. m \in Primaries(next) => row.role = "primary"
  BY <1>1 DEF Primaries, Live
<1> QED
  BY <1>2, <1>3 DEF OnePrimary, Primaries

(* The steps that edit the document at once. *)
Administrates ==
    \E m \in Machines :
       \/ \E role \in {"none", "primary", "standby"} : CreateMachine(m, role)
       \/ ReissueEnrollment(m)
       \/ RevokeMachine(m)
       \/ \E key \in KeysOf[m] :
            \/ AcceptMachineKey(m, key)
            \/ \E code \in 1..MaxVersion : EnrollMachine(m, code, key)
       \/ \E role \in {"primary", "standby"} : SetSignerRole(m, role)

(* What a write may put in the place of the document. *)
Replaces(doc) ==
    /\ registry' = [version |-> registry.version + 1, doc |-> doc]
    /\ doc \in [Machines -> Row]
    /\ KeysDiffer(doc)
    /\ OnePrimary(doc)
    /\ Shows(doc, revoked')

LEMMA KeyOfPrints ==
    ASSUME NEW m \in Machines, NEW key \in KeysOf[m] PROVE key \subseteq Prints
  BY DEF Prints

(* An edit of one row that keeps what the invariant says of the others. *)
LEMMA RowEdit ==
    ASSUME IInv, NEW m \in Machines, NEW row \in Row, Edit(m, row),
           row.status \notin {"none", "revoked"} =>
               \A n \in Live(registry.doc) \ {m} : Digests(registry.doc[n]) \cap Digests(row) = {},
           row.role = "primary" =>
               \A n \in Live(registry.doc) \ {m} : registry.doc[n].role # "primary",
           \/ revoked' = revoked /\ m \notin revoked
           \/ revoked' = revoked \cup {m} /\ row.status = "revoked"
    PROVE  Replaces([registry.doc EXCEPT ![m] = row])
<1>1. registry \in Document /\ registry.doc \in [Machines -> Row] /\ revoked \subseteq Machines
  BY DEF IInv, Types, Document
<1>2. KeysDiffer([registry.doc EXCEPT ![m] = row])
  BY <1>1, KeysStayApart DEF IInv
<1>3. OnePrimary([registry.doc EXCEPT ![m] = row])
  BY <1>1, OnePrimaryStays DEF IInv
<1>4. Shows([registry.doc EXCEPT ![m] = row], revoked')
  BY <1>1 DEF IInv, RevocationsAreShown, Shows
<1> QED
  BY <1>1, <1>2, <1>3, <1>4 DEF Replaces, Edit, Write

LEMMA AdministratesStep ==
    ASSUME IInv, Administrates
    PROVE  /\ \E doc : Replaces(doc)
           /\ UNCHANGED <<copy, call>>
           /\ revoked \subseteq revoked' /\ revoked' \subseteq Machines
<1>1. /\ registry.doc \in [Machines -> Row] /\ registry.version \in Nat
      /\ revoked \subseteq Machines /\ Shows(registry.doc, revoked)
      /\ KeysDiffer(registry.doc) /\ OnePrimary(registry.doc)
  BY DEF IInv, Types, Document, RevocationsAreShown
<1>2. ASSUME NEW m \in Live(registry.doc), NEW n \in Live(registry.doc) \ {m}
      PROVE  /\ Digests(registry.doc[n]) \cap Digests(registry.doc[m]) = {}
             /\ registry.doc[m].role = "primary" => registry.doc[n].role # "primary"
  BY <1>1, <1>2 DEF KeysDiffer, OnePrimary, Primaries
<1>3. ASSUME NEW m \in Machines, NEW role \in {"none", "primary", "standby"},
             CreateMachine(m, role)
      PROVE  \E doc : Replaces(doc)
  <2> DEFINE row == [Unregistered EXCEPT !.status = "pending_enrollment", !.role = role,
                                         !.code = registry.version]
  <2>1. row \in Row /\ row.role = role /\ Digests(row) = {}
    BY <1>1 DEF Row, Unregistered, NoKey, Digests
  <2>2. m \notin revoked
    BY <1>1, <1>3 DEF Shows, CreateMachine
  <2> QED
    BY <2>1, <2>2, <1>3, RowEdit DEF CreateMachine
<1>4. ASSUME NEW m \in Machines, ReissueEnrollment(m) PROVE \E doc : Replaces(doc)
  <2> DEFINE row == [registry.doc[m] EXCEPT !.code = registry.version]
  <2>1. row \in Row /\ row.role = registry.doc[m].role /\ Digests(row) = Digests(registry.doc[m])
    BY <1>1 DEF Row, Digests
  <2>2. m \notin revoked /\ m \in Live(registry.doc)
    BY <1>1, <1>4 DEF Shows, ReissueEnrollment, Live
  <2> QED
    BY <2>1, <2>2, <1>2, <1>4, RowEdit DEF ReissueEnrollment
<1>5. ASSUME NEW m \in Machines, RevokeMachine(m) PROVE \E doc : Replaces(doc)
  <2> DEFINE row == [registry.doc[m] EXCEPT !.status = "revoked", !.role = "none"]
  <2>1. row \in Row /\ row.role = "none" /\ row.status = "revoked"
    BY <1>1 DEF Row
  <2> QED
    BY <2>1, <1>5, RowEdit DEF RevokeMachine
<1>6. ASSUME NEW m \in Machines, NEW key \in KeysOf[m], AcceptMachineKey(m, key)
      PROVE  \E doc : Replaces(doc)
  <2> DEFINE row == [registry.doc[m] EXCEPT !.status = "active", !.key = key, !.pending = NoKey]
  <2>1. /\ row \in Row /\ row.role = registry.doc[m].role
        /\ Digests(row) \subseteq Digests(registry.doc[m])
    <3>1. key \in SUBSET Prints /\ NoKey \in SUBSET Prints
      BY KeyOfPrints DEF NoKey
    <3>2. registry.doc[m] \in Row /\ key = registry.doc[m].pending
      BY <1>1, <1>6 DEF AcceptMachineKey
    <3>3. row \in Row /\ row.role = registry.doc[m].role /\ row.key = key /\ row.pending = NoKey
      BY <3>1, <3>2 DEF Row
    <3> QED
      BY <3>2, <3>3 DEF Digests, NoKey
  <2>2. m \notin revoked /\ m \in Live(registry.doc)
    BY <1>1, <1>6 DEF Shows, AcceptMachineKey, Live
  <2> QED
    BY <2>1, <2>2, <1>2, <1>6, RowEdit DEF AcceptMachineKey
<1>7. ASSUME NEW m \in Machines, NEW key \in KeysOf[m], NEW code \in 1..MaxVersion,
             EnrollMachine(m, code, key)
      PROVE  \E doc : Replaces(doc)
  <2> DEFINE row == [registry.doc[m] EXCEPT !.status = "pending_key", !.pending = key]
  <2>1. /\ row \in Row /\ row.role = registry.doc[m].role
        /\ Digests(row) \subseteq Digests(registry.doc[m]) \cup key
    BY <1>1, <1>7, KeyOfPrints DEF Row, Digests
  <2>2. m \notin revoked /\ m \in Live(registry.doc)
    BY <1>1, <1>7 DEF Shows, EnrollMachine, Live
  <2>3. \A n \in Live(registry.doc) \ {m} : Digests(registry.doc[n]) \cap key = {}
    BY <1>7 DEF EnrollMachine, KeyInUse
  <2>4. \A n \in Live(registry.doc) \ {m} : Digests(registry.doc[n]) \cap Digests(row) = {}
    BY <2>1, <2>2, <2>3, <1>2
  <2> QED
    BY <2>1, <2>2, <2>4, <1>2, <1>7, RowEdit DEF EnrollMachine
<1>8. ASSUME NEW m \in Machines, NEW role \in {"primary", "standby"}, SetSignerRole(m, role)
      PROVE  \E doc : Replaces(doc)
  <2> DEFINE doc == [n \in Machines |->
             IF n = m THEN [registry.doc[m] EXCEPT !.role = role]
             ELSE IF role = "primary" /\ registry.doc[n].role = "primary"
                  THEN [registry.doc[n] EXCEPT !.role = "standby"]
             ELSE registry.doc[n]]
  <2>1. \A n \in Machines : /\ doc[n] \in Row /\ doc[n].status = registry.doc[n].status
                            /\ Digests(doc[n]) = Digests(registry.doc[n])
    BY <1>1 DEF Row, Digests
  <2>2. Live(doc) = Live(registry.doc)
    BY <2>1 DEF Live
  <2>3. KeysDiffer(doc)
    BY <2>1, <2>2, <1>1 DEF KeysDiffer, Live
  <2>4. OnePrimary(doc)
    <3>1. CASE role = "primary"
      <4>1. \A n \in Machines \ {m} : doc[n].role # "primary"
        BY <3>1, <1>1 DEF Row
      <4> QED
        BY <4>1 DEF OnePrimary, Primaries, Live
    <3>2. CASE role = "standby"
      <4>1. Primaries(doc) \subseteq Primaries(registry.doc)
        BY <3>2, <2>2, <1>1 DEF Primaries, Live, Row
      <4> QED
        BY <4>1, <1>1 DEF OnePrimary
    <3> QED
      BY <3>1, <3>2
  <2>5. revoked' = revoked /\ Shows(doc, revoked')
    BY <2>1, <1>1, <1>8 DEF Shows, SetSignerRole
  <2>6. Write(doc)
    BY <1>8 DEF SetSignerRole
  <2>7. doc \in [Machines -> Row]
    BY <2>1
  <2> HIDE DEF doc
  <2> QED
    BY <2>3, <2>4, <2>5, <2>6, <2>7 DEF Replaces, Write
<1>9. /\ \E doc : Replaces(doc)
      /\ UNCHANGED <<copy, call>>
  BY <1>3, <1>4, <1>5, <1>6, <1>7, <1>8
     DEF Administrates, CreateMachine, ReissueEnrollment, RevokeMachine, AcceptMachineKey,
         EnrollMachine, SetSignerRole
<1>10. revoked \subseteq revoked' /\ revoked' \subseteq Machines
  BY <1>1 DEF Administrates, CreateMachine, ReissueEnrollment, RevokeMachine, AcceptMachineKey,
              EnrollMachine, SetSignerRole
<1> QED
  BY <1>9, <1>10

-----------------------------------------------------------------------------
(* The steps of a machine's request. *)
Requests(c) ==
    \/ \E m \in Machines, s \in Servers : ReadVersion(c, s, m)
    \/ UseCopy(c) \/ LoadRegistry(c) \/ KeepCopy(c) \/ Finish(c)
    \/ \E edit \in Edits : ReadForReport(c, edit)
    \/ WriteReport(c) \/ ReportAgain(c)

LEMMA NextIs == Next <=> Administrates \/ \E c \in Calls : Requests(c)
  BY DEF Next, Administrates, Requests

(* A request is typed by the step it has reached. *)
LEMMA RequestTypes ==
    ASSUME Types, NEW c \in Calls
    PROVE  /\ call[c] \in Request
           /\ call[c].op \in {"idle", "auth", "loaded", "granted", "report"}
           /\ call[c].op = "auth" =>
                 /\ call[c].machine \in Machines /\ call[c].server \in Servers
                 /\ call[c].version \in Nat /\ call[c].before \subseteq Machines
           /\ call[c].op = "loaded" =>
                 /\ call[c].machine \in Machines /\ call[c].server \in Servers
                 /\ call[c].found \in Document /\ call[c].before \subseteq Machines
           /\ call[c].op = "granted" =>
                 /\ call[c].machine \in Machines
                 /\ call[c].attempt \in Nat /\ call[c].before \subseteq Machines
           /\ call[c].op = "report" =>
                 /\ call[c].machine \in Machines /\ call[c].edit \in Edits
                 /\ call[c].found \in Document
                 /\ call[c].attempt \in Nat /\ call[c].before \subseteq Machines
  BY DEF Types, Request, Idle

(* What a token's owner is judged by. *)
LEMMA JudgedIs ==
    ASSUME Types, NEW c \in Calls, call[c].op \in {"auth", "loaded"}, NEW doc,
           Shows(doc, call[c].before)
    PROVE  /\ Judged(c, doc) \in Request
           /\ Judged(c, doc).op \in {"idle", "granted"}
           /\ Judged(c, doc).op = "granted" => Judged(c, doc).machine \notin call[c].before
<1>1. call[c].machine \in Machines /\ call[c].before \subseteq Machines
  BY RequestTypes
<1>2. CASE HasToken(doc, call[c].machine)
  <2>1. call[c].machine \notin call[c].before
    BY <1>2 DEF HasToken, Shows
  <2> QED
    BY <1>1, <1>2, <2>1 DEF Judged, Request
<1>3. CASE ~HasToken(doc, call[c].machine)
  BY <1>3 DEF Judged, Request, Idle
<1> QED
  BY <1>2, <1>3

(* A report that nobody overtook replaces the document it read. *)
LEMMA ReportReplaces ==
    ASSUME IInv, NEW c \in Calls, WriteReport(c)
    PROVE  \E doc : Replaces(doc)
<1> DEFINE m == call[c].machine
           edit == call[c].edit
           row == IF edit.key # NoKey THEN [registry.doc[m] EXCEPT !.pending = edit.key]
                  ELSE [registry.doc[m] EXCEPT !.local = edit.local]
<1>1. /\ registry.doc \in [Machines -> Row] /\ registry.version \in Nat
      /\ revoked \subseteq Machines /\ Shows(registry.doc, revoked)
      /\ KeysDiffer(registry.doc) /\ OnePrimary(registry.doc)
  BY DEF IInv, Types, Document, RevocationsAreShown
<1>2. call[c].op = "report" /\ call[c].found = registry
  BY DEF WriteReport, IsCurrent, IInv, ReadsArePast, IsPast
<1>3. m \in Machines /\ edit \in Edits
  BY <1>2, RequestTypes DEF IInv
<1>4. edit.key \subseteq Prints /\ edit.local \in {"none", "primary", "standby"}
  BY <1>3 DEF Edits, Prints, NoKey
<1>5. /\ row \in Row /\ row.role = registry.doc[m].role /\ row.status = registry.doc[m].status
      /\ Digests(row) \subseteq Digests(registry.doc[m]) \cup edit.key
  <2>1. registry.doc[m] \in Row
    BY <1>1, <1>3
  <2>2. CASE edit.key # NoKey
    <3>1. row = [registry.doc[m] EXCEPT !.pending = edit.key]
      BY <2>2
    <3> HIDE DEF row
    <3>2. /\ row \in Row /\ row.role = registry.doc[m].role
          /\ row.status = registry.doc[m].status /\ row.key = registry.doc[m].key
          /\ row.pending = edit.key
      BY <1>4, <2>1, <3>1 DEF Row
    <3> QED
      BY <3>2 DEF Digests
  <2>3. CASE edit.key = NoKey
    <3>1. row = [registry.doc[m] EXCEPT !.local = edit.local]
      BY <2>3
    <3> HIDE DEF row
    <3>2. /\ row \in Row /\ row.role = registry.doc[m].role
          /\ row.status = registry.doc[m].status /\ row.key = registry.doc[m].key
          /\ row.pending = registry.doc[m].pending
      BY <1>4, <2>1, <3>1 DEF Row
    <3> QED
      BY <3>2 DEF Digests
  <2> QED
    BY <2>2, <2>3
<1>6. Reported(registry.doc, m, edit) = [registry.doc EXCEPT ![m] = row]
  BY DEF Reported
<1>7. edit.key # NoKey => \A n \in Live(registry.doc) \ {m} : Digests(registry.doc[n]) \cap edit.key = {}
  BY <1>2 DEF IInv, ReportsAreChecked, MayReportKey, KeyInUse
<1>8. \A n \in Live(registry.doc) \ {m} : Digests(registry.doc[n]) \cap edit.key = {}
  BY <1>7 DEF NoKey
<1>9. m \in Live(registry.doc) => \A n \in Live(registry.doc) \ {m} :
         /\ Digests(registry.doc[n]) \cap Digests(registry.doc[m]) = {}
         /\ registry.doc[m].role = "primary" => registry.doc[n].role # "primary"
  BY <1>1 DEF KeysDiffer, OnePrimary, Primaries
<1>10. row.status \notin {"none", "revoked"} => m \in Live(registry.doc)
  BY <1>3, <1>5 DEF Live
<1>11. KeysDiffer([registry.doc EXCEPT ![m] = row])
  <2>1. row.status \notin {"none", "revoked"} =>
           \A n \in Live(registry.doc) \ {m} : Digests(registry.doc[n]) \cap Digests(row) = {}
    BY <1>5, <1>8, <1>9, <1>10
  <2> HIDE DEF row, m
  <2> QED
    BY <1>1, <1>3, <1>5, <2>1, KeysStayApart
<1>12. OnePrimary([registry.doc EXCEPT ![m] = row])
  <2> DEFINE next == [registry.doc EXCEPT ![m] = row]
  <2>1. \A n \in Machines : next[n].role = registry.doc[n].role /\ next[n].status = registry.doc[n].status
    BY <1>1, <1>3, <1>5
  <2>2. Primaries(next) = Primaries(registry.doc)
    BY <2>1 DEF Primaries, Live
  <2> HIDE DEF next
  <2>3. OnePrimary(next)
    BY <2>2, <1>1 DEF OnePrimary
  <2> QED
    BY <2>3 DEF next
<1>13. Shows([registry.doc EXCEPT ![m] = row], revoked') /\ revoked' = revoked
  BY <1>1, <1>3, <1>5 DEF WriteReport, Shows
<1>14. Write([registry.doc EXCEPT ![m] = row])
  BY <1>2, <1>6 DEF WriteReport
<1> HIDE DEF row, m
<1> QED
  BY <1>1, <1>3, <1>5, <1>11, <1>12, <1>13, <1>14 DEF Replaces, Write

(* What a request's step does to what is read: it keeps the copies, or      *)
(* keeps what was loaded; and only its own entry changes.                   *)
LEMMA TypesStep == ASSUME IInv, [Next]_vars PROVE Types'
<1>1. Types
  BY DEF IInv
<1>2. CASE Administrates
  BY <1>1, <1>2, AdministratesStep DEF Types, Replaces, Document
<1>3. ASSUME NEW c \in Calls, Requests(c) PROVE Types'
  <2>0. /\ registry \in Document /\ copy \in [Servers -> Document] /\ revoked \subseteq Machines
        /\ call \in [Calls -> Request] /\ registry.version \in Nat
    BY <1>1 DEF Types, Document
  <2>1. ASSUME NEW m \in Machines, NEW s \in Servers, ReadVersion(c, s, m) PROVE Types'
    <3>1. call'[c] \in Request
      BY <2>0, <2>1 DEF ReadVersion, Request
    <3> QED
      BY <2>0, <2>1, <3>1 DEF Types, ReadVersion
  <2>2. CASE UseCopy(c)
    <3>1. Judged(c, copy[call[c].server].doc) \in Request
      <4>1. /\ call[c].op = "auth" /\ call[c].server \in Servers
            /\ copy[call[c].server].version = call[c].version
        BY <1>1, <2>2, RequestTypes DEF UseCopy, CopyIsUsed
      <4>2. Shows(copy[call[c].server].doc, call[c].before)
        BY <4>1 DEF IInv, RevocationsAreShown
      <4> QED
        BY <1>1, <4>1, <4>2, JudgedIs
    <3> QED
      BY <2>0, <2>2, <3>1 DEF Types, UseCopy
  <2>3. CASE LoadRegistry(c)
    <3>1. call'[c] \in Request
      BY <1>1, <2>0, <2>3, RequestTypes DEF LoadRegistry, Request
    <3> QED
      BY <2>0, <2>3, <3>1 DEF Types, LoadRegistry
  <2>4. CASE KeepCopy(c)
    <3>1. call[c].op = "loaded" /\ call[c].server \in Servers /\ call[c].found \in Document
      BY <1>1, <2>4, RequestTypes DEF KeepCopy
    <3>2. Shows(call[c].found.doc, call[c].before)
      BY <3>1 DEF IInv, RevocationsAreShown
    <3>3. Judged(c, call[c].found.doc) \in Request
      BY <1>1, <3>1, <3>2, JudgedIs
    <3> QED
      BY <2>0, <2>4, <3>1, <3>3 DEF Types, KeepCopy
  <2>5. CASE Finish(c)
    BY <2>0, <2>5 DEF Types, Finish, Request
  <2>6. ASSUME NEW edit \in Edits, ReadForReport(c, edit) PROVE Types'
    <3>1. call'[c] \in Request
      BY <1>1, <2>0, <2>6, RequestTypes DEF ReadForReport, Request
    <3> QED
      BY <2>0, <2>6, <3>1 DEF Types, ReadForReport
  <2>7. CASE WriteReport(c)
    <3>1. registry' \in Document
      BY <2>0, <2>7, ReportReplaces DEF Replaces, Document
    <3> QED
      BY <2>0, <2>7, <3>1 DEF Types, WriteReport, Request
  <2>8. CASE ReportAgain(c)
    <3>1. call'[c] \in Request
      BY <1>1, <2>0, <2>8, RequestTypes DEF ReportAgain, Request
    <3> QED
      BY <2>0, <2>8, <3>1 DEF Types, ReportAgain
  <2> QED
    BY <1>3, <2>1, <2>2, <2>3, <2>4, <2>5, <2>6, <2>7, <2>8 DEF Requests
<1>4. CASE UNCHANGED vars
  BY <1>1, <1>4 DEF Types, vars
<1> QED
  BY <1>2, <1>3, <1>4, NextIs

-----------------------------------------------------------------------------
(* A write leaves what was read behind. *)
Writes ==
    /\ \E doc : Replaces(doc)
    /\ copy' = copy
    /\ \A c \in Calls : call'[c] = call[c] \/ call'[c] = Idle
    /\ revoked \subseteq revoked'

LEMMA StepWrites ==
    ASSUME IInv, Administrates \/ \E c \in Calls : WriteReport(c)
    PROVE  Writes
<1>1. CASE Administrates
  BY <1>1, AdministratesStep DEF Writes
<1>2. ASSUME NEW c \in Calls, WriteReport(c) PROVE Writes
  <2>1. call \in [Calls -> Request]
    BY DEF IInv, Types
  <2> QED
    BY <1>2, <2>1, ReportReplaces DEF Writes, WriteReport
<1> QED
  BY <1>1, <1>2

LEMMA WriteKeeps == ASSUME IInv, Writes PROVE
    /\ ReadsArePast' /\ ReportsAreChecked' /\ RevocationsAreShown'
    /\ KeysDiffer(registry.doc)' /\ OnePrimary(registry.doc)'
<1> PICK doc : Replaces(doc)
  BY DEF Writes
<1>1. /\ registry.version \in Nat /\ registry'.version = registry.version + 1
      /\ registry'.doc = doc /\ KeysDiffer(doc) /\ OnePrimary(doc) /\ Shows(doc, revoked')
  BY DEF IInv, Types, Document, Replaces
<1>2. /\ \A s \in Servers : copy[s].version \in Nat
      /\ \A c \in Calls : /\ call[c].op = "auth" => call[c].version \in Nat
                          /\ call[c].op \in {"loaded", "report"} => call[c].found.version \in Nat
  <2>1. Types
    BY DEF IInv
  <2> QED
    BY <2>1, RequestTypes DEF Types, Document
<1>3. \A c \in Calls : call'[c].op # "idle" => call'[c] = call[c]
  BY DEF Writes, Idle
<1>4. ReadsArePast'
  <2>1. ASSUME NEW s \in Servers PROVE IsPast(copy[s])'
    BY <1>1, <1>2 DEF IInv, ReadsArePast, IsPast, Writes
  <2>2. ASSUME NEW c \in Calls, call'[c].op \in {"loaded", "report"} PROVE IsPast(call[c].found)'
    BY <1>1, <1>2, <1>3, <2>2 DEF IInv, ReadsArePast, IsPast
  <2> QED
    BY <2>1, <2>2 DEF ReadsArePast, IsPast
<1>5. ReportsAreChecked'
  BY <1>3 DEF IInv, ReportsAreChecked, MayReportKey, KeyInUse, Live, Digests
<1>6. RevocationsAreShown'
  <2>1. Shows(registry'.doc, revoked')
    BY <1>1
  <2> SUFFICES ASSUME NEW c \in Calls
               PROVE  RevocationsAreShown!2!(c)'
    BY <2>1 DEF RevocationsAreShown, Shows
  <2>2. CASE call'[c].op = "auth"
    <3>1. call'[c] = call[c] /\ call[c].op = "auth"
      BY <1>3, <2>2
    <3>2. /\ call[c].version <= registry'.version
          /\ call[c].before \subseteq revoked'
      BY <1>1, <1>2, <3>1 DEF IInv, RevocationsAreShown, Writes
    <3>3. \A s \in Servers : copy'[s].version = call[c].version => Shows(copy'[s].doc, call[c].before)
      BY <3>1 DEF IInv, RevocationsAreShown, Writes
    <3>4. \A d \in Calls : call'[d].op = "loaded" /\ call'[d].found.version = call[c].version =>
             Shows(call'[d].found.doc, call[c].before)
      BY <1>3, <3>1 DEF IInv, RevocationsAreShown
    <3> QED
      BY <2>2, <3>1, <3>2, <3>3, <3>4 DEF Shows
  <2>3. CASE call'[c].op \in {"loaded", "granted", "report"}
    BY <1>3, <2>3 DEF IInv, RevocationsAreShown, Shows
  <2> QED
    BY <2>2, <2>3
<1> QED
  BY <1>1, <1>4, <1>5, <1>6 DEF KeysDiffer, OnePrimary, Live, Digests, Primaries

-----------------------------------------------------------------------------
(* The steps of a request that write nothing. *)
Reads(c) ==
    \/ \E m \in Machines, s \in Servers : ReadVersion(c, s, m)
    \/ UseCopy(c) \/ LoadRegistry(c) \/ KeepCopy(c) \/ Finish(c)
    \/ \E edit \in Edits : ReadForReport(c, edit)
    \/ ReportAgain(c)

(* What the request's entry becomes, and which copy is replaced. *)
LEMMA ReadIs ==
    ASSUME IInv, NEW c \in Calls, Reads(c)
    PROVE  /\ registry' = registry /\ revoked' = revoked
           /\ \A d \in Calls \ {c} : call'[d] = call[d]
           /\ \A s \in Servers : \/ copy'[s] = copy[s]
                                 \/ /\ KeepCopy(c) /\ s = call[c].server
                                    /\ copy'[s] = call[c].found
           /\ call'[c].op = "auth" =>
                 call'[c].version = registry.version /\ call'[c].before = revoked
           /\ call'[c].op = "loaded" =>
                 /\ call'[c].found = registry
                 /\ call[c].op = "auth" /\ call'[c].before = call[c].before
           /\ call'[c].op = "report" =>
                 /\ call'[c].found = registry
                 /\ call[c].op = "granted" /\ call'[c].machine = call[c].machine
                 /\ call'[c].before = call[c].before
                 /\ call'[c].edit.key # NoKey =>
                       MayReportKey(registry.doc, call'[c].machine, call'[c].edit.key)
           /\ call'[c].op = "granted" => call'[c].machine \notin call'[c].before
<1>1. /\ Types /\ call \in [Calls -> Request] /\ copy \in [Servers -> Document]
  BY DEF IInv, Types
<1>2. ASSUME NEW m \in Machines, NEW s \in Servers, ReadVersion(c, s, m)
      PROVE  /\ call'[c].op = "auth" /\ call'[c].version = registry.version
             /\ call'[c].before = revoked
  BY <1>1, <1>2 DEF ReadVersion
<1>3. CASE UseCopy(c)
  <2>1. /\ call[c].op = "auth" /\ call[c].server \in Servers
        /\ copy[call[c].server].version = call[c].version
    BY <1>1, <1>3, RequestTypes DEF UseCopy, CopyIsUsed
  <2>2. Shows(copy[call[c].server].doc, call[c].before)
    BY <2>1 DEF IInv, RevocationsAreShown
  <2>3. call'[c] = Judged(c, copy[call[c].server].doc)
    BY <1>1, <1>3 DEF UseCopy
  <2>4. /\ call'[c].op \in {"idle", "granted"}
        /\ call'[c].op = "granted" => call'[c].machine \notin call[c].before
    BY <1>1, <2>1, <2>2, <2>3, JudgedIs
  <2>5. call'[c].op = "granted" => call'[c].before = call[c].before
    BY <2>3 DEF Judged, Idle
  <2> QED
    BY <1>3, <2>4, <2>5 DEF UseCopy
<1>4. CASE KeepCopy(c)
  <2>1. call[c].op = "loaded" /\ call[c].server \in Servers
    BY <1>1, <1>4, RequestTypes DEF KeepCopy
  <2>2. Shows(call[c].found.doc, call[c].before)
    BY <2>1 DEF IInv, RevocationsAreShown
  <2>3. call'[c] = Judged(c, call[c].found.doc)
    BY <1>1, <1>4 DEF KeepCopy
  <2>4. /\ call'[c].op \in {"idle", "granted"}
        /\ call'[c].op = "granted" => call'[c].machine \notin call[c].before
    BY <1>1, <2>1, <2>2, <2>3, JudgedIs
  <2>5. call'[c].op = "granted" => call'[c].before = call[c].before
    BY <2>3 DEF Judged, Idle
  <2>6. \A s \in Servers : copy'[s] = IF s = call[c].server THEN call[c].found ELSE copy[s]
    BY <1>1, <1>4 DEF KeepCopy
  <2> QED
    BY <1>4, <2>4, <2>5, <2>6 DEF KeepCopy
<1>5. CASE LoadRegistry(c)
  BY <1>1, <1>5 DEF LoadRegistry
<1>6. ASSUME NEW edit \in Edits, ReadForReport(c, edit)
      PROVE  /\ call'[c].op = "report" /\ call'[c].found = registry
             /\ call[c].op = "granted" /\ call'[c].machine = call[c].machine
             /\ call'[c].before = call[c].before /\ call'[c].edit = edit
             /\ edit.key # NoKey => MayReportKey(registry.doc, call'[c].machine, edit.key)
  BY <1>1, <1>6 DEF ReadForReport
<1>7. CASE ReportAgain(c)
  <2>1. call[c].op = "report" /\ call[c].machine \notin call[c].before
    BY <1>7 DEF ReportAgain, IInv, RevocationsAreShown
  <2> QED
    BY <1>1, <1>7, <2>1 DEF ReportAgain
<1>8. CASE Finish(c)
  BY <1>1, <1>8 DEF Finish, Idle
<1>9. /\ registry' = registry /\ revoked' = revoked
      /\ \A d \in Calls \ {c} : call'[d] = call[d]
      /\ ~KeepCopy(c) => copy' = copy
  BY <1>1 DEF Reads, ReadVersion, UseCopy, KeepCopy, LoadRegistry, ReadForReport, ReportAgain, Finish
<1>10. CASE \E m \in Machines, s \in Servers : ReadVersion(c, s, m)
  BY <1>2, <1>9, <1>10 DEF ReadVersion, KeepCopy, Idle
<1>11. CASE \E edit \in Edits : ReadForReport(c, edit)
  <2>1. PICK edit \in Edits : ReadForReport(c, edit)
    BY <1>11
  <2>2. ~KeepCopy(c)
    BY <2>1 DEF ReadForReport, KeepCopy
  <2> QED
    BY <1>6, <1>9, <2>1, <2>2
<1> QED
  BY <1>3, <1>4, <1>5, <1>7, <1>8, <1>10, <1>11 DEF Reads, UseCopy, LoadRegistry, ReportAgain, Finish
LEMMA ReadKeeps == ASSUME IInv, NEW c \in Calls, Reads(c) PROVE
    /\ ReadsArePast' /\ ReportsAreChecked' /\ RevocationsAreShown'
    /\ KeysDiffer(registry.doc)' /\ OnePrimary(registry.doc)'
<1>1. registry' = registry /\ revoked' = revoked /\ registry.version \in Nat
  BY ReadIs DEF IInv, Types, Document
<1>2. \A d \in Calls \ {c} : call'[d] = call[d]
  BY ReadIs
<1>3. \A s \in Servers : \/ copy'[s] = copy[s]
                         \/ call[c].op = "loaded" /\ copy'[s] = call[c].found
  BY ReadIs DEF KeepCopy
<1>4. IsPast(registry)
  BY <1>1 DEF IsPast
<1>5. ReadsArePast'
  <2>1. ASSUME NEW s \in Servers PROVE IsPast(copy[s])'
    BY <1>1, <1>3 DEF IInv, ReadsArePast, IsPast
  <2>2. ASSUME NEW d \in Calls, call'[d].op \in {"loaded", "report"} PROVE IsPast(call[d].found)'
    <3>1. CASE d = c
      BY <1>1, <1>4, <2>2, <3>1, ReadIs DEF IsPast
    <3>2. CASE d # c
      BY <1>1, <1>2, <2>2, <3>2 DEF IInv, ReadsArePast, IsPast
    <3> QED
      BY <3>1, <3>2
  <2> QED
    BY <2>1, <2>2 DEF ReadsArePast, IsPast
<1>6. ReportsAreChecked'
  <2> SUFFICES ASSUME NEW d \in Calls, call'[d].op = "report", call'[d].edit.key # NoKey
               PROVE  MayReportKey(call'[d].found.doc, call'[d].machine, call'[d].edit.key)
    BY DEF ReportsAreChecked, MayReportKey, KeyInUse, Live, Digests
  <2>1. CASE d = c
    BY <2>1, ReadIs
  <2>2. CASE d # c
    BY <1>2, <2>2 DEF IInv, ReportsAreChecked
  <2> QED
    BY <2>1, <2>2
<1>7. RevocationsAreShown'
  <2>1. Shows(registry.doc, revoked)
    BY DEF IInv, RevocationsAreShown
  (* A request that now reads the version finds it on a document only if    *)
  (* that is the registry's.                                                *)
  <2>2. ASSUME NEW d \in Calls, call'[d].op = "auth"
        PROVE  /\ call'[d].version <= registry'.version
               /\ call'[d].before \subseteq revoked'
               /\ \A s \in Servers : copy'[s].version = call'[d].version =>
                     Shows(copy'[s].doc, call'[d].before)
               /\ \A e \in Calls : call'[e].op = "loaded" /\ call'[e].found.version = call'[d].version =>
                     Shows(call'[e].found.doc, call'[d].before)
    <3>1. CASE d = c
      <4>1. call'[c].version = registry.version /\ call'[c].before = revoked
        BY <2>2, <3>1, ReadIs
      <4>2. \A s \in Servers : copy'[s].version = registry.version => copy'[s] = registry
        BY <1>1, <1>5 DEF ReadsArePast, IsPast
      <4>3. \A e \in Calls : call'[e].op = "loaded" /\ call'[e].found.version = registry.version =>
               call'[e].found = registry
        BY <1>1, <1>5 DEF ReadsArePast, IsPast
      <4> QED
        BY <1>1, <2>1, <3>1, <4>1, <4>2, <4>3
    <3>2. CASE d # c
      <4>1. call'[d] = call[d] /\ call[d].op = "auth"
        BY <1>2, <2>2, <3>2
      <4>2. /\ call[d].version <= registry.version /\ call[d].before \subseteq revoked
            /\ \A s \in Servers : copy[s].version = call[d].version =>
                  Shows(copy[s].doc, call[d].before)
            /\ \A e \in Calls : call[e].op = "loaded" /\ call[e].found.version = call[d].version =>
                  Shows(call[e].found.doc, call[d].before)
        BY <4>1 DEF IInv, RevocationsAreShown
      <4>3. \A s \in Servers : copy'[s].version = call[d].version =>
               Shows(copy'[s].doc, call[d].before)
        BY <1>3, <4>2
      <4>4. registry.version = call[d].version => Shows(registry.doc, call[d].before)
        BY <2>1, <4>2 DEF Shows
      <4>5. \A e \in Calls : call'[e].op = "loaded" /\ call'[e].found.version = call[d].version =>
               Shows(call'[e].found.doc, call[d].before)
        <5> SUFFICES ASSUME NEW e \in Calls, call'[e].op = "loaded",
                            call'[e].found.version = call[d].version
                     PROVE  Shows(call'[e].found.doc, call[d].before)
          OBVIOUS
        <5>1. CASE e = c
          BY <4>4, <5>1, ReadIs
        <5>2. CASE e # c
          BY <1>2, <4>2, <5>2
        <5> QED
          BY <5>1, <5>2
      <4> QED
        BY <1>1, <4>1, <4>2, <4>3, <4>5
    <3> QED
      BY <3>1, <3>2
  <2>3. ASSUME NEW d \in Calls, call'[d].op = "loaded"
        PROVE  Shows(call'[d].found.doc, call'[d].before)
    <3>1. CASE d = c
      <4>1. call'[c].found = registry /\ call'[c].before = call[c].before /\ call[c].op = "auth"
        BY <2>3, <3>1, ReadIs
      <4>2. call[c].before \subseteq revoked
        BY <4>1 DEF IInv, RevocationsAreShown
      <4> QED
        BY <2>1, <3>1, <4>1, <4>2 DEF Shows
    <3>2. CASE d # c
      BY <1>2, <2>3, <3>2 DEF IInv, RevocationsAreShown
    <3> QED
      BY <3>1, <3>2
  <2>4. ASSUME NEW d \in Calls, call'[d].op \in {"granted", "report"}
        PROVE  call'[d].machine \notin call'[d].before
    <3>1. CASE d = c
      BY <2>4, <3>1, ReadIs DEF IInv, RevocationsAreShown
    <3>2. CASE d # c
      BY <1>2, <2>4, <3>2 DEF IInv, RevocationsAreShown
    <3> QED
      BY <3>1, <3>2
  <2> QED
    BY <1>1, <2>1, <2>2, <2>3, <2>4 DEF RevocationsAreShown, Shows
<1> QED
  BY <1>1, <1>5, <1>6, <1>7 DEF IInv, KeysDiffer, OnePrimary, Live, Digests, Primaries

-----------------------------------------------------------------------------
LEMMA InitInv == Init => IInv
<1> SUFFICES ASSUME Init PROVE IInv
  OBVIOUS
<1>1. Unregistered \in Row
  BY DEF Unregistered, Row, NoKey
<1>2. Types
  BY <1>1 DEF Init, Types, Document, Request
<1>3. ReadsArePast
  BY DEF Init, ReadsArePast, IsPast, Idle
<1>4. Live(registry.doc) = {}
  BY DEF Init, Live, Unregistered
<1>5. \A c \in Calls : call[c].op = "idle"
  BY DEF Init, Idle
<1> QED
  BY <1>2, <1>3, <1>4, <1>5
     DEF IInv, ReportsAreChecked, KeysDiffer, OnePrimary, Primaries, RevocationsAreShown, Shows, Init

LEMMA StepInv == IInv /\ [Next]_vars => IInv'
<1> SUFFICES ASSUME IInv, [Next]_vars PROVE IInv'
  OBVIOUS
<1>1. Types'
  BY TypesStep
<1>2. CASE Administrates \/ \E c \in Calls : WriteReport(c)
  BY <1>1, <1>2, StepWrites, WriteKeeps DEF IInv
<1>3. CASE \E c \in Calls : Reads(c)
  BY <1>1, <1>3, ReadKeeps DEF IInv
<1>4. CASE UNCHANGED vars
  <2>1. registry' = registry /\ copy' = copy /\ call' = call /\ revoked' = revoked
    BY <1>4 DEF vars
  <2>2. ReadsArePast'
    BY <2>1 DEF IInv, ReadsArePast, IsPast
  <2>3. ReportsAreChecked'
    BY <2>1 DEF IInv, ReportsAreChecked, MayReportKey, KeyInUse, Live, Digests
  <2>4. KeysDiffer(registry.doc)' /\ OnePrimary(registry.doc)'
    BY <2>1 DEF IInv, KeysDiffer, OnePrimary, Primaries, Live, Digests
  <2>5. RevocationsAreShown'
    BY <2>1 DEF IInv, RevocationsAreShown, Shows
  <2> QED
    BY <1>1, <2>2, <2>3, <2>4, <2>5 DEF IInv
<1> QED
  BY <1>2, <1>3, <1>4, NextIs DEF Requests, Reads

(* The invariant: what was read is the registry's own while the versions    *)
(* agree, so that what was checked on it still holds when it is written.    *)
THEOREM RegistryInvariant == Spec => []IInv
  BY InitInv, StepInv, PTL DEF Spec

(* No two live machines share a fingerprint, and at most one live gate is   *)
(* the primary, whichever reports, enrolments and acceptances interleave.   *)
THEOREM KeysIdentifyMachinesHolds == Spec => []KeysIdentifyMachines
<1>1. ASSUME IInv PROVE KeysIdentifyMachines
  <2> DEFINE primaries == {m \in Live(registry.doc) : registry.doc[m].role = "primary"}
  <2>1. \A m \in primaries, n \in primaries : m = n
    BY <1>1 DEF IInv, OnePrimary, Primaries
  <2>2. Cardinality(primaries) <= 1
    <3> HIDE DEF primaries
    <3>1. CASE primaries = {}
      BY <3>1, FS_EmptySet
    <3>2. CASE primaries # {}
      <4>1. PICK m \in primaries : primaries = {m}
        BY <2>1, <3>2
      <4>2. Cardinality({m}) = 1
        BY FS_Singleton
      <4> QED
        BY <4>1, <4>2
    <3> QED
      BY <3>1, <3>2
  <2> QED
    BY <1>1, <2>2 DEF IInv, KeysDiffer, KeysIdentifyMachines
<1> QED
  BY <1>1, RegistryInvariant, PTL

(* No request that began after a machine's revocation was committed is      *)
(* authenticated, whichever copy its server had kept or was about to keep.  *)
THEOREM RevocationIsImmediateHolds == Spec => []RevocationIsImmediate
<1>1. IInv => RevocationIsImmediate
  BY DEF IInv, RevocationsAreShown, RevocationIsImmediate
<1> QED
  BY <1>1, RegistryInvariant, PTL
=============================================================================
