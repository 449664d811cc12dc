-------------------------- MODULE DiagnosticReports --------------------------
(***************************************************************************)
(* The diagnostic reports of an installation (internal/api/diagnostics.go  *)
(* and diagnostics_admin.go).  The app sends what it knows of a report and *)
(* is given a reference, at once and once; then it sends the log, which is *)
(* cleaned and goes to the storage before the row says so.  Administrators *)
(* read reports and delete them: the log first, the row last.  Requests    *)
(* overlap, and each of their steps is one statement or one call.          *)
(*                                                                         *)
(* A log is a sequence of lines, of which one may hold a secret, be        *)
(* malformed or be too long; a clock of a few ticks stands for the         *)
(* windows.  Left aside: the descriptions in a report, the limit per       *)
(* address, which every server keeps for itself, and the status that       *)
(* administrators give to a report.                                        *)
(***************************************************************************)
EXTENDS Naturals, Sequences, FiniteSets, FiniteSetsExt

CONSTANTS
    Reports,    \* identifiers that the app gives to its reports
    Logs,       \* logs that it may send: sequences of lines
    Requests,   \* requests that may be under way
    Quotas,     \* hour, day, auto, tenant (reports) and bytes (lines)
    MaxLines,   \* lines that a log may have
    Faults,     \* what may fail: "put", "update", "delete", "rows"
    Overlaps,   \* whether uploads and deletions of one report may overlap
    None,
    MaxTime, MaxMade    \* bounds on the clock and on the reports made

VARIABLES
    now,
    enabled,    \* the tenant's switch features.diagnosticsEnabled
    eligible,   \* the installation has had a heartbeat
    rows,       \* app_diagnostic_reports, by the app's identifier
    objects,    \* the logs in the storage, by reference
    requests,
    made,       \* references that were given out
    answered,   \* reference that the app was told first (auxiliary)
    doomed      \* references whose deletion was asked for (auxiliary)

vars == <<now, enabled, eligible, rows, objects, requests, made, answered, doomed>>

(* Half an hour to send the log, an hour and a day for the quotas.         *)
DiagnosticLogUploadWindow == 0
HourLength == 1
DayLength == 2

References == 1..MaxMade
NoRow == [reference |-> 0]
Idle == [kind |-> "none", step |-> "none"]
At(r, kind, step) == requests[r].kind = kind /\ requests[r].step = step
Step(r, step) == requests' = [requests EXCEPT ![r].step = step]
End(r) == requests' = [requests EXCEPT ![r] = Idle]
Made == {id \in Reports : rows[id] # NoRow}

DiagnosticsAssumption ==
    /\ \A quota \in {"hour", "day", "auto", "tenant", "bytes"} : Quotas[quota] \in Nat
    /\ MaxLines \in Nat /\ MaxTime \in Nat /\ MaxMade \in Nat /\ Overlaps \in BOOLEAN
    /\ Faults \subseteq {"put", "update", "delete", "rows"}

Init ==
    /\ now = 0 /\ enabled = TRUE /\ eligible = FALSE
    /\ rows = [id \in Reports |-> NoRow]
    /\ objects = [ref \in References |-> None]
    /\ requests = [r \in Requests |-> Idle]
    /\ made = 0 /\ answered = [id \in Reports |-> 0] /\ doomed = {}

-----------------------------------------------------------------------------
(* Time, the tenant's switch, and the heartbeat before which an            *)
(* installation may not report (diagnosticInstallation).                   *)
Tick ==
    /\ now < MaxTime /\ now' = now + 1
    /\ UNCHANGED <<enabled, eligible, rows, objects, requests, made, answered, doomed>>

Switch ==
    /\ enabled' = ~enabled
    /\ UNCHANGED <<now, eligible, rows, objects, requests, made, answered, doomed>>

Heartbeat ==
    /\ ~eligible /\ eligible' = TRUE
    /\ UNCHANGED <<now, enabled, rows, objects, requests, made, answered, doomed>>

IsAdmitted == enabled /\ eligible

-----------------------------------------------------------------------------
(* createDiagnosticReport.                                                 *)

Answer(id, ref) ==
    answered' = IF answered[id] = 0 THEN [answered EXCEPT ![id] = ref] ELSE answered

(* A report that was sent before is answered from its row.                 *)
Submit(r, id, kind) ==
    /\ requests[r] = Idle /\ IsAdmitted
    /\ IF id \in Made
       THEN Answer(id, rows[id].reference) /\ UNCHANGED requests
       ELSE /\ requests' = [requests EXCEPT ![r] = [kind |-> "create", step |-> "new",
                                                    id |-> id, of |-> kind, at |-> now]]
            /\ UNCHANGED answered
    /\ UNCHANGED <<now, enabled, eligible, rows, objects, made, doomed>>

Since(time, length) == {id \in Made : rows[id].created + length > time}
OfKind(ids, kind) == {id \in ids : rows[id].kind = kind}
Bytes(ids) == MapThenSumSet(LAMBDA id : rows[id].size, ids)

(* diagnosticQuotaExceeded: by installation for each kind, then by tenant. *)
QuotaExceeded(kind, time) ==
    LET today == Since(time, DayLength)
    IN  \/ kind = "auto" /\ Cardinality(OfKind(today, "auto")) >= Quotas["auto"]
        \/ /\ kind = "manual"
           /\ \/ Cardinality(OfKind(Since(time, HourLength), "manual")) >= Quotas["hour"]
              \/ Cardinality(OfKind(today, "manual")) >= Quotas["day"]
        \/ Cardinality(today) >= Quotas["tenant"]
        \/ Bytes(today) >= Quotas["bytes"]

Count(r) ==
    /\ At(r, "create", "new")
    /\ IF QuotaExceeded(requests[r].of, requests[r].at) THEN End(r) ELSE Step(r, "counted")
    /\ UNCHANGED <<now, enabled, eligible, rows, objects, made, answered, doomed>>

NewRow(r, log) ==
    [reference |-> made + 1, kind |-> requests[r].of, log |-> log, key |-> FALSE, size |-> 0,
     dropped |-> 0, hits |-> 0, created |-> requests[r].at]

(* An identifier that is there already was sent twice at a time.           *)
IsTaken(id) == id \in Made

Insert(r) ==
    /\ At(r, "create", "counted") /\ made < MaxMade
    /\ LET id == requests[r].id IN
       IF IsTaken(id) THEN Answer(id, rows[id].reference) /\ UNCHANGED <<rows, made>>
       ELSE /\ \E log \in {"awaiting", "storage_unavailable"} :
                   rows' = [rows EXCEPT ![id] = NewRow(r, log)]
            /\ made' = made + 1 /\ Answer(id, made + 1)
    /\ End(r)
    /\ UNCHANGED <<now, enabled, eligible, objects, doomed>>

-----------------------------------------------------------------------------
(* uploadDiagnosticLog.                                                    *)

(* sanitizeDiagnosticLog: blank lines do not count, malformed lines and    *)
(* those above the limit are dropped, and secrets are taken out.           *)
Redacted(line) == IF line = "secret" THEN "redacted" ELSE line
Sanitized(log) ==
    LET lines == SelectSeq(log, LAMBDA line : line # "blank")
        sound == SelectSeq(lines, LAMBDA line : line \notin {"malformed", "long"})
        kept == SubSeq(sound, 1, IF Len(sound) < MaxLines THEN Len(sound) ELSE MaxLines)
    IN  [lines |-> [i \in DOMAIN kept |-> Redacted(kept[i])],
         dropped |-> Len(lines) - Len(kept),
         hits |-> Cardinality({i \in DOMAIN kept : kept[i] = "secret"})]

Accepts(row, time) ==
    row # NoRow /\ row.log = "awaiting" /\ time <= row.created + DiagnosticLogUploadWindow

IsBusyWith(r, id) ==
    \/ requests[r].kind = "upload" /\ requests[r].id = id
    \/ requests[r].kind = "delete" /\ \E row \in requests[r].rows : row.id = id
MayTouch(id) == Overlaps \/ \A r \in Requests : ~IsBusyWith(r, id)

BeginUpload(r, id, log) ==
    /\ requests[r] = Idle /\ IsAdmitted /\ Accepts(rows[id], now) /\ MayTouch(id)
    /\ requests' = [requests EXCEPT ![r] =
           [kind |-> "upload", step |-> "read", id |-> id, reference |-> rows[id].reference,
            log |-> Sanitized(log), at |-> now]]
    /\ UNCHANGED <<now, enabled, eligible, rows, objects, made, answered, doomed>>

(* The budget of the tenant, now that the size of the log is known.        *)
CheckBudget(r) ==
    /\ At(r, "upload", "read")
    /\ IF Bytes(Since(requests[r].at, DayLength)) + Len(requests[r].log.lines) > Quotas["bytes"]
       THEN End(r) ELSE Step(r, "afforded")
    /\ UNCHANGED <<now, enabled, eligible, rows, objects, made, answered, doomed>>

(* The row that a request read, if it still waits for its log.             *)
StillAwaits(r) ==
    LET row == rows[requests[r].id]
    IN  row.reference = requests[r].reference /\ row.log = "awaiting"

PutLog(r) ==
    /\ At(r, "upload", "afforded")
    /\ LET id == requests[r].id IN
       \/ /\ objects' = [objects EXCEPT ![requests[r].reference] = requests[r].log.lines]
          /\ Step(r, "put") /\ UNCHANGED rows
       \/ /\ "put" \in Faults /\ End(r) /\ UNCHANGED objects
          /\ rows' = IF StillAwaits(r) THEN [rows EXCEPT ![id].log = "failed"] ELSE rows
    /\ UNCHANGED <<now, enabled, eligible, made, answered, doomed>>

(* What an upload does that comes second: it deletes the log that it put.  *)
MarkStored(r) ==
    /\ At(r, "upload", "put")
    /\ \/ IF StillAwaits(r)
          THEN LET log == requests[r].log IN
               /\ rows' = [rows EXCEPT ![requests[r].id] =
                      [@ EXCEPT !.log = "stored", !.key = TRUE, !.size = Len(log.lines),
                                !.dropped = log.dropped, !.hits = log.hits]]
               /\ UNCHANGED objects
          ELSE /\ objects' = [objects EXCEPT ![requests[r].reference] = None]
               /\ UNCHANGED rows
       \/ "update" \in Faults /\ UNCHANGED <<rows, objects>>
    /\ End(r)
    /\ UNCHANGED <<now, enabled, eligible, made, answered, doomed>>

-----------------------------------------------------------------------------
(* deleteDiagnosticReports: the rows are read, their logs deleted, and the *)
(* rows of those whose log is gone.                                        *)
BeginDelete(r, ids) ==
    /\ requests[r] = Idle /\ ids \cap Made # {} /\ \A id \in ids : MayTouch(id)
    /\ LET read == {[id |-> id, reference |-> rows[id].reference, key |-> rows[id].key] :
                       id \in ids \cap Made}
       IN  /\ requests' = [requests EXCEPT ![r] =
                  [kind |-> "delete", step |-> "read", rows |-> read]]
           /\ doomed' = doomed \cup {row.reference : row \in read}
    /\ UNCHANGED <<now, enabled, eligible, rows, objects, made, answered>>

(* A row whose log cannot be deleted is kept.                              *)
Removable(read, failed) == {row \in read : row \notin failed}

DeleteObjects(r) ==
    /\ At(r, "delete", "read")
    /\ LET withLog == {row \in requests[r].rows : row.key}
       IN  \E failed \in IF "delete" \in Faults THEN SUBSET withLog ELSE {{}} :
              /\ objects' = [ref \in References |->
                     IF \E row \in withLog \ failed : row.reference = ref THEN None
                     ELSE objects[ref]]
              /\ requests' = [requests EXCEPT ![r].step = "removed",
                                  ![r].rows = Removable(requests[r].rows, failed)]
    /\ UNCHANGED <<now, enabled, eligible, rows, made, answered, doomed>>

DeleteRows(r) ==
    /\ At(r, "delete", "removed")
    /\ \/ LET gone == {id \in Made : \E row \in requests[r].rows :
                            row.id = id /\ row.reference = rows[id].reference}
          IN  /\ rows' = [id \in Reports |-> IF id \in gone THEN NoRow ELSE rows[id]]
              /\ answered' = [id \in Reports |-> IF id \in gone THEN 0 ELSE answered[id]]
       \/ "rows" \in Faults /\ UNCHANGED <<rows, answered>>
    /\ End(r)
    /\ UNCHANGED <<now, enabled, eligible, objects, made, doomed>>

-----------------------------------------------------------------------------
(* What administrators see.                                                *)

(* openDiagnosticLog.                                                      *)
LogOf(row) == IF row.key /\ row.log = "stored" THEN objects[row.reference] ELSE None

(* listDiagnosticReports: the newest first, from after the last report of  *)
(* the page before.                                                        *)
IsBefore(x, y) ==
    \/ rows[x].created > rows[y].created
    \/ rows[x].created = rows[y].created /\ rows[x].reference > rows[y].reference
After(cursor) == IF cursor = None THEN Made ELSE {id \in Made : IsBefore(cursor, id)}
Page(cursor, limit) ==
    {id \in After(cursor) : Cardinality({x \in After(cursor) : IsBefore(x, id)}) < limit}

-----------------------------------------------------------------------------
Next ==
    \/ Tick \/ Switch \/ Heartbeat
    \/ \E r \in Requests :
          \/ \E id \in Reports : \/ \E kind \in {"manual", "auto"} : Submit(r, id, kind)
                                \/ \E log \in Logs : BeginUpload(r, id, log)
          \/ Count(r) \/ Insert(r)
          \/ CheckBudget(r) \/ PutLog(r) \/ MarkStored(r)
          \/ \E ids \in SUBSET Reports : BeginDelete(r, ids)
          \/ DeleteObjects(r) \/ DeleteRows(r)

Spec == Init /\ [][Next]_vars

-----------------------------------------------------------------------------
TypeOK ==
    /\ now \in 0..MaxTime /\ enabled \in BOOLEAN /\ eligible \in BOOLEAN /\ made \in 0..MaxMade
    /\ \A id \in Made :
          /\ rows[id].reference \in References /\ rows[id].kind \in {"manual", "auto"}
          /\ rows[id].log \in {"awaiting", "stored", "storage_unavailable", "failed"}
          /\ rows[id].size \in 0..MaxLines /\ rows[id].created \in 0..now
    /\ DOMAIN objects = References /\ DOMAIN requests = Requests
    /\ answered \in [Reports -> 0..MaxMade] /\ doomed \subseteq References

(* A report that says its log is stored has it, until somebody deletes the *)
(* report (diagnostics.go: the row points at the log of the other upload). *)
StoredHasItsLog ==
    \A id \in Made : rows[id].log = "stored" /\ rows[id].reference \notin doomed
        => LogOf(rows[id]) # None

(* Its row tells of the log that is there: how long it is, how much was    *)
(* dropped; and nothing that is stored has a secret in it.                 *)
RowsTellOfTheirLogs ==
    \A id \in Made : LogOf(rows[id]) # None => Len(LogOf(rows[id])) = rows[id].size
LogsAreClean ==
    \A ref \in References : objects[ref] # None =>
        \A i \in DOMAIN objects[ref] : objects[ref][i] \in {"fine", "redacted"}

(* No log is without a row that points at it, or soon will: it would stay  *)
(* for ever.                                                               *)
NothingIsForgotten ==
    \A ref \in References : objects[ref] # None =>
        \/ \E id \in Made : rows[id].reference = ref /\ rows[id].key
        \/ \E r \in Requests : requests[r].kind = "upload" /\ requests[r].reference = ref

(* A report that is sent again has the reference that it had.              *)
ReferencesStay ==
    \A id \in Made : answered[id] \in {0, rows[id].reference}

(* The quotas are exceeded by no more than the other requests under way.   *)
QuotasHold ==
    LET others == Cardinality(Requests) - 1
        today == Since(now, DayLength)
    IN  /\ Cardinality(OfKind(Since(now, HourLength), "manual")) <= Quotas["hour"] + others
        /\ Cardinality(OfKind(today, "manual")) <= Quotas["day"] + others
        /\ Cardinality(OfKind(today, "auto")) <= Quotas["auto"] + others
        /\ Cardinality(today) <= Quotas["tenant"] + others
        /\ Bytes(today) <= Quotas["bytes"] + others * MaxLines

(* Whoever turns the pages of the list sees every report, and none twice.  *)
PagesCoverTheList ==
    \A limit \in 1..2 :
        /\ \A id \in Made : id \in Page(None, limit) \/ \E y \in Made : id \in Page(y, limit)
        /\ \A y \in Made : \A id \in Page(y, limit) : IsBefore(y, id) /\ ~IsBefore(id, y)
        /\ \A y \in Made : Cardinality(Page(y, limit)) < limit =>
               Page(y, limit) = After(y)

ReportsAreRight ==
    /\ StoredHasItsLog /\ RowsTellOfTheirLogs /\ LogsAreClean /\ NothingIsForgotten
    /\ ReferencesStay /\ QuotasHold /\ PagesCoverTheList
=============================================================================
