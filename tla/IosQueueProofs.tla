--------------------------- MODULE IosQueueProofs ---------------------------
(***************************************************************************)
(* Theorems about IosQueue, for any number of jobs, Macs, reports in       *)
(* flight, uploads and reapers, and for any limit of attempts.             *)
(***************************************************************************)
EXTENDS IosQueue, FiniteSetTheorems, WellFoundedInduction, TLAPS

-----------------------------------------------------------------------------
(***************************************************************************)
(* Types                                                                   *)
(***************************************************************************)

Statuses == InFlight \cup Concluded
ObjectKey == [job : Nat, file : Files, attempt : Nat, random : Nat]
Row == [number : Numbers, delivery : Modes, status : Statuses, attempt : Nat,
        by : SUBSET Macs, file : [Files -> SUBSET ObjectKey], told : BOOLEAN, released : Nat,
        marks : SUBSET Marks, testflight : {"unknown", "processing", "final"}]

Polls == [at : {"poll"}, seen : Seq(Statuses)]
Works == [at : {"build", "deliver", "info", "report"}, job : Nat, attempt : Nat]
Stores == [at : {"store"}, mac : Macs, job : Nat, attempt : Nat, key : ObjectKey]
Checks == [at : {"checked"}, mac : Macs, job : Nat, attempt : Nat]
Queuing == [at : {"queue"}, floor : Nat, mode : Modes]
Switching == [at : {"switch"}, version : Nat]
Found == [job : Nat, key : SUBSET ObjectKey, marks : SUBSET Marks]

RowsTyped == rows \in Seq(Row)
MacsTyped == mac \in [Macs -> {Idle} \cup Polls \cup Works]
CallsTyped == call \in [Calls -> {Idle} \cup Stores \cup Checks]
AdminsTyped == admin \in [Admins -> {Idle} \cup Queuing \cup Switching]
CleanersTyped == cleaner \in [Cleaners -> SUBSET Found]
RestTyped ==
    /\ releases \subseteq Numbers /\ apple \subseteq Numbers
    /\ uploads \in Nat
    /\ mode \in [value : Modes, version : Nat]
Typed == RowsTyped /\ MacsTyped /\ CallsTyped /\ AdminsTyped /\ CleanersTyped /\ RestTyped

(* Whoever works on a job works on one that there is.                      *)
JobsExist ==
    /\ \A m \in Macs : Working(m) => /\ mac[m].job \in DOMAIN rows
                                     /\ mac[m].attempt > 0
                                     /\ mac[m].attempt <= rows[mac[m].job].attempt
    /\ \A c \in Calls : call[c].at \in {"store", "checked"} => call[c].job \in DOMAIN rows
    /\ \A k \in Cleaners : \A d \in cleaner[k] : d.job \in DOMAIN rows

(* Attempts are counted up to the limit, and a job that waits is below it. *)
AttemptsAreBounded ==
    \A j \in DOMAIN rows :
        /\ rows[j].attempt <= MaxAttempts /\ rows[j].released <= MaxAttempts
        /\ rows[j].status = "queued" => rows[j].attempt < MaxAttempts
        /\ rows[j].status = "claimed" => rows[j].attempt > 0
        /\ rows[j].told => rows[j].attempt > 0

SwitchesAreBounded ==
    /\ mode.version <= MaxSwitches
    /\ \A a \in Admins : admin[a].at = "switch" => admin[a].version < MaxSwitches

(***************************************************************************)
(* Objects                                                                 *)
(***************************************************************************)

(* What a row references is stored, was stored for it, and has a key that  *)
(* was handed out.                                                         *)
FilesAreStored ==
    \A j \in DOMAIN rows, f \in Files : \A k \in rows[j].file[f] :
        k \in objects /\ k.job = j /\ k.file = f /\ k.random < uploads

(* An upload that is not recorded yet has a key of its own.                *)
Storing(c) == call[c].at = "store"
UploadsAreAlone ==
    /\ \A c \in Calls : Storing(c) =>
          /\ call[c].key.random < uploads /\ call[c].key \in objects
          /\ call[c].key.job = call[c].job /\ call[c].key.attempt = call[c].attempt
          /\ \A j \in DOMAIN rows, f \in Files : call[c].key \notin rows[j].file[f]
    /\ \A c, d \in Calls : Storing(c) /\ Storing(d) /\ call[c].key = call[d].key => c = d

Backed == FilesAreStored /\ UploadsAreAlone /\ PackagesAreKept

(***************************************************************************)
(* The order of the queue                                                  *)
(***************************************************************************)

(* What a claim saw concluded is concluded.                                *)
SnapshotsHold ==
    \A m \in Macs : mac[m].at = "poll" =>
        \A e \in DOMAIN mac[m].seen :
            e \in DOMAIN rows /\ (mac[m].seen[e] \in Concluded => rows[e].status \in Concluded)

(* Nothing was attempted before all that was queued earlier was concluded. *)
EarlierAreConcluded ==
    \A i, j \in DOMAIN rows : i < j /\ rows[j].attempt > 0 => rows[i].status \in Concluded

InOrder == SnapshotsHold /\ EarlierAreConcluded

(***************************************************************************)
(* Numbers and the mode, with one administrator                            *)
(***************************************************************************)

NumbersRise ==
    \A i, j \in Unfinished : i < j => rows[i].number < rows[j].number
NumbersAreAbove ==
    \A j \in Unfinished : \A n \in releases : n < rows[j].number
FloorsHold ==
    \A a \in Admins : admin[a].at = "queue" =>
        /\ \A n \in releases : n <= admin[a].floor
        /\ \A j \in Unfinished : rows[j].number <= admin[a].floor
NumbersAreRight == NumbersRise /\ NumbersAreAbove /\ FloorsHold

ModesHold ==
    \A a \in Admins :
        /\ admin[a].at = "queue" => admin[a].mode = mode.value
        /\ admin[a].at = "switch" => Unfinished = {}
ModeIsRight == JobsFollowTheMode /\ ModesHold

(***************************************************************************)
(* Reapers                                                                 *)
(***************************************************************************)

(* A reaper has a row once, and no other one saves what Apple says of it.  *)
WatchedAreOpen ==
    \A k \in Cleaners : \A d \in cleaner[k] :
        /\ rows[d.job].delivery = "testflight" => rows[d.job].testflight # "final"
        /\ \A e \in cleaner[k] : e.job = d.job => e = d

IInv ==
    /\ Typed /\ JobsExist /\ AttemptsAreBounded /\ SwitchesAreBounded /\ Backed
    /\ ~SlowClaims => InOrder
OneAdmin == \A a, b \in Admins : a = b
OneCleaner == \A k, l \in Cleaners : k = l
-----------------------------------------------------------------------------
(***************************************************************************)
(* Rows                                                                    *)
(***************************************************************************)

(* What a row may become, beside being claimed.                            *)
Goes(r, s) ==
    /\ s.number = r.number /\ s.delivery = r.delivery /\ s.attempt = r.attempt
    /\ \/ s.released = r.released
       \/ r.status = "claimed" /\ s.released = r.attempt
    /\ r.status \in Concluded => s.status = r.status /\ s.released = r.released
    /\ s.status = "queued" => r.status = "queued" \/ r.attempt < MaxAttempts
    /\ s.status = "claimed" => r.status = "claimed"
    /\ s.status = "succeeded" => r.status \in {"claimed", "succeeded"}
    /\ s.told => r.told \/ r.attempt > 0

Claims(r, s) ==
    /\ r.status = "queued" /\ s.status = "claimed" /\ s.attempt = r.attempt + 1
    /\ s.number = r.number /\ s.delivery = r.delivery /\ s.released = r.released

(* One row becomes another, and the others stay.                           *)
Becomes(j, s) ==
    /\ j \in DOMAIN rows /\ s \in Row
    /\ DOMAIN rows' = DOMAIN rows
    /\ rows'[j] = s
    /\ \A i \in DOMAIN rows : i # j => rows'[i] = rows[i]

LEMMA RowOf == ASSUME RowsTyped, NEW j \in DOMAIN rows PROVE rows[j] \in Row /\ j \in Nat
  BY DEF RowsTyped

LEMMA NoFilesTyped == NoFiles \in [Files -> SUBSET ObjectKey] /\ \A f \in Files : NoFiles[f] = {}
  BY DEF NoFiles

LEMMA RowReplaced ==
    ASSUME RowsTyped, NEW j \in DOMAIN rows, NEW s \in Row, rows' = [rows EXCEPT ![j] = s]
    PROVE  RowsTyped' /\ Becomes(j, s)
  BY DEF RowsTyped, Becomes

LEMMA StatusAndFiles ==
    ASSUME NEW r \in Row, NEW status \in Statuses
    PROVE  LET s == [[r EXCEPT !.status = status] EXCEPT !.file = NoFiles] IN
           /\ s \in Row /\ s.status = status /\ s.file = NoFiles
           /\ s.number = r.number /\ s.delivery = r.delivery /\ s.attempt = r.attempt
           /\ s.released = r.released /\ s.told = r.told /\ s.by = r.by
           /\ s.marks = r.marks /\ s.testflight = r.testflight
  BY NoFilesTyped DEF Row

LEMMA ByOnly ==
    ASSUME NEW r \in Row, NEW by \in SUBSET Macs
    PROVE  LET s == [r EXCEPT !.by = by] IN
           /\ s \in Row /\ s.by = by /\ s.status = r.status /\ s.file = r.file
           /\ s.number = r.number /\ s.delivery = r.delivery /\ s.attempt = r.attempt
           /\ s.released = r.released /\ s.told = r.told
           /\ s.marks = r.marks /\ s.testflight = r.testflight
  BY DEF Row

LEMMA AttemptOnly ==
    ASSUME NEW r \in Row, NEW n \in Nat
    PROVE  LET s == [r EXCEPT !.attempt = n] IN
           /\ s \in Row /\ s.attempt = n /\ s.by = r.by /\ s.status = r.status /\ s.file = r.file
           /\ s.number = r.number /\ s.delivery = r.delivery
           /\ s.released = r.released /\ s.told = r.told
           /\ s.marks = r.marks /\ s.testflight = r.testflight
  BY DEF Row

(* What each action makes of its row.                                      *)
LEMMA CanceledRow ==
    ASSUME RowsTyped, NEW j \in DOMAIN rows, Cancel(j)
    PROVE  /\ RowsTyped' /\ Becomes(j, rows'[j]) /\ Goes(rows[j], rows'[j])
           /\ rows'[j].status = "canceled" /\ rows'[j].file = NoFiles
           /\ rows'[j].marks = rows[j].marks /\ rows'[j].testflight = rows[j].testflight
<1> DEFINE s == [[rows[j] EXCEPT !.status = "canceled"] EXCEPT !.file = NoFiles]
<1>1. rows[j] \in Row
  BY RowOf
<1>2. rows' = [rows EXCEPT ![j] = s]
  BY <1>1 DEF Cancel, RowsTyped, Row
<1>3. /\ s \in Row /\ s.status = "canceled" /\ s.file = NoFiles
      /\ s.number = rows[j].number /\ s.delivery = rows[j].delivery /\ s.attempt = rows[j].attempt
      /\ s.released = rows[j].released /\ s.told = rows[j].told
      /\ s.marks = rows[j].marks /\ s.testflight = rows[j].testflight
  <2>1. "canceled" \in Statuses
    BY DEF Statuses, Concluded
  <2> QED
    BY <1>1, <2>1, StatusAndFiles
<1>4. rows[j].status \in InFlight
  BY DEF Cancel
<1> HIDE DEF s
<1>5. RowsTyped' /\ Becomes(j, s)
  BY <1>2, <1>3, RowReplaced
<1>6. rows'[j] = s
  BY <1>5 DEF Becomes
<1> QED
  BY <1>3, <1>4, <1>5, <1>6 DEF Goes, InFlight, Concluded
LEMMA FailedRow ==
    ASSUME RowsTyped, NEW m \in Macs, NEW j \in DOMAIN rows, j = mac[m].job, Fail(m)
    PROVE  /\ RowsTyped' /\ Becomes(j, rows'[j]) /\ Goes(rows[j], rows'[j])
           /\ rows[j].status = "claimed"
           /\ rows'[j].status = "failed" /\ rows'[j].file = NoFiles
           /\ rows'[j].marks = rows[j].marks /\ rows'[j].testflight = rows[j].testflight
<1> DEFINE s == [[rows[j] EXCEPT !.status = "failed"] EXCEPT !.file = NoFiles]
<1>1. rows[j] \in Row
  BY RowOf
<1>2. rows' = [rows EXCEPT ![j] = s]
  BY <1>1 DEF Fail, RowsTyped, Row
<1>3. /\ s \in Row /\ s.status = "failed" /\ s.file = NoFiles
      /\ s.number = rows[j].number /\ s.delivery = rows[j].delivery /\ s.attempt = rows[j].attempt
      /\ s.released = rows[j].released /\ s.told = rows[j].told
      /\ s.marks = rows[j].marks /\ s.testflight = rows[j].testflight
  <2> DEFINE r == rows[j]
  <2>1. "failed" \in Statuses /\ r \in Row
    BY <1>1 DEF Statuses, Concluded
  <2> HIDE DEF r
  <2>2. LET t == [[r EXCEPT !.status = "failed"] EXCEPT !.file = NoFiles] IN
        /\ t \in Row /\ t.status = "failed" /\ t.file = NoFiles
        /\ t.number = r.number /\ t.delivery = r.delivery /\ t.attempt = r.attempt
        /\ t.released = r.released /\ t.told = r.told
        /\ t.marks = r.marks /\ t.testflight = r.testflight
    BY <2>1, StatusAndFiles
  <2> QED
    BY <2>2 DEF r
<1>4. rows[j].status = "claimed"
  BY DEF Fail, Current
<1> HIDE DEF s
<1>5. RowsTyped' /\ Becomes(j, s)
  BY <1>2, <1>3, RowReplaced
<1>6. rows'[j] = s
  BY <1>5 DEF Becomes
<1> QED
  BY <1>3, <1>4, <1>5, <1>6 DEF Goes, InFlight, Concluded

LEMMA GivenUpRow ==
    ASSUME RowsTyped, NEW j \in DOMAIN rows, rows[j].status = "claimed", GiveUp(j)
    PROVE  /\ RowsTyped' /\ Becomes(j, rows'[j]) /\ Goes(rows[j], rows'[j])
           /\ rows'[j].status \in {"queued", "failed"} /\ rows'[j].file = NoFiles
           /\ rows'[j].marks = rows[j].marks /\ rows'[j].testflight = rows[j].testflight
<1> DEFINE status == IF rows[j].attempt < MaxAttempts THEN "queued" ELSE "failed"
           r == [rows[j] EXCEPT !.by = {}]
           s == [[r EXCEPT !.status = status] EXCEPT !.file = NoFiles]
<1>1. rows[j] \in Row
  BY RowOf
<1>2. rows' = [rows EXCEPT ![j] = s]
  BY <1>1 DEF GiveUp, RowsTyped, Row
<1>3. /\ r \in Row /\ r.number = rows[j].number /\ r.delivery = rows[j].delivery
      /\ r.attempt = rows[j].attempt /\ r.released = rows[j].released /\ r.told = rows[j].told
      /\ r.marks = rows[j].marks /\ r.testflight = rows[j].testflight
  BY <1>1, ByOnly
<1>4. /\ status \in {"queued", "failed"} /\ status \in Statuses
      /\ status = "queued" => rows[j].attempt < MaxAttempts
  BY DEF Statuses, InFlight, Concluded
<1> HIDE DEF r, status
<1>5. /\ s \in Row /\ s.status = status /\ s.file = NoFiles
      /\ s.number = r.number /\ s.delivery = r.delivery /\ s.attempt = r.attempt
      /\ s.released = r.released /\ s.told = r.told
      /\ s.marks = r.marks /\ s.testflight = r.testflight
  <2>1. /\ s \in Row /\ s.status = status /\ s.file = NoFiles
        /\ s.number = r.number /\ s.delivery = r.delivery /\ s.attempt = r.attempt
        /\ s.released = r.released /\ s.told = r.told
        /\ s.marks = r.marks /\ s.testflight = r.testflight
    <3>1. r \in Row /\ status \in Statuses
      BY <1>3, <1>4
    <3> QED
      BY <3>1, StatusAndFiles
  <2> QED
    BY <2>1
<1> HIDE DEF s
<1>6. RowsTyped' /\ Becomes(j, s)
  BY <1>2, <1>5, RowReplaced
<1>7. rows'[j] = s
  BY <1>6 DEF Becomes
<1> QED
  BY <1>3, <1>4, <1>5, <1>6, <1>7 DEF Goes, InFlight, Concluded

(* The row that a claim takes.                                             *)
ClaimedRow(j, m) ==
    rows' = [rows EXCEPT ![j].status = "claimed", ![j].by = {m}, ![j].attempt = @ + 1,
                         ![j].file = NoFiles]

LEMMA RowIsClaimed ==
    ASSUME RowsTyped, NEW j \in DOMAIN rows, NEW m \in Macs, rows[j].status = "queued",
           ClaimedRow(j, m)
    PROVE  /\ RowsTyped' /\ Becomes(j, rows'[j]) /\ Claims(rows[j], rows'[j])
           /\ rows'[j].file = NoFiles /\ rows'[j].told = rows[j].told
           /\ rows'[j].marks = rows[j].marks /\ rows'[j].testflight = rows[j].testflight
<1> DEFINE n == rows[j].attempt + 1
           b == [rows[j] EXCEPT !.by = {m}]
           r == [b EXCEPT !.attempt = n]
           s == [[r EXCEPT !.status = "claimed"] EXCEPT !.file = NoFiles]
<1>1. rows[j] \in Row /\ n \in Nat
  BY RowOf DEF Row
<1>2. rows' = [rows EXCEPT ![j] = s]
  BY <1>1 DEF ClaimedRow, RowsTyped, Row
<1>3. /\ b \in Row /\ b.number = rows[j].number /\ b.delivery = rows[j].delivery
      /\ b.released = rows[j].released /\ b.told = rows[j].told
      /\ b.marks = rows[j].marks /\ b.testflight = rows[j].testflight
  <2>1. {m} \in SUBSET Macs
    OBVIOUS
  <2> QED
    BY <1>1, <2>1, ByOnly
<1> HIDE DEF b
<1>4. /\ r \in Row /\ r.attempt = n /\ r.number = b.number /\ r.delivery = b.delivery
      /\ r.released = b.released /\ r.told = b.told
      /\ r.marks = b.marks /\ r.testflight = b.testflight
  <2> HIDE DEF n
  <2> QED
    BY <1>1, <1>3, AttemptOnly
<1> HIDE DEF r
<1>5. /\ s \in Row /\ s.status = "claimed" /\ s.file = NoFiles
      /\ s.number = r.number /\ s.delivery = r.delivery /\ s.attempt = r.attempt
      /\ s.released = r.released /\ s.told = r.told
      /\ s.marks = r.marks /\ s.testflight = r.testflight
  <2>1. "claimed" \in Statuses /\ r \in Row
    BY <1>4 DEF Statuses, InFlight
  <2>2. /\ s \in Row /\ s.status = "claimed" /\ s.file = NoFiles
        /\ s.number = r.number /\ s.delivery = r.delivery /\ s.attempt = r.attempt
        /\ s.released = r.released /\ s.told = r.told
        /\ s.marks = r.marks /\ s.testflight = r.testflight
    BY <2>1, StatusAndFiles
  <2> QED
    BY <2>2
<1> HIDE DEF s
<1>6. RowsTyped' /\ Becomes(j, s)
  BY <1>2, <1>5, RowReplaced
<1>7. rows'[j] = s
  BY <1>6 DEF Becomes
<1> QED
  BY <1>3, <1>4, <1>5, <1>6, <1>7 DEF Claims

LEMMA ToldRow ==
    ASSUME RowsTyped, NEW j \in DOMAIN rows, rows[j].attempt > 0,
           rows' = [rows EXCEPT ![j].told = TRUE]
    PROVE  /\ RowsTyped' /\ Becomes(j, rows'[j]) /\ Goes(rows[j], rows'[j])
           /\ rows'[j].status = rows[j].status /\ rows'[j].file = rows[j].file
           /\ rows'[j].marks = rows[j].marks /\ rows'[j].testflight = rows[j].testflight
           /\ rows'[j].released = rows[j].released
<1> DEFINE s == [rows[j] EXCEPT !.told = TRUE]
<1>1. rows[j] \in Row
  BY RowOf
<1>2. rows' = [rows EXCEPT ![j] = s]
  BY <1>1 DEF RowsTyped, Row
<1>3. /\ s \in Row /\ s.status = rows[j].status /\ s.file = rows[j].file
      /\ s.number = rows[j].number /\ s.delivery = rows[j].delivery /\ s.attempt = rows[j].attempt
      /\ s.released = rows[j].released
      /\ s.marks = rows[j].marks /\ s.testflight = rows[j].testflight
  BY <1>1 DEF Row
<1> HIDE DEF s
<1>5. RowsTyped' /\ Becomes(j, s)
  BY <1>2, <1>3, RowReplaced
<1>6. rows'[j] = s
  BY <1>5 DEF Becomes
<1> QED
  BY <1>3, <1>5, <1>6 DEF Goes

LEMMA RecordedRow ==
    ASSUME RowsTyped, NEW j \in DOMAIN rows, NEW k \in ObjectKey,
           rows' = [rows EXCEPT ![j].file[k.file] = {k}]
    PROVE  /\ RowsTyped' /\ Becomes(j, rows'[j]) /\ Goes(rows[j], rows'[j])
           /\ rows'[j].status = rows[j].status
           /\ rows'[j].file[k.file] = {k}
           /\ \A f \in Files : f # k.file => rows'[j].file[f] = rows[j].file[f]
           /\ rows'[j].marks = rows[j].marks /\ rows'[j].testflight = rows[j].testflight
           /\ rows'[j].released = rows[j].released
<1> DEFINE files == [rows[j].file EXCEPT ![k.file] = {k}]
           s == [rows[j] EXCEPT !.file = files]
<1>1. rows[j] \in Row /\ rows[j].file \in [Files -> SUBSET ObjectKey] /\ k.file \in Files
  BY RowOf DEF Row, ObjectKey
<1>2. rows' = [rows EXCEPT ![j] = s]
  BY <1>1 DEF RowsTyped, Row
<1>3. /\ files \in [Files -> SUBSET ObjectKey] /\ files[k.file] = {k}
      /\ \A f \in Files : f # k.file => files[f] = rows[j].file[f]
  BY <1>1
<1> HIDE DEF files
<1>4. /\ s \in Row /\ s.status = rows[j].status /\ s.file = files
      /\ s.number = rows[j].number /\ s.delivery = rows[j].delivery /\ s.attempt = rows[j].attempt
      /\ s.released = rows[j].released /\ s.told = rows[j].told
      /\ s.marks = rows[j].marks /\ s.testflight = rows[j].testflight
  BY <1>1, <1>3 DEF Row
<1> HIDE DEF s
<1>5. RowsTyped' /\ Becomes(j, s)
  BY <1>2, <1>4, RowReplaced
<1>6. rows'[j] = s
  BY <1>5 DEF Becomes
<1> QED
  BY <1>3, <1>4, <1>5, <1>6 DEF Goes

LEMMA SucceededRow ==
    ASSUME RowsTyped, NEW j \in DOMAIN rows, rows[j].status = "claimed",
           rows' = [rows EXCEPT ![j].status = "succeeded", ![j].released = rows[j].attempt]
    PROVE  /\ RowsTyped' /\ Becomes(j, rows'[j]) /\ Goes(rows[j], rows'[j])
           /\ rows'[j].status = "succeeded" /\ rows'[j].released = rows[j].attempt
           /\ rows'[j].file = rows[j].file
           /\ rows'[j].marks = rows[j].marks /\ rows'[j].testflight = rows[j].testflight
<1> DEFINE n == rows[j].attempt
           s == [[rows[j] EXCEPT !.status = "succeeded"] EXCEPT !.released = n]
<1>1. rows[j] \in Row /\ n \in Nat
  BY RowOf DEF Row
<1>2. rows' = [rows EXCEPT ![j] = s]
  BY <1>1 DEF RowsTyped, Row
<1>3. /\ s \in Row /\ s.status = "succeeded" /\ s.file = rows[j].file /\ s.released = n
      /\ s.number = rows[j].number /\ s.delivery = rows[j].delivery /\ s.attempt = rows[j].attempt
      /\ s.told = rows[j].told
      /\ s.marks = rows[j].marks /\ s.testflight = rows[j].testflight
  BY <1>1 DEF Row, Statuses, Concluded
<1> HIDE DEF s
<1>5. RowsTyped' /\ Becomes(j, s)
  BY <1>2, <1>3, RowReplaced
<1>6. rows'[j] = s
  BY <1>5 DEF Becomes
<1> QED
  BY <1>3, <1>5, <1>6 DEF Goes, Concluded

LEMMA MarkedRow ==
    ASSUME RowsTyped, NEW j \in DOMAIN rows, NEW marks \in SUBSET Marks,
           rows' = [rows EXCEPT ![j].marks = marks]
    PROVE  /\ RowsTyped' /\ Becomes(j, rows'[j]) /\ Goes(rows[j], rows'[j])
           /\ rows'[j].status = rows[j].status /\ rows'[j].file = rows[j].file
           /\ rows'[j].marks = marks /\ rows'[j].testflight = rows[j].testflight
           /\ rows'[j].released = rows[j].released
<1> DEFINE s == [rows[j] EXCEPT !.marks = marks]
<1>1. rows[j] \in Row
  BY RowOf
<1>2. rows' = [rows EXCEPT ![j] = s]
  BY <1>1 DEF RowsTyped, Row
<1>3. /\ s \in Row /\ s.status = rows[j].status /\ s.file = rows[j].file
      /\ s.number = rows[j].number /\ s.delivery = rows[j].delivery /\ s.attempt = rows[j].attempt
      /\ s.released = rows[j].released /\ s.told = rows[j].told
      /\ s.marks = marks /\ s.testflight = rows[j].testflight
  BY <1>1 DEF Row
<1> HIDE DEF s
<1>5. RowsTyped' /\ Becomes(j, s)
  BY <1>2, <1>3, RowReplaced
<1>6. rows'[j] = s
  BY <1>5 DEF Becomes
<1> QED
  BY <1>3, <1>5, <1>6 DEF Goes

LEMMA PurgedRow ==
    ASSUME RowsTyped, NEW j \in DOMAIN rows, NEW marks \in SUBSET Marks,
           rows' = [rows EXCEPT ![j].marks = marks, ![j].file = NoFiles]
    PROVE  /\ RowsTyped' /\ Becomes(j, rows'[j]) /\ Goes(rows[j], rows'[j])
           /\ rows'[j].status = rows[j].status /\ rows'[j].file = NoFiles
           /\ rows'[j].marks = marks /\ rows'[j].testflight = rows[j].testflight
           /\ rows'[j].released = rows[j].released
<1> DEFINE s == [[rows[j] EXCEPT !.marks = marks] EXCEPT !.file = NoFiles]
<1>1. rows[j] \in Row
  BY RowOf
<1>2. rows' = [rows EXCEPT ![j] = s]
  BY <1>1 DEF RowsTyped, Row
<1>3. /\ s \in Row /\ s.status = rows[j].status /\ s.file = NoFiles
      /\ s.number = rows[j].number /\ s.delivery = rows[j].delivery /\ s.attempt = rows[j].attempt
      /\ s.released = rows[j].released /\ s.told = rows[j].told
      /\ s.marks = marks /\ s.testflight = rows[j].testflight
  BY <1>1, NoFilesTyped DEF Row
<1> HIDE DEF s
<1>5. RowsTyped' /\ Becomes(j, s)
  BY <1>2, <1>3, RowReplaced
<1>6. rows'[j] = s
  BY <1>5 DEF Becomes
<1> QED
  BY <1>3, <1>5, <1>6 DEF Goes

LEMMA WatchedRow ==
    ASSUME RowsTyped, NEW j \in DOMAIN rows, NEW state \in {"processing", "final"},
           rows' = [rows EXCEPT ![j].testflight = state]
    PROVE  /\ RowsTyped' /\ Becomes(j, rows'[j]) /\ Goes(rows[j], rows'[j])
           /\ rows'[j].status = rows[j].status /\ rows'[j].file = rows[j].file
           /\ rows'[j].marks = rows[j].marks /\ rows'[j].testflight = state
           /\ rows'[j].released = rows[j].released
<1> DEFINE s == [rows[j] EXCEPT !.testflight = state]
<1>1. rows[j] \in Row
  BY RowOf
<1>2. rows' = [rows EXCEPT ![j] = s]
  BY <1>1 DEF RowsTyped, Row
<1>3. /\ s \in Row /\ s.status = rows[j].status /\ s.file = rows[j].file
      /\ s.number = rows[j].number /\ s.delivery = rows[j].delivery /\ s.attempt = rows[j].attempt
      /\ s.released = rows[j].released /\ s.told = rows[j].told
      /\ s.marks = rows[j].marks /\ s.testflight = state
  BY <1>1 DEF Row
<1> HIDE DEF s
<1>5. RowsTyped' /\ Becomes(j, s)
  BY <1>2, <1>3, RowReplaced
<1>6. rows'[j] = s
  BY <1>5 DEF Becomes
<1> QED
  BY <1>3, <1>5, <1>6 DEF Goes
-----------------------------------------------------------------------------
(***************************************************************************)
(* What each action leaves alone                                           *)
(***************************************************************************)

LEMMA NextSteps ==
    ASSUME [Next]_vars
    PROVE  \/ UNCHANGED <<rows, releases, apple, objects, uploads, mode, mac, call, admin, cleaner>>
           \/ \E a \in Admins : ReadToQueue(a) \/ Queue(a) \/ ReadToSwitch(a) \/ Switch(a)
           \/ ReleaseByHand
           \/ \E j \in DOMAIN rows : Cancel(j) \/ Reap(j) \/ Mark(j)
           \/ \E m \in Macs : \/ Poll(m) \/ Claim(m) \/ PollAgain(m) \/ HandBackClaim(m) \/ Built(m)
                              \/ UploadToApple(m) \/ SkipInfo(m) \/ Abort(m) \/ Fail(m)
           \/ \E m \in Macs, c \in Calls : Store(m, c) \/ CheckReport(m, c)
           \/ \E c \in Calls : Record(c) \/ Complete(c)
           \/ \E k \in Cleaners : Look(k)
           \/ \E k \in Cleaners : \E d \in cleaner[k] : Purge(k, d) \/ SaveTestFlight(k, d)
  BY DEF Next, vars

LEMMA AdminFrame ==
    /\ \A a \in Admins : ReadToQueue(a) \/ ReadToSwitch(a) =>
          UNCHANGED <<rows, releases, apple, objects, uploads, mode, mac, call, cleaner>>
    /\ \A a \in Admins : Queue(a) =>
          /\ UNCHANGED <<releases, apple, objects, uploads, mode, mac, call, cleaner>>
          /\ admin' = [admin EXCEPT ![a] = Idle]
    /\ \A a \in Admins : Switch(a) =>
          /\ UNCHANGED <<rows, releases, apple, objects, uploads, mac, call, cleaner>>
          /\ admin' = [admin EXCEPT ![a] = Idle]
          /\ \/ UNCHANGED mode
             \/ \E v \in Modes : mode' = [value |-> v, version |-> mode.version + 1]
<1>1. \A a \in Admins : ReadToQueue(a) \/ ReadToSwitch(a) =>
          UNCHANGED <<rows, releases, apple, objects, uploads, mode, mac, call, cleaner>>
  BY DEF ReadToQueue, ReadToSwitch
<1>2. \A a \in Admins : Queue(a) =>
          /\ UNCHANGED <<releases, apple, objects, uploads, mode, mac, call, cleaner>>
          /\ admin' = [admin EXCEPT ![a] = Idle]
  BY DEF Queue
<1>3. \A a \in Admins : Switch(a) =>
          /\ UNCHANGED <<rows, releases, apple, objects, uploads, mac, call, cleaner>>
          /\ admin' = [admin EXCEPT ![a] = Idle]
          /\ \/ UNCHANGED mode
             \/ \E v \in Modes : mode' = [value |-> v, version |-> mode.version + 1]
  BY DEF Switch
<1> QED
  BY <1>1, <1>2, <1>3

LEMMA RowFrame ==
    /\ ReleaseByHand =>
          /\ UNCHANGED <<rows, apple, objects, uploads, mode, mac, call, admin, cleaner>>
          /\ \E n \in Numbers : releases' = releases \cup {n}
    /\ \A j \in DOMAIN rows : Cancel(j) \/ Reap(j) \/ Mark(j) =>
          UNCHANGED <<releases, apple, uploads, mode, mac, call, admin, cleaner>>
<1>1. ReleaseByHand =>
          /\ UNCHANGED <<rows, apple, objects, uploads, mode, mac, call, admin, cleaner>>
          /\ \E n \in Numbers : releases' = releases \cup {n}
  BY DEF ReleaseByHand
<1>2. \A j \in DOMAIN rows : Cancel(j) \/ Reap(j) \/ Mark(j) =>
          UNCHANGED <<releases, apple, uploads, mode, mac, call, admin, cleaner>>
  BY DEF Cancel, Reap, Mark
<1> QED
  BY <1>1, <1>2

LEMMA MacFrame ==
    /\ \A m \in Macs : Poll(m) \/ Built(m) \/ SkipInfo(m) =>
          UNCHANGED <<rows, releases, apple, objects, uploads, mode, call, admin, cleaner>>
    /\ \A m \in Macs : PollAgain(m) \/ Abort(m) =>
          /\ UNCHANGED <<rows, releases, apple, objects, uploads, mode, call, admin, cleaner>>
          /\ mac' = [mac EXCEPT ![m] = Idle]
    /\ \A m \in Macs : Fail(m) =>
          /\ UNCHANGED <<releases, apple, uploads, mode, call, admin, cleaner>>
          /\ mac' = [mac EXCEPT ![m] = Idle]
    /\ \A m \in Macs : Claim(m) => UNCHANGED <<releases, apple, uploads, mode, call, admin, cleaner>>
    /\ \A m \in Macs : HandBackClaim(m) =>
          UNCHANGED <<releases, apple, uploads, mode, mac, call, admin, cleaner>>
    /\ \A m \in Macs : UploadToApple(m) =>
          UNCHANGED <<releases, objects, uploads, mode, call, admin, cleaner>>
<1>1. \A m \in Macs : Poll(m) \/ Built(m) \/ SkipInfo(m) =>
          UNCHANGED <<rows, releases, apple, objects, uploads, mode, call, admin, cleaner>>
  BY DEF Poll, Built, SkipInfo
<1>2. \A m \in Macs : PollAgain(m) \/ Abort(m) =>
          /\ UNCHANGED <<rows, releases, apple, objects, uploads, mode, call, admin, cleaner>>
          /\ mac' = [mac EXCEPT ![m] = Idle]
  BY DEF PollAgain, Abort
<1>3. \A m \in Macs : Fail(m) =>
          /\ UNCHANGED <<releases, apple, uploads, mode, call, admin, cleaner>>
          /\ mac' = [mac EXCEPT ![m] = Idle]
  BY DEF Fail
<1>4. \A m \in Macs : Claim(m) => UNCHANGED <<releases, apple, uploads, mode, call, admin, cleaner>>
  BY DEF Claim
<1>5. \A m \in Macs : HandBackClaim(m) =>
          UNCHANGED <<releases, apple, uploads, mode, mac, call, admin, cleaner>>
  BY DEF HandBackClaim
<1>6. \A m \in Macs : UploadToApple(m) =>
          UNCHANGED <<releases, objects, uploads, mode, call, admin, cleaner>>
  BY DEF UploadToApple
<1> QED
  BY <1>1, <1>2, <1>3, <1>4, <1>5, <1>6

LEMMA CallFrame ==
    /\ \A m \in Macs, c \in Calls : Store(m, c) =>
          /\ UNCHANGED <<rows, releases, apple, mode, mac, admin, cleaner>>
          /\ uploads' = uploads + 1
    /\ \A m \in Macs, c \in Calls : CheckReport(m, c) =>
          /\ UNCHANGED <<rows, releases, apple, objects, uploads, mode, admin, cleaner>>
          /\ UNCHANGED mac \/ mac' = [mac EXCEPT ![m] = Idle]
    /\ \A c \in Calls : Record(c) =>
          /\ UNCHANGED <<releases, apple, uploads, mode, admin, cleaner>>
          /\ call' = [call EXCEPT ![c] = Idle]
    /\ \A c \in Calls : Complete(c) =>
          /\ UNCHANGED <<apple, objects, uploads, mode, admin, cleaner>>
          /\ call' = [call EXCEPT ![c] = Idle]
<1>1. \A m \in Macs, c \in Calls : Store(m, c) =>
          /\ UNCHANGED <<rows, releases, apple, mode, mac, admin, cleaner>>
          /\ uploads' = uploads + 1
  BY DEF Store
<1>2. \A m \in Macs, c \in Calls : CheckReport(m, c) =>
          /\ UNCHANGED <<rows, releases, apple, objects, uploads, mode, admin, cleaner>>
          /\ UNCHANGED mac \/ mac' = [mac EXCEPT ![m] = Idle]
  BY DEF CheckReport
<1>3. \A c \in Calls : Record(c) =>
          /\ UNCHANGED <<releases, apple, uploads, mode, admin, cleaner>>
          /\ call' = [call EXCEPT ![c] = Idle]
  BY DEF Record
<1>4. \A c \in Calls : Complete(c) =>
          /\ UNCHANGED <<apple, objects, uploads, mode, admin, cleaner>>
          /\ call' = [call EXCEPT ![c] = Idle]
  BY DEF Complete
<1> QED
  BY <1>1, <1>2, <1>3, <1>4

LEMMA CleanerFrame ==
    /\ \A k \in Cleaners : Look(k) =>
          UNCHANGED <<rows, releases, apple, objects, uploads, mode, mac, call, admin>>
    /\ \A k \in Cleaners : \A d \in cleaner[k] : Purge(k, d) =>
          /\ UNCHANGED <<releases, apple, uploads, mode, mac, call, admin>>
          /\ cleaner' = [cleaner EXCEPT ![k] = @ \ {d}]
    /\ \A k \in Cleaners : \A d \in cleaner[k] : SaveTestFlight(k, d) =>
          /\ UNCHANGED <<releases, apple, objects, uploads, mode, mac, call, admin>>
          /\ cleaner' = [cleaner EXCEPT ![k] = @ \ {d}]
<1>1. \A k \in Cleaners : Look(k) =>
          UNCHANGED <<rows, releases, apple, objects, uploads, mode, mac, call, admin>>
  BY DEF Look
<1>2. \A k \in Cleaners : \A d \in cleaner[k] : Purge(k, d) =>
          /\ UNCHANGED <<releases, apple, uploads, mode, mac, call, admin>>
          /\ cleaner' = [cleaner EXCEPT ![k] = @ \ {d}]
  BY DEF Purge
<1>3. \A k \in Cleaners : \A d \in cleaner[k] : SaveTestFlight(k, d) =>
          /\ UNCHANGED <<releases, apple, objects, uploads, mode, mac, call, admin>>
          /\ cleaner' = [cleaner EXCEPT ![k] = @ \ {d}]
  BY DEF SaveTestFlight
<1> QED
  BY <1>1, <1>2, <1>3
-----------------------------------------------------------------------------
(***************************************************************************)
(* What a step does to the rows                                            *)
(***************************************************************************)

(* A set of numbers has a least one, and a bounded one a greatest.         *)
LEMMA Smallest ==
    ASSUME NEW S \in SUBSET Nat, S # {}
    PROVE  \E n \in S : \A k \in S : n <= k
<1> DEFINE Less == {p \in Nat \X Nat : p[1] < p[2]}
<1>1. Less = OpToRel(<, Nat)
  BY Zenon DEF OpToRel
<1>2. \E n \in S : \A k \in S : <<k, n>> \notin Less
  <2>1. IsWellFoundedOn(Less, Nat)
    BY <1>1, NatLessThanWellFounded, Zenon
  <2> HIDE DEF Less
  <2> QED
    BY <2>1, WFMin
<1>3. \A a, b \in Nat : a < b => <<a, b>> \in Less
  OBVIOUS
<1> HIDE DEF Less
<1>4. \A a, b \in Nat : <<a, b>> \notin Less => b <= a
  BY <1>3
<1> QED
  BY <1>2, <1>4

LEMMA HighestIsAbove ==
    ASSUME NEW S \in SUBSET Nat, NEW n \in Nat, \A k \in S : k <= n
    PROVE  Highest(S) \in Nat /\ \A k \in S : k <= Highest(S)
<1> DEFINE U == {u \in Nat : \A k \in S : k <= u}
<1>1. PICK u \in U : \A v \in U : u <= v
  BY Smallest
<1>2. u \in S \cup {0}
  <2>1. CASE u = 0
    BY <2>1
  <2>2. CASE u # 0 /\ u \notin S
    <3>1. u - 1 \in Nat /\ \A k \in S : k <= u - 1
      BY <2>2
    <3> QED
      BY <3>1, <1>1
  <2> QED
    BY <2>1, <2>2
<1>3. \E h \in S \cup {0} : \A k \in S : k <= h
  BY <1>1, <1>2
<1> HIDE DEF U
<1>4. Highest(S) \in S \cup {0} /\ \A k \in S : k <= Highest(S)
  BY <1>3 DEF Highest
<1>5. S \cup {0} \subseteq Nat
  OBVIOUS
<1> QED
  BY <1>4, <1>5

(* A claim takes a job that may be given to its Mac.                       *)
LEMMA ClaimTakes ==
    ASSUME RowsTyped, NEW m \in Macs, Claim(m), ~UNCHANGED rows
    PROVE  \E j \in DOMAIN rows :
              /\ Dispatchable(m, j) /\ ClaimedRow(j, m) /\ objects' = objects \ FilesOf(j)
              /\ \/ mac' = [mac EXCEPT ![m] = Work(j, rows[j].attempt + 1, "build")]
                 \/ mac' = [mac EXCEPT ![m] = Idle]
<1> DEFINE found == {j \in DOMAIN rows : Dispatchable(m, j)}
           j == CHOOSE i \in found : \A k \in found : i <= k
<1>1. found # {} /\ ClaimedRow(j, m) /\ objects' = objects \ FilesOf(j)
      /\ \/ mac' = [mac EXCEPT ![m] = Work(j, rows[j].attempt + 1, "build")]
         \/ mac' = [mac EXCEPT ![m] = Idle]
  BY DEF Claim, ClaimedRow
<1>2. found \in SUBSET Nat
  BY DEF RowsTyped
<1>3. \E i \in found : \A k \in found : i <= k
  <2> HIDE DEF found
  <2> QED
    BY <1>1, <1>2, Smallest
<1>4. j \in found
  <2> HIDE DEF found
  <2> QED
    BY <1>3
<1>5. j \in DOMAIN rows /\ Dispatchable(m, j)
  BY <1>4
<1> HIDE DEF j
<1> QED
  BY <1>1, <1>5

(* A claim that takes no job gives up.                                     *)
LEMMA ClaimIdles ==
    ASSUME RowsTyped, NEW m \in Macs, Claim(m), UNCHANGED rows
    PROVE  mac' = [mac EXCEPT ![m] = Idle] /\ UNCHANGED objects
<1>1. ASSUME NEW j \in DOMAIN rows, rows[j].status = "queued", ClaimedRow(j, m)
      PROVE  ~UNCHANGED rows
  BY <1>1, RowIsClaimed DEF Claims
<1>2. ASSUME NEW j \in DOMAIN rows, Dispatchable(m, j), ClaimedRow(j, m)
      PROVE  ~UNCHANGED rows
  BY <1>1, <1>2 DEF Dispatchable
<1> DEFINE found == {j \in DOMAIN rows : Dispatchable(m, j)}
           i == CHOOSE i \in found : \A k \in found : i <= k
<1>3. CASE found # {}
  <2>1. ClaimedRow(i, m)
    BY <1>3 DEF Claim, ClaimedRow
  <2>2. i \in found
    <3>1. found \in SUBSET Nat
      BY DEF RowsTyped
    <3> HIDE DEF found
    <3> QED
      BY <1>3, <3>1, Smallest
  <2>3. i \in DOMAIN rows /\ Dispatchable(m, i)
    BY <2>2
  <2> HIDE DEF i
  <2> QED
    BY <1>2, <2>1, <2>3
<1>4. CASE found = {}
  BY <1>4 DEF Claim
<1> QED
  BY <1>3, <1>4

Queues(a, n) ==
    /\ admin[a].at = "queue" /\ n > admin[a].floor /\ n \notin LiveNumbers
    /\ rows' = Append(rows, NewRow(n, admin[a].mode))
    /\ Len(rows) < MaxJobs
    /\ admin' = [admin EXCEPT ![a] = Idle]
    /\ UNCHANGED <<releases, apple, objects, uploads, mode, mac, call, cleaner>>

LEMMA QueueAdds ==
    ASSUME NEW a \in Admins, Queue(a), ~UNCHANGED rows
    PROVE  \E n \in Numbers : Queues(a, n)
  BY DEF Queue, Queues

LEMMA NewRowTyped ==
    ASSUME NEW n \in Numbers, NEW d \in Modes
    PROVE  NewRow(n, d) \in Row
  BY DEF NewRow, Row, Statuses, InFlight, Files

LEMMA QueuedRows ==
    ASSUME RowsTyped, NEW a \in Admins, AdminsTyped, NEW n \in Numbers, Queues(a, n)
    PROVE  /\ RowsTyped'
           /\ DOMAIN rows' = DOMAIN rows \cup {Len(rows) + 1}
           /\ Len(rows) + 1 \notin DOMAIN rows /\ Len(rows) \in Nat
           /\ \A j \in DOMAIN rows : j < Len(rows) + 1 /\ rows'[j] = rows[j]
           /\ rows'[Len(rows) + 1] = NewRow(n, admin[a].mode)
           /\ admin[a] \in Queuing /\ NewRow(n, admin[a].mode) \in Row
<1>1. admin[a] \in Queuing
  BY DEF AdminsTyped, Queues, Idle, Switching, Queuing
<1>2. NewRow(n, admin[a].mode) \in Row
  BY <1>1, NewRowTyped DEF Queuing
<1>3. rows' = Append(rows, NewRow(n, admin[a].mode))
  BY DEF Queues
<1> DEFINE s == NewRow(n, admin[a].mode)
<1> HIDE DEF s
<1>4. s \in Row /\ rows' = Append(rows, s) /\ rows \in Seq(Row)
  BY <1>2, <1>3 DEF s, RowsTyped
<1>5. /\ rows' \in Seq(Row)
      /\ DOMAIN rows' = DOMAIN rows \cup {Len(rows) + 1}
      /\ Len(rows) + 1 \notin DOMAIN rows /\ Len(rows) \in Nat
      /\ \A j \in DOMAIN rows : j < Len(rows) + 1 /\ rows'[j] = rows[j]
      /\ rows'[Len(rows) + 1] = s
  BY <1>4
<1> QED
  BY <1>1, <1>2, <1>5 DEF s, RowsTyped
(* A row changes by a claim, or as Goes says.                              *)
RowsMove ==
    \/ UNCHANGED rows
    \/ \E a \in Admins, n \in Numbers : Queues(a, n)
    \/ \E m \in Macs, j \in DOMAIN rows :
          /\ Claim(m) /\ Dispatchable(m, j)
          /\ Becomes(j, rows'[j]) /\ Claims(rows[j], rows'[j]) /\ rows'[j].told = rows[j].told
    \/ \E j \in DOMAIN rows : Becomes(j, rows'[j]) /\ Goes(rows[j], rows'[j])

LEMMA ClaimMoves ==
    ASSUME RowsTyped, NEW m \in Macs, Claim(m), ~UNCHANGED rows
    PROVE  RowsTyped' /\ RowsMove
<1>1. PICK j \in DOMAIN rows : Dispatchable(m, j) /\ ClaimedRow(j, m)
  BY ClaimTakes
<1>2. rows[j].status = "queued"
  BY <1>1 DEF Dispatchable
<1> QED
  BY <1>1, <1>2, RowIsClaimed DEF RowsMove

LEMMA ReportMoves ==
    ASSUME RowsTyped, CallsTyped, NEW c \in Calls, call[c].job \in DOMAIN rows,
           Record(c) \/ Complete(c), ~UNCHANGED rows
    PROVE  RowsTyped' /\ \E j \in DOMAIN rows : Becomes(j, rows'[j]) /\ Goes(rows[j], rows'[j])
<1> DEFINE j == call[c].job
<1>1. CASE Record(c)
  <2>1. call[c].at = "store" /\ rows' = [rows EXCEPT ![j].file[call[c].key.file] = {call[c].key}]
    BY <1>1 DEF Record
  <2>2. call[c].key \in ObjectKey
    BY <2>1 DEF CallsTyped, Idle, Checks, Stores
  <2> QED
    BY <2>1, <2>2, RecordedRow
<1>2. CASE Complete(c)
  <2>1. /\ rows[j].status = "claimed" /\ call[c].attempt = rows[j].attempt
        /\ rows' = [rows EXCEPT ![j].status = "succeeded", ![j].released = call[c].attempt]
    BY <1>2 DEF Complete, Current
  <2> QED
    BY <2>1, SucceededRow
<1> QED
  BY <1>1, <1>2

LEMMA MarksTyped ==
    ASSUME NEW old \in SUBSET Marks
    PROVE  /\ \A s \in {"uploaded", "installable", "rejected"} : Marked(old, s) \in SUBSET Marks
           /\ \A s \in {"uploaded", "installable", "rejected"} :
                 \A t \in {"uploaded", "purged"} : t \in old => t \in Marked(old, s)
           /\ old \cup {"purged"} \in SUBSET Marks
<1>1. /\ Marked(old, "uploaded") = old \cup {"uploaded"}
      /\ Marked(old, "installable") = (old \ {"rejected"}) \cup {"uploaded", "installable"}
      /\ Marked(old, "rejected") = (old \ {"installable"}) \cup {"rejected"}
  BY DEF Marked
<1> QED
  BY <1>1 DEF Marks

LEMMA AfterSuccessMoves ==
    ASSUME RowsTyped, ~UNCHANGED rows, NEW j \in DOMAIN rows,
           \/ Mark(j)
           \/ \E k \in Cleaners : \E d \in cleaner[k] :
                 d.job = j /\ (Purge(k, d) \/ SaveTestFlight(k, d))
    PROVE  RowsTyped' /\ Becomes(j, rows'[j]) /\ Goes(rows[j], rows'[j])
<1>1. rows[j].marks \in SUBSET Marks
  BY RowOf DEF Row
<1>2. CASE Mark(j)
  <2>1. PICK s \in {"uploaded", "installable", "rejected"} :
            rows' = [rows EXCEPT ![j].marks = Marked(@, s)]
    BY <1>2 DEF Mark
  <2>2. rows' = [rows EXCEPT ![j].marks = Marked(rows[j].marks, s)]
    BY <2>1
  <2>3. Marked(rows[j].marks, s) \in SUBSET Marks
    BY <1>1, MarksTyped
  <2> QED
    BY <2>2, <2>3, MarkedRow
<1>3. ASSUME NEW k \in Cleaners, NEW d \in cleaner[k], d.job = j, Purge(k, d)
      PROVE  RowsTyped' /\ Becomes(j, rows'[j]) /\ Goes(rows[j], rows'[j])
  <2>1. rows' = [rows EXCEPT ![j].marks = rows[j].marks \cup {"purged"}, ![j].file = NoFiles]
    BY <1>3 DEF Purge, Purged
  <2>2. rows[j].marks \cup {"purged"} \in SUBSET Marks
    BY <1>1, MarksTyped
  <2> QED
    BY <2>1, <2>2, PurgedRow
<1>4. ASSUME NEW k \in Cleaners, NEW d \in cleaner[k], d.job = j, SaveTestFlight(k, d)
      PROVE  RowsTyped' /\ Becomes(j, rows'[j]) /\ Goes(rows[j], rows'[j])
  BY <1>4, WatchedRow DEF SaveTestFlight
<1> QED
  BY <1>2, <1>3, <1>4

LEMMA ToldMoves ==
    ASSUME RowsTyped, MacsTyped, JobsExist, NEW m \in Macs, UploadToApple(m)
    PROVE  /\ RowsTyped' /\ mac[m].job \in DOMAIN rows
           /\ Becomes(mac[m].job, rows'[mac[m].job]) /\ Goes(rows[mac[m].job], rows'[mac[m].job])
<1> DEFINE j == mac[m].job
<1>1. j \in DOMAIN rows /\ mac[m].attempt > 0 /\ mac[m].attempt <= rows[j].attempt
  BY DEF JobsExist, UploadToApple, Working
<1>2. rows[j].attempt > 0
  <2>1. rows[j].attempt \in Nat
    BY <1>1, RowOf DEF Row
  <2>2. mac[m].attempt \in Nat
    BY DEF UploadToApple, MacsTyped, Idle, Polls, Works
  <2> QED
    BY <2>1, <2>2, <1>1
<1>3. rows' = [rows EXCEPT ![j].told = TRUE]
  BY DEF UploadToApple
<1> HIDE DEF j
<1>4. RowsTyped' /\ Becomes(j, rows'[j]) /\ Goes(rows[j], rows'[j])
  BY <1>1, <1>2, <1>3, ToldRow
<1> QED
  BY <1>1, <1>4 DEF j

LEMMA MovesOfRows ==
    ASSUME Typed, JobsExist, [Next]_vars
    PROVE  RowsTyped' /\ RowsMove
<1>0. RowsTyped /\ AdminsTyped /\ CallsTyped /\ MacsTyped
  BY DEF Typed
<1>1. CASE UNCHANGED rows
  BY <1>0, <1>1 DEF RowsMove, RowsTyped
<1>2. CASE Next /\ ~UNCHANGED rows
  <2>1. ASSUME NEW a \in Admins, Queue(a)
        PROVE  RowsTyped' /\ RowsMove
    BY <1>0, <1>2, <2>1, QueueAdds, QueuedRows DEF RowsMove
  <2>2. ASSUME NEW j \in DOMAIN rows, Cancel(j) \/ Reap(j) \/ \E m \in Macs : j \in Held(m) /\ GiveUp(j)
        PROVE  RowsTyped' /\ RowsMove
    BY <1>0, <2>2, CanceledRow, GivenUpRow DEF RowsMove, Reap, Held
  <2>3. ASSUME NEW j \in DOMAIN rows, Mark(j)
        PROVE  RowsTyped' /\ RowsMove
    BY <1>0, <1>2, <2>3, AfterSuccessMoves DEF RowsMove
  <2>4. ASSUME NEW k \in Cleaners, NEW d \in cleaner[k], Purge(k, d) \/ SaveTestFlight(k, d)
        PROVE  RowsTyped' /\ RowsMove
    <3>1. d.job \in DOMAIN rows
      BY DEF JobsExist
    <3> QED
      BY <1>0, <1>2, <2>4, <3>1, AfterSuccessMoves DEF RowsMove
  <2>5. ASSUME NEW m \in Macs, Claim(m)
        PROVE  RowsTyped' /\ RowsMove
    BY <1>0, <1>2, <2>5, ClaimMoves
  <2>6. ASSUME NEW m \in Macs, UploadToApple(m)
        PROVE  RowsTyped' /\ RowsMove
    BY <1>0, <2>6, ToldMoves DEF RowsMove
  <2>7. ASSUME NEW m \in Macs, Fail(m)
        PROVE  RowsTyped' /\ RowsMove
    <3>1. mac[m].job \in DOMAIN rows
      BY <2>7 DEF Fail, JobsExist
    <3> QED
      BY <1>0, <2>7, <3>1, FailedRow DEF RowsMove
  <2>8. ASSUME NEW c \in Calls, Record(c) \/ Complete(c)
        PROVE  RowsTyped' /\ RowsMove
    <3>1. call[c].job \in DOMAIN rows
      BY <2>8 DEF JobsExist, Record, Complete
    <3> QED
      BY <1>0, <1>2, <2>8, <3>1, ReportMoves DEF RowsMove
  <2>9. \/ \E a \in Admins : Queue(a)
        \/ \E j \in DOMAIN rows : Cancel(j) \/ Reap(j) \/ Mark(j)
        \/ \E m \in Macs : Claim(m) \/ HandBackClaim(m) \/ UploadToApple(m) \/ Fail(m)
        \/ \E c \in Calls : Record(c) \/ Complete(c)
        \/ \E k \in Cleaners : \E d \in cleaner[k] : Purge(k, d) \/ SaveTestFlight(k, d)
    BY <1>2, NextSteps, AdminFrame, RowFrame, MacFrame, CallFrame, CleanerFrame
  <2>10. ASSUME NEW m \in Macs, HandBackClaim(m)
         PROVE  \E j \in DOMAIN rows : j \in Held(m) /\ GiveUp(j)
    BY <2>10 DEF HandBackClaim, Held
  <2> QED
    BY <2>1, <2>2, <2>3, <2>4, <2>5, <2>6, <2>7, <2>8, <2>9, <2>10
<1> QED
  BY <1>1, <1>2 DEF vars
-----------------------------------------------------------------------------
(***************************************************************************)
(* Type correctness                                                        *)
(***************************************************************************)

LEMMA MacsStayTyped ==
    ASSUME Typed, [Next]_vars
    PROVE  MacsTyped'
<1>0. MacsTyped /\ RowsTyped /\ CallsTyped
  BY DEF Typed
<1>1. CASE UNCHANGED mac
  BY <1>0, <1>1 DEF MacsTyped
<1>2. ASSUME NEW m \in Macs, mac' = [mac EXCEPT ![m] = Idle]
      PROVE  MacsTyped'
  BY <1>0, <1>2 DEF MacsTyped
<1>3. ASSUME NEW m \in Macs, mac[m] \in Works, NEW at \in {"build", "deliver", "info", "report"},
             mac' = [mac EXCEPT ![m].at = at]
      PROVE  MacsTyped'
  <2>1. [mac[m] EXCEPT !.at = at] \in Works
    BY <1>3 DEF Works
  <2>2. mac' = [mac EXCEPT ![m] = [mac[m] EXCEPT !.at = at]]
    BY <1>0, <1>3 DEF MacsTyped
  <2> QED
    BY <1>0, <2>1, <2>2 DEF MacsTyped
<1>4. \A m \in Macs : mac[m].at \in {"build", "deliver", "info", "report"} => mac[m] \in Works
  BY <1>0 DEF MacsTyped, Idle, Polls, Works
<1>5. ASSUME NEW m \in Macs, Poll(m)
      PROVE  MacsTyped'
  <2>1. \A j \in DOMAIN rows : rows[j].status \in Statuses
    BY <1>0, RowOf DEF Row
  <2>2. [j \in DOMAIN rows |-> rows[j].status] \in Seq(Statuses)
    BY <1>0, <2>1 DEF RowsTyped
  <2>3. [at |-> "poll", seen |-> [j \in DOMAIN rows |-> rows[j].status]] \in Polls
    BY <2>2 DEF Polls
  <2>4. mac' = [mac EXCEPT ![m] = [at |-> "poll", seen |-> [j \in DOMAIN rows |-> rows[j].status]]]
    BY <1>5 DEF Poll
  <2> QED
    BY <1>0, <2>3, <2>4 DEF MacsTyped
<1>6. ASSUME NEW m \in Macs, Claim(m)
      PROVE  MacsTyped'
  <2>1. CASE UNCHANGED rows
    BY <1>0, <1>2, <1>6, <2>1, ClaimIdles
  <2>2. CASE ~UNCHANGED rows
    <3>1. PICK j \in DOMAIN rows :
              \/ mac' = [mac EXCEPT ![m] = Work(j, rows[j].attempt + 1, "build")]
              \/ mac' = [mac EXCEPT ![m] = Idle]
      BY <1>0, <1>6, <2>2, ClaimTakes
    <3>2. Work(j, rows[j].attempt + 1, "build") \in Works
      BY <1>0, RowOf DEF Work, Works, Row
    <3> QED
      BY <1>0, <3>1, <3>2 DEF MacsTyped
  <2> QED
    BY <2>1, <2>2
<1>7. ASSUME NEW m \in Macs, Built(m) \/ UploadToApple(m) \/ SkipInfo(m)
      PROVE  MacsTyped'
  BY <1>3, <1>4, <1>7 DEF Built, UploadToApple, SkipInfo, Turn
<1>8. ASSUME NEW c \in Calls, NEW at \in {"idle", "info", "report"}, Answer(c, at),
             call[c].at \in {"store", "checked"}
      PROVE  MacsTyped'
  <2>1. call[c].mac \in Macs
    BY <1>0, <1>8 DEF CallsTyped, Idle, Stores, Checks
  <2>2. CASE at = "idle" /\ ~UNCHANGED mac
    BY <1>2, <1>8, <2>1, <2>2 DEF Answer
  <2>3. CASE at # "idle" /\ ~UNCHANGED mac
    <3>1. mac[call[c].mac].at \in {"build", "deliver", "info", "report"}
      BY <1>8, <2>3 DEF Answer, Working
    <3>2. mac' = [mac EXCEPT ![call[c].mac] = [@ EXCEPT !.at = at]]
      BY <1>8, <2>3 DEF Answer
    <3> QED
      BY <1>0, <1>3, <1>4, <2>1, <2>3, <3>1, <3>2 DEF MacsTyped
  <2> QED
    BY <1>1, <2>2, <2>3
<1>9. ASSUME NEW c \in Calls, Record(c) \/ Complete(c)
      PROVE  MacsTyped'
  <2>1. call[c].at \in {"store", "checked"}
    BY <1>9 DEF Record, Complete
  <2>2. Answer(c, "idle") \/ Answer(c, "info") \/ Answer(c, "report")
    BY <1>9 DEF Record, Complete
  <2> QED
    BY <1>8, <2>1, <2>2
<1>10. CASE Next /\ ~UNCHANGED mac
  <2>1. \/ \E m \in Macs : Poll(m) \/ Claim(m) \/ Built(m) \/ UploadToApple(m) \/ SkipInfo(m)
        \/ \E m \in Macs : mac' = [mac EXCEPT ![m] = Idle]
        \/ \E c \in Calls : Record(c) \/ Complete(c)
    BY <1>10, NextSteps, AdminFrame, RowFrame, MacFrame, CallFrame, CleanerFrame
  <2> QED
    BY <1>2, <1>5, <1>6, <1>7, <1>9, <2>1
<1> QED
  BY <1>1, <1>10 DEF vars
LEMMA CallsStayTyped ==
    ASSUME Typed, [Next]_vars
    PROVE  CallsTyped'
<1>0. CallsTyped /\ MacsTyped
  BY DEF Typed
<1>1. ASSUME NEW c \in Calls, call' = [call EXCEPT ![c] = Idle]
      PROVE  CallsTyped'
  BY <1>0, <1>1 DEF CallsTyped
<1>2. \A m \in Macs : mac[m].at \in {"build", "deliver", "info", "report"} =>
          mac[m].job \in Nat /\ mac[m].attempt \in Nat
  BY <1>0 DEF MacsTyped, Idle, Polls, Works
<1>3. ASSUME NEW m \in Macs, NEW c \in Calls, Store(m, c)
      PROVE  CallsTyped'
  <2> DEFINE w == [job |-> mac[m].job, attempt |-> mac[m].attempt,
                   file |-> IF mac[m].at = "info" THEN "info" ELSE "ipa"]
             s == [at |-> "store", mac |-> m, job |-> w.job, attempt |-> w.attempt, key |-> Key(w)]
  <2>1. call' = [call EXCEPT ![c] = s]
    BY <1>3 DEF Store
  <2>2. w.job \in Nat /\ w.attempt \in Nat /\ w.file \in Files /\ uploads \in Nat
    BY <1>2, <1>3 DEF Store, Files, Typed, RestTyped
  <2> HIDE DEF w
  <2>3. Key(w) \in ObjectKey
    BY <2>2 DEF Key, ObjectKey
  <2>4. s \in Stores
    BY <2>2, <2>3 DEF Stores
  <2> HIDE DEF s
  <2> QED
    BY <1>0, <2>1, <2>4 DEF CallsTyped
<1>4. ASSUME NEW m \in Macs, NEW c \in Calls, CheckReport(m, c)
      PROVE  CallsTyped'
  <2> DEFINE w == [at |-> "checked", mac |-> m, job |-> mac[m].job, attempt |-> mac[m].attempt]
  <2>1. w \in Checks
    BY <1>2, <1>4 DEF CheckReport, Checks
  <2>2. call' = [call EXCEPT ![c] = w] \/ UNCHANGED call
    BY <1>4 DEF CheckReport
  <2> HIDE DEF w
  <2> QED
    BY <1>0, <2>1, <2>2 DEF CallsTyped
<1>5. \/ UNCHANGED call
      \/ \E m \in Macs, c \in Calls : Store(m, c) \/ CheckReport(m, c)
      \/ \E c \in Calls : call' = [call EXCEPT ![c] = Idle]
  BY NextSteps, AdminFrame, RowFrame, MacFrame, CallFrame, CleanerFrame
<1> QED
  BY <1>0, <1>1, <1>3, <1>4, <1>5 DEF CallsTyped

(* The floor is no lower than any number it was read from.                 *)
LEMMA FloorIsAbove ==
    ASSUME BoundsAssumption, RowsTyped, releases \subseteq Numbers
    PROVE  /\ Floor \in Nat
           /\ \A n \in releases : n <= Floor
           /\ \A j \in Unfinished : rows[j].number <= Floor
<1> DEFINE S == releases \cup LiveNumbers
<1>1. \A j \in DOMAIN rows : rows[j].number \in Numbers
  BY RowOf DEF Row
<1>2. S \subseteq Numbers
  BY <1>1 DEF LiveNumbers
<1>3. \A j \in Unfinished : rows[j].number \in LiveNumbers
  BY DEF Unfinished, LiveNumbers
<1>4. S \in SUBSET Nat /\ MaxNumber \in Nat /\ \A k \in S : k <= MaxNumber
  BY <1>2 DEF Numbers, BoundsAssumption
<1>5. \A n \in releases : n \in S
  OBVIOUS
<1>6. \A n \in LiveNumbers : n \in S
  OBVIOUS
<1>7. Floor = Highest(S)
  BY DEF Floor
<1> HIDE DEF S
<1>8. Highest(S) \in Nat /\ \A k \in S : k <= Highest(S)
  BY <1>4, HighestIsAbove
<1> QED
  BY <1>3, <1>5, <1>6, <1>7, <1>8

LEMMA AdminsStayTyped ==
    ASSUME BoundsAssumption, Typed, [Next]_vars
    PROVE  AdminsTyped'
<1>0. AdminsTyped /\ RowsTyped /\ releases \subseteq Numbers /\ mode \in [value : Modes, version : Nat]
  BY DEF Typed, RestTyped
<1>1. ASSUME NEW a \in Admins, ReadToQueue(a)
      PROVE  AdminsTyped'
  <2>1. [at |-> "queue", floor |-> Floor, mode |-> mode.value] \in Queuing
    BY <1>0, FloorIsAbove DEF Queuing
  <2> QED
    BY <1>0, <1>1, <2>1 DEF ReadToQueue, AdminsTyped
<1>2. ASSUME NEW a \in Admins, ReadToSwitch(a)
      PROVE  AdminsTyped'
  <2>1. [at |-> "switch", version |-> mode.version] \in Switching
    BY <1>0 DEF Switching
  <2> QED
    BY <1>0, <1>2, <2>1 DEF ReadToSwitch, AdminsTyped
<1>3. ASSUME NEW a \in Admins, admin' = [admin EXCEPT ![a] = Idle]
      PROVE  AdminsTyped'
  BY <1>0, <1>3 DEF AdminsTyped
<1>4. \/ UNCHANGED admin
      \/ \E a \in Admins : ReadToQueue(a) \/ ReadToSwitch(a) \/ admin' = [admin EXCEPT ![a] = Idle]
  BY NextSteps, AdminFrame, RowFrame, MacFrame, CallFrame, CleanerFrame
<1> QED
  BY <1>0, <1>1, <1>2, <1>3, <1>4 DEF AdminsTyped

LEMMA CleanersStayTyped ==
    ASSUME Typed, [Next]_vars
    PROVE  CleanersTyped'
<1>0. CleanersTyped /\ RowsTyped
  BY DEF Typed
<1>1. ASSUME NEW k \in Cleaners, Look(k)
      PROVE  CleanersTyped'
  <2>1. PICK found \in SUBSET (DOMAIN rows) :
            cleaner' = [cleaner EXCEPT ![k] = {[job |-> j, key |-> rows[j].file["ipa"],
                                                marks |-> rows[j].marks] : j \in found}]
    BY <1>1 DEF Look
  <2>2. \A j \in found : [job |-> j, key |-> rows[j].file["ipa"], marks |-> rows[j].marks] \in Found
    BY <1>0, RowOf DEF Row, Found, Files
  <2> QED
    BY <1>0, <2>1, <2>2 DEF CleanersTyped
<1>2. ASSUME NEW k \in Cleaners, NEW d, cleaner' = [cleaner EXCEPT ![k] = @ \ {d}]
      PROVE  CleanersTyped'
  BY <1>0, <1>2 DEF CleanersTyped
<1>3. \/ UNCHANGED cleaner
      \/ \E k \in Cleaners : Look(k)
      \/ \E k \in Cleaners : \E d \in cleaner[k] : cleaner' = [cleaner EXCEPT ![k] = @ \ {d}]
  BY NextSteps, AdminFrame, RowFrame, MacFrame, CallFrame, CleanerFrame
<1> QED
  BY <1>0, <1>1, <1>2, <1>3 DEF CleanersTyped

LEMMA RestStaysTyped ==
    ASSUME Typed, JobsExist, [Next]_vars
    PROVE  RestTyped'
<1>0. RestTyped /\ RowsTyped
  BY DEF Typed
<1>1. \A j \in DOMAIN rows : rows[j].number \in Numbers
  BY <1>0, RowOf DEF Row
<1>2. releases' \subseteq Numbers
  <2>1. ASSUME NEW c \in Calls, Complete(c)
        PROVE  UNCHANGED releases \/ releases' = releases \cup {rows[call[c].job].number}
    BY <2>1 DEF Complete
  <2>2. \A c \in Calls : Complete(c) => call[c].job \in DOMAIN rows
    BY DEF Complete, JobsExist
  <2>3. \/ UNCHANGED releases
        \/ \E n \in Numbers : releases' = releases \cup {n}
        \/ \E c \in Calls : Complete(c)
    BY NextSteps, AdminFrame, RowFrame, MacFrame, CallFrame, CleanerFrame
  <2> QED
    BY <1>0, <1>1, <2>1, <2>2, <2>3 DEF RestTyped
<1>3. apple' \subseteq Numbers
  <2>1. \A m \in Macs : UploadToApple(m) =>
            mac[m].job \in DOMAIN rows /\ apple' = apple \cup {rows[mac[m].job].number}
    BY DEF UploadToApple, JobsExist, Working
  <2>2. UNCHANGED apple \/ \E m \in Macs : UploadToApple(m)
    BY NextSteps, AdminFrame, RowFrame, MacFrame, CallFrame, CleanerFrame
  <2> QED
    BY <1>0, <1>1, <2>1, <2>2 DEF RestTyped
<1>4. uploads' \in Nat
  <2>1. uploads' = uploads \/ uploads' = uploads + 1
    BY NextSteps, AdminFrame, RowFrame, MacFrame, CallFrame, CleanerFrame
  <2> QED
    BY <1>0, <2>1 DEF RestTyped
<1>5. mode' \in [value : Modes, version : Nat]
  <2>1. \/ UNCHANGED mode
        \/ \E v \in Modes : mode' = [value |-> v, version |-> mode.version + 1]
    BY NextSteps, AdminFrame, RowFrame, MacFrame, CallFrame, CleanerFrame
  <2> QED
    BY <1>0, <2>1 DEF RestTyped
<1> QED
  BY <1>2, <1>3, <1>4, <1>5 DEF RestTyped

LEMMA StaysTyped ==
    ASSUME BoundsAssumption, Typed, JobsExist, [Next]_vars
    PROVE  Typed'
  BY MovesOfRows, MacsStayTyped, CallsStayTyped, AdminsStayTyped, CleanersStayTyped, RestStaysTyped
     DEF Typed

(* Rows are never taken away, and what concluded stays as it is.           *)
LEMMA RowsKeep ==
    ASSUME RowsTyped, AdminsTyped, RowsMove
    PROVE  /\ DOMAIN rows \subseteq DOMAIN rows'
           /\ \A j \in DOMAIN rows :
                 /\ rows'[j].number = rows[j].number /\ rows'[j].delivery = rows[j].delivery
                 /\ rows[j].attempt <= rows'[j].attempt
                 /\ rows[j].status \in Concluded => rows'[j].status = rows[j].status
           /\ \A j \in DOMAIN rows' \ DOMAIN rows :
                 \E a \in Admins, n \in Numbers :
                    /\ Queues(a, n) /\ rows'[j] = NewRow(n, admin[a].mode)
                    /\ \A i \in DOMAIN rows : i < j
<1>0. \A j \in DOMAIN rows : rows[j].attempt \in Nat /\ rows[j] \in Row
  BY RowOf DEF Row
<1>1. CASE UNCHANGED rows
  BY <1>0, <1>1
<1>2. ASSUME NEW a \in Admins, NEW n \in Numbers, Queues(a, n)
      PROVE  /\ DOMAIN rows' = DOMAIN rows \cup {Len(rows) + 1}
             /\ \A j \in DOMAIN rows : j < Len(rows) + 1 /\ rows'[j] = rows[j]
             /\ rows'[Len(rows) + 1] = NewRow(n, admin[a].mode)
  BY <1>2, QueuedRows
<1>3. CASE \E a \in Admins, n \in Numbers : Queues(a, n)
  <2>1. PICK a \in Admins, n \in Numbers : Queues(a, n)
    BY <1>3
  <2>2. \A j \in DOMAIN rows : j < Len(rows) + 1 /\ rows'[j] = rows[j]
    BY <1>2, <2>1
  <2>3. DOMAIN rows' = DOMAIN rows \cup {Len(rows) + 1} /\ rows'[Len(rows) + 1] = NewRow(n, admin[a].mode)
    BY <1>2, <2>1
  <2>4. \A j \in DOMAIN rows' \ DOMAIN rows : j = Len(rows) + 1
    BY <2>3
  <2> QED
    BY <1>0, <2>1, <2>2, <2>3, <2>4
<1>4. ASSUME NEW j \in DOMAIN rows, Becomes(j, rows'[j]),
             Goes(rows[j], rows'[j]) \/ Claims(rows[j], rows'[j])
      PROVE  /\ DOMAIN rows' = DOMAIN rows
             /\ \A i \in DOMAIN rows :
                 /\ rows'[i].number = rows[i].number /\ rows'[i].delivery = rows[i].delivery
                 /\ rows[i].attempt <= rows'[i].attempt
                 /\ rows[i].status \in Concluded => rows'[i].status = rows[i].status
  <2>1. /\ rows'[j].number = rows[j].number /\ rows'[j].delivery = rows[j].delivery
        /\ rows[j].attempt <= rows'[j].attempt
        /\ rows[j].status \in Concluded => rows'[j].status = rows[j].status
    BY <1>0, <1>4 DEF Goes, Claims, Concluded
  <2>2. DOMAIN rows' = DOMAIN rows /\ \A i \in DOMAIN rows : i # j => rows'[i] = rows[i]
    BY <1>4 DEF Becomes
  <2> QED
    BY <1>0, <2>1, <2>2
<1> QED
  BY <1>1, <1>3, <1>4 DEF RowsMove
(* What becomes of a Mac.                                                  *)
Snapshot == [at |-> "poll", seen |-> [j \in DOMAIN rows |-> rows[j].status]]
Takes(m, j) ==
    /\ Claim(m) /\ Dispatchable(m, j) /\ ClaimedRow(j, m)
    /\ mac'[m] = Work(j, rows[j].attempt + 1, "build")

LEMMA MacMoves ==
    ASSUME Typed, [Next]_vars, NEW m \in Macs
    PROVE  \/ mac'[m] = mac[m]
           \/ mac'[m] = Idle
           \/ UNCHANGED rows /\ mac'[m] = Snapshot
           \/ \E j \in DOMAIN rows : Takes(m, j)
           \/ /\ Working(m) /\ Working(m)'
              /\ mac'[m].job = mac[m].job /\ mac'[m].attempt = mac[m].attempt
<1> DEFINE Moved == \/ mac'[m] = mac[m]
                    \/ mac'[m] = Idle
                    \/ UNCHANGED rows /\ mac'[m] = Snapshot
                    \/ \E j \in DOMAIN rows : Takes(m, j)
                    \/ /\ Working(m) /\ Working(m)'
                       /\ mac'[m].job = mac[m].job /\ mac'[m].attempt = mac[m].attempt
<1>0. MacsTyped /\ RowsTyped /\ CallsTyped
  BY DEF Typed
<1>1. ASSUME NEW n \in Macs, mac' = [mac EXCEPT ![n] = Idle]
      PROVE  Moved
  BY <1>0, <1>1 DEF MacsTyped
<1>2. ASSUME NEW n \in Macs, Working(n), NEW at \in {"build", "deliver", "info", "report"},
             mac' = [mac EXCEPT ![n].at = at]
      PROVE  Moved
  <2>1. CASE n # m
    BY <1>0, <1>2, <2>1 DEF MacsTyped
  <2>2. CASE n = m
    <3>1. mac[m] \in Works
      BY <1>0, <1>2, <2>2 DEF Working, MacsTyped, Idle, Polls, Works
    <3>2. mac'[m] = [mac[m] EXCEPT !.at = at]
      BY <1>0, <1>2, <2>2 DEF MacsTyped
    <3>3. mac'[m].at = at /\ mac'[m].job = mac[m].job /\ mac'[m].attempt = mac[m].attempt
      BY <3>1, <3>2 DEF Works
    <3> QED
      BY <1>2, <2>2, <3>3 DEF Working
  <2> QED
    BY <2>1, <2>2
<1>3. ASSUME NEW n \in Macs, Poll(n)
      PROVE  Moved
  BY <1>0, <1>3 DEF Poll, MacsTyped, Snapshot
<1>4. ASSUME NEW n \in Macs, Claim(n)
      PROVE  Moved
  <2>1. CASE UNCHANGED rows
    <3>1. mac' = [mac EXCEPT ![n] = Idle]
      BY <1>0, <1>4, <2>1, ClaimIdles
    <3> QED
      BY <1>1, <3>1
  <2>2. CASE ~UNCHANGED rows
    <3>1. PICK j \in DOMAIN rows :
              /\ Dispatchable(n, j) /\ ClaimedRow(j, n)
              /\ \/ mac' = [mac EXCEPT ![n] = Work(j, rows[j].attempt + 1, "build")]
                 \/ mac' = [mac EXCEPT ![n] = Idle]
      BY <1>0, <1>4, <2>2, ClaimTakes
    <3>2. CASE mac' = [mac EXCEPT ![n] = Work(j, rows[j].attempt + 1, "build")]
      <4>1. n # m => mac'[m] = mac[m]
        BY <1>0, <3>2 DEF MacsTyped
      <4>2. n = m => mac'[m] = Work(j, rows[j].attempt + 1, "build")
        BY <1>0, <3>2 DEF MacsTyped
      <4> QED
        BY <1>4, <3>1, <4>1, <4>2 DEF Takes
    <3> QED
      BY <1>1, <3>1, <3>2
  <2> QED
    BY <2>1, <2>2
<1>5. ASSUME NEW n \in Macs, Built(n) \/ UploadToApple(n) \/ SkipInfo(n)
      PROVE  Moved
  BY <1>2, <1>5 DEF Built, UploadToApple, SkipInfo, Turn, Working
<1>6. ASSUME NEW c \in Calls, Record(c) \/ Complete(c)
      PROVE  Moved
  <2>1. call[c].mac \in Macs
    BY <1>0, <1>6 DEF CallsTyped, Idle, Stores, Checks, Record, Complete
  <2>2. Answer(c, "idle") \/ Answer(c, "info") \/ Answer(c, "report")
    BY <1>6 DEF Record, Complete
  <2>3. \/ UNCHANGED mac
        \/ mac' = [mac EXCEPT ![call[c].mac] = Idle]
        \/ /\ Working(call[c].mac)
           /\ \/ mac' = [mac EXCEPT ![call[c].mac].at = "info"]
              \/ mac' = [mac EXCEPT ![call[c].mac].at = "report"]
    BY <2>2 DEF Answer
  <2>4. CASE \E at \in {"info", "report"} :
                Working(call[c].mac) /\ mac' = [mac EXCEPT ![call[c].mac].at = at]
    BY <1>2, <2>1, <2>4
  <2> QED
    BY <1>1, <2>1, <2>3, <2>4
<1>7. \/ UNCHANGED mac
      \/ \E n \in Macs : Poll(n) \/ Claim(n) \/ Built(n) \/ UploadToApple(n) \/ SkipInfo(n)
      \/ \E n \in Macs : mac' = [mac EXCEPT ![n] = Idle]
      \/ \E c \in Calls : Record(c) \/ Complete(c)
  BY NextSteps, AdminFrame, RowFrame, MacFrame, CallFrame, CleanerFrame
<1> QED
  BY <1>1, <1>3, <1>4, <1>5, <1>6, <1>7

(* What becomes of a report in flight.                                     *)
Stored(m, file) ==
    [at |-> "store", mac |-> m, job |-> mac[m].job, attempt |-> mac[m].attempt,
     key |-> Key([job |-> mac[m].job, attempt |-> mac[m].attempt, file |-> file])]

LEMMA CallMoves ==
    ASSUME Typed, [Next]_vars, NEW c \in Calls
    PROVE  \/ call'[c] = call[c]
           \/ call'[c] = Idle
           \/ \E m \in Macs : /\ Store(m, c)
                              /\ \E file \in Files : call'[c] = Stored(m, file)
           \/ \E m \in Macs : /\ CheckReport(m, c)
                              /\ call'[c] = [at |-> "checked", mac |-> m, job |-> mac[m].job,
                                             attempt |-> mac[m].attempt]
<1>0. CallsTyped
  BY DEF Typed
<1>1. ASSUME NEW m \in Macs, NEW d \in Calls, Store(m, d)
      PROVE  \/ call'[c] = call[c]
             \/ d = c /\ \E file \in Files : call'[c] = Stored(m, file)
  <2> DEFINE file == IF mac[m].at = "info" THEN "info" ELSE "ipa"
  <2>1. file \in Files
    BY DEF Files
  <2>2. call' = [call EXCEPT ![d] = Stored(m, file)]
    BY <1>1 DEF Store, Stored, Key
  <2> HIDE DEF file
  <2> QED
    BY <1>0, <2>1, <2>2 DEF CallsTyped
<1>2. ASSUME NEW m \in Macs, NEW d \in Calls, CheckReport(m, d)
      PROVE  \/ call'[c] = call[c]
             \/ /\ d = c
                /\ call'[c] = [at |-> "checked", mac |-> m, job |-> mac[m].job,
                               attempt |-> mac[m].attempt]
  BY <1>0, <1>2 DEF CheckReport, CallsTyped
<1>3. ASSUME NEW d \in Calls, call' = [call EXCEPT ![d] = Idle]
      PROVE  call'[c] = call[c] \/ call'[c] = Idle
  BY <1>0, <1>3 DEF CallsTyped
<1>4. \/ UNCHANGED call
      \/ \E m \in Macs, d \in Calls : Store(m, d) \/ CheckReport(m, d)
      \/ \E d \in Calls : call' = [call EXCEPT ![d] = Idle]
  BY NextSteps, AdminFrame, RowFrame, MacFrame, CallFrame, CleanerFrame
<1> QED
  BY <1>1, <1>2, <1>3, <1>4

(* What a reaper found is what it had, or is of a row that there is.       *)
Seen(j) == [job |-> j, key |-> rows[j].file["ipa"], marks |-> rows[j].marks]

LEMMA CleanerMoves ==
    ASSUME Typed, [Next]_vars, NEW k \in Cleaners
    PROVE  \/ cleaner'[k] \subseteq cleaner[k]
           \/ /\ UNCHANGED rows
              /\ \E found \in SUBSET {j \in DOMAIN rows : Watched(j) \/ HandedOver(j)} :
                    cleaner'[k] = {Seen(j) : j \in found}
<1>0. CleanersTyped
  BY DEF Typed
<1>1. ASSUME NEW l \in Cleaners, Look(l)
      PROVE  \/ cleaner'[k] = cleaner[k]
             \/ /\ UNCHANGED rows
                /\ \E found \in SUBSET {j \in DOMAIN rows : Watched(j) \/ HandedOver(j)} :
                      cleaner'[k] = {Seen(j) : j \in found}
  <2>1. PICK found \in SUBSET {j \in DOMAIN rows :
                                  Watched(j) \/ (HandedOver(j) /\ rows[j].file["ipa"] # {})} :
            cleaner' = [cleaner EXCEPT ![l] = {Seen(j) : j \in found}]
    BY <1>1 DEF Look, Seen
  <2>2. found \in SUBSET {j \in DOMAIN rows : Watched(j) \/ HandedOver(j)}
    BY <2>1
  <2>3. UNCHANGED rows
    BY <1>1 DEF Look
  <2>4. cleaner'[k] = cleaner[k] \/ cleaner'[k] = {Seen(j) : j \in found}
    BY <1>0, <2>1 DEF CleanersTyped
  <2> QED
    BY <2>2, <2>3, <2>4
<1>2. ASSUME NEW l \in Cleaners, NEW d, cleaner' = [cleaner EXCEPT ![l] = @ \ {d}]
      PROVE  cleaner'[k] \subseteq cleaner[k]
  BY <1>0, <1>2 DEF CleanersTyped
<1>3. \/ UNCHANGED cleaner
      \/ \E l \in Cleaners : Look(l)
      \/ \E l \in Cleaners : \E d \in cleaner[l] : cleaner' = [cleaner EXCEPT ![l] = @ \ {d}]
  BY NextSteps, AdminFrame, RowFrame, MacFrame, CallFrame, CleanerFrame
<1> QED
  BY <1>1, <1>2, <1>3

LEMMA JobsStillExist ==
    ASSUME BoundsAssumption, Typed, JobsExist, [Next]_vars
    PROVE  JobsExist'
<1>0. RowsTyped /\ AdminsTyped /\ MacsTyped /\ Typed'
  BY StaysTyped DEF Typed
<1>1. RowsMove
  BY MovesOfRows
<1>2. DOMAIN rows \subseteq DOMAIN rows' /\ \A j \in DOMAIN rows : rows[j].attempt <= rows'[j].attempt
  BY <1>0, <1>1, RowsKeep
<1>3. \A j \in DOMAIN rows : rows[j].attempt \in Nat /\ rows'[j].attempt \in Nat
  <2>1. ASSUME NEW j \in DOMAIN rows'
        PROVE  rows'[j].attempt \in Nat
    <3>1. rows' \in Seq(Row)
      BY <1>0 DEF Typed, RowsTyped
    <3>2. rows'[j] \in Row
      BY <3>1
    <3> QED
      BY <3>2 DEF Row
  <2> QED
    BY <1>0, <1>2, <2>1, RowOf DEF Row
<1>4. ASSUME NEW m \in Macs, Working(m)'
      PROVE  /\ mac'[m].job \in DOMAIN rows' /\ mac'[m].attempt > 0
             /\ mac'[m].attempt <= rows'[mac'[m].job].attempt
  <2>1. \/ /\ Working(m)
           /\ mac'[m].job = mac[m].job /\ mac'[m].attempt = mac[m].attempt
        \/ \E j \in DOMAIN rows : Takes(m, j)
    <3>1. Idle.at = "idle" /\ Snapshot.at = "poll"
      BY DEF Idle, Snapshot
    <3>2. mac'[m] # Idle /\ mac'[m] # Snapshot /\ (mac'[m] = mac[m] => Working(m))
      BY <1>4, <3>1 DEF Working
    <3> QED
      BY <3>2, MacMoves
  <2>2. CASE /\ Working(m)
             /\ mac'[m].job = mac[m].job /\ mac'[m].attempt = mac[m].attempt
    <3>1. /\ mac[m].job \in DOMAIN rows /\ mac[m].attempt > 0
          /\ mac[m].attempt <= rows[mac[m].job].attempt
      BY <2>2 DEF JobsExist
    <3>2. mac[m].attempt \in Nat
      BY <1>0, <2>2 DEF Working, MacsTyped, Idle, Polls, Works
    <3> QED
      BY <1>2, <1>3, <2>2, <3>1, <3>2
  <2>3. CASE \E j \in DOMAIN rows : Takes(m, j)
    <3>1. PICK j \in DOMAIN rows : Takes(m, j)
      BY <2>3
    <3>2. rows'[j].attempt = rows[j].attempt + 1
      BY <1>0, <3>1, RowIsClaimed DEF Takes, Dispatchable, Claims
    <3>3. mac'[m].job = j /\ mac'[m].attempt = rows[j].attempt + 1
      BY <3>1 DEF Takes, Work
    <3> QED
      BY <1>2, <1>3, <3>2, <3>3
  <2> QED
    BY <2>1, <2>2, <2>3
<1>5. ASSUME NEW c \in Calls, call'[c].at \in {"store", "checked"}
      PROVE  call'[c].job \in DOMAIN rows'
  <2>1. \/ call'[c] = call[c]
        \/ \E m \in Macs : Working(m) /\ call'[c].job = mac[m].job
    <3>1. call'[c] # Idle
      BY <1>5 DEF Idle
    <3>2. ASSUME NEW m \in Macs, Store(m, c), NEW file \in Files, call'[c] = Stored(m, file)
          PROVE  Working(m) /\ call'[c].job = mac[m].job
      BY <3>2 DEF Store, Stored, Working
    <3>3. ASSUME NEW m \in Macs, CheckReport(m, c),
                 call'[c] = [at |-> "checked", mac |-> m, job |-> mac[m].job,
                             attempt |-> mac[m].attempt]
          PROVE  Working(m) /\ call'[c].job = mac[m].job
      BY <3>3 DEF CheckReport, Working
    <3> QED
      BY <3>1, <3>2, <3>3, CallMoves
  <2>2. call'[c] = call[c] => call'[c].job \in DOMAIN rows
    BY <1>5 DEF JobsExist
  <2>3. \A m \in Macs : Working(m) => mac[m].job \in DOMAIN rows
    BY DEF JobsExist
  <2> QED
    BY <1>2, <2>1, <2>2, <2>3
<1>6. ASSUME NEW k \in Cleaners, NEW d \in cleaner'[k]
      PROVE  d.job \in DOMAIN rows'
  <2>1. d \in cleaner[k] \/ \E j \in DOMAIN rows : d = Seen(j)
    BY CleanerMoves
  <2>2. d.job \in DOMAIN rows
    BY <2>1 DEF JobsExist, Seen
  <2> QED
    BY <1>2, <2>2
<1> QED
  BY <1>4, <1>5, <1>6 DEF JobsExist, Working
LEMMA AttemptsStayBounded ==
    ASSUME BoundsAssumption, Typed, JobsExist, AttemptsAreBounded, [Next]_vars
    PROVE  AttemptsAreBounded'
<1> DEFINE Bounded(r) ==
        /\ r.attempt <= MaxAttempts /\ r.released <= MaxAttempts
        /\ r.status = "queued" => r.attempt < MaxAttempts
        /\ r.status = "claimed" => r.attempt > 0
        /\ r.told => r.attempt > 0
<1>0. RowsTyped /\ AdminsTyped
  BY DEF Typed
<1>1. RowsMove
  BY MovesOfRows
<1>2. \A j \in DOMAIN rows : Bounded(rows[j])
  BY DEF AttemptsAreBounded
<1>3. MaxAttempts \in Nat /\ MaxAttempts > 0
  BY DEF BoundsAssumption
<1>4. \A j \in DOMAIN rows : rows[j].attempt \in Nat /\ rows[j].released \in Nat
  BY <1>0, RowOf DEF Row
<1>5. SUFFICES \A j \in DOMAIN rows' : Bounded(rows'[j])
  BY DEF AttemptsAreBounded
<1>6. CASE UNCHANGED rows
  BY <1>2, <1>6
<1>7. CASE \E a \in Admins, n \in Numbers : Queues(a, n)
  <2>1. PICK a \in Admins, n \in Numbers : Queues(a, n)
    BY <1>7
  <2>2. /\ DOMAIN rows' = DOMAIN rows \cup {Len(rows) + 1}
        /\ \A j \in DOMAIN rows : rows'[j] = rows[j]
        /\ rows'[Len(rows) + 1] = NewRow(n, admin[a].mode)
    BY <1>0, <2>1, QueuedRows
  <2>3. Bounded(NewRow(n, admin[a].mode))
    BY <1>3 DEF NewRow
  <2> HIDE DEF Bounded
  <2> QED
    BY <1>2, <2>2, <2>3
<1>8. ASSUME NEW j \in DOMAIN rows, Becomes(j, rows'[j]), Bounded(rows'[j])
      PROVE  \A i \in DOMAIN rows' : Bounded(rows'[i])
  <2> HIDE DEF Bounded
  <2> QED
    BY <1>2, <1>8 DEF Becomes
<1>9. ASSUME NEW j \in DOMAIN rows, Claims(rows[j], rows'[j]), rows'[j].told = rows[j].told
      PROVE  Bounded(rows'[j])
  BY <1>2, <1>3, <1>4, <1>9 DEF Claims
<1>10. ASSUME NEW j \in DOMAIN rows, Goes(rows[j], rows'[j])
       PROVE  Bounded(rows'[j])
  BY <1>2, <1>3, <1>4, <1>10 DEF Goes
<1> QED
  BY <1>1, <1>6, <1>7, <1>8, <1>9, <1>10 DEF RowsMove

(* What becomes of an administrator.                                       *)
LEMMA AdminMoves ==
    ASSUME AdminsTyped, [Next]_vars, NEW a \in Admins
    PROVE  \/ admin'[a] = admin[a]
           \/ admin'[a] = Idle
           \/ /\ ReadToQueue(a)
              /\ admin'[a] = [at |-> "queue", floor |-> Floor, mode |-> mode.value]
           \/ /\ ReadToSwitch(a)
              /\ admin'[a] = [at |-> "switch", version |-> mode.version]
<1>1. ASSUME NEW b \in Admins, ReadToQueue(b)
      PROVE  \/ admin'[a] = admin[a]
             \/ a = b /\ admin'[a] = [at |-> "queue", floor |-> Floor, mode |-> mode.value]
  BY <1>1 DEF ReadToQueue, AdminsTyped
<1>2. ASSUME NEW b \in Admins, ReadToSwitch(b)
      PROVE  \/ admin'[a] = admin[a]
             \/ a = b /\ admin'[a] = [at |-> "switch", version |-> mode.version]
  BY <1>2 DEF ReadToSwitch, AdminsTyped
<1>3. ASSUME NEW b \in Admins, admin' = [admin EXCEPT ![b] = Idle]
      PROVE  admin'[a] = admin[a] \/ admin'[a] = Idle
  BY <1>3 DEF AdminsTyped
<1>4. \/ UNCHANGED admin
      \/ \E b \in Admins : ReadToQueue(b) \/ ReadToSwitch(b) \/ admin' = [admin EXCEPT ![b] = Idle]
  BY NextSteps, AdminFrame, RowFrame, MacFrame, CallFrame, CleanerFrame
<1> QED
  BY <1>1, <1>2, <1>3, <1>4

LEMMA SwitchesStayBounded ==
    ASSUME BoundsAssumption, Typed, SwitchesAreBounded, [Next]_vars
    PROVE  SwitchesAreBounded'
<1>0. AdminsTyped /\ mode.version \in Nat /\ mode \in [value : Modes, version : Nat] /\ MaxSwitches \in Nat
  BY DEF Typed, RestTyped, BoundsAssumption
<1>1. mode'.version <= MaxSwitches
  <2>1. ASSUME NEW a \in Admins, Switch(a)
        PROVE  mode'.version <= MaxSwitches
    <3>1. admin[a].at = "switch" /\ admin[a].version < MaxSwitches
      BY <2>1 DEF Switch, SwitchesAreBounded
    <3>2. \/ UNCHANGED mode
          \/ /\ admin[a].version = mode.version
             /\ \E v \in Modes : mode' = [value |-> v, version |-> mode.version + 1]
      BY <2>1 DEF Switch
    <3>3. mode'.version = mode.version \/ (admin[a].version = mode.version /\ mode'.version = mode.version + 1)
      BY <3>2
    <3> QED
      BY <1>0, <3>1, <3>3 DEF SwitchesAreBounded
  <2>2. UNCHANGED mode \/ \E a \in Admins : Switch(a)
    BY NextSteps, AdminFrame, RowFrame, MacFrame, CallFrame, CleanerFrame
  <2> QED
    BY <2>1, <2>2 DEF SwitchesAreBounded
<1>2. ASSUME NEW a \in Admins, admin'[a].at = "switch"
      PROVE  admin'[a].version < MaxSwitches
  <2>1. \/ admin'[a] = admin[a]
        \/ /\ mode.version < MaxSwitches
           /\ admin'[a] = [at |-> "switch", version |-> mode.version]
    <3>1. Idle.at # "switch" /\ [at |-> "queue", floor |-> Floor, mode |-> mode.value].at # "switch"
      BY DEF Idle
    <3>2. ReadToSwitch(a) => mode.version < MaxSwitches
      BY DEF ReadToSwitch
    <3> QED
      BY <1>0, <1>2, <3>1, <3>2, AdminMoves
  <2>3. CASE admin'[a] = admin[a]
    BY <1>2, <2>3 DEF SwitchesAreBounded
  <2>4. CASE mode.version < MaxSwitches /\ admin'[a] = [at |-> "switch", version |-> mode.version]
    BY <2>4
  <2> QED
    BY <2>1, <2>3, <2>4
<1> QED
  BY <1>1, <1>2 DEF SwitchesAreBounded
-----------------------------------------------------------------------------
(***************************************************************************)
(* The order of the queue                                                  *)
(***************************************************************************)

LEMMA SnapshotsStay ==
    ASSUME BoundsAssumption, Typed, JobsExist, SnapshotsHold, [Next]_vars
    PROVE  SnapshotsHold'
<1>0. RowsTyped /\ AdminsTyped /\ MacsTyped
  BY DEF Typed
<1>1. RowsMove
  BY MovesOfRows
<1>2. DOMAIN rows \subseteq DOMAIN rows'
      /\ \A e \in DOMAIN rows : rows[e].status \in Concluded => rows'[e].status = rows[e].status
  BY <1>0, <1>1, RowsKeep
<1>3. ASSUME NEW m \in Macs, mac'[m].at = "poll", NEW e \in DOMAIN mac'[m].seen
      PROVE  e \in DOMAIN rows' /\ (mac'[m].seen[e] \in Concluded => rows'[e].status \in Concluded)
  <2>1. mac'[m] = mac[m] \/ (UNCHANGED rows /\ mac'[m] = Snapshot)
    <3>1. Idle.at # "poll" /\ \A j : Work(j, rows[j].attempt + 1, "build").at # "poll"
      BY DEF Idle, Work
    <3>2. ~Working(m)' /\ mac'[m] # Idle
      BY <1>3, <3>1 DEF Working
    <3>3. ~\E j \in DOMAIN rows : Takes(m, j)
      BY <1>3, <3>1 DEF Takes
    <3> QED
      BY <3>2, <3>3, MacMoves
  <2>2. CASE mac'[m] = mac[m]
    BY <1>2, <1>3, <2>2 DEF SnapshotsHold
  <2>3. CASE UNCHANGED rows /\ mac'[m] = Snapshot
    BY <1>3, <2>3 DEF Snapshot
  <2> QED
    BY <2>1, <2>2, <2>3
<1> QED
  BY <1>3 DEF SnapshotsHold

(* The job that a claim takes is the first that is not concluded.          *)
LEMMA ClaimsInOrder ==
    ASSUME Typed, InOrder, ~SlowClaims, NEW m \in Macs, NEW j \in DOMAIN rows,
           Claim(m), Dispatchable(m, j)
    PROVE  \A i \in DOMAIN rows : i < j => rows[i].status \in Concluded
<1>1. mac[m].at = "poll" /\ DOMAIN mac[m].seen = DOMAIN rows
  BY DEF Claim
<1>2. mac[m] \in Polls
  BY <1>1 DEF Typed, MacsTyped, Idle, Works, Polls
<1>3. ASSUME NEW i \in DOMAIN rows, i < j
      PROVE  rows[i].status \in Concluded
  <2>1. mac[m].seen[i] \in Statuses
    BY <1>1, <1>2 DEF Polls
  <2>2. mac[m].seen[i] # "claimed" /\ mac[m].seen[i] # "queued"
    BY <1>1, <1>3 DEF Dispatchable
  <2>3. mac[m].seen[i] \in Concluded
    BY <2>1, <2>2 DEF Statuses, InFlight
  <2> QED
    BY <1>1, <2>3 DEF InOrder, SnapshotsHold
<1> QED
  BY <1>3

LEMMA OrderStays ==
    ASSUME BoundsAssumption, Typed, JobsExist, InOrder, ~SlowClaims, [Next]_vars
    PROVE  InOrder'
<1>0. RowsTyped /\ AdminsTyped
  BY DEF Typed
<1>1. RowsMove
  BY MovesOfRows
<1>2. \A e \in DOMAIN rows : rows[e].status \in Concluded => rows'[e].status \in Concluded
  BY <1>0, <1>1, RowsKeep
<1>3. ASSUME NEW i \in DOMAIN rows', NEW j \in DOMAIN rows', i < j, rows'[j].attempt > 0
      PROVE  rows'[i].status \in Concluded
  <2>1. CASE UNCHANGED rows
    BY <1>3, <2>1 DEF InOrder, EarlierAreConcluded
  <2>2. CASE \E a \in Admins, n \in Numbers : Queues(a, n)
    <3>1. PICK a \in Admins, n \in Numbers : Queues(a, n)
      BY <2>2
    <3>2. /\ DOMAIN rows' = DOMAIN rows \cup {Len(rows) + 1}
          /\ \A e \in DOMAIN rows : e < Len(rows) + 1 /\ rows'[e] = rows[e]
          /\ rows'[Len(rows) + 1] = NewRow(n, admin[a].mode)
      BY <1>0, <3>1, QueuedRows
    <3>3. j # Len(rows) + 1
      BY <1>3, <3>2 DEF NewRow
    <3>4. j \in DOMAIN rows
      BY <3>2, <3>3
    <3>5. i \in DOMAIN rows
      <4>1. \A e \in DOMAIN rows : e \in Nat
        BY <1>0, RowOf
      <4>2. j \in Nat /\ j < Len(rows) + 1 /\ Len(rows) \in Nat
        BY <1>0, <3>2, <3>4, <4>1 DEF RowsTyped
      <4>3. i # Len(rows) + 1
        BY <1>3, <4>2
      <4> QED
        BY <3>2, <4>3
    <3> QED
      BY <1>3, <3>2, <3>4, <3>5 DEF InOrder, EarlierAreConcluded
  <2>3. CASE \E m \in Macs, k \in DOMAIN rows :
                /\ Claim(m) /\ Dispatchable(m, k)
                /\ Becomes(k, rows'[k]) /\ Claims(rows[k], rows'[k])
    <3>1. PICK m \in Macs, k \in DOMAIN rows :
                /\ Claim(m) /\ Dispatchable(m, k)
                /\ Becomes(k, rows'[k]) /\ Claims(rows[k], rows'[k])
      BY <2>3
    <3>2. i \in DOMAIN rows /\ j \in DOMAIN rows
      BY <1>3, <3>1 DEF Becomes
    <3>3. CASE j = k
      BY <1>2, <1>3, <3>1, <3>2, <3>3, ClaimsInOrder
    <3>4. CASE j # k
      <4>1. rows'[j] = rows[j]
        BY <3>1, <3>2, <3>4 DEF Becomes
      <4> QED
        BY <1>2, <1>3, <3>2, <4>1 DEF InOrder, EarlierAreConcluded
    <3> QED
      BY <3>3, <3>4
  <2>4. ASSUME NEW k \in DOMAIN rows, Becomes(k, rows'[k]), Goes(rows[k], rows'[k])
        PROVE  rows'[i].status \in Concluded
    <3>1. i \in DOMAIN rows /\ j \in DOMAIN rows
      BY <1>3, <2>4 DEF Becomes
    <3>2. rows'[j].attempt = rows[j].attempt
      BY <2>4, <3>1 DEF Becomes, Goes
    <3> QED
      BY <1>2, <1>3, <3>1, <3>2 DEF InOrder, EarlierAreConcluded
  <2> QED
    BY <1>1, <2>1, <2>2, <2>3, <2>4 DEF RowsMove
<1>4. SnapshotsHold'
  BY SnapshotsStay DEF InOrder
<1> QED
  BY <1>3, <1>4 DEF InOrder, EarlierAreConcluded

LEMMA OrderIsEnough ==
    ASSUME Typed, AttemptsAreBounded, InOrder
    PROVE  OneAtATime
<1> DEFINE S == {j \in DOMAIN rows : rows[j].status = "claimed"}
<1>1. \A i, j \in S : i = j
  <2>1. \A i, j \in S : ~(i < j)
    BY DEF AttemptsAreBounded, InOrder, EarlierAreConcluded, Concluded
  <2>2. \A i \in S : i \in Nat
    BY RowOf DEF Typed
  <2> HIDE DEF S
  <2> QED
    BY <2>1, <2>2
<1>2. S = {} \/ \E i \in S : S = {i}
  <2> HIDE DEF S
  <2> QED
    BY <1>1
<1> HIDE DEF S
<1>3. Cardinality(S) <= 1
  <2>1. S = {} => Cardinality(S) = 0
    BY FS_EmptySet
  <2>2. \A i : Cardinality({i}) = 1
    BY FS_Singleton
  <2>3. Cardinality(S) = 0 \/ Cardinality(S) = 1
    BY <1>2, <2>1, <2>2
  <2> QED
    BY <2>3
<1> QED
  BY <1>3 DEF S, OneAtATime
-----------------------------------------------------------------------------
(***************************************************************************)
(* Numbers and the mode, with one administrator                            *)
(***************************************************************************)

(* A job that is not concluded was not before, or is new.                  *)
LEMMA UnfinishedMoves ==
    ASSUME RowsTyped, AdminsTyped, RowsMove, RowsTyped'
    PROVE  /\ \A j \in Unfinished' :
                 \/ j \in Unfinished
                 \/ /\ j \notin DOMAIN rows
                    /\ \E a \in Admins, n \in Numbers :
                          Queues(a, n) /\ rows'[j] = NewRow(n, admin[a].mode)
                    /\ \A i \in DOMAIN rows : i < j
           /\ \A j \in Unfinished : /\ rows'[j].number = rows[j].number
                                    /\ rows'[j].delivery = rows[j].delivery
<1>1. ASSUME NEW j \in DOMAIN rows, rows'[j].status \in InFlight
      PROVE  rows[j].status \in InFlight
  <2>1. rows[j].status \in Statuses
    BY RowOf DEF Row
  <2>2. rows[j].status \in Concluded => rows'[j].status = rows[j].status
    BY RowsKeep
  <2> QED
    BY <1>1, <2>1, <2>2 DEF Statuses
<1>2. ASSUME NEW j \in Unfinished', j \notin DOMAIN rows
      PROVE  \E a \in Admins, n \in Numbers :
                /\ Queues(a, n) /\ rows'[j] = NewRow(n, admin[a].mode)
                /\ \A i \in DOMAIN rows : i < j
  BY <1>2, RowsKeep DEF Unfinished
<1>3. \A j \in DOMAIN rows : rows'[j].number = rows[j].number /\ rows'[j].delivery = rows[j].delivery
  BY RowsKeep
<1> QED
  BY <1>1, <1>2, <1>3 DEF Unfinished

(* The numbers of releases: of a job that is being built, or by hand.      *)
LEMMA ReleasesMove ==
    ASSUME Typed, [Next]_vars
    PROVE  \/ UNCHANGED releases
           \/ \E c \in Calls :
                 /\ Complete(c) /\ rows[call[c].job].status = "claimed"
                 /\ releases' = releases \cup {rows[call[c].job].number}
                 /\ UNCHANGED admin
           \/ ReleaseByHand
<1>1. ASSUME NEW c \in Calls, Complete(c), ~UNCHANGED releases
      PROVE  /\ rows[call[c].job].status = "claimed"
             /\ releases' = releases \cup {rows[call[c].job].number}
             /\ UNCHANGED admin
  BY <1>1 DEF Complete, Current
<1>2. \/ UNCHANGED releases
      \/ ReleaseByHand
      \/ \E c \in Calls : Complete(c)
  BY NextSteps, AdminFrame, RowFrame, MacFrame, CallFrame, CleanerFrame
<1> QED
  BY <1>1, <1>2

LEMMA NumbersStay ==
    ASSUME BoundsAssumption, OneAdmin, ~HandReleases, ~SlowClaims,
           Typed, JobsExist, AttemptsAreBounded, InOrder, NumbersAreRight, [Next]_vars
    PROVE  NumbersAreRight'
<1>0. RowsTyped /\ AdminsTyped /\ releases \subseteq Numbers /\ RowsTyped' /\ RowsMove
  BY MovesOfRows DEF Typed, RestTyped
<1>1. /\ \A j \in Unfinished' :
             \/ j \in Unfinished
             \/ /\ j \notin DOMAIN rows
                /\ \E a \in Admins, n \in Numbers :
                      Queues(a, n) /\ rows'[j] = NewRow(n, admin[a].mode)
                /\ \A i \in DOMAIN rows : i < j
      /\ \A j \in Unfinished : /\ rows'[j].number = rows[j].number
                               /\ rows'[j].delivery = rows[j].delivery
  BY <1>0, UnfinishedMoves
<1>2. \A j \in DOMAIN rows : rows[j].number \in Nat /\ j \in Nat
  BY <1>0, RowOf DEF Row, Numbers
<1>3. \A a \in Admins : admin[a].at = "queue" => admin[a].floor \in Nat
  BY <1>0 DEF AdminsTyped, Queuing, Switching, Idle
<1>4. releases \subseteq Nat /\ Numbers \subseteq Nat /\ \A j \in Unfinished : j \in DOMAIN rows
  BY <1>0 DEF Numbers, Unfinished
<1>5. ASSUME NEW a \in Admins, NEW n \in Numbers, Queues(a, n)
      PROVE  /\ \A j \in Unfinished : rows[j].number < n
             /\ \A r \in releases : r < n
             /\ UNCHANGED releases
             /\ NewRow(n, admin[a].mode).number = n
  <2>1. admin[a].at = "queue" /\ n > admin[a].floor /\ UNCHANGED releases
    BY <1>5 DEF Queues
  <2>2. /\ \A j \in Unfinished : rows[j].number <= admin[a].floor
        /\ \A r \in releases : r <= admin[a].floor
    BY <2>1 DEF NumbersAreRight, FloorsHold
  <2>3. admin[a].floor \in Nat
    BY <1>3, <2>1
  <2>4. \A j \in Unfinished : rows[j].number < n
    BY <1>2, <1>4, <2>1, <2>2, <2>3
  <2>5. \A r \in releases : r < n
    BY <1>4, <2>1, <2>2, <2>3
  <2> QED
    BY <2>1, <2>4, <2>5 DEF NewRow
<1>6. NumbersRise'
  <2>1. ASSUME NEW i \in Unfinished', NEW j \in Unfinished', i < j
        PROVE  rows'[i].number < rows'[j].number
    <3>1. CASE j \in Unfinished
      <4>1. i \in Unfinished
        <5>1. j \in DOMAIN rows /\ j \in Nat
          BY <1>2, <1>4, <3>1
        <5>2. i \notin Unfinished => j < i
          BY <1>1, <5>1
        <5>3. i \in Nat
          <6>1. i \in DOMAIN rows'
            BY DEF Unfinished
          <6> QED
            BY <1>0, <6>1 DEF RowsTyped
        <5> QED
          BY <2>1, <5>1, <5>2, <5>3
      <4> QED
        BY <1>1, <2>1, <3>1, <4>1 DEF NumbersAreRight, NumbersRise
    <3>2. CASE j \notin Unfinished
      <4>1. PICK a \in Admins, n \in Numbers : Queues(a, n) /\ rows'[j] = NewRow(n, admin[a].mode)
        BY <1>1, <3>2
      <4>2. rows'[j].number = n /\ \A k \in Unfinished : rows[k].number < n
        BY <1>5, <4>1
      <4>3. i \in Unfinished
        <5>1. DOMAIN rows' = DOMAIN rows \cup {Len(rows) + 1}
          BY <1>0, <4>1, QueuedRows
        <5>2. i \in DOMAIN rows' /\ j \in DOMAIN rows'
          BY DEF Unfinished
        <5>3. i \notin Unfinished => i \notin DOMAIN rows /\ j \notin DOMAIN rows
          BY <1>1, <3>2
        <5>4. i # j
          <6>1. i \in Nat
            BY <1>0, <5>2 DEF RowsTyped
          <6> QED
            BY <2>1, <6>1
        <5> QED
          BY <5>1, <5>2, <5>3, <5>4
      <4> QED
        BY <1>1, <4>2, <4>3
    <3> QED
      BY <3>1, <3>2
  <2> QED
    BY <2>1 DEF NumbersRise
<1>7. NumbersAreAbove'
  <2>1. ASSUME NEW j \in Unfinished', UNCHANGED releases
        PROVE  \A r \in releases' : r < rows'[j].number
    <3>1. CASE j \in Unfinished
      BY <1>1, <2>1, <3>1 DEF NumbersAreRight, NumbersAreAbove
    <3>2. CASE j \notin Unfinished
      <4>1. PICK a \in Admins, n \in Numbers : Queues(a, n) /\ rows'[j] = NewRow(n, admin[a].mode)
        BY <1>1, <3>2
      <4> QED
        BY <1>5, <2>1, <4>1
    <3> QED
      BY <3>1, <3>2
  <2>2. ASSUME NEW j \in Unfinished', NEW c \in Calls, Complete(c),
               rows[call[c].job].status = "claimed",
               releases' = releases \cup {rows[call[c].job].number}, UNCHANGED admin,
               ~UNCHANGED releases
        PROVE  \A r \in releases' : r < rows'[j].number
    <3> DEFINE k == call[c].job
    <3>1. k \in DOMAIN rows /\ k \in Unfinished /\ rows[k].attempt > 0
      BY <2>2 DEF JobsExist, Complete, Unfinished, InFlight, AttemptsAreBounded
    <3>2. j \in Unfinished
      BY <1>1, <1>5, <2>2
    <3>3. j # k
      <4>1. rows' = [rows EXCEPT ![k].status = "succeeded", ![k].released = call[c].attempt]
        BY <2>2 DEF Complete
      <4>2. rows'[k].status = "succeeded"
        <5>1. call[c].attempt = rows[k].attempt
          BY <2>2 DEF Complete, Current
        <5> QED
          BY <1>0, <2>2, <3>1, <4>1, <5>1, SucceededRow
      <4> QED
        BY <4>2 DEF Unfinished, InFlight
    <3>4. ~(j < k)
      BY <1>4, <3>1, <3>2 DEF InOrder, EarlierAreConcluded, Unfinished, InFlight, Concluded
    <3>5. k < j
      BY <1>2, <1>4, <3>1, <3>2, <3>3, <3>4
    <3>6. rows[k].number < rows[j].number
      BY <3>1, <3>2, <3>5 DEF NumbersAreRight, NumbersRise
    <3>7. \A r \in releases : r < rows[j].number
      BY <3>2 DEF NumbersAreRight, NumbersAreAbove
    <3> QED
      BY <1>1, <2>2, <3>2, <3>6, <3>7
  <2>3. ASSUME NEW j \in Unfinished', ReleaseByHand
        PROVE  FALSE
    BY <2>3 DEF ReleaseByHand, Unfinished
  <2> QED
    BY <2>1, <2>2, <2>3, ReleasesMove DEF NumbersAreAbove
<1>8. FloorsHold'
  <2>1. ASSUME NEW a \in Admins, admin'[a].at = "queue"
        PROVE  /\ \A r \in releases' : r <= admin'[a].floor
               /\ \A j \in Unfinished' : rows'[j].number <= admin'[a].floor
    <3>1. \/ admin'[a] = admin[a]
          \/ ReadToQueue(a) /\ admin'[a] = [at |-> "queue", floor |-> Floor, mode |-> mode.value]
      <4>1. Idle.at # "queue" /\ [at |-> "switch", version |-> mode.version].at # "queue"
        BY DEF Idle
      <4> QED
        BY <1>0, <2>1, <4>1, AdminMoves
    <3>2. CASE ReadToQueue(a) /\ admin'[a] = [at |-> "queue", floor |-> Floor, mode |-> mode.value]
      <4>1. UNCHANGED <<rows, releases>> /\ admin'[a].floor = Floor
        BY <3>2 DEF ReadToQueue
      <4>2. Unfinished' = Unfinished
        BY <4>1 DEF Unfinished
      <4>3. (\A r \in releases : r <= Floor) /\ \A j \in Unfinished : rows[j].number <= Floor
        BY <1>0, FloorIsAbove
      <4> QED
        BY <4>1, <4>2, <4>3
    <3>3. CASE admin'[a] = admin[a]
      <4>1. /\ \A r \in releases : r <= admin[a].floor
            /\ \A j \in Unfinished : rows[j].number <= admin[a].floor
        BY <2>1, <3>3 DEF NumbersAreRight, FloorsHold
      <4>2. ASSUME NEW b \in Admins, NEW n \in Numbers, Queues(b, n)
            PROVE  FALSE
        <5>1. a = b
          BY DEF OneAdmin
        <5>2. admin'[a] = Idle
          BY <1>0, <4>2, <5>1 DEF Queues, AdminsTyped
        <5> QED
          BY <2>1, <5>2 DEF Idle
      <4>3. \A j \in Unfinished' : j \in Unfinished /\ rows'[j].number <= admin[a].floor
        BY <1>1, <4>1, <4>2
      <4>4. \A r \in releases' : r <= admin[a].floor
        <5>1. ASSUME NEW c \in Calls, rows[call[c].job].status = "claimed", Complete(c)
              PROVE  call[c].job \in Unfinished
          BY <5>1 DEF Complete, JobsExist, Unfinished, InFlight
        <5>2. ~ReleaseByHand
          BY <2>1, <3>3 DEF ReleaseByHand, Idle
        <5> QED
          BY <4>1, <5>1, <5>2, ReleasesMove
      <4> QED
        BY <3>3, <4>3, <4>4
    <3> QED
      BY <3>1, <3>2, <3>3
  <2> QED
    BY <2>1 DEF FloorsHold
<1> QED
  BY <1>6, <1>7, <1>8 DEF NumbersAreRight

LEMMA ModeStays ==
    ASSUME OneAdmin, Typed, JobsExist, ModeIsRight, [Next]_vars
    PROVE  ModeIsRight'
<1>0. RowsTyped /\ AdminsTyped /\ RowsTyped' /\ RowsMove
  BY MovesOfRows DEF Typed
<1>1. /\ \A j \in Unfinished' :
             \/ j \in Unfinished
             \/ /\ j \notin DOMAIN rows
                /\ \E a \in Admins, n \in Numbers :
                      Queues(a, n) /\ rows'[j] = NewRow(n, admin[a].mode)
                /\ \A i \in DOMAIN rows : i < j
      /\ \A j \in Unfinished : /\ rows'[j].number = rows[j].number
                               /\ rows'[j].delivery = rows[j].delivery
  BY <1>0, UnfinishedMoves
<1>2. ASSUME NEW a \in Admins, Switch(a)
      PROVE  Unfinished' = {} /\ \A b \in Admins : admin'[b] = Idle
  <2>1. Unfinished = {} /\ UNCHANGED rows
    BY <1>2 DEF Switch, ModeIsRight, ModesHold
  <2>2. Unfinished' = {}
    BY <2>1 DEF Unfinished
  <2>3. admin'[a] = Idle
    BY <1>0, <1>2 DEF Switch, AdminsTyped
  <2> QED
    BY <2>2, <2>3 DEF OneAdmin
<1>3. UNCHANGED mode \/ \E a \in Admins : Switch(a)
  BY NextSteps, AdminFrame, RowFrame, MacFrame, CallFrame, CleanerFrame
<1>4. ASSUME UNCHANGED mode, NEW j \in Unfinished'
      PROVE  rows'[j].delivery = mode'.value
  <2>1. CASE j \in Unfinished
    BY <1>1, <1>4, <2>1 DEF ModeIsRight, JobsFollowTheMode
  <2>2. CASE j \notin Unfinished
    <3>1. PICK a \in Admins, n \in Numbers : Queues(a, n) /\ rows'[j] = NewRow(n, admin[a].mode)
      BY <1>1, <2>2
    <3>2. admin[a].mode = mode.value
      BY <3>1 DEF Queues, ModeIsRight, ModesHold
    <3> QED
      BY <1>4, <3>1, <3>2 DEF NewRow
  <2> QED
    BY <2>1, <2>2
<1>5. ASSUME UNCHANGED mode, NEW a \in Admins, admin'[a].at = "queue"
      PROVE  admin'[a].mode = mode'.value
  <2>1. Idle.at # "queue" /\ [at |-> "switch", version |-> mode.version].at # "queue"
    BY DEF Idle
  <2>2. \/ admin'[a] = admin[a]
        \/ admin'[a] = [at |-> "queue", floor |-> Floor, mode |-> mode.value]
    BY <1>0, <1>5, <2>1, AdminMoves
  <2> QED
    BY <1>5, <2>2 DEF ModeIsRight, ModesHold
<1>6. ASSUME NEW a \in Admins, admin'[a].at = "switch"
      PROVE  Unfinished' = {}
  <2>1. Idle.at # "switch" /\ [at |-> "queue", floor |-> Floor, mode |-> mode.value].at # "switch"
    BY DEF Idle
  <2>2. admin'[a] = admin[a] \/ ReadToSwitch(a)
    BY <1>0, <1>6, <2>1, AdminMoves
  <2>3. Unfinished = {}
    BY <1>6, <2>2 DEF ModeIsRight, ModesHold, ReadToSwitch
  <2>4. ASSUME NEW b \in Admins, NEW n \in Numbers, Queues(b, n)
        PROVE  FALSE
    <3>1. a = b
      BY DEF OneAdmin
    <3>2. admin'[a] = Idle
      BY <1>0, <2>4, <3>1 DEF Queues, AdminsTyped
    <3> QED
      BY <1>6, <3>2 DEF Idle
  <2> QED
    BY <1>1, <2>3, <2>4
<1> QED
  BY <1>2, <1>3, <1>4, <1>5, <1>6 DEF ModeIsRight, JobsFollowTheMode, ModesHold, Idle
-----------------------------------------------------------------------------
(***************************************************************************)
(* Objects                                                                 *)
(***************************************************************************)

(* A row loses its files, and they are deleted.                            *)
Empties(j) ==
    /\ Becomes(j, rows'[j])
    /\ rows'[j].file = NoFiles /\ objects' = objects \ FilesOf(j)
    /\ rows'[j].status = "succeeded" => "purged" \in rows'[j].marks
    /\ UNCHANGED <<uploads, call>>

(* A row keeps its files, and what made them.                              *)
Keeps(j) ==
    /\ Becomes(j, rows'[j]) /\ Goes(rows[j], rows'[j])
    /\ rows'[j].file = rows[j].file
    /\ \/ /\ rows'[j].status = rows[j].status /\ rows'[j].released = rows[j].released
          /\ "purged" \in rows[j].marks => "purged" \in rows'[j].marks
       \/ /\ rows'[j].released = rows[j].attempt
          /\ rows[j].delivery = "ipa" =>
                \E k \in rows[j].file["ipa"] : k.attempt = rows[j].attempt
    /\ UNCHANGED <<objects, uploads>>

CallsLeft == \A c \in Calls : call'[c].at = "store" => call'[c] = call[c]

(* What a step does to the objects.                                        *)
ObjectsMove ==
    \/ UNCHANGED <<rows, objects, uploads>> /\ CallsLeft
    \/ \E a \in Admins, n \in Numbers : Queues(a, n)
    \/ \E j \in DOMAIN rows : Empties(j)
    \/ \E j \in DOMAIN rows : Keeps(j) /\ CallsLeft
    \/ \E m \in Macs, c \in Calls : Store(m, c)
    \/ \E c \in Calls : Record(c)

LEMMA ObjectsDoMove ==
    ASSUME Typed, JobsExist, [Next]_vars
    PROVE  ObjectsMove
<1>0. RowsTyped /\ CallsTyped /\ AdminsTyped /\ MacsTyped
  BY DEF Typed
<1>1. ASSUME NEW j \in DOMAIN rows,
             Cancel(j) \/ Reap(j) \/ \E m \in Macs : HandBackClaim(m) /\ j \in Held(m) /\ GiveUp(j)
      PROVE  Empties(j)
  <2>1. CASE Cancel(j)
    <3>1. /\ Becomes(j, rows'[j]) /\ rows'[j].status = "canceled" /\ rows'[j].file = NoFiles
      BY <1>0, <2>1, CanceledRow
    <3> QED
      BY <2>1, <3>1 DEF Cancel, Empties
  <2>2. CASE rows[j].status = "claimed" /\ GiveUp(j) /\ UNCHANGED <<uploads, call>>
    <3>1. /\ Becomes(j, rows'[j]) /\ rows'[j].status \in {"queued", "failed"}
          /\ rows'[j].file = NoFiles
      BY <1>0, <2>2, GivenUpRow
    <3>2. objects' = objects \ FilesOf(j)
      BY <2>2 DEF GiveUp
    <3> QED
      BY <2>2, <3>1, <3>2 DEF Empties
  <2>3. Reap(j) => rows[j].status = "claimed" /\ GiveUp(j) /\ UNCHANGED <<uploads, call>>
    BY DEF Reap
  <2>4. \A m \in Macs : HandBackClaim(m) /\ j \in Held(m) => 
            rows[j].status = "claimed" /\ UNCHANGED <<uploads, call>>
    BY DEF HandBackClaim, Held
  <2> QED
    BY <1>1, <2>1, <2>2, <2>3, <2>4
<1>2. ASSUME NEW m \in Macs, Fail(m)
      PROVE  \E j \in DOMAIN rows : Empties(j)
  <2> DEFINE j == mac[m].job
  <2>1. j \in DOMAIN rows
    BY <1>2 DEF Fail, JobsExist
  <2>2. Becomes(j, rows'[j]) /\ rows'[j].status = "failed" /\ rows'[j].file = NoFiles
    BY <1>0, <1>2, <2>1, FailedRow
  <2>3. objects' = objects \ FilesOf(j) /\ UNCHANGED <<uploads, call>>
    BY <1>2 DEF Fail
  <2> QED
    BY <2>1, <2>2, <2>3 DEF Empties
<1>3. ASSUME NEW m \in Macs, Claim(m), ~UNCHANGED rows
      PROVE  \E j \in DOMAIN rows : Empties(j)
  <2>1. PICK j \in DOMAIN rows :
            Dispatchable(m, j) /\ ClaimedRow(j, m) /\ objects' = objects \ FilesOf(j)
    BY <1>0, <1>3, ClaimTakes
  <2>2. Becomes(j, rows'[j]) /\ rows'[j].status = "claimed" /\ rows'[j].file = NoFiles
    BY <1>0, <2>1, RowIsClaimed DEF Dispatchable, Claims
  <2>3. UNCHANGED <<uploads, call>>
    BY <1>3 DEF Claim
  <2> QED
    BY <2>1, <2>2, <2>3 DEF Empties
<1>4. ASSUME NEW m \in Macs, Claim(m), UNCHANGED rows
      PROVE  UNCHANGED <<rows, objects, uploads, call>>
  BY <1>0, <1>4, ClaimIdles DEF Claim
<1>5. ASSUME NEW j \in DOMAIN rows, Mark(j)
      PROVE  Keeps(j)
  <2>1. PICK s \in {"uploaded", "installable", "rejected"} :
            rows' = [rows EXCEPT ![j].marks = Marked(@, s)]
    BY <1>5 DEF Mark
  <2>2. rows' = [rows EXCEPT ![j].marks = Marked(rows[j].marks, s)]
    BY <2>1
  <2>3. /\ rows[j].marks \in SUBSET Marks /\ Marked(rows[j].marks, s) \in SUBSET Marks
        /\ "purged" \in rows[j].marks => "purged" \in Marked(rows[j].marks, s)
    BY <1>0, RowOf, MarksTyped DEF Row
  <2>4. /\ Becomes(j, rows'[j]) /\ Goes(rows[j], rows'[j])
        /\ rows'[j].status = rows[j].status /\ rows'[j].file = rows[j].file
        /\ rows'[j].marks = Marked(rows[j].marks, s) /\ rows'[j].released = rows[j].released
    BY <1>0, <2>2, <2>3, MarkedRow
  <2> QED
    BY <1>5, <2>3, <2>4 DEF Keeps, Mark
<1>6. ASSUME NEW k \in Cleaners, NEW d \in cleaner[k], SaveTestFlight(k, d)
      PROVE  Keeps(d.job) /\ d.job \in DOMAIN rows
  <2>1. d.job \in DOMAIN rows
    BY DEF JobsExist
  <2>2. PICK s \in {"processing", "final"} : rows' = [rows EXCEPT ![d.job].testflight = s]
    BY <1>6 DEF SaveTestFlight
  <2>3. /\ Becomes(d.job, rows'[d.job]) /\ Goes(rows[d.job], rows'[d.job])
        /\ rows'[d.job].status = rows[d.job].status /\ rows'[d.job].file = rows[d.job].file
        /\ rows'[d.job].marks = rows[d.job].marks /\ rows'[d.job].released = rows[d.job].released
    BY <1>0, <2>1, <2>2, WatchedRow
  <2> QED
    BY <1>6, <2>1, <2>3 DEF Keeps, SaveTestFlight
<1>7. ASSUME NEW m \in Macs, UploadToApple(m)
      PROVE  Keeps(mac[m].job) /\ mac[m].job \in DOMAIN rows
  <2> DEFINE j == mac[m].job
  <2>1. /\ j \in DOMAIN rows /\ rows[j].attempt > 0
    <3>1. j \in DOMAIN rows /\ mac[m].attempt > 0 /\ mac[m].attempt <= rows[j].attempt
      BY <1>7 DEF JobsExist, UploadToApple, Working
    <3>2. rows[j].attempt \in Nat
      BY <1>0, <3>1, RowOf DEF Row
    <3>3. mac[m].attempt \in Nat
      BY <1>0, <1>7 DEF UploadToApple, MacsTyped, Idle, Polls, Works
    <3> QED
      BY <3>1, <3>2, <3>3
  <2>2. rows' = [rows EXCEPT ![j].told = TRUE] /\ UNCHANGED <<objects, uploads, call>>
    BY <1>7 DEF UploadToApple
  <2> HIDE DEF j
  <2>3. /\ Becomes(j, rows'[j]) /\ Goes(rows[j], rows'[j])
        /\ rows'[j].status = rows[j].status /\ rows'[j].file = rows[j].file
        /\ rows'[j].marks = rows[j].marks /\ rows'[j].released = rows[j].released
    BY <1>0, <2>1, <2>2, ToldRow
  <2>4. Keeps(j)
    BY <2>2, <2>3 DEF Keeps
  <2> QED
    BY <2>1, <2>4 DEF j
<1>8. ASSUME NEW k \in Cleaners, NEW d \in cleaner[k], Purge(k, d)
      PROVE  UNCHANGED <<rows, objects, uploads, call>> \/ \E j \in DOMAIN rows : Empties(j)
  <2> DEFINE j == d.job
  <2>1. j \in DOMAIN rows
    BY DEF JobsExist
  <2>2. CASE ~(rows[j].status = "succeeded" /\ rows[j].file["ipa"] = d.key)
    BY <1>8, <2>2 DEF Purge
  <2>3. CASE rows[j].status = "succeeded" /\ rows[j].file["ipa"] = d.key
    <3>1. /\ rows' = [rows EXCEPT ![j].marks = rows[j].marks \cup {"purged"}, ![j].file = NoFiles]
          /\ objects' = objects \ FilesOf(j) /\ UNCHANGED <<uploads, call>>
      BY <1>8, <2>3 DEF Purge, Purged
    <3>2. rows[j].marks \cup {"purged"} \in SUBSET Marks
      BY <1>0, <2>1, RowOf, MarksTyped DEF Row
    <3> HIDE DEF j
    <3>3. /\ Becomes(j, rows'[j]) /\ rows'[j].file = NoFiles
          /\ rows'[j].marks = rows[j].marks \cup {"purged"}
      BY <1>0, <2>1, <3>1, <3>2, PurgedRow
    <3> QED
      BY <2>1, <3>1, <3>3 DEF Empties
  <2> QED
    BY <2>2, <2>3
<1>9. ASSUME NEW c \in Calls, Complete(c)
      PROVE  /\ CallsLeft
             /\ UNCHANGED <<rows, objects, uploads>> \/ \E j \in DOMAIN rows : Keeps(j)
  <2> DEFINE j == call[c].job
  <2>1. j \in DOMAIN rows
    BY <1>9 DEF Complete, JobsExist
  <2>2. UNCHANGED <<objects, uploads>> /\ call' = [call EXCEPT ![c] = Idle]
    BY <1>9 DEF Complete
  <2>3. CallsLeft
    BY <1>0, <2>2 DEF CallsLeft, CallsTyped, Idle
  <2>4. CASE ~UNCHANGED rows
    <3>1. /\ rows' = [rows EXCEPT ![j].status = "succeeded", ![j].released = call[c].attempt]
          /\ rows[j].status = "claimed" /\ rows[j].attempt = call[c].attempt
          /\ rows[j].delivery = "ipa" => \E k \in rows[j].file["ipa"] : k.attempt = call[c].attempt
      BY <1>9, <2>4 DEF Complete, Current, Delivered
    <3> HIDE DEF j
    <3>2. /\ Becomes(j, rows'[j]) /\ Goes(rows[j], rows'[j])
          /\ rows'[j].released = rows[j].attempt /\ rows'[j].file = rows[j].file
      BY <1>0, <2>1, <3>1, SucceededRow
    <3>3. Keeps(j)
      BY <2>2, <3>1, <3>2 DEF Keeps
    <3> QED
      BY <2>1, <2>3, <3>3
  <2> QED
    BY <2>2, <2>3, <2>4
<1>10. ASSUME NEW a \in Admins, Queue(a)
       PROVE  UNCHANGED <<rows, objects, uploads, call>> \/ \E n \in Numbers : Queues(a, n)
  BY <1>10, QueueAdds DEF Queue
<1>11. UNCHANGED call => CallsLeft
  BY DEF CallsLeft
<1>12. ASSUME NEW m \in Macs, HandBackClaim(m)
       PROVE  \E j \in DOMAIN rows : Empties(j)
  <2>1. PICK j \in Held(m) : GiveUp(j)
    BY <1>12 DEF HandBackClaim
  <2> QED
    BY <1>1, <1>12, <2>1 DEF Held
<1>13. ASSUME NEW m \in Macs, NEW c \in Calls, CheckReport(m, c)
       PROVE  UNCHANGED <<rows, objects, uploads>> /\ CallsLeft
  <2>1. UNCHANGED <<rows, objects, uploads>>
    BY <1>13 DEF CheckReport
  <2>2. \/ UNCHANGED call
        \/ call' = [call EXCEPT ![c] = [at |-> "checked", mac |-> m, job |-> mac[m].job,
                                        attempt |-> mac[m].attempt]]
    BY <1>13 DEF CheckReport
  <2> QED
    BY <1>0, <2>1, <2>2 DEF CallsLeft, CallsTyped
<1>14. \/ UNCHANGED <<rows, objects, uploads, call>>
       \/ \E a \in Admins : Queue(a)
       \/ \E j \in DOMAIN rows : Cancel(j) \/ Reap(j) \/ Mark(j)
       \/ \E m \in Macs : Claim(m) \/ HandBackClaim(m) \/ UploadToApple(m) \/ Fail(m)
       \/ \E m \in Macs, c \in Calls : Store(m, c) \/ CheckReport(m, c)
       \/ \E c \in Calls : Record(c) \/ Complete(c)
       \/ \E k \in Cleaners : \E d \in cleaner[k] : Purge(k, d) \/ SaveTestFlight(k, d)
  BY NextSteps, AdminFrame, RowFrame, MacFrame, CallFrame, CleanerFrame
<1>15. \A j \in DOMAIN rows : Mark(j) => UNCHANGED call
  BY DEF Mark
<1>16. \A k \in Cleaners : \A d \in cleaner[k] : SaveTestFlight(k, d) => UNCHANGED call
  BY DEF SaveTestFlight
<1>17. \A m \in Macs : UploadToApple(m) => UNCHANGED call
  BY DEF UploadToApple
<1> QED
  BY <1>1, <1>2, <1>3, <1>4, <1>5, <1>6, <1>7, <1>8, <1>9, <1>10, <1>11, <1>12, <1>13, <1>14,
     <1>15, <1>16, <1>17 DEF ObjectsMove
(* Rows whose files are as they were, or fewer, and objects that go only   *)
(* with the row that had them.                                             *)
LEMMA StillBacked ==
    ASSUME Typed, Backed, RowsTyped', UNCHANGED uploads, CallsLeft,
           NEW gone, objects' = objects \ gone,
           \A c \in Calls : call[c].at = "store" => call[c].key \notin gone,
           \A j \in DOMAIN rows', f \in Files : \A k \in rows'[j].file[f] :
              k \notin gone /\ j \in DOMAIN rows /\ k \in rows[j].file[f],
           \A j \in DOMAIN rows' :
              HandedOver(j)' /\ "purged" \notin rows'[j].marks =>
                 \E k \in rows'[j].file["ipa"] : k.attempt = rows'[j].released
    PROVE  Backed'
<1>1. FilesAreStored'
  BY DEF Backed, FilesAreStored
<1>2. ASSUME NEW c \in Calls, call'[c].at = "store"
      PROVE  /\ call'[c] = call[c] /\ call'[c].key.random < uploads' /\ call'[c].key \in objects'
             /\ call'[c].key.job = call'[c].job /\ call'[c].key.attempt = call'[c].attempt
             /\ \A j \in DOMAIN rows', f \in Files : call'[c].key \notin rows'[j].file[f]
  <2>1. call'[c] = call[c]
    BY <1>2 DEF CallsLeft
  <2> QED
    BY <1>2, <2>1 DEF Backed, UploadsAreAlone, Storing
<1>3. UploadsAreAlone'
  <2>1. \A c, d \in Calls :
            (call'[c].at = "store" /\ call'[d].at = "store" /\ call'[c].key = call'[d].key) => c = d
    BY <1>2 DEF Backed, UploadsAreAlone, Storing
  <2> QED
    BY <1>2, <2>1 DEF UploadsAreAlone, Storing
<1>4. PackagesAreKept'
  <2>1. ASSUME NEW j \in DOMAIN rows', HandedOver(j)', "purged" \notin rows'[j].marks
        PROVE  \E k \in rows'[j].file["ipa"] : k \in objects' /\ k.attempt = rows'[j].released
    <3>1. PICK k \in rows'[j].file["ipa"] : k.attempt = rows'[j].released
      BY <2>1
    <3>2. k \in objects'
      BY <1>1, <3>1 DEF FilesAreStored, Files
    <3> QED
      BY <3>1, <3>2
  <2> QED
    BY <2>1 DEF PackagesAreKept
<1> QED
  BY <1>1, <1>3, <1>4 DEF Backed

LEMMA StillBackedByAll ==
    ASSUME Typed, Backed, RowsTyped', UNCHANGED <<objects, uploads>>, CallsLeft,
           \A j \in DOMAIN rows', f \in Files : \A k \in rows'[j].file[f] :
              j \in DOMAIN rows /\ k \in rows[j].file[f],
           \A j \in DOMAIN rows' :
              HandedOver(j)' /\ "purged" \notin rows'[j].marks =>
                 \E k \in rows'[j].file["ipa"] : k.attempt = rows'[j].released
    PROVE  Backed'
<1> DEFINE gone == {}
<1>1. objects' = objects \ gone /\ \A k : k \notin gone
  OBVIOUS
<1> HIDE DEF gone
<1>2. \A c \in Calls : call[c].at = "store" => call[c].key \notin gone
  BY <1>1
<1>3. \A j \in DOMAIN rows', f \in Files : \A k \in rows'[j].file[f] :
          k \notin gone /\ j \in DOMAIN rows /\ k \in rows[j].file[f]
  BY <1>1
<1> QED
  BY <1>1, <1>2, <1>3, StillBacked

LEMMA StaysBackedEmptied ==
    ASSUME Typed, Backed, RowsTyped', NEW j \in DOMAIN rows, Empties(j)
    PROVE  Backed'
<1>1. /\ DOMAIN rows' = DOMAIN rows
      /\ \A i \in DOMAIN rows : i # j => rows'[i] = rows[i]
      /\ rows'[j].file = NoFiles /\ objects' = objects \ FilesOf(j)
      /\ UNCHANGED uploads /\ CallsLeft
  BY DEF Empties, Becomes, CallsLeft
<1>2. \A f \in Files : rows'[j].file[f] = {}
  BY <1>1, NoFilesTyped
<1>3. \A k \in FilesOf(j) : k.job = j /\ \E f \in Files : k \in rows[j].file[f]
  BY DEF FilesOf, Backed, FilesAreStored
<1>4. \A c \in Calls : call[c].at = "store" => call[c].key \notin FilesOf(j)
  BY <1>3 DEF Backed, UploadsAreAlone, Storing
<1>5. ASSUME NEW i \in DOMAIN rows', NEW f \in Files, NEW k \in rows'[i].file[f]
      PROVE  k \notin FilesOf(j) /\ i \in DOMAIN rows /\ k \in rows[i].file[f]
  <2>1. i # j /\ i \in DOMAIN rows
    BY <1>1, <1>2, <1>5
  <2>2. k \in rows[i].file[f] /\ k.job = i
    BY <1>1, <1>5, <2>1 DEF Backed, FilesAreStored
  <2> QED
    BY <1>3, <2>1, <2>2
<1>6. ASSUME NEW i \in DOMAIN rows', HandedOver(i)', "purged" \notin rows'[i].marks
      PROVE  \E k \in rows'[i].file["ipa"] : k.attempt = rows'[i].released
  <2>1. i # j
    BY <1>6 DEF HandedOver, Empties
  <2>2. rows'[i] = rows[i] /\ i \in DOMAIN rows
    BY <1>1, <2>1
  <2> QED
    BY <1>6, <2>2 DEF Backed, PackagesAreKept, HandedOver
<1> QED
  BY <1>1, <1>4, <1>5, <1>6, StillBacked

LEMMA StaysBackedKept ==
    ASSUME Typed, Backed, RowsTyped', NEW j \in DOMAIN rows, Keeps(j), CallsLeft
    PROVE  Backed'
<1>1. /\ DOMAIN rows' = DOMAIN rows
      /\ \A i \in DOMAIN rows : i # j => rows'[i] = rows[i]
      /\ rows'[j].file = rows[j].file /\ UNCHANGED objects
      /\ UNCHANGED uploads /\ rows'[j].delivery = rows[j].delivery
  BY DEF Keeps, Becomes, Goes
<1>2. \A i \in DOMAIN rows', f \in Files : \A k \in rows'[i].file[f] :
          i \in DOMAIN rows /\ k \in rows[i].file[f]
  BY <1>1
<1>3. ASSUME NEW i \in DOMAIN rows', HandedOver(i)', "purged" \notin rows'[i].marks
      PROVE  \E k \in rows'[i].file["ipa"] : k.attempt = rows'[i].released
  <2>1. CASE i # j
    <3>1. rows'[i] = rows[i] /\ i \in DOMAIN rows
      BY <1>1, <2>1
    <3> QED
      BY <1>3, <3>1 DEF Backed, PackagesAreKept, HandedOver
  <2>2. CASE i = j
    <3>1. rows'[j].status = "succeeded" /\ rows[j].delivery = "ipa"
      BY <1>1, <1>3, <2>2 DEF HandedOver
    <3>2. CASE /\ rows'[j].status = rows[j].status /\ rows'[j].released = rows[j].released
               /\ "purged" \notin rows[j].marks
      <4>1. HandedOver(j)
        BY <3>1, <3>2 DEF HandedOver
      <4> QED
        BY <1>1, <2>2, <3>2, <4>1 DEF Backed, PackagesAreKept
    <3>3. CASE /\ rows'[j].released = rows[j].attempt
               /\ \E k \in rows[j].file["ipa"] : k.attempt = rows[j].attempt
      BY <1>1, <2>2, <3>3
    <3> QED
      BY <1>3, <2>2, <3>1, <3>2, <3>3 DEF Keeps
  <2> QED
    BY <2>1, <2>2
<1> QED
  BY <1>1, <1>2, <1>3, StillBackedByAll

LEMMA StaysBackedStored ==
    ASSUME Typed, Backed, RowsTyped', NEW m \in Macs, NEW c \in Calls, Store(m, c)
    PROVE  Backed'
<1> DEFINE file == IF mac[m].at = "info" THEN "info" ELSE "ipa"
           w == [job |-> mac[m].job, attempt |-> mac[m].attempt, file |-> file]
           key == Key(w)
           s == [at |-> "store", mac |-> m, job |-> mac[m].job, attempt |-> mac[m].attempt,
                 key |-> key]
<1>1. /\ UNCHANGED rows /\ uploads' = uploads + 1 /\ uploads \in Nat
      /\ objects' = objects \cup {key} /\ call' = [call EXCEPT ![c] = s]
  BY DEF Store, Key, Typed, RestTyped
<1>2. key.random = uploads /\ key.job = mac[m].job /\ key.attempt = mac[m].attempt
  BY DEF Key
<1>3. s.at = "store" /\ s.key = key /\ s.job = mac[m].job /\ s.attempt = mac[m].attempt
  OBVIOUS
<1> HIDE DEF s, key
<1>4. call'[c] = s /\ \A d \in Calls : d # c => call'[d] = call[d]
  BY <1>1 DEF Typed, CallsTyped
<1>5. ASSUME NEW j \in DOMAIN rows, NEW f \in Files, NEW k \in rows[j].file[f]
      PROVE  k \in objects /\ k.job = j /\ k.file = f /\ k.random < uploads /\ k.random \in Nat
  <2>1. k \in ObjectKey
    BY RowOf DEF Typed, Row
  <2> QED
    BY <2>1 DEF Backed, FilesAreStored, ObjectKey
<1>6. FilesAreStored'
  <2>1. ASSUME NEW j \in DOMAIN rows, NEW f \in Files, NEW k \in rows[j].file[f]
        PROVE  k \in objects' /\ k.job = j /\ k.file = f /\ k.random < uploads'
    BY <1>1, <1>5
  <2> QED
    BY <1>1, <2>1 DEF FilesAreStored
<1>7. ASSUME NEW d \in Calls, d # c, call[d].at = "store"
      PROVE  /\ call[d].key.random < uploads /\ call[d].key.random \in Nat /\ call[d].key # key
             /\ call[d].key \in objects
             /\ call[d].key.job = call[d].job /\ call[d].key.attempt = call[d].attempt
             /\ \A j \in DOMAIN rows, f \in Files : call[d].key \notin rows[j].file[f]
  <2>1. call[d].key \in ObjectKey
    BY <1>7 DEF Typed, CallsTyped, Stores, Checks, Idle
  <2>2. call[d].key.random \in Nat
    BY <2>1 DEF ObjectKey
  <2>3. call[d].key.random < uploads
    BY <1>7 DEF Backed, UploadsAreAlone, Storing
  <2>4. call[d].key # key
    BY <1>1, <1>2, <2>2, <2>3
  <2> QED
    BY <1>7, <2>2, <2>3, <2>4 DEF Backed, UploadsAreAlone, Storing
<1>8. \A j \in DOMAIN rows, f \in Files : key \notin rows[j].file[f]
  BY <1>1, <1>2, <1>5
<1>9. UploadsAreAlone'
  <2>1. ASSUME NEW d \in Calls, call'[d].at = "store"
        PROVE  /\ call'[d].key.random < uploads' /\ call'[d].key \in objects'
               /\ call'[d].key.job = call'[d].job /\ call'[d].key.attempt = call'[d].attempt
               /\ \A j \in DOMAIN rows, f \in Files : call'[d].key \notin rows[j].file[f]
    <3>1. CASE d = c
      BY <1>1, <1>2, <1>3, <1>4, <1>8, <3>1
    <3>2. CASE d # c
      BY <1>1, <1>4, <1>7, <2>1, <3>2
    <3> QED
      BY <3>1, <3>2
  <2>2. ASSUME NEW d \in Calls, NEW e \in Calls, call'[d].at = "store", call'[e].at = "store",
               call'[d].key = call'[e].key
        PROVE  d = e
    BY <1>3, <1>4, <1>7, <2>2 DEF Backed, UploadsAreAlone, Storing
  <2> QED
    BY <1>1, <2>1, <2>2 DEF UploadsAreAlone, Storing
<1>10. PackagesAreKept'
  BY <1>1 DEF Backed, PackagesAreKept, HandedOver
<1> QED
  BY <1>6, <1>9, <1>10 DEF Backed

LEMMA StaysBackedRecorded ==
    ASSUME Typed, JobsExist, Backed, RowsTyped', NEW c \in Calls, Record(c)
    PROVE  Backed'
<1> DEFINE j == call[c].job
           key == call[c].key
<1>1. call[c].at = "store" /\ UNCHANGED uploads /\ call' = [call EXCEPT ![c] = Idle]
  BY DEF Record
<1>2. /\ j \in DOMAIN rows /\ key \in ObjectKey /\ key.file \in Files
      /\ key.job = j /\ key \in objects /\ key.random < uploads
      /\ \A i \in DOMAIN rows, f \in Files : key \notin rows[i].file[f]
      /\ \A d \in Calls : d # c /\ call[d].at = "store" => call[d].key # key
  <2>1. j \in DOMAIN rows
    BY <1>1 DEF JobsExist
  <2>2. key \in ObjectKey
    BY <1>1 DEF Typed, CallsTyped, Stores, Checks, Idle
  <2>3. key.file \in Files
    BY <2>2 DEF ObjectKey
  <2> QED
    BY <1>1, <2>1, <2>2, <2>3 DEF Backed, UploadsAreAlone, Storing
<1>3. call'[c] = Idle /\ \A d \in Calls : d # c => call'[d] = call[d]
  BY <1>1 DEF Typed, CallsTyped
<1>4. CallsLeft
  BY <1>3 DEF CallsLeft, Idle
<1>5. CASE Current(call[c], call[c].mac)
  <2> DEFINE g == key.file
             old == rows[j].file[g] \ {key}
  <2>1. /\ rows' = [rows EXCEPT ![j].file[g] = {key}] /\ objects' = objects \ old
        /\ rows[j].status = "claimed"
    BY <1>5 DEF Record, Current
  <2>2. /\ Becomes(j, rows'[j]) /\ rows'[j].status = rows[j].status
        /\ rows'[j].file[g] = {key}
        /\ \A f \in Files : f # g => rows'[j].file[f] = rows[j].file[f]
    BY <1>2, <2>1, RecordedRow DEF Typed
  <2>3. /\ DOMAIN rows' = DOMAIN rows
        /\ \A i \in DOMAIN rows : i # j => rows'[i] = rows[i]
    BY <2>2 DEF Becomes
  <2>4. \A k \in old : k.job = j /\ k.file = g /\ k # key /\ k \in rows[j].file[g]
    BY <1>2 DEF Backed, FilesAreStored
  <2>5. ASSUME NEW i \in DOMAIN rows, NEW f \in Files, NEW k \in rows'[i].file[f]
        PROVE  /\ k \notin old
               /\ (i = j /\ f = g /\ k = key) \/ k \in rows[i].file[f]
    <3>1. CASE i = j /\ f = g
      BY <2>2, <2>4, <2>5, <3>1
    <3>2. CASE ~(i = j /\ f = g)
      <4>1. k \in rows[i].file[f]
        BY <2>2, <2>3, <2>5, <3>2
      <4>2. k.job = i /\ k.file = f
        BY <4>1 DEF Backed, FilesAreStored
      <4> QED
        BY <2>4, <3>2, <4>1, <4>2
    <3> QED
      BY <3>1, <3>2
  <2> HIDE DEF old
  <2>6. FilesAreStored'
    <3>1. ASSUME NEW i \in DOMAIN rows, NEW f \in Files, NEW k \in rows'[i].file[f]
          PROVE  k \in objects' /\ k.job = i /\ k.file = f /\ k.random < uploads'
      <4>1. CASE i = j /\ f = g /\ k = key
        BY <1>1, <1>2, <2>1, <2>4, <4>1
      <4>2. CASE k \in rows[i].file[f]
        BY <1>1, <2>1, <2>5, <3>1, <4>2 DEF Backed, FilesAreStored
      <4> QED
        BY <2>5, <3>1, <4>1, <4>2
    <3> QED
      BY <2>3, <3>1 DEF FilesAreStored
  <2>7. UploadsAreAlone'
    <3>1. ASSUME NEW d \in Calls, call'[d].at = "store"
          PROVE  /\ call'[d].key.random < uploads' /\ call'[d].key \in objects'
                 /\ call'[d].key.job = call'[d].job /\ call'[d].key.attempt = call'[d].attempt
                 /\ \A i \in DOMAIN rows', f \in Files : call'[d].key \notin rows'[i].file[f]
      <4>1. d # c /\ call'[d] = call[d]
        BY <1>3, <3>1 DEF Idle
      <4>2. /\ call[d].key.random < uploads /\ call[d].key \in objects /\ call[d].key # key
            /\ call[d].key.job = call[d].job /\ call[d].key.attempt = call[d].attempt
            /\ \A i \in DOMAIN rows, f \in Files : call[d].key \notin rows[i].file[f]
        BY <1>2, <3>1, <4>1 DEF Backed, UploadsAreAlone, Storing
      <4>3. call[d].key \notin old
        BY <1>2, <2>4, <4>2
      <4>4. \A i \in DOMAIN rows, f \in Files : call[d].key \notin rows'[i].file[f]
        BY <2>5, <4>2
      <4> QED
        BY <1>1, <2>1, <2>3, <4>1, <4>2, <4>3, <4>4
    <3>2. \A d, e \in Calls :
              (call'[d].at = "store" /\ call'[e].at = "store" /\ call'[d].key = call'[e].key) => d = e
      BY <1>4 DEF CallsLeft, Backed, UploadsAreAlone, Storing
    <3> QED
      BY <3>1, <3>2 DEF UploadsAreAlone, Storing
  <2>8. PackagesAreKept'
    <3>1. ASSUME NEW i \in DOMAIN rows, HandedOver(i)', "purged" \notin rows'[i].marks
          PROVE  \E k \in rows'[i].file["ipa"] : k \in objects' /\ k.attempt = rows'[i].released
      <4>1. i # j
        BY <2>1, <2>2, <3>1 DEF HandedOver
      <4>2. rows'[i] = rows[i]
        BY <2>3, <4>1
      <4>3. PICK k \in rows[i].file["ipa"] : k.attempt = rows[i].released
        BY <3>1, <4>2 DEF Backed, PackagesAreKept, HandedOver
      <4>4. k \in objects'
        BY <2>3, <2>6, <4>2, <4>3 DEF FilesAreStored, Files
      <4> QED
        BY <4>2, <4>3, <4>4
    <3> QED
      BY <2>3, <3>1 DEF PackagesAreKept
  <2> QED
    BY <2>6, <2>7, <2>8 DEF Backed
<1>6. CASE ~Current(call[c], call[c].mac)
  <2>1. UNCHANGED rows /\ objects' = objects \ {key}
    BY <1>6 DEF Record
  <2>2. FilesAreStored'
    BY <1>1, <1>2, <2>1 DEF Backed, FilesAreStored
  <2>3. UploadsAreAlone'
    <3>1. ASSUME NEW d \in Calls, call'[d].at = "store"
          PROVE  /\ call'[d].key.random < uploads' /\ call'[d].key \in objects'
                 /\ call'[d].key.job = call'[d].job /\ call'[d].key.attempt = call'[d].attempt
                 /\ \A i \in DOMAIN rows', f \in Files : call'[d].key \notin rows'[i].file[f]
      <4>1. d # c /\ call'[d] = call[d]
        BY <1>3, <3>1 DEF Idle
      <4>2. /\ call[d].key.random < uploads /\ call[d].key \in objects /\ call[d].key # key
            /\ call[d].key.job = call[d].job /\ call[d].key.attempt = call[d].attempt
            /\ \A i \in DOMAIN rows, f \in Files : call[d].key \notin rows[i].file[f]
        BY <1>2, <3>1, <4>1 DEF Backed, UploadsAreAlone, Storing
      <4> QED
        BY <1>1, <2>1, <4>1, <4>2
    <3>2. \A d, e \in Calls :
              (call'[d].at = "store" /\ call'[e].at = "store" /\ call'[d].key = call'[e].key) => d = e
      BY <1>4 DEF CallsLeft, Backed, UploadsAreAlone, Storing
    <3> QED
      BY <3>1, <3>2 DEF UploadsAreAlone, Storing
  <2>4. PackagesAreKept'
    <3>1. ASSUME NEW i \in DOMAIN rows, HandedOver(i), "purged" \notin rows[i].marks
          PROVE  \E k \in rows[i].file["ipa"] : k \in objects' /\ k.attempt = rows[i].released
      BY <1>2, <2>1, <3>1 DEF Backed, PackagesAreKept, Files
    <3> QED
      BY <2>1, <3>1 DEF PackagesAreKept, HandedOver
  <2> QED
    BY <2>2, <2>3, <2>4 DEF Backed
<1> QED
  BY <1>5, <1>6

LEMMA StaysBacked ==
    ASSUME Typed, JobsExist, Backed, [Next]_vars
    PROVE  Backed'
<1>0. RowsTyped' /\ RowsTyped /\ AdminsTyped
  BY MovesOfRows DEF Typed
<1>1. CASE UNCHANGED <<rows, objects, uploads>> /\ CallsLeft
  <2>1. UNCHANGED <<rows, objects, uploads>> /\ CallsLeft
    BY <1>1
  <2>2. ASSUME NEW j \in DOMAIN rows', HandedOver(j)', "purged" \notin rows'[j].marks
        PROVE  \E k \in rows'[j].file["ipa"] : k.attempt = rows'[j].released
    BY <2>1, <2>2 DEF Backed, PackagesAreKept, HandedOver
  <2> QED
    BY <1>0, <2>1, <2>2, StillBackedByAll
<1>2. ASSUME NEW a \in Admins, NEW n \in Numbers, Queues(a, n)
      PROVE  Backed'
  <2>1. /\ DOMAIN rows' = DOMAIN rows \cup {Len(rows) + 1}
        /\ \A j \in DOMAIN rows : rows'[j] = rows[j]
        /\ rows'[Len(rows) + 1] = NewRow(n, admin[a].mode)
    BY <1>0, <1>2, QueuedRows
  <2>2. UNCHANGED <<objects, uploads>> /\ CallsLeft
    BY <1>2 DEF Queues, CallsLeft
  <2>3. /\ \A f \in Files : NewRow(n, admin[a].mode).file[f] = {}
        /\ NewRow(n, admin[a].mode).status = "queued"
    BY DEF NewRow
  <2>4. \A j \in DOMAIN rows', f \in Files : \A k \in rows'[j].file[f] :
            j \in DOMAIN rows /\ k \in rows[j].file[f]
    BY <2>1, <2>3
  <2>5. ASSUME NEW j \in DOMAIN rows', HandedOver(j)', "purged" \notin rows'[j].marks
        PROVE  \E k \in rows'[j].file["ipa"] : k.attempt = rows'[j].released
    <3>1. j # Len(rows) + 1
      BY <2>1, <2>3, <2>5 DEF HandedOver
    <3>2. j \in DOMAIN rows /\ rows'[j] = rows[j]
      BY <2>1, <3>1
    <3> QED
      BY <2>5, <3>2 DEF Backed, PackagesAreKept, HandedOver
  <2> QED
    BY <1>0, <2>2, <2>4, <2>5, StillBackedByAll
<1> QED
  BY <1>0, <1>1, <1>2, ObjectsDoMove, StaysBackedEmptied, StaysBackedKept, StaysBackedStored,
     StaysBackedRecorded DEF ObjectsMove
-----------------------------------------------------------------------------
(***************************************************************************)
(* Reapers                                                                 *)
(***************************************************************************)

MarksKept(j) == \A s \in {"uploaded", "purged"} : s \in rows[j].marks => s \in rows'[j].marks
Saves(j) == \E k \in Cleaners : \E d \in cleaner[k] : SaveTestFlight(k, d) /\ d.job = j
Noted(j) ==
    /\ MarksKept(j)
    /\ rows'[j].testflight = rows[j].testflight \/ Saves(j)

(* Marks stay, and only a reaper that looked at Apple notes what it saw.   *)
LEMMA RowsAreNoted ==
    ASSUME Typed, JobsExist, [Next]_vars
    PROVE  \A j \in DOMAIN rows : Noted(j)
<1>0. RowsTyped /\ AdminsTyped /\ CallsTyped /\ MacsTyped
  BY DEF Typed
<1>1. ASSUME NEW j \in DOMAIN rows, rows'[j] = rows[j]
      PROVE  Noted(j)
  BY <1>1 DEF Noted, MarksKept
<1>2. ASSUME NEW j \in DOMAIN rows, Becomes(j, rows'[j]), Noted(j)
      PROVE  \A i \in DOMAIN rows : Noted(i)
  BY <1>1, <1>2 DEF Becomes
<1>3. ASSUME NEW j \in DOMAIN rows, Becomes(j, rows'[j]), rows'[j].marks = rows[j].marks,
             rows'[j].testflight = rows[j].testflight
      PROVE  \A i \in DOMAIN rows : Noted(i)
  BY <1>2, <1>3 DEF Noted, MarksKept
<1>4. CASE UNCHANGED rows
  BY <1>1, <1>4
<1>5. ASSUME NEW a \in Admins, Queue(a), ~UNCHANGED rows
      PROVE  \A j \in DOMAIN rows : Noted(j)
  <2>1. PICK n \in Numbers : Queues(a, n)
    BY <1>5, QueueAdds
  <2>2. \A j \in DOMAIN rows : rows'[j] = rows[j]
    BY <1>0, <2>1, QueuedRows
  <2> QED
    BY <1>1, <2>2
<1>6. ASSUME NEW j \in DOMAIN rows, Cancel(j) \/ (rows[j].status = "claimed" /\ GiveUp(j))
      PROVE  \A i \in DOMAIN rows : Noted(i)
  BY <1>0, <1>3, <1>6, CanceledRow, GivenUpRow
<1>7. ASSUME NEW j \in DOMAIN rows, Mark(j)
      PROVE  \A i \in DOMAIN rows : Noted(i)
  <2>1. PICK s \in {"uploaded", "installable", "rejected"} :
            rows' = [rows EXCEPT ![j].marks = Marked(@, s)]
    BY <1>7 DEF Mark
  <2>2. rows' = [rows EXCEPT ![j].marks = Marked(rows[j].marks, s)]
    BY <2>1
  <2>3. /\ rows[j].marks \in SUBSET Marks /\ Marked(rows[j].marks, s) \in SUBSET Marks
        /\ \A t \in {"uploaded", "purged"} : t \in rows[j].marks => t \in Marked(rows[j].marks, s)
    BY <1>0, RowOf, MarksTyped DEF Row
  <2>4. /\ Becomes(j, rows'[j]) /\ rows'[j].marks = Marked(rows[j].marks, s)
        /\ rows'[j].testflight = rows[j].testflight
    BY <1>0, <2>2, <2>3, MarkedRow
  <2>5. Noted(j)
    BY <2>3, <2>4 DEF Noted, MarksKept
  <2> QED
    BY <1>2, <2>4, <2>5
<1>8. ASSUME NEW k \in Cleaners, NEW d \in cleaner[k], Purge(k, d), ~UNCHANGED rows
      PROVE  \A i \in DOMAIN rows : Noted(i)
  <2> DEFINE j == d.job
  <2>1. j \in DOMAIN rows
    BY DEF JobsExist
  <2>2. rows' = [rows EXCEPT ![j].marks = rows[j].marks \cup {"purged"}, ![j].file = NoFiles]
    BY <1>8 DEF Purge, Purged
  <2> HIDE DEF j
  <2>3. rows[j].marks \cup {"purged"} \in SUBSET Marks
    BY <1>0, <2>1, RowOf, MarksTyped DEF Row
  <2>4. /\ Becomes(j, rows'[j]) /\ rows'[j].marks = rows[j].marks \cup {"purged"}
        /\ rows'[j].testflight = rows[j].testflight
    BY <1>0, <2>1, <2>2, <2>3, PurgedRow
  <2>5. Noted(j)
    BY <2>4 DEF Noted, MarksKept
  <2> QED
    BY <1>2, <2>1, <2>4, <2>5
<1>9. ASSUME NEW k \in Cleaners, NEW d \in cleaner[k], SaveTestFlight(k, d)
      PROVE  \A i \in DOMAIN rows : Noted(i)
  <2>1. d.job \in DOMAIN rows
    BY DEF JobsExist
  <2>2. PICK s \in {"processing", "final"} : rows' = [rows EXCEPT ![d.job].testflight = s]
    BY <1>9 DEF SaveTestFlight
  <2>3. Becomes(d.job, rows'[d.job]) /\ rows'[d.job].marks = rows[d.job].marks
    BY <1>0, <2>1, <2>2, WatchedRow
  <2>4. Noted(d.job)
    BY <1>9, <2>3 DEF Noted, MarksKept, Saves
  <2> QED
    BY <1>2, <2>1, <2>3, <2>4
<1>10. ASSUME NEW m \in Macs, Claim(m), ~UNCHANGED rows
       PROVE  \A i \in DOMAIN rows : Noted(i)
  <2>1. PICK j \in DOMAIN rows : Dispatchable(m, j) /\ ClaimedRow(j, m)
    BY <1>0, <1>10, ClaimTakes
  <2>2. /\ Becomes(j, rows'[j]) /\ rows'[j].marks = rows[j].marks
        /\ rows'[j].testflight = rows[j].testflight
    BY <1>0, <2>1, RowIsClaimed DEF Dispatchable
  <2> QED
    BY <1>3, <2>2
<1>11. ASSUME NEW m \in Macs, UploadToApple(m)
       PROVE  \A i \in DOMAIN rows : Noted(i)
  <2> DEFINE j == mac[m].job
  <2>1. j \in DOMAIN rows /\ rows[j].attempt > 0
    <3>1. j \in DOMAIN rows /\ mac[m].attempt > 0 /\ mac[m].attempt <= rows[j].attempt
      BY <1>11 DEF JobsExist, UploadToApple, Working
    <3>2. rows[j].attempt \in Nat
      BY <1>0, <3>1, RowOf DEF Row
    <3>3. mac[m].attempt \in Nat
      BY <1>0, <1>11 DEF UploadToApple, MacsTyped, Idle, Polls, Works
    <3> QED
      BY <3>1, <3>2, <3>3
  <2>2. rows' = [rows EXCEPT ![j].told = TRUE]
    BY <1>11 DEF UploadToApple
  <2> HIDE DEF j
  <2>3. /\ Becomes(j, rows'[j]) /\ rows'[j].marks = rows[j].marks
        /\ rows'[j].testflight = rows[j].testflight
    BY <1>0, <2>1, <2>2, ToldRow
  <2> QED
    BY <1>3, <2>1, <2>3
<1>12. ASSUME NEW m \in Macs, Fail(m)
       PROVE  \A i \in DOMAIN rows : Noted(i)
  <2>1. mac[m].job \in DOMAIN rows
    BY <1>12 DEF Fail, JobsExist
  <2> QED
    BY <1>0, <1>3, <1>12, <2>1, FailedRow
<1>13. ASSUME NEW c \in Calls, Record(c), ~UNCHANGED rows
       PROVE  \A i \in DOMAIN rows : Noted(i)
  <2> DEFINE j == call[c].job
             key == call[c].key
  <2>1. /\ call[c].at = "store" /\ j \in DOMAIN rows
        /\ rows' = [rows EXCEPT ![j].file[key.file] = {key}]
    BY <1>13 DEF Record, JobsExist
  <2>2. key \in ObjectKey
    BY <1>0, <2>1 DEF CallsTyped, Idle, Checks, Stores
  <2> HIDE DEF j, key
  <2>3. /\ Becomes(j, rows'[j]) /\ rows'[j].marks = rows[j].marks
        /\ rows'[j].testflight = rows[j].testflight
    BY <1>0, <2>1, <2>2, RecordedRow
  <2> QED
    BY <1>3, <2>1, <2>3
<1>14. ASSUME NEW c \in Calls, Complete(c), ~UNCHANGED rows
       PROVE  \A i \in DOMAIN rows : Noted(i)
  <2> DEFINE j == call[c].job
  <2>1. /\ j \in DOMAIN rows /\ rows[j].status = "claimed" /\ rows[j].attempt = call[c].attempt
        /\ rows' = [rows EXCEPT ![j].status = "succeeded", ![j].released = call[c].attempt]
    BY <1>14 DEF Complete, Current, JobsExist
  <2> HIDE DEF j
  <2>2. /\ Becomes(j, rows'[j]) /\ rows'[j].marks = rows[j].marks
        /\ rows'[j].testflight = rows[j].testflight
    BY <1>0, <2>1, SucceededRow
  <2> QED
    BY <1>3, <2>1, <2>2
<1>15. \/ UNCHANGED rows
       \/ \E a \in Admins : Queue(a)
       \/ \E j \in DOMAIN rows : Cancel(j) \/ Reap(j) \/ Mark(j)
       \/ \E m \in Macs : Claim(m) \/ HandBackClaim(m) \/ UploadToApple(m) \/ Fail(m)
       \/ \E c \in Calls : Record(c) \/ Complete(c)
       \/ \E k \in Cleaners : \E d \in cleaner[k] : Purge(k, d) \/ SaveTestFlight(k, d)
  BY NextSteps, AdminFrame, RowFrame, MacFrame, CallFrame, CleanerFrame
<1>16. \A j \in DOMAIN rows : Reap(j) => rows[j].status = "claimed" /\ GiveUp(j)
  BY DEF Reap
<1>17. \A m \in Macs : HandBackClaim(m) =>
           \E j \in DOMAIN rows : rows[j].status = "claimed" /\ GiveUp(j)
  BY DEF HandBackClaim, Held
<1> QED
  BY <1>4, <1>5, <1>6, <1>7, <1>8, <1>9, <1>10, <1>11, <1>12, <1>13, <1>14, <1>15, <1>16, <1>17

LEMMA WatchedStayOpen ==
    ASSUME OneCleaner, Typed, JobsExist, WatchedAreOpen, [Next]_vars
    PROVE  WatchedAreOpen'
<1>0. RowsTyped /\ AdminsTyped /\ CleanersTyped /\ RowsMove
  BY MovesOfRows DEF Typed
<1>1. \A j \in DOMAIN rows : Noted(j) /\ rows'[j].delivery = rows[j].delivery
  BY <1>0, RowsAreNoted, RowsKeep
<1>2. ASSUME NEW k \in Cleaners, NEW d \in cleaner'[k], cleaner'[k] \subseteq cleaner[k]
      PROVE  /\ rows'[d.job].delivery = "testflight" => rows'[d.job].testflight # "final"
             /\ \A e \in cleaner'[k] : (e.job = d.job) => e = d
  <2>1. d \in cleaner[k] /\ d.job \in DOMAIN rows
    BY <1>2 DEF JobsExist
  <2>2. /\ rows[d.job].delivery = "testflight" => rows[d.job].testflight # "final"
        /\ \A e \in cleaner[k] : (e.job = d.job) => e = d
    BY <2>1 DEF WatchedAreOpen
  <2>3. ASSUME Saves(d.job)
        PROVE  FALSE
    <3>1. PICK l \in Cleaners : \E e \in cleaner[l] : SaveTestFlight(l, e) /\ e.job = d.job
      BY <2>3 DEF Saves
    <3>2. l = k
      BY DEF OneCleaner
    <3>3. PICK e \in cleaner[k] : SaveTestFlight(k, e) /\ e.job = d.job
      BY <3>1, <3>2
    <3>4. e = d
      BY <2>2, <3>3
    <3>5. cleaner'[k] = cleaner[k] \ {e}
      BY <1>0, <3>3 DEF SaveTestFlight, CleanersTyped
    <3> QED
      BY <1>2, <3>4, <3>5
  <2> QED
    BY <1>1, <1>2, <2>1, <2>2, <2>3 DEF Noted
<1>3. ASSUME NEW k \in Cleaners, UNCHANGED rows,
             NEW found \in SUBSET {j \in DOMAIN rows : Watched(j) \/ HandedOver(j)},
             cleaner'[k] = {Seen(j) : j \in found}, NEW d \in cleaner'[k]
      PROVE  /\ rows'[d.job].delivery = "testflight" => rows'[d.job].testflight # "final"
             /\ \A e \in cleaner'[k] : (e.job = d.job) => e = d
  <2>1. \A j : Seen(j).job = j
    BY DEF Seen
  <2>2. PICK j \in found : d = Seen(j)
    BY <1>3
  <2>3. Watched(j) \/ HandedOver(j)
    BY <2>2
  <2>4. rows[j].delivery = "testflight" => rows[j].testflight # "final"
    BY <2>3 DEF Watched, HandedOver
  <2> QED
    BY <1>3, <2>1, <2>2, <2>4
<1> QED
  BY <1>2, <1>3, CleanerMoves DEF WatchedAreOpen

LEMMA FinalStays ==
    ASSUME Typed, JobsExist, WatchedAreOpen, [Next]_vars, NEW j \in DOMAIN rows,
           rows[j].testflight = "final"
    PROVE  rows'[j].testflight = "final"
<1>1. ~Saves(j)
  BY DEF Saves, SaveTestFlight, WatchedAreOpen
<1> QED
  BY <1>1, RowsAreNoted DEF Noted
-----------------------------------------------------------------------------
(***************************************************************************)
(* The theorems                                                            *)
(***************************************************************************)

LEMMA InvInit == ASSUME BoundsAssumption, Init PROVE IInv
<1>0. DOMAIN rows = {} /\ rows = <<>> /\ Unfinished = {}
  BY DEF Init, Unfinished
<1>1. Typed
  BY <1>0 DEF Init, Typed, RowsTyped, MacsTyped, CallsTyped, AdminsTyped, CleanersTyped, RestTyped
<1>2. \A m \in Macs : mac[m] = Idle
  BY DEF Init
<1>3. \A c \in Calls : call[c] = Idle
  BY DEF Init
<1>4. \A a \in Admins : admin[a] = Idle
  BY DEF Init
<1>5. \A k \in Cleaners : cleaner[k] = {}
  BY DEF Init
<1>6. JobsExist /\ UploadsAreAlone /\ SnapshotsHold
  BY <1>0, <1>2, <1>3, <1>5
     DEF JobsExist, Working, Idle, UploadsAreAlone, Storing, SnapshotsHold
<1>7. AttemptsAreBounded /\ FilesAreStored /\ PackagesAreKept /\ EarlierAreConcluded
  BY <1>0 DEF AttemptsAreBounded, FilesAreStored, PackagesAreKept, EarlierAreConcluded
<1>8. SwitchesAreBounded
  BY <1>4 DEF Init, Idle, SwitchesAreBounded, BoundsAssumption
<1> QED
  BY <1>1, <1>6, <1>7, <1>8 DEF IInv, Backed, InOrder

LEMMA InvStep == ASSUME BoundsAssumption, IInv, [Next]_vars PROVE IInv'
<1>1. Typed /\ JobsExist /\ AttemptsAreBounded /\ SwitchesAreBounded /\ Backed
  BY DEF IInv
<1>2. Typed' /\ JobsExist' /\ AttemptsAreBounded' /\ SwitchesAreBounded' /\ Backed'
  BY <1>1, StaysTyped, JobsStillExist, AttemptsStayBounded, SwitchesStayBounded, StaysBacked
<1>3. ~SlowClaims => InOrder'
  BY <1>1, OrderStays DEF IInv
<1> QED
  BY <1>2, <1>3 DEF IInv

(* The inductive invariant: whoever works on a job works on one that there *)
(* is, an attempt is never beyond the limit, an upload has a key of its    *)
(* own until it is recorded and what a row references is stored, and, when *)
(* the two queries of a claim see the same jobs, nothing is attempted      *)
(* before what was queued earlier is concluded.                            *)
THEOREM QueueInvariant == ASSUME BoundsAssumption PROVE Spec => []IInv
  BY InvInit, InvStep, PTL DEF Spec

LEMMA TypesFollow == ASSUME BoundsAssumption, IInv PROVE TypeOK
<1>1. ASSUME NEW j \in DOMAIN rows
      PROVE  /\ rows[j].number \in Numbers /\ rows[j].delivery \in Modes
             /\ rows[j].status \in InFlight \cup Concluded
             /\ rows[j].attempt \in 0..MaxAttempts /\ rows[j].released \in 0..MaxAttempts
             /\ rows[j].marks \subseteq Marks /\ FilesOf(j) \subseteq objects
  <2>1. rows[j] \in Row
    BY RowOf DEF IInv, Typed
  <2>2. rows[j].attempt <= MaxAttempts /\ rows[j].released <= MaxAttempts
    BY DEF IInv, AttemptsAreBounded
  <2>3. FilesOf(j) \subseteq objects
    BY DEF IInv, Backed, FilesAreStored, FilesOf
  <2> QED
    BY <2>1, <2>2, <2>3 DEF Row, Statuses, BoundsAssumption
<1>2. releases \subseteq Numbers /\ apple \subseteq Numbers
  BY DEF IInv, Typed, RestTyped
<1>3. mode.value \in Modes /\ mode.version \in 0..MaxSwitches
  BY DEF IInv, Typed, RestTyped, SwitchesAreBounded, BoundsAssumption
<1> QED
  BY <1>1, <1>2, <1>3 DEF TypeOK

(* Type correctness: no job is attempted more often than maxBuildAttempts  *)
(* allows, and whatever file a row references is stored.                   *)
THEOREM TypeCorrect == ASSUME BoundsAssumption PROVE Spec => []TypeOK
  BY TypesFollow, QueueInvariant, PTL

(* PackagesAreKept: whatever repeated uploads, lost answers, claims that   *)
(* are given up and reapers that work on old rows do, a tenant that uploads*)
(* itself has the package that was reported until the retention is over.   *)
THEOREM PackagesAreKeptHolds == ASSUME BoundsAssumption PROVE Spec => []PackagesAreKept
<1>1. IInv => PackagesAreKept
  BY DEF IInv, Backed
<1> QED
  BY <1>1, QueueInvariant, PTL

(* OneAtATime: one package of the tenant is being built at most, for any   *)
(* number of Macs, as long as no job is queued between the two queries of  *)
(* a claim.                                                                *)
THEOREM OneAtATimeHolds ==
    ASSUME BoundsAssumption, ~SlowClaims
    PROVE  Spec => []OneAtATime
<1>1. IInv => OneAtATime
  BY OrderIsEnough DEF IInv
<1> QED
  BY <1>1, QueueInvariant, PTL

LEMMA NumbersInit == ASSUME BoundsAssumption, Init PROVE NumbersAreRight
<1>1. Unfinished = {} /\ \A a \in Admins : admin[a].at # "queue"
  BY DEF Init, Unfinished, Idle
<1> QED
  BY <1>1 DEF NumbersAreRight, NumbersRise, NumbersAreAbove, FloorsHold

(* AppleIsNeverAhead: what was uploaded to App Store Connect will be taken *)
(* as a release, with one administrator who enters no iOS release by hand  *)
(* while jobs are in flight, and with the claims of OneAtATime: the        *)
(* numbers of the jobs that are not concluded rise in the order in which   *)
(* they are built, above all releases.                                     *)
THEOREM AppleIsNeverAheadHolds ==
    ASSUME BoundsAssumption, OneAdmin, ~HandReleases, ~SlowClaims
    PROVE  Spec => []AppleIsNeverAhead
<1>1. IInv /\ NumbersAreRight /\ [Next]_vars => NumbersAreRight'
  BY NumbersStay DEF IInv
<1>2. NumbersAreRight => AppleIsNeverAhead
  BY DEF NumbersAreRight, NumbersAreAbove, AppleIsNeverAhead
<1>3. Init => NumbersAreRight
  BY NumbersInit
<1> QED
  BY <1>1, <1>2, <1>3, QueueInvariant, PTL DEF Spec

LEMMA ModeInit == ASSUME Init PROVE ModeIsRight
<1>1. Unfinished = {} /\ \A a \in Admins : admin[a].at = "idle"
  BY DEF Init, Unfinished, Idle
<1> QED
  BY <1>1 DEF ModeIsRight, JobsFollowTheMode, ModesHold

(* JobsFollowTheMode: with one administrator, no job is built for a mode   *)
(* of delivery that the tenant has left.                                   *)
THEOREM JobsFollowTheModeHolds ==
    ASSUME BoundsAssumption, OneAdmin
    PROVE  Spec => []JobsFollowTheMode
<1>1. IInv /\ ModeIsRight /\ [Next]_vars => ModeIsRight'
  BY ModeStays DEF IInv
<1>2. ModeIsRight => JobsFollowTheMode
  BY DEF ModeIsRight
<1>3. Init => ModeIsRight
  BY ModeInit
<1> QED
  BY <1>1, <1>2, <1>3, QueueInvariant, PTL DEF Spec

LEMMA WatchInit == ASSUME Init PROVE WatchedAreOpen
<1>1. \A k \in Cleaners : cleaner[k] = {}
  BY DEF Init
<1> QED
  BY <1>1 DEF WatchedAreOpen

(* MarksSurvive: what the tenant said of a package and the mark of its     *)
(* purge outlive every reaper that read the row before; with one reaper a  *)
(* final state at Apple is never taken back.                               *)
THEOREM MarksSurviveHolds ==
    ASSUME BoundsAssumption, OneCleaner
    PROVE  Spec => MarksSurvive
<1>1. IInv /\ WatchedAreOpen /\ [Next]_vars => WatchedAreOpen'
  BY WatchedStayOpen DEF IInv
<1>2. IInv /\ WatchedAreOpen /\ [Next]_vars =>
        [\A j \in DOMAIN rows :
          /\ \A s \in {"uploaded", "purged"} : s \in rows[j].marks => s \in rows'[j].marks
          /\ rows[j].testflight = "final" => rows'[j].testflight = "final"]_vars
  BY RowsAreNoted, FinalStays DEF IInv, Noted, MarksKept
<1>3. Init => WatchedAreOpen
  BY WatchInit
<1> QED
  BY <1>1, <1>2, <1>3, QueueInvariant, PTL DEF Spec, MarksSurvive

-----------------------------------------------------------------------------
(***************************************************************************)
(* The refinement of the state machine of build jobs                       *)
(***************************************************************************)
statusOfJobs == [j \in 1..MaxJobs |-> StatusOf(j)]

(* The edges an iOS package may take, with the claim that cannot be        *)
(* dispatched as one step.                                                 *)
LEMMA IosEdges ==
    ASSUME NEW j \in 1..MaxJobs, NEW to,
           statusOfJobs' = [statusOfJobs EXCEPT ![j] = to], statusOfJobs[j] # to,
           \/ statusOfJobs[j] = "queued" /\ to \in {"claimed", "failed", "canceled"}
           \/ statusOfJobs[j] = "claimed" /\ to \in {"queued", "failed", "canceled", "succeeded"}
    PROVE  Lifecycle!Next
<1> DEFINE Fires(event, kinds, from, to2) ==
               /\ Lifecycle!Edge(event, kinds, from, to2) \in Lifecycle!Edges
               /\ "ipa" \in kinds /\ statusOfJobs[j] \in from /\ to \in to2
<1>1. ASSUME NEW event, NEW kinds, NEW from, NEW to2, Fires(event, kinds, from, to2)
      PROVE  \E e \in Lifecycle!Edges : Lifecycle!Fire(j, e)
  <2> DEFINE e == Lifecycle!Edge(event, kinds, from, to2)
  <2>1. e.kinds = kinds /\ e.from = from /\ e.to = to2
    BY DEF Lifecycle!Edge
  <2>2. Lifecycle!Fire(j, e)
    BY <1>1, <2>1 DEF Lifecycle!Fire, statusOfJobs
  <2> QED
    BY <1>1, <2>2
<1>2. /\ Lifecycle!Kinds = {"apk", "ipa", "ota"}
      /\ Lifecycle!Packages = {"apk", "ipa"}
      /\ Lifecycle!BuilderActiveStatuses = {"claimed", "running"}
  BY DEF Lifecycle!Kinds, Lifecycle!Packages, Lifecycle!BuilderActiveStatuses
<1>3. statusOfJobs'[j] # statusOfJobs[j]
  BY DEF statusOfJobs
<1>4. Lifecycle!Refuse(j) \/ \E e \in Lifecycle!Edges : Lifecycle!Fire(j, e)
  <2>1. CASE to = "claimed"
    <3>1. Fires("builder.claim", Lifecycle!Kinds, {"queued"}, {"claimed"})
      BY <1>2, <2>1 DEF Lifecycle!Edges
    <3> QED
      BY <1>1, <3>1
  <2>2. CASE to = "canceled"
    <3>1. Fires("admin.cancel", Lifecycle!Kinds, Lifecycle!BuilderActiveStatuses \cup {"queued"},
                {"canceled"})
      BY <1>2, <2>2 DEF Lifecycle!Edges
    <3> QED
      BY <1>1, <3>1
  <2>3. CASE to = "succeeded"
    <3>1. Fires("builder.ios-release", {"ipa"}, Lifecycle!BuilderActiveStatuses, {"succeeded"})
      BY <1>2, <2>3 DEF Lifecycle!Edges
    <3> QED
      BY <1>1, <3>1
  <2>4. CASE statusOfJobs[j] = "claimed" /\ to \in {"queued", "failed"}
    <3>1. Fires("reaper.build-timeout", Lifecycle!Packages, Lifecycle!BuilderActiveStatuses,
                {"queued", "failed"})
      BY <1>2, <2>4 DEF Lifecycle!Edges
    <3> QED
      BY <1>1, <3>1
  <2>5. CASE statusOfJobs[j] = "queued" /\ to = "failed"
    BY <2>5 DEF Lifecycle!Refuse, statusOfJobs
  <2> QED
    BY <2>1, <2>2, <2>3, <2>4, <2>5
<1> QED
  BY <1>3, <1>4 DEF Lifecycle!Next, statusOfJobs

(* A step moves one job at most, and along an edge.                        *)
LEMMA RefinementStep ==
    ASSUME IInv, BoundsAssumption, [Next]_vars
    PROVE  Lifecycle!Next \/ UNCHANGED statusOfJobs
<1>1. RowsTyped /\ AdminsTyped /\ RowsMove
  BY MovesOfRows DEF IInv, Typed
<1>2. CASE UNCHANGED rows
  BY <1>2 DEF statusOfJobs, StatusOf
<1>3. ASSUME NEW a \in Admins, NEW n \in Numbers, Queues(a, n)
      PROVE  Lifecycle!Next
  <2> DEFINE j == Len(rows) + 1
  <2>1. /\ DOMAIN rows' = DOMAIN rows \cup {j} /\ j \notin DOMAIN rows /\ Len(rows) \in Nat
        /\ \A i \in DOMAIN rows : rows'[i] = rows[i]
        /\ rows'[j].status = "queued"
    <3>1. /\ DOMAIN rows' = DOMAIN rows \cup {Len(rows) + 1} /\ Len(rows) + 1 \notin DOMAIN rows
          /\ Len(rows) \in Nat /\ \A i \in DOMAIN rows : rows'[i] = rows[i]
          /\ rows'[Len(rows) + 1] = NewRow(n, admin[a].mode)
      BY <1>1, <1>3, QueuedRows
    <3> QED
      BY <3>1 DEF NewRow
  <2>2. j \in 1..MaxJobs
    BY <1>3, <2>1 DEF Queues, BoundsAssumption
  <2> HIDE DEF j
  <2>3. statusOfJobs[j] = "absent" /\ statusOfJobs' = [statusOfJobs EXCEPT ![j] = "queued"]
    BY <2>1, <2>2 DEF statusOfJobs, StatusOf
  <2>4. Lifecycle!Queue(j) /\ statusOfJobs'[j] # statusOfJobs[j]
    BY <2>2, <2>3 DEF Lifecycle!Queue, statusOfJobs
  <2> QED
    BY <2>2, <2>4 DEF Lifecycle!Next, statusOfJobs
<1>4. ASSUME NEW j \in DOMAIN rows, Becomes(j, rows'[j]),
             Goes(rows[j], rows'[j]) \/ Claims(rows[j], rows'[j])
      PROVE  Lifecycle!Next \/ UNCHANGED statusOfJobs
  <2>1. DOMAIN rows' = DOMAIN rows /\ \A i \in DOMAIN rows : i # j => rows'[i] = rows[i]
    BY <1>4 DEF Becomes
  <2>2. CASE rows'[j].status = rows[j].status \/ j \notin 1..MaxJobs
    BY <2>1, <2>2 DEF statusOfJobs, StatusOf
  <2>3. CASE rows'[j].status # rows[j].status /\ j \in 1..MaxJobs
    <3>1. /\ statusOfJobs[j] = rows[j].status
          /\ statusOfJobs' = [statusOfJobs EXCEPT ![j] = rows'[j].status]
      BY <2>1, <2>3 DEF statusOfJobs, StatusOf
    <3>2. rows[j].status \in Statuses /\ rows'[j].status \in Statuses
      <4>1. rows[j] \in Row /\ rows'[j] \in Row
        BY <1>1, <1>4, RowOf DEF Becomes
      <4> QED
        BY <4>1 DEF Row
    <3>3. \/ rows[j].status = "queued" /\ rows'[j].status \in {"claimed", "failed", "canceled"}
          \/ /\ rows[j].status = "claimed"
             /\ rows'[j].status \in {"queued", "failed", "canceled", "succeeded"}
      BY <1>4, <2>3, <3>2 DEF Goes, Claims, Statuses, InFlight, Concluded
    <3> QED
      BY <2>3, <3>1, <3>3, IosEdges
  <2> QED
    BY <2>2, <2>3
<1> QED
  BY <1>1, <1>2, <1>3, <1>4 DEF RowsMove

(* FollowsTheStateMachine: the queue of iOS packages implements            *)
(* BuildJobLifecycle for jobs of the kind "ipa": whatever reports, reapers *)
(* and cancellations interleave, a row moves along the declared edges.     *)
THEOREM FollowsTheStateMachineHolds ==
    ASSUME BoundsAssumption PROVE Spec => FollowsTheStateMachine
<1> DEFINE st == [j \in 1..MaxJobs |-> StatusOf(j)]
<1>1. Init => Lifecycle!Init
  BY DEF Init, Lifecycle!Init, StatusOf
<1>2. IInv /\ [Next]_vars => [Lifecycle!Next]_st
  BY RefinementStep DEF statusOfJobs
<1> QED
  BY <1>1, <1>2, QueueInvariant, PTL DEF Spec, FollowsTheStateMachine, Lifecycle!Spec
=============================================================================
