------------------------ MODULE BuildPipelineProofs ------------------------
(***************************************************************************)
(* Theorems about BuildPipeline, for any number of jobs, machines,         *)
(* handlers and server instances, and for any retry limits.                *)
(* Part one is about types, part two about the jobs of the queue, part     *)
(* three about what becomes a release, what the pipeline references and    *)
(* what it deletes.                                                        *)
(***************************************************************************)
EXTENDS BuildPipeline, TLAPS

(***************************************************************************)
(* Type correctness                                                        *)
(***************************************************************************)

(* What a nullable column can hold, and what is in it.                     *)
LEMMA NullableIntro ==
    ASSUME NEW S
    PROVE  /\ {} \in Nullable(S)
           /\ \A x \in S : {x} \in Nullable(S)
           /\ \A n \in Nullable(S) : n \subseteq S
  BY DEF Nullable

(* The columns of a row.                                                   *)
LEMMA RowColumns ==
    ASSUME NEW row \in Row
    PROVE  /\ row.status \in Status
           /\ row.attempt \in Nat /\ row.signAttempt \in Nat /\ row.signFailures \in Nat
           /\ row.machine \in Nullable(Builders) /\ row.signer \in Nullable(Signers)
           /\ row.quiet \in BOOLEAN
           /\ row.key \in [Files -> Nullable(Key)]
           /\ row.sha \in [BuildFiles -> Nullable(Contents)]
           /\ row.provenance \in Nullable([BuildFiles -> Nullable(Contents)])
           /\ row.artifact \in Nullable(Contents)
  BY DEF Row

(* The keys of a row are keys.                                             *)
LEMMA KeysOfType ==
    ASSUME NEW row \in Row, NEW files \in SUBSET Files
    PROVE  KeysOf(row, files) \in SUBSET Key
<1>1. \A f \in files : row.key[f] \subseteq Key
  BY RowColumns, NullableIntro
<1> QED
  BY <1>1 DEF KeysOf

(* Each way a row is rewritten gives a row.                                *)
LEMMA RowRewritten ==
    ASSUME NEW row \in Row
    PROVE  /\ \A files \in SUBSET Files : WithoutKeys(row, files) \in Row
           /\ \A s \in Status : To(row, s) \in Row
           /\ \A m \in Builders : Claimed(row, m) \in Row
<1>1. \A files \in SUBSET Files : WithoutKeys(row, files) \in Row
  <2> SUFFICES ASSUME NEW files \in SUBSET Files PROVE WithoutKeys(row, files) \in Row
    OBVIOUS
  <2>1. [f \in Files |-> IF f \in files THEN {} ELSE row.key[f]] \in [Files -> Nullable(Key)]
    BY NullableIntro, RowColumns
  <2> QED
    BY <2>1 DEF WithoutKeys, Row
<1>2. \A s \in Status : To(row, s) \in Row
  BY DEF To, Row
<1>3. ASSUME NEW m \in Builders PROVE Claimed(row, m) \in Row
  <2> DEFINE cl == [To(row, "claimed") EXCEPT !.attempt = row.attempt + 1, !.machine = {m},
                                           !.sha = [f \in BuildFiles |-> {}],
                                           !.provenance = {}]
  <2>1. cl \in Row
    <3>1. [f \in BuildFiles |-> {}] \in [BuildFiles -> Nullable(Contents)]
      BY NullableIntro
    <3>2. {m} \in Nullable(Builders)
      BY NullableIntro
    <3>3. {} \in Nullable([BuildFiles -> Nullable(Contents)])
      BY NullableIntro
    <3>4. "claimed" \in Status
      BY DEF Status, InFlight
    <3>5. row.attempt + 1 \in Nat
      BY RowColumns
    <3>6. To(row, "claimed") \in Row
      BY <1>2, <3>4
    <3> QED
      BY <3>1, <3>2, <3>3, <3>5, <3>6 DEF Row
  <2>2. \A f2 \in SUBSET Files : [cl EXCEPT !.key = [f \in Files |-> IF f \in f2 THEN {} ELSE cl.key[f]]] \in Row
    <3> HIDE DEF cl
    <3> TAKE f2 \in SUBSET Files
    <3>1. [f \in Files |-> IF f \in f2 THEN {} ELSE cl.key[f]] \in [Files -> Nullable(Key)]
      BY NullableIntro, RowColumns, <2>1
    <3> QED
      BY <2>1, <3>1 DEF Row
  <2>3. BuildFiles \in SUBSET Files
    BY DEF Files
  <2> QED
    BY <2>2, <2>3 DEF Claimed, WithoutKeys
<1> QED
  BY <1>1, <1>2, <1>3

(* A row of which one plain column is rewritten.                           *)
LEMMA ColumnRewritten ==
    ASSUME NEW row \in Row
    PROVE  /\ \A q \in BOOLEAN : LET new == [row EXCEPT !.quiet = q] IN
                  /\ new \in Row
                  /\ new.status = row.status /\ new.attempt = row.attempt
                  /\ new.machine = row.machine /\ new.signFailures = row.signFailures
           /\ \A s \in Status : [row EXCEPT !.status = s] \in Row
           /\ \A n \in Nat : LET new == [row EXCEPT !.signFailures = n] IN
                  /\ new \in Row
                  /\ new.status = row.status /\ new.attempt = row.attempt
                  /\ new.machine = row.machine /\ new.signFailures = n
<1>1. ASSUME NEW q \in BOOLEAN
      PROVE  LET new == [row EXCEPT !.quiet = q] IN
             /\ new \in Row
             /\ new.status = row.status /\ new.attempt = row.attempt
             /\ new.machine = row.machine /\ new.signFailures = row.signFailures
  <2>1. [row EXCEPT !.quiet = q] \in Row
    BY SMTT(60) DEF Row
  <2> QED
    BY <2>1 DEF Row
<1>2. ASSUME NEW s \in Status PROVE [row EXCEPT !.status = s] \in Row
  BY SMTT(60) DEF Row
<1>3. ASSUME NEW n \in Nat
      PROVE  LET new == [row EXCEPT !.signFailures = n] IN
             /\ new \in Row
             /\ new.status = row.status /\ new.attempt = row.attempt
             /\ new.machine = row.machine /\ new.signFailures = n
  <2>1. [row EXCEPT !.signFailures = n] \in Row
    BY SMTT(60) DEF Row
  <2> QED
    BY <2>1 DEF Row
<1> QED
  BY <1>1, <1>2, <1>3

(* What a handler remembers, from the step it is at.                       *)
LEMMA Remembers ==
    ASSUME TypeOK, NEW c \in Calls \cup Reapers
    PROVE  LET call == calls[c] IN
           /\ Idle \in Call
           /\ At(c, "delete") => call.keys \in SUBSET Key
           /\ At(c, "create") => call.job \in Jobs
           /\ At(c, "dispatch") => /\ call.job \in Jobs /\ call.by \in Builders
                                   /\ call.number \in Nat /\ call.keys \in SUBSET Key
           /\ At(c, "put") => /\ call.job \in Jobs /\ call.by \in Machines
                              /\ call.number \in Nat /\ call.file \in Files
                              /\ call.key \in Key
           /\ At(c, "record") => /\ call.job \in Jobs /\ call.by \in Machines
                                 /\ call.number \in Nat /\ call.file \in Files
                                 /\ call.key \in Key /\ call.content \in Contents
           /\ At(c, "built") => /\ call.job \in Jobs /\ call.by \in Machines
                                /\ call.number \in Nat
                                /\ call.sha \in [BuildFiles -> Nullable(Contents)]
           /\ At(c, "reapBuild") => call.job \in Jobs /\ call.number \in Nat
           /\ At(c, "reapSign") => /\ call.job \in Jobs /\ call.number \in Nat
                                   /\ call.failures \in Nat
           /\ At(c, "signClaim") => /\ call.job \in Jobs /\ call.by \in Signers
                                    /\ call.number \in Nat
           /\ At(c, "verify") => /\ call.job \in Jobs /\ call.by \in Machines
                                 /\ call.number \in Nat /\ call.key \in Nullable(Key)
                                 /\ call.content \in Contents
           /\ At(c, "finish") => /\ call.job \in Jobs /\ call.by \in Machines
                                 /\ call.number \in Nat /\ call.key \in Nullable(Key)
                                 /\ call.content \in Contents
                                 /\ call.identity \in Certificates
           /\ At(c, "violation") \/ At(c, "transient") =>
                   /\ call.job \in Jobs /\ call.by \in Machines
                   /\ call.number \in Nat /\ call.failures \in Nat
<1>1. calls[c] \in Call
  BY DEF TypeOK
<1> QED
  BY <1>1 DEF Call, At, Idle

(* A handler that deletes objects, or returns, is well typed.              *)
LEMMA ThenDeletesType ==
    ASSUME TypeOK, NEW c \in Calls \cup Reapers, NEW keys \in SUBSET Key,
           ThenDeletes(c, keys)
    PROVE  calls' \in [Calls \cup Reapers -> Call]
  BY DEF TypeOK, ThenDeletes, Becomes, Call, Idle

(* A transaction that rewrites a row and lets go of some of its keys.      *)
LEMMA TransitionType ==
    ASSUME TypeOK, NEW c \in Calls \cup Reapers, NEW j \in Jobs, NEW row \in Row,
           NEW files \in SUBSET Files, Transition(c, j, row, files)
    PROVE  /\ rows' \in [Jobs -> Row]
           /\ calls' \in [Calls \cup Reapers -> Call]
<1>1. WithoutKeys(row, files) \in Row
  BY RowRewritten
<1>2. KeysOf(row, files) \in SUBSET Key
  BY KeysOfType
<1>3. rows' \in [Jobs -> Row]
  BY <1>1 DEF Transition, TypeOK
<1> QED
  BY <1>2, <1>3, ThenDeletesType DEF Transition

(* Whatever entry a claim has, it names a job and a machine.               *)
LEMMA ClaimType ==
    ASSUME TypeOK, NEW k \in claims
    PROVE  k.job \in Jobs /\ k.by \in Machines /\ k.number \in Nat
  BY DEF TypeOK, GivenClaim

(* The statuses a step may enter, as members of the column's type.         *)
LEMMA StatusNames ==
    /\ {"queued", "claimed", "running", "built", "signing", "succeeded", "failed",
        "canceled"} \subseteq Status
    /\ BuildFiles \in SUBSET Files /\ {"signed"} \in SUBSET Files /\ Files \in SUBSET Files
  BY DEF Status, InFlight, Concluded, Files

LEMMA InitType == Init => TypeOK
<1> SUFFICES ASSUME Init PROVE TypeOK
  OBVIOUS
<1>1. NewRow \in Row
  <2>1. [f \in Files |-> {}] \in [Files -> Nullable(Key)]
    BY NullableIntro
  <2>2. [f \in BuildFiles |-> {}] \in [BuildFiles -> Nullable(Contents)]
    BY NullableIntro
  <2>3. {} \in Nullable(Builders) /\ {} \in Nullable(Signers) /\ {} \in Nullable(Contents)
    BY NullableIntro
  <2>4. {} \in Nullable([BuildFiles -> Nullable(Contents)])
    BY NullableIntro
  <2> QED
    BY <2>1, <2>2, <2>3, <2>4 DEF NewRow, Row, Status
<1>2. calls \in [Calls \cup Reapers -> Call]
  BY DEF Init, Call
<1>3. primary \in Nullable(Signers)
  BY NullableIntro DEF Init
<1>4. uploads \in 0..MaxUploads
  BY LimitsAssumption DEF Init
<1> QED
  BY <1>1, <1>2, <1>3, <1>4 DEF Init, TypeOK

(***************************************************************************)
(* Each group of handlers keeps the types.                                 *)
(***************************************************************************)
LEMMA AdministratorType == TypeOK /\ Administrator => TypeOK'
<1> SUFFICES ASSUME TypeOK, Administrator PROVE TypeOK'
  OBVIOUS
<1> USE StatusNames
<1>1. ASSUME NEW j \in Jobs, NEW c \in Calls, CreateCheck(c, j) PROVE TypeOK'
  <2>1. calls' \in [Calls \cup Reapers -> Call]
    BY <1>1 DEF CreateCheck, Becomes, TypeOK, Call
  <2> QED
    BY <1>1, <2>1 DEF CreateCheck, TypeOK
<1>2. ASSUME NEW j \in Jobs, NEW c \in Calls, Cancel(c, j) PROVE TypeOK'
  <2>1. To(rows[j], "canceled") \in Row
    BY RowRewritten DEF TypeOK
  <2>2. /\ rows' \in [Jobs -> Row] 
        /\ calls' \in [Calls \cup Reapers -> Call]
    BY <1>2, <2>1, TransitionType DEF Cancel
  <2> QED
    BY <1>2, <2>2 DEF Cancel, TypeOK
<1>3. ASSUME NEW j \in Jobs, NEW c \in Calls, ForceFail(c, j) PROVE TypeOK'
  <2>1. To(rows[j], "failed") \in Row
    BY RowRewritten DEF TypeOK
  <2>2. /\ rows' \in [Jobs -> Row] 
        /\ calls' \in [Calls \cup Reapers -> Call]
    BY <1>3, <2>1, TransitionType DEF ForceFail
  <2> QED
    BY <1>3, <2>2 DEF ForceFail, TypeOK
<1>4. ASSUME NEW c \in Calls, CreateInsert(c) PROVE TypeOK'
  <2>1. rows' \in [Jobs -> Row]
    <3> DEFINE j == calls[c].job
    <3>1. j \in Jobs
      BY <1>4, Remembers DEF CreateInsert
    <3>2. [rows[j] EXCEPT !.status = "queued"] \in Row
      BY <3>1, ColumnRewritten DEF TypeOK
    <3>3. rows' = rows \/ rows' = [rows EXCEPT ![j].status = "queued"]
      BY <1>4 DEF CreateInsert
    <3> HIDE DEF j
    <3> QED
      BY <3>1, <3>2, <3>3 DEF TypeOK
  <2>2. calls' \in [Calls \cup Reapers -> Call]
    BY <1>4, Remembers DEF CreateInsert, Returns, Becomes, TypeOK
  <2> QED
    BY <1>4, <2>1, <2>2 DEF CreateInsert, TypeOK
<1>5. ASSUME NEW n \in ManualBuilds, ManualRelease(n) PROVE TypeOK'
  <2>1. [build |-> n, job |-> {}, key |-> {}, content |-> {}, certificate |-> {}] \in Release
    BY NullableIntro, NumbersAssumption DEF Release
  <2> QED
    BY <1>5, <2>1 DEF ManualRelease, TypeOK
<1>6. ASSUME NEW c \in Calls, NEW r \in releases, Purge(c, r) PROVE TypeOK'
  <2>1. rows' \in [Jobs -> Row]
    BY <1>6, RowRewritten DEF Purge, TypeOK
  <2>2. /\ r.key \in SUBSET Key
        /\ r.job \in SUBSET Jobs
    BY NullableIntro DEF TypeOK, Release
  <2>3. \A j \in r.job : KeysOf(rows[j], BuildFiles) \in SUBSET Key
    BY <2>2, KeysOfType DEF TypeOK
  <2>4. r.key \cup UNION {KeysOf(rows[j], BuildFiles) : j \in r.job} \in SUBSET Key
    BY <2>2, <2>3
  <2>5. calls' \in [Calls \cup Reapers -> Call]
    BY <1>6, <2>4, ThenDeletesType DEF Purge
  <2> QED
    BY <1>6, <2>1, <2>5 DEF Purge, TypeOK
<1>7. ASSUME NEW p \in Nullable(Signers \cap Administered), SetPrimary(p) PROVE TypeOK'
  <2>1. p \in Nullable(Signers)
    BY DEF Nullable
  <2> QED
    BY <1>7, <2>1 DEF SetPrimary, TypeOK
<1>8. ASSUME NEW m \in Machines \cap Administered, Revoke(m) PROVE TypeOK'
  <2>1. primary' \in Nullable(Signers)
    BY <1>8 DEF Revoke, TypeOK, Nullable
  <2> QED
    BY <1>8, <2>1 DEF Revoke, TypeOK
<1>9. ASSUME NEW i \in Certificates, ChangeIdentity(i) PROVE TypeOK'
  BY <1>9 DEF ChangeIdentity, TypeOK
<1> QED
  BY <1>1, <1>2, <1>3, <1>4, <1>5, <1>6, <1>7, <1>8, <1>9 DEF Administrator

LEMMA BuildingType == TypeOK /\ Building => TypeOK'
<1> SUFFICES ASSUME TypeOK, Building PROVE TypeOK'
  OBVIOUS
<1> USE StatusNames
<1>1. ASSUME NEW m \in Builders, NEW j \in Jobs, ClaimRefused(m, j) PROVE TypeOK'
  <2>1. To(Claimed(rows[j], m), "failed") \in Row
    BY RowRewritten DEF TypeOK
  <2> QED
    BY <1>1, <2>1 DEF ClaimRefused, TypeOK
<1>2. ASSUME NEW m \in Builders, NEW j \in Jobs, NEW c \in Calls, Claim(c, m, j) PROVE TypeOK'
  <2>1. Claimed(rows[j], m) \in Row /\ rows[j] \in Row
    BY RowRewritten DEF TypeOK
  <2>2. rows[j].attempt + 1 \in Nat
    BY <2>1, RowColumns
  <2>3. claims' \subseteq GivenClaim
    BY <1>2, <2>2 DEF Claim, TypeOK, GivenClaim, Machines
  <2>4. KeysOf(rows[j], BuildFiles) \in SUBSET Key
    BY <2>1, KeysOfType
  <2>5. calls' \in [Calls \cup Reapers -> Call]
    BY <1>2, <2>2, <2>4 DEF Claim, Becomes, TypeOK, Call
  <2> QED
    BY <1>2, <2>1, <2>3, <2>5 DEF Claim, TypeOK
<1>3. ASSUME NEW k \in claims, Heartbeat(k) PROVE TypeOK'
  <2>1. To(rows[k.job], "running") \in Row
    BY ClaimType, RowRewritten DEF TypeOK
  <2> QED
    BY <1>3, <2>1 DEF Heartbeat, TypeOK
<1>4. ASSUME NEW k \in claims, CompleteOTA(k) PROVE TypeOK'
  <2>1. To(rows[k.job], "succeeded") \in Row
    BY ClaimType, RowRewritten DEF TypeOK
  <2> QED
    BY <1>4, <2>1 DEF CompleteOTA, TypeOK
<1>5. ASSUME NEW k \in claims, NEW c \in Calls, Fail(c, k) PROVE TypeOK'
  <2>1. k.job \in Jobs /\ To(rows[k.job], "failed") \in Row
    BY ClaimType, RowRewritten DEF TypeOK
  <2>2. /\ rows' \in [Jobs -> Row] 
        /\ calls' \in [Calls \cup Reapers -> Call]
    BY <1>5, <2>1, TransitionType DEF Fail
  <2> QED
    BY <1>5, <2>2 DEF Fail, TypeOK
<1>6. ASSUME NEW k \in claims, NEW c \in Calls, FailOrphaned(c, k) PROVE TypeOK'
  <2>1. k.job \in Jobs /\ To(rows[k.job], "queued") \in Row
    BY ClaimType, RowRewritten DEF TypeOK
  <2>2. /\ rows' \in [Jobs -> Row] 
        /\ calls' \in [Calls \cup Reapers -> Call]
    BY <1>6, <2>1, TransitionType DEF FailOrphaned
  <2> QED
    BY <1>6, <2>2 DEF FailOrphaned, TypeOK
<1>7. ASSUME NEW k \in claims, NEW c \in Calls, BuiltCheck(c, k) PROVE TypeOK'
  <2>1. rows[k.job].sha \in [BuildFiles -> Nullable(Contents)]
    BY ClaimType, RowColumns DEF TypeOK
  <2>2. calls' \in [Calls \cup Reapers -> Call]
    BY <1>7, <2>1, ClaimType DEF BuiltCheck, Becomes, TypeOK, Call
  <2> QED
    BY <1>7, <2>2 DEF BuiltCheck, TypeOK
<1>8. ASSUME NEW c \in Calls, Dispatch(c) PROVE TypeOK'
  <2>1. calls' \in [Calls \cup Reapers -> Call]
    BY <1>8, Remembers DEF Dispatch, Returns, Becomes, TypeOK
  <2> QED
    BY <1>8, <2>1 DEF Dispatch, Without, TypeOK
<1>9. ASSUME NEW c \in Calls, DispatchFail(c) PROVE TypeOK'
  <2>1. calls' \in [Calls \cup Reapers -> Call]
    BY <1>9, Remembers DEF DispatchFail, Returns, Becomes, TypeOK
  <2>2. calls[c].job \in Jobs
    BY <1>9, Remembers DEF DispatchFail
  <2>3. To(rows[calls[c].job], "failed") \in Row
    BY <2>2, RowRewritten DEF TypeOK
  <2>4. rows' \in [Jobs -> Row]
    BY <1>9, <2>2, <2>3 DEF DispatchFail, TypeOK
  <2> QED
    BY <1>9, <2>1, <2>4 DEF DispatchFail, Without, TypeOK
<1>10. ASSUME NEW c \in Calls, BuiltCommit(c) PROVE TypeOK'
  <2> DEFINE b == calls[c]
  <2>1. b.job \in Jobs /\ b.sha \in [BuildFiles -> Nullable(Contents)]
    BY <1>10, Remembers DEF BuiltCommit
  <2>2. To(rows[b.job], "built") \in Row
    BY <2>1, RowRewritten DEF TypeOK
  <2>3. [To(rows[b.job], "built") EXCEPT !.provenance = {b.sha}] \in Row
    BY <2>1, <2>2, NullableIntro DEF Row
  <2>4. rows' \in [Jobs -> Row]
    BY <1>10, <2>1, <2>3 DEF BuiltCommit, TypeOK
  <2>5. calls' \in [Calls \cup Reapers -> Call]
    BY <1>10, Remembers DEF BuiltCommit, Returns, Becomes, TypeOK
  <2> QED
    BY <1>10, <2>4, <2>5 DEF BuiltCommit, TypeOK
<1> QED
  BY <1>1, <1>2, <1>3, <1>4, <1>5, <1>6, <1>7, <1>8, <1>9, <1>10 DEF Building

LEMMA UploadingType == TypeOK /\ Uploading => TypeOK'
<1> SUFFICES ASSUME TypeOK, Uploading PROVE TypeOK'
  OBVIOUS
<1> USE StatusNames
<1>1. ASSUME NEW c \in Calls, NEW k \in claims, NEW f \in Files, UploadScope(c, k, f)
      PROVE  TypeOK'
  <2>1. FreshKey(k.job, f, k.number) \in Key
    BY ClaimType, LimitsAssumption DEF FreshKey, Key, TypeOK
  <2>2. calls' \in [Calls \cup Reapers -> Call]
    BY <1>1, <2>1, ClaimType DEF UploadScope, Becomes, TypeOK, Call
  <2>3. uploads' \in 0..MaxUploads
    BY <1>1, LimitsAssumption DEF UploadScope, TypeOK
  <2> QED
    BY <1>1, <2>2, <2>3 DEF UploadScope, TypeOK
<1>2. ASSUME NEW c \in Calls, NEW x \in Contents, UploadPut(c, x) PROVE TypeOK'
  <2>1. calls' \in [Calls \cup Reapers -> Call]
    BY <1>2, Remembers DEF UploadPut, Becomes, TypeOK, Call
  <2>2. objects' \subseteq [key : Key, content : Contents]
    BY <1>2, Remembers DEF UploadPut, Without, Object, TypeOK
  <2> QED
    BY <1>2, <2>1, <2>2 DEF UploadPut, TypeOK
<1>3. ASSUME NEW c \in Calls, UploadRefuse(c) PROVE TypeOK'
  <2>1. {calls[c].key} \in SUBSET Key
    BY <1>3, Remembers DEF UploadRefuse
  <2>2. calls' \in [Calls \cup Reapers -> Call]
    BY <1>3, <2>1, ThenDeletesType DEF UploadRefuse
  <2> QED
    BY <1>3, <2>2 DEF UploadRefuse, TypeOK
<1>4. ASSUME NEW c \in Calls, At(c, "record"), StillCurrent(calls[c])
      PROVE  Recorded(rows[calls[c].job], calls[c]) \in Row
  <2> DEFINE u == calls[c]
  <2> DEFINE row == rows[u.job]
  <2>1. u.job \in Jobs /\ u.file \in Files /\ u.key \in Key /\ u.content \in Contents
    BY <1>4, Remembers
  <2>2. row \in Row
    BY <2>1 DEF TypeOK
  <2> HIDE DEF row, u
  <2>3. {u.key} \in Nullable(Key) /\ {u.content} \in Nullable(Contents)
    BY <2>1, NullableIntro
  <2>4. [row.key EXCEPT ![u.file] = {u.key}] \in [Files -> Nullable(Key)]
    BY <2>2, <2>3, RowColumns
  <2>5. [row.sha EXCEPT ![u.file] = {u.content}] \in [BuildFiles -> Nullable(Contents)]
    BY <2>2, <2>3, RowColumns
  <2>6. Recorded(row, u) \in Row
    BY <2>2, <2>4, <2>5 DEF Recorded, Row
  <2> QED
    BY <2>6 DEF row, u
<1>5. ASSUME NEW c \in Calls, UploadRecord(c) PROVE TypeOK'
  <2> DEFINE u == calls[c]
  <2>1. At(c, "record") /\ u.job \in Jobs /\ u.file \in Files /\ u.key \in Key
    BY <1>5, Remembers DEF UploadRecord
  <2>2. rows' \in [Jobs -> Row]
    BY <1>4, <1>5, <2>1 DEF UploadRecord, TypeOK
  <2>3. rows[u.job].key[u.file] \in SUBSET Key
    BY <2>1, RowColumns, NullableIntro DEF TypeOK
  <2>4. ThenDeletes(c, rows[u.job].key[u.file] \ {u.key}) \/ ThenDeletes(c, {u.key})
    BY <1>5 DEF UploadRecord
  <2>5. calls' \in [Calls \cup Reapers -> Call]
    BY <2>1, <2>3, <2>4, ThenDeletesType
  <2> QED
    BY <1>5, <2>2, <2>5 DEF UploadRecord, TypeOK
<1>6. ASSUME NEW c \in Calls, UploadRecordUnsure(c) PROVE TypeOK'
  <2>1. rows' \in [Jobs -> Row]
    BY <1>4, <1>6, Remembers DEF UploadRecordUnsure, TypeOK
  <2>2. calls' \in [Calls \cup Reapers -> Call]
    BY <1>6, Remembers DEF UploadRecordUnsure, Returns, Becomes, TypeOK
  <2> QED
    BY <1>6, <2>1, <2>2 DEF UploadRecordUnsure, TypeOK
<1> QED
  BY <1>1, <1>2, <1>3, <1>5, <1>6 DEF Uploading

(* Counting a failed signing, by the reaper or by a rejection.             *)
LEMMA SigningFailedType ==
    ASSUME TypeOK, NEW c \in Calls \cup Reapers, NEW j \in Jobs, NEW failures \in Nat,
           SigningFailed(c, j, failures)
    PROVE  /\ rows' \in [Jobs -> Row]
           /\ calls' \in [Calls \cup Reapers -> Call]
<1> USE StatusNames
<1> DEFINE To1(s) == [To(rows[j], s) EXCEPT !.signFailures = failures + 1]
<1>1. To1("failed") \in Row /\ To1("built") \in Row
  <2>1. To(rows[j], "failed") \in Row /\ To(rows[j], "built") \in Row
    BY RowRewritten DEF TypeOK
  <2> QED
    BY <2>1, ColumnRewritten
<1>2. Transition(c, j, To1("failed"), Files) \/ Transition(c, j, To1("built"), {"signed"})
  BY DEF SigningFailed
<1> HIDE DEF To1
<1> QED
  BY <1>1, <1>2, TransitionType

LEMMA SigningType == TypeOK /\ Signing => TypeOK'
<1> SUFFICES ASSUME TypeOK, Signing PROVE TypeOK'
  OBVIOUS
<1> USE StatusNames
<1>1. ASSUME NEW k \in claims, SignHeartbeat(k) PROVE TypeOK'
  <2>1. [rows[k.job] EXCEPT !.quiet = FALSE] \in Row
    BY ClaimType, ColumnRewritten DEF TypeOK
  <2>2. rows' \in [Jobs -> Row]
    BY <1>1, <2>1, ClaimType DEF SignHeartbeat, TypeOK
  <2> QED
    BY <1>1, <2>2 DEF SignHeartbeat, TypeOK
<1>2. ASSUME NEW c \in Calls, NEW s \in Signers, NEW j \in Jobs, SignLook(c, s, j)
      PROVE  TypeOK'
  <2>1. rows[j].signAttempt \in Nat
    BY RowColumns DEF TypeOK
  <2>2. calls' \in [Calls \cup Reapers -> Call]
    BY <1>2, <2>1 DEF SignLook, Becomes, TypeOK, Call
  <2> QED
    BY <1>2, <2>2 DEF SignLook, TypeOK
<1>3. ASSUME NEW c \in Calls, NEW k \in claims, NEW x \in Contents, CompleteLook(c, k, x)
      PROVE  TypeOK'
  <2>1. [rows[k.job] EXCEPT !.quiet = FALSE] \in Row
    BY ClaimType, ColumnRewritten DEF TypeOK
  <2>2. rows' \in [Jobs -> Row]
    BY <1>3, <2>1, ClaimType DEF CompleteLook, TypeOK
  <2>3. rows[k.job].key["signed"] \in Nullable(Key)
    BY ClaimType, RowColumns DEF TypeOK, Files
  <2>4. calls' \in [Calls \cup Reapers -> Call]
    BY <1>3, <2>3, ClaimType DEF CompleteLook, Becomes, TypeOK, Call
  <2> QED
    BY <1>3, <2>2, <2>4 DEF CompleteLook, TypeOK
<1>4. ASSUME NEW c \in Calls, NEW k \in claims, SignDefer(c, k) PROVE TypeOK'
  <2>1. k.job \in Jobs /\ To(rows[k.job], "built") \in Row
    BY ClaimType, RowRewritten DEF TypeOK
  <2>2. /\ rows' \in [Jobs -> Row]
        /\ calls' \in [Calls \cup Reapers -> Call]
    BY <1>4, <2>1, TransitionType DEF SignDefer
  <2> QED
    BY <1>4, <2>2 DEF SignDefer, TypeOK
<1>5. ASSUME NEW c \in Calls, NEW k \in claims, NEW kind \in {"violation", "transient"},
             RejectLook(c, k, kind)
      PROVE  TypeOK'
  <2>1. rows[k.job].signFailures \in Nat
    BY ClaimType, RowColumns DEF TypeOK
  <2>2. calls' \in [Calls \cup Reapers -> Call]
    BY <1>5, <2>1, ClaimType DEF RejectLook, Becomes, TypeOK, Call
  <2> QED
    BY <1>5, <2>2 DEF RejectLook, TypeOK
<1>6. ASSUME NEW c \in Calls, SignClaim(c) PROVE TypeOK'
  <2> DEFINE p == calls[c]
  <2> DEFINE row == rows[p.job]
  <2> DEFINE new == [To(row, "signing") EXCEPT !.signAttempt = p.number + 1, !.signer = {p.by}]
  <2>1. p.job \in Jobs /\ p.by \in Signers /\ p.number \in Nat
    BY <1>6, Remembers DEF SignClaim
  <2>2. row \in Row
    BY <2>1 DEF TypeOK
  <2>3. To(row, "failed") \in Row /\ To(row, "signing") \in Row
    BY <2>2, RowRewritten
  <2>4. {p.by} \in Nullable(Signers)
    BY <2>1, NullableIntro
  <2>5. new \in Row
    <3> HIDE DEF p, row
    <3>1. p.number + 1 \in Nat
      BY <2>1
    <3>2. [To(row, "signing") EXCEPT !.signAttempt = p.number + 1] \in Row
      BY <2>3, <3>1 DEF Row
    <3> QED
      BY <2>4, <3>2 DEF Row
  <2>6. \/ Returns(c) /\ UNCHANGED <<rows, claims>>
        \/ Transition(c, p.job, To(row, "failed"), Files) /\ UNCHANGED claims
        \/ /\ Transition(c, p.job, new, {"signed"})
           /\ claims' = claims \cup {[task |-> "sign", job |-> p.job, by |-> p.by,
                                      number |-> p.number + 1]}
    BY <1>6 DEF SignClaim
  <2>7. claims' \subseteq GivenClaim
    BY <2>1, <2>6 DEF TypeOK, GivenClaim, Machines
  <2> HIDE DEF p, row, new
  <2>8. /\ rows' \in [Jobs -> Row]
        /\ calls' \in [Calls \cup Reapers -> Call]
    <3>1. CASE Returns(c) /\ UNCHANGED <<rows, claims>>
      BY <3>1, Remembers DEF Returns, Becomes, TypeOK
    <3>2. CASE Transition(c, p.job, To(row, "failed"), Files)
      BY <2>1, <2>3, <3>2, TransitionType
    <3>3. CASE Transition(c, p.job, new, {"signed"})
      BY <2>1, <2>5, <3>3, TransitionType
    <3> QED
      BY <2>6, <3>1, <3>2, <3>3
  <2> QED
    BY <1>6, <2>7, <2>8 DEF SignClaim, TypeOK
<1>7. ASSUME NEW c \in Calls, CompleteVerify(c) PROVE TypeOK'
  <2>1. calls' \in [Calls \cup Reapers -> Call]
    BY <1>7, Remembers DEF CompleteVerify, Becomes, TypeOK, Call
  <2> QED
    BY <1>7, <2>1 DEF CompleteVerify, TypeOK
<1>8. ASSUME NEW c \in Calls, CompleteCommit(c) PROVE TypeOK'
  <2> DEFINE v == calls[c]
  <2>1. /\ v.job \in Jobs /\ v.key \in Nullable(Key) /\ v.content \in Contents
        /\ v.identity \in Certificates
    BY <1>8, Remembers DEF CompleteCommit
  <2>2. calls' \in [Calls \cup Reapers -> Call]
    BY <1>8, Remembers DEF CompleteCommit, Returns, Becomes, TypeOK
  <2>3. /\ {v.job} \in Nullable(Jobs) /\ {v.content} \in Nullable(Contents)
        /\ {v.identity} \in Nullable(Certificates)
    BY <2>1, NullableIntro
  <2>4. [build |-> BuildNumberOf[v.job], job |-> {v.job}, key |-> v.key,
         content |-> {v.content}, certificate |-> {v.identity}] \in Release
    BY <2>1, <2>3, NumbersAssumption DEF Release
  <2>5. To(rows[v.job], "succeeded") \in Row
    BY <2>1, RowRewritten DEF TypeOK
  <2>6. [To(rows[v.job], "succeeded") EXCEPT !.artifact = {v.content}] \in Row
    BY <2>3, <2>5 DEF Row
  <2>7. rows' \in [Jobs -> Row] /\ releases' \subseteq Release
    BY <1>8, <2>1, <2>4, <2>6 DEF CompleteCommit, TypeOK
  <2> QED
    BY <1>8, <2>2, <2>7 DEF CompleteCommit, TypeOK
<1>9. ASSUME NEW c \in Calls, RejectCommit(c) PROVE TypeOK'
  <2> DEFINE p == calls[c]
  <2>1. p.job \in Jobs /\ p.failures \in Nat
    BY <1>9, Remembers DEF RejectCommit
  <2>2. To(rows[p.job], "failed") \in Row
    BY <2>1, RowRewritten DEF TypeOK
  <2>3. \/ Returns(c) /\ rows' = rows
        \/ Transition(c, p.job, To(rows[p.job], "failed"), Files)
        \/ SigningFailed(c, p.job, p.failures)
    BY <1>9 DEF RejectCommit
  <2> HIDE DEF p
  <2>4. /\ rows' \in [Jobs -> Row]
        /\ calls' \in [Calls \cup Reapers -> Call]
    <3>1. CASE Returns(c) /\ rows' = rows
      BY <3>1, Remembers DEF Returns, Becomes, TypeOK
    <3>2. CASE Transition(c, p.job, To(rows[p.job], "failed"), Files)
      BY <2>1, <2>2, <3>2, TransitionType
    <3>3. CASE SigningFailed(c, p.job, p.failures)
      BY <2>1, <3>3, SigningFailedType
    <3> QED
      BY <2>3, <3>1, <3>2, <3>3
  <2> QED
    BY <1>9, <2>4 DEF RejectCommit, TypeOK
<1> QED
  BY <1>1, <1>2, <1>3, <1>4, <1>5, <1>6, <1>7, <1>8, <1>9 DEF Signing

LEMMA ReapingType == TypeOK /\ Reaping => TypeOK'
<1> SUFFICES ASSUME TypeOK, Reaping PROVE TypeOK'
  OBVIOUS
<1> USE StatusNames
<1>1. ASSUME NEW j \in Jobs, FallQuiet(j) PROVE TypeOK'
  <2>1. [rows[j] EXCEPT !.quiet = TRUE] \in Row
    BY ColumnRewritten DEF TypeOK
  <2> QED
    BY <1>1, <2>1 DEF FallQuiet, TypeOK
<1>2. ASSUME NEW r \in Reapers, NEW j \in Jobs, ReapLook(r, j) PROVE TypeOK'
  <2>1. /\ rows[j].attempt \in Nat /\ rows[j].signAttempt \in Nat
        /\ rows[j].signFailures \in Nat
    BY RowColumns DEF TypeOK
  <2>2. calls' \in [Calls \cup Reapers -> Call]
    BY <1>2, <2>1 DEF ReapLook, Becomes, TypeOK, Call
  <2> QED
    BY <1>2, <2>2 DEF ReapLook, TypeOK
<1>3. ASSUME NEW r \in Reapers, ReapBuild(r) PROVE TypeOK'
  <2> DEFINE j == calls[r].job
  <2>1. j \in Jobs
    BY <1>3, Remembers DEF ReapBuild
  <2>2. To(rows[j], "queued") \in Row /\ To(rows[j], "failed") \in Row
    BY <2>1, RowRewritten DEF TypeOK
  <2>3. \/ Transition(r, j, To(rows[j], "queued"), BuildFiles)
        \/ Transition(r, j, To(rows[j], "failed"), BuildFiles)
        \/ Returns(r) /\ rows' = rows
    BY <1>3 DEF ReapBuild
  <2> HIDE DEF j
  <2>4. /\ rows' \in [Jobs -> Row]
        /\ calls' \in [Calls \cup Reapers -> Call]
    <3>1. CASE Returns(r) /\ rows' = rows
      BY <3>1, Remembers DEF Returns, Becomes, TypeOK
    <3>2. CASE Transition(r, j, To(rows[j], "queued"), BuildFiles)
      BY <2>1, <2>2, <3>2, TransitionType
    <3>3. CASE Transition(r, j, To(rows[j], "failed"), BuildFiles)
      BY <2>1, <2>2, <3>3, TransitionType
    <3> QED
      BY <2>3, <3>1, <3>2, <3>3
  <2> QED
    BY <1>3, <2>4 DEF ReapBuild, TypeOK
<1>4. ASSUME NEW r \in Reapers, ReapSign(r) PROVE TypeOK'
  <2> DEFINE p == calls[r]
  <2>1. p.job \in Jobs /\ p.failures \in Nat
    BY <1>4, Remembers DEF ReapSign
  <2>2. SigningFailed(r, p.job, p.failures) \/ (Returns(r) /\ rows' = rows)
    BY <1>4 DEF ReapSign
  <2>3. /\ rows' \in [Jobs -> Row]
        /\ calls' \in [Calls \cup Reapers -> Call]
    <3>1. CASE Returns(r) /\ rows' = rows
      BY <3>1, Remembers DEF Returns, Becomes, TypeOK
    <3>2. CASE SigningFailed(r, p.job, p.failures)
      <4> HIDE DEF p
      <4> QED BY <2>1, <3>2, SigningFailedType
    <3> QED
      BY <2>2, <3>1, <3>2
  <2> QED
    BY <1>4, <2>3 DEF ReapSign, TypeOK
<1> QED
  BY <1>1, <1>2, <1>3, <1>4 DEF Reaping

LEMMA ServerType == TypeOK /\ Server => TypeOK'
<1> SUFFICES ASSUME TypeOK, NEW c \in Calls \cup Reapers, DeleteObjects(c) \/ Abandon(c)
             PROVE  TypeOK'
  BY DEF Server
<1>1. calls' \in [Calls \cup Reapers -> Call]
  BY Remembers DEF DeleteObjects, Abandon, Returns, Becomes, TypeOK
<1> QED
  BY <1>1 DEF DeleteObjects, Abandon, Without, TypeOK

LEMMA TypeStep == TypeOK /\ [Next]_vars => TypeOK'
<1>1. TypeOK /\ UNCHANGED vars => TypeOK'
  BY DEF vars, TypeOK
<1> QED
  BY <1>1, AdministratorType, BuildingType, UploadingType, SigningType, ReapingType,
     ServerType DEF Next

(* Every variable always holds what its column, table or handler can hold: *)
(* whatever handlers interleave, a row written from what one of them       *)
(* remembers is a row.                                                     *)
THEOREM TypeCorrect == Spec => []TypeOK
<1> QED
  BY InitType, TypeStep, PTL DEF Spec

-----------------------------------------------------------------------------
(***************************************************************************)
(* What may happen to a job                                                *)
(*                                                                         *)
(* Only a few things ever happen to the row of a job.  The lemma           *)
(* OneRowMoves finds them in the actions, once; the theorems after it need *)
(* no more of the actions than that.                                       *)
(***************************************************************************)


(* Only a package is ever built and signed, and a /built request that      *)
(* still has to commit is of a package.                                    *)
OnlyPackagesAreBuilt ==
    /\ \A j \in Jobs : rows[j].status \in {"built", "signing"} => IsPackage(j)
    /\ \A c \in Calls \cup Reapers : At(c, "built") => IsPackage(calls[c].job)

(* The row goes from one of the statuses to one of the others, and neither *)
(* its claim nor its failures change.                                      *)
Goes(j, from, to) ==
    /\ rows[j].status \in from
    /\ rows'[j].status \in to
    /\ rows'[j].attempt = rows[j].attempt
    /\ rows'[j].machine = rows[j].machine
    /\ rows'[j].signFailures = rows[j].signFailures

(* A report of the holder, or the clock, leaves it where it is.            *)
IsReported(j) ==
    \E s \in BuilderActive \cup {"signing"} : Goes(j, {s}, {s})

IsPurged(j) ==
    /\ Goes(j, {rows[j].status}, {rows[j].status})
    /\ rows'[j] = WithoutKeys(rows[j], Files)
    /\ \E r \in releases \ releases' : r.job = {j}

IsClaimed(j) ==
    \E m \in Builders :
        /\ MayClaim(m, j)
        /\ rows'[j].status \in {"claimed", "failed"}
        /\ rows'[j].machine = {m}
        /\ rows'[j].attempt = rows[j].attempt + 1
        /\ rows'[j].signFailures = rows[j].signFailures

IsFailedSigning(j) ==
    /\ IsPackage(j)
    /\ rows[j].status = "signing"
    /\ rows'[j].status =
          IF rows[j].signFailures + 1 >= MaxSignFailures THEN "failed" ELSE "built"
    /\ rows'[j].attempt = rows[j].attempt
    /\ rows'[j].machine = rows[j].machine
    /\ rows'[j].signFailures = rows[j].signFailures + 1

(* Under the release sequence lock: nothing released has overtaken it.     *)
IsSignClaimed(j) ==
    /\ IsPackage(j) /\ Goes(j, {"built"}, {"signing"})
    /\ Increases(BuildNumberOf[j]) /\ releases' = releases

(* The signed package becomes a release.                                   *)
IsReleased(j) ==
    /\ IsPackage(j) /\ Goes(j, {"signing"}, {"succeeded"})
    /\ \E c \in Calls :
          CompleteCommit(c) /\ StillCompletable(calls[c]) /\ calls[c].job = j

Moves(j) ==
    \/ IsReported(j)
    \/ IsPurged(j)
    \/ IsClaimed(j)
    \/ IsFailedSigning(j)
    \/ Goes(j, {"absent"}, {"queued"})
    \/ Goes(j, {"queued"}, {"canceled"})
    \/ Goes(j, BuilderActive, {"running", "failed", "canceled"})
    \/ IsPackage(j) /\ Goes(j, BuilderActive, {"built"})
    \/ IsPackage(j) /\ Goes(j, BuilderActive, {"queued"}) /\ rows[j].attempt < MaxBuildAttempts
    \/ ~IsPackage(j) /\ Goes(j, BuilderActive, {"succeeded"})
    \/ IsPackage(j) /\ Goes(j, {"built"}, {"canceled", "failed"})
    \/ IsSignClaimed(j)
    \/ IsPackage(j) /\ Goes(j, {"signing"}, {"built", "failed"})
    \/ IsReleased(j)

OnlyOneMoves ==
    \/ rows' = rows
    \/ \E j \in Jobs : Moves(j) /\ \A i \in Jobs : i # j => rows'[i] = rows[i]

(***************************************************************************)
(* Every step moves at most one row, and moves it in one of these ways.    *)
(***************************************************************************)

(* A transaction writes the row it is given, without the keys it drops.    *)
LEMMA TransitionRow ==
    ASSUME TypeOK, NEW c, NEW j \in Jobs, NEW row \in Row, NEW files,
           Transition(c, j, row, files)
    PROVE  /\ \A i \in Jobs : i # j => rows'[i] = rows[i]
           /\ rows'[j].status = row.status
           /\ rows'[j].attempt = row.attempt
           /\ rows'[j].machine = row.machine
           /\ rows'[j].signFailures = row.signFailures
  BY DEF Transition, WithoutKeys, TypeOK, Row

(* Entering a status changes nothing else that these theorems are about.   *)
LEMMA ToRow ==
    ASSUME TypeOK, NEW j \in Jobs, NEW s \in Status
    PROVE  /\ To(rows[j], s) \in Row
           /\ To(rows[j], s).status = s
           /\ To(rows[j], s).attempt = rows[j].attempt
           /\ To(rows[j], s).machine = rows[j].machine
           /\ To(rows[j], s).signFailures = rows[j].signFailures
<1>1. To(rows[j], s) \in Row
  BY RowRewritten DEF TypeOK
<1> QED
  BY <1>1 DEF To, TypeOK, Row

LEMMA TransitionTo ==
    ASSUME TypeOK, NEW c, NEW j \in Jobs, NEW s \in Status, NEW files,
           Transition(c, j, To(rows[j], s), files)
    PROVE  /\ \A i \in Jobs : i # j => rows'[i] = rows[i]
           /\ Goes(j, {rows[j].status}, {s})
  BY ToRow, TransitionRow DEF Goes

LEMMA WriteTo ==
    ASSUME TypeOK, NEW j \in Jobs, NEW s \in Status,
           rows' = [rows EXCEPT ![j] = To(rows[j], s)]
    PROVE  /\ \A i \in Jobs : i # j => rows'[i] = rows[i]
           /\ Goes(j, {rows[j].status}, {s})
<1>1. rows'[j] = To(rows[j], s) /\ \A i \in Jobs : i # j => rows'[i] = rows[i]
  BY DEF TypeOK
<1> QED
  BY <1>1, ToRow DEF Goes

LEMMA SigningFailedMoves ==
    ASSUME TypeOK, OnlyPackagesAreBuilt, NEW c, NEW j \in Jobs, rows[j].status = "signing",
           SigningFailed(c, j, rows[j].signFailures)
    PROVE  OnlyOneMoves
<1> USE StatusNames
<1> DEFINE n == rows[j].signFailures + 1
<1> DEFINE To1(s) == [To(rows[j], s) EXCEPT !.signFailures = n]
<1>1. ASSUME NEW s \in {"failed", "built"}
      PROVE  /\ To1(s) \in Row /\ To1(s).status = s
             /\ To1(s).attempt = rows[j].attempt /\ To1(s).machine = rows[j].machine
             /\ To1(s).signFailures = n
  <2>1. n \in Nat
    BY RowColumns DEF TypeOK
  <2>2. To(rows[j], s) \in Row
    BY ToRow
  <2> HIDE DEF n
  <2> QED
    BY <2>1, <2>2, ToRow, ColumnRewritten
<1>2. IF n >= MaxSignFailures THEN Transition(c, j, To1("failed"), Files)
                              ELSE Transition(c, j, To1("built"), {"signed"})
  BY DEF SigningFailed
<1> HIDE DEF To1
<1>3. IsPackage(j)
  BY DEF OnlyPackagesAreBuilt
<1>4. CASE n >= MaxSignFailures
  <2>1. Transition(c, j, To1("failed"), Files)
    BY <1>2, <1>4
  <2> QED
    BY <1>1, <1>3, <1>4, <2>1, TransitionRow DEF OnlyOneMoves, Moves, IsFailedSigning
<1>5. CASE ~(n >= MaxSignFailures)
  <2>1. Transition(c, j, To1("built"), {"signed"})
    BY <1>2, <1>5
  <2> QED
    BY <1>1, <1>3, <1>5, <2>1, TransitionRow DEF OnlyOneMoves, Moves, IsFailedSigning
<1> QED
  BY <1>4, <1>5

LEMMA AdministratorMoves ==
    TypeOK /\ OnlyPackagesAreBuilt /\ Administrator => OnlyOneMoves
<1> SUFFICES ASSUME TypeOK, OnlyPackagesAreBuilt, Administrator PROVE OnlyOneMoves
  OBVIOUS
<1> USE StatusNames
<1>1. ASSUME NEW j \in Jobs, NEW c \in Calls, CreateCheck(c, j) PROVE OnlyOneMoves
  BY <1>1 DEF CreateCheck, OnlyOneMoves
<1>2. ASSUME NEW j \in Jobs, NEW c \in Calls, Cancel(c, j) PROVE OnlyOneMoves
  <2>1. /\ \A i \in Jobs : i # j => rows'[i] = rows[i]
        /\ Goes(j, {rows[j].status}, {"canceled"})
    BY <1>2, TransitionTo DEF Cancel
  <2>2. \/ rows[j].status \in BuilderActive \cup {"queued"}
        \/ rows[j].status = "built"
    BY <1>2 DEF Cancel, Cancelable
  <2> QED
    BY <2>1, <2>2 DEF OnlyOneMoves, Moves, Goes, OnlyPackagesAreBuilt
<1>3. ASSUME NEW j \in Jobs, NEW c \in Calls, ForceFail(c, j) PROVE OnlyOneMoves
  <2>1. /\ \A i \in Jobs : i # j => rows'[i] = rows[i]
        /\ Goes(j, {rows[j].status}, {"failed"})
    BY <1>3, TransitionTo DEF ForceFail
  <2> QED
    BY <1>3, <2>1 DEF ForceFail, OnlyOneMoves, Moves, Goes
<1>4. ASSUME NEW c \in Calls, CreateInsert(c) PROVE OnlyOneMoves
  <2> DEFINE j == calls[c].job
  <2>1. j \in Jobs /\ rows[j] \in Row
    BY <1>4, Remembers DEF CreateInsert, TypeOK
  <2>2. \/ rows' = rows
        \/ rows[j].status = "absent" /\ rows' = [rows EXCEPT ![j].status = "queued"]
    BY <1>4 DEF CreateInsert
  <2> HIDE DEF j
  <2>3. CASE rows[j].status = "absent" /\ rows' = [rows EXCEPT ![j].status = "queued"]
    <3>1. Goes(j, {"absent"}, {"queued"}) /\ \A i \in Jobs : i # j => rows'[i] = rows[i]
      BY <2>1, <2>3 DEF Goes, TypeOK, Row
    <3> QED
      BY <2>1, <3>1 DEF OnlyOneMoves, Moves
  <2> QED
    BY <2>2, <2>3 DEF OnlyOneMoves
<1>5. ASSUME NEW n \in ManualBuilds, ManualRelease(n) PROVE OnlyOneMoves
  BY <1>5 DEF ManualRelease, OnlyOneMoves
<1>6. ASSUME NEW c \in Calls, NEW r \in releases, Purge(c, r) PROVE OnlyOneMoves
  <2>1. /\ rows' = [j \in Jobs |-> IF r.job = {j} THEN WithoutKeys(rows[j], Files) ELSE rows[j]]
        /\ releases' = releases \ {r}
    BY <1>6 DEF Purge
  <2>2. CASE \E j \in Jobs : r.job = {j}
    <3>1. PICK j \in Jobs : r.job = {j}
      BY <2>2
    <3>2. rows'[j] = WithoutKeys(rows[j], Files) /\ \A i \in Jobs : i # j => rows'[i] = rows[i]
      BY <2>1, <3>1
    <3>3. Goes(j, {rows[j].status}, {rows[j].status})
      BY <3>2 DEF Goes, WithoutKeys, TypeOK, Row
    <3> QED
      BY <2>1, <3>1, <3>2, <3>3 DEF OnlyOneMoves, Moves, IsPurged
  <2>3. CASE ~\E j \in Jobs : r.job = {j}
    <3>1. rows' = rows
      BY <2>1, <2>3 DEF TypeOK
    <3> QED
      BY <3>1 DEF OnlyOneMoves
  <2> QED
    BY <2>2, <2>3
<1>7. ASSUME NEW p \in Nullable(Signers \cap Administered), SetPrimary(p) PROVE OnlyOneMoves
  BY <1>7 DEF SetPrimary, OnlyOneMoves
<1>8. ASSUME NEW m \in Machines \cap Administered, Revoke(m) PROVE OnlyOneMoves
  BY <1>8 DEF Revoke, OnlyOneMoves
<1>9. ASSUME NEW i \in Certificates, ChangeIdentity(i) PROVE OnlyOneMoves
  BY <1>9 DEF ChangeIdentity, OnlyOneMoves
<1> QED
  BY <1>1, <1>2, <1>3, <1>4, <1>5, <1>6, <1>7, <1>8, <1>9 DEF Administrator

LEMMA BuildingMoves ==
    TypeOK /\ OnlyPackagesAreBuilt /\ Building => OnlyOneMoves
<1> SUFFICES ASSUME TypeOK, OnlyPackagesAreBuilt, Building PROVE OnlyOneMoves
  OBVIOUS
<1> USE StatusNames
<1>0. ASSUME NEW m \in Builders, NEW j \in Jobs
      PROVE  /\ Claimed(rows[j], m) \in Row
             /\ Claimed(rows[j], m).status = "claimed"
             /\ Claimed(rows[j], m).machine = {m}
             /\ Claimed(rows[j], m).attempt = rows[j].attempt + 1
             /\ Claimed(rows[j], m).signFailures = rows[j].signFailures
  <2>1. Claimed(rows[j], m) \in Row
    BY RowRewritten DEF TypeOK
  <2> QED
    BY <2>1 DEF Claimed, To, WithoutKeys, TypeOK, Row
<1>1. ASSUME NEW m \in Builders, NEW j \in Jobs, ClaimRefused(m, j) PROVE OnlyOneMoves
  <2>1. /\ rows'[j] = To(Claimed(rows[j], m), "failed")
        /\ \A i \in Jobs : i # j => rows'[i] = rows[i]
    BY <1>1 DEF ClaimRefused, TypeOK
  <2>2. /\ rows'[j].status = "failed" /\ rows'[j].machine = {m}
        /\ rows'[j].attempt = rows[j].attempt + 1
        /\ rows'[j].signFailures = rows[j].signFailures
    BY <1>0, <2>1 DEF To, Row
  <2> QED
    BY <1>1, <2>1, <2>2 DEF ClaimRefused, OnlyOneMoves, Moves, IsClaimed
<1>2. ASSUME NEW m \in Builders, NEW j \in Jobs, NEW c \in Calls, Claim(c, m, j)
      PROVE  OnlyOneMoves
  <2>1. /\ rows'[j] = Claimed(rows[j], m)
        /\ \A i \in Jobs : i # j => rows'[i] = rows[i]
    BY <1>2 DEF Claim, TypeOK
  <2> QED
    BY <1>0, <1>2, <2>1 DEF Claim, OnlyOneMoves, Moves, IsClaimed
<1>3. ASSUME NEW k \in claims, Heartbeat(k) PROVE OnlyOneMoves
  <2>1. /\ \A i \in Jobs : i # k.job => rows'[i] = rows[i]
        /\ Goes(k.job, {rows[k.job].status}, {"running"})
    BY <1>3, ClaimType, WriteTo DEF Heartbeat
  <2>2. k.job \in Jobs /\ rows[k.job].status \in BuilderActive
    BY <1>3, ClaimType DEF Heartbeat, CurrentBuild, BuilderHolds
  <2> QED
    BY <2>1, <2>2 DEF OnlyOneMoves, Moves, Goes
<1>4. ASSUME NEW k \in claims, CompleteOTA(k) PROVE OnlyOneMoves
  <2>1. /\ \A i \in Jobs : i # k.job => rows'[i] = rows[i]
        /\ Goes(k.job, {rows[k.job].status}, {"succeeded"})
    BY <1>4, ClaimType, WriteTo DEF CompleteOTA
  <2>2. k.job \in Jobs /\ rows[k.job].status \in BuilderActive /\ ~IsPackage(k.job)
    BY <1>4, ClaimType DEF CompleteOTA, CurrentBuild, BuilderHolds
  <2> QED
    BY <2>1, <2>2 DEF OnlyOneMoves, Moves, Goes
<1>5. ASSUME NEW k \in claims, NEW c \in Calls, Fail(c, k) PROVE OnlyOneMoves
  <2>1. /\ \A i \in Jobs : i # k.job => rows'[i] = rows[i]
        /\ Goes(k.job, {rows[k.job].status}, {"failed"})
    BY <1>5, ClaimType, TransitionTo DEF Fail
  <2>2. k.job \in Jobs /\ rows[k.job].status \in BuilderActive
    BY <1>5, ClaimType DEF Fail, CurrentBuild, BuilderHolds
  <2> QED
    BY <2>1, <2>2 DEF OnlyOneMoves, Moves, Goes
<1>6. ASSUME NEW k \in claims, NEW c \in Calls, FailOrphaned(c, k) PROVE OnlyOneMoves
  <2>1. /\ \A i \in Jobs : i # k.job => rows'[i] = rows[i]
        /\ Goes(k.job, {rows[k.job].status}, {"queued"})
    BY <1>6, ClaimType, TransitionTo DEF FailOrphaned
  <2>2. /\ k.job \in Jobs /\ rows[k.job].status \in BuilderActive
        /\ IsPackage(k.job) /\ rows[k.job].attempt < MaxBuildAttempts
    BY <1>6, ClaimType DEF FailOrphaned, CurrentBuild, BuilderHolds, MayRequeue
  <2> QED
    BY <2>1, <2>2 DEF OnlyOneMoves, Moves, Goes
<1>7. ASSUME NEW k \in claims, NEW c \in Calls, BuiltCheck(c, k) PROVE OnlyOneMoves
  BY <1>7 DEF BuiltCheck, OnlyOneMoves
<1>8. ASSUME NEW c \in Calls, Dispatch(c) PROVE OnlyOneMoves
  BY <1>8 DEF Dispatch, OnlyOneMoves
<1>9. ASSUME NEW c \in Calls, DispatchFail(c) PROVE OnlyOneMoves
  <2> DEFINE j == calls[c].job
  <2>1. j \in Jobs
    BY <1>9, Remembers DEF DispatchFail
  <2>2. \/ rows' = rows
        \/ BuilderHolds(j) /\ rows' = [rows EXCEPT ![j] = To(rows[j], "failed")]
    BY <1>9 DEF DispatchFail, CurrentBuild
  <2> HIDE DEF j
  <2>3. CASE BuilderHolds(j) /\ rows' = [rows EXCEPT ![j] = To(rows[j], "failed")]
    <3>1. /\ \A i \in Jobs : i # j => rows'[i] = rows[i]
          /\ Goes(j, {rows[j].status}, {"failed"})
      BY <2>1, <2>3, WriteTo
    <3> QED
      BY <2>1, <2>3, <3>1 DEF OnlyOneMoves, Moves, Goes, BuilderHolds
  <2> QED
    BY <2>2, <2>3 DEF OnlyOneMoves
<1>10. ASSUME NEW c \in Calls, BuiltCommit(c) PROVE OnlyOneMoves
  <2> DEFINE b == calls[c]
  <2> DEFINE j == b.job
  <2>1. j \in Jobs /\ IsPackage(j)
    BY <1>10, Remembers DEF BuiltCommit, OnlyPackagesAreBuilt
  <2>2. \/ rows' = rows
        \/ /\ BuilderHolds(j)
           /\ rows' = [rows EXCEPT ![j] = [To(rows[j], "built") EXCEPT !.provenance = {b.sha}]]
    BY <1>10 DEF BuiltCommit, StillAttested, CurrentBuild
  <2> HIDE DEF b, j
  <2>3. CASE /\ BuilderHolds(j)
             /\ rows' = [rows EXCEPT ![j] = [To(rows[j], "built") EXCEPT !.provenance = {b.sha}]]
    <3>1. /\ \A i \in Jobs : i # j => rows'[i] = rows[i]
          /\ rows'[j] = [To(rows[j], "built") EXCEPT !.provenance = {b.sha}]
      BY <2>1, <2>3 DEF TypeOK
    <3>2. Goes(j, {rows[j].status}, {"built"})
      BY <2>1, <3>1, ToRow DEF Goes, Row
    <3> QED
      BY <2>1, <2>3, <3>1, <3>2 DEF OnlyOneMoves, Moves, Goes, BuilderHolds
  <2> QED
    BY <2>2, <2>3 DEF OnlyOneMoves
<1> QED
  BY <1>1, <1>2, <1>3, <1>4, <1>5, <1>6, <1>7, <1>8, <1>9, <1>10 DEF Building

(* A write that leaves alone what these theorems are about is a report.    *)
LEMMA ReportMoves ==
    ASSUME TypeOK, NEW j \in Jobs, NEW row \in Row,
           rows[j].status \in BuilderActive \cup {"signing"},
           rows' = [rows EXCEPT ![j] = row],
           row.status = rows[j].status, row.attempt = rows[j].attempt,
           row.machine = rows[j].machine, row.signFailures = rows[j].signFailures
    PROVE  OnlyOneMoves
<1>1. rows'[j] = row /\ \A i \in Jobs : i # j => rows'[i] = rows[i]
  BY DEF TypeOK
<1>2. Goes(j, {rows[j].status}, {rows[j].status})
  BY <1>1 DEF Goes
<1> QED
  BY <1>1, <1>2 DEF OnlyOneMoves, Moves, IsReported

LEMMA UploadingMoves ==
    TypeOK /\ OnlyPackagesAreBuilt /\ Uploading => OnlyOneMoves
<1> SUFFICES ASSUME TypeOK, OnlyPackagesAreBuilt, Uploading PROVE OnlyOneMoves
  OBVIOUS
<1>1. ASSUME NEW c \in Calls, NEW k \in claims, NEW f \in Files, UploadScope(c, k, f)
      PROVE  OnlyOneMoves
  BY <1>1 DEF UploadScope, OnlyOneMoves
<1>2. ASSUME NEW c \in Calls, NEW x \in Contents, UploadPut(c, x) PROVE OnlyOneMoves
  BY <1>2 DEF UploadPut, OnlyOneMoves
<1>3. ASSUME NEW c \in Calls, UploadRefuse(c) PROVE OnlyOneMoves
  BY <1>3 DEF UploadRefuse, OnlyOneMoves
<1>4. ASSUME NEW c \in Calls, At(c, "record"), StillCurrent(calls[c]),
             rows' = [rows EXCEPT ![calls[c].job] = Recorded(rows[calls[c].job], calls[c])]
      PROVE  OnlyOneMoves
  <2> DEFINE u == calls[c]
  <2> DEFINE row == rows[u.job]
  <2>1. u.job \in Jobs /\ u.file \in Files /\ u.key \in Key /\ u.content \in Contents
    BY <1>4, Remembers
  <2>2. row \in Row /\ row.status \in BuilderActive \cup {"signing"}
    BY <1>4, <2>1 DEF TypeOK, StillCurrent, CurrentSigning, CurrentBuild, BuilderHolds
  <2>3. rows' = [rows EXCEPT ![u.job] = Recorded(row, u)]
    BY <1>4
  <2>4. row = rows[u.job]
    OBVIOUS
  <2> HIDE DEF row, u
  <2>5. /\ {u.key} \in Nullable(Key) /\ {u.content} \in Nullable(Contents)
    BY <2>1, NullableIntro
  <2>6. /\ [row.key EXCEPT ![u.file] = {u.key}] \in [Files -> Nullable(Key)]
        /\ [row.sha EXCEPT ![u.file] = {u.content}] \in [BuildFiles -> Nullable(Contents)]
    BY <2>2, <2>5, RowColumns
  <2>7. /\ Recorded(row, u) \in Row
        /\ Recorded(row, u).status = row.status
        /\ Recorded(row, u).attempt = row.attempt
        /\ Recorded(row, u).machine = row.machine
        /\ Recorded(row, u).signFailures = row.signFailures
    BY <2>2, <2>6 DEF Recorded, Row
  <2> QED
    BY <2>1, <2>2, <2>3, <2>4, <2>7, ReportMoves
<1>5. ASSUME NEW c \in Calls, UploadRecord(c) PROVE OnlyOneMoves
  <2>1. \/ rows' = rows
        \/ /\ StillCurrent(calls[c])
           /\ rows' = [rows EXCEPT ![calls[c].job] = Recorded(rows[calls[c].job], calls[c])]
    BY <1>5 DEF UploadRecord
  <2>2. At(c, "record")
    BY <1>5 DEF UploadRecord
  <2> QED
    BY <1>4, <2>1, <2>2 DEF OnlyOneMoves
<1>6. ASSUME NEW c \in Calls, UploadRecordUnsure(c) PROVE OnlyOneMoves
  BY <1>4, <1>6 DEF UploadRecordUnsure
<1> QED
  BY <1>1, <1>2, <1>3, <1>5, <1>6 DEF Uploading

LEMMA SigningMoves ==
    TypeOK /\ OnlyPackagesAreBuilt /\ Signing => OnlyOneMoves
<1> SUFFICES ASSUME TypeOK, OnlyPackagesAreBuilt, Signing PROVE OnlyOneMoves
  OBVIOUS
<1> USE StatusNames
<1>0. ASSUME NEW k \in claims, CurrentSigning(k.job, k.by, k.number)
      PROVE  k.job \in Jobs /\ rows[k.job].status = "signing" /\ IsPackage(k.job)
  BY <1>0, ClaimType DEF CurrentSigning, OnlyPackagesAreBuilt
<1>1. ASSUME NEW k \in claims, SignHeartbeat(k) \/ \E c \in Calls, x \in Contents : CompleteLook(c, k, x)
      PROVE  OnlyOneMoves
  <2> DEFINE row == [rows[k.job] EXCEPT !.quiet = FALSE]
  <2>1. CurrentSigning(k.job, k.by, k.number) /\ rows' = [rows EXCEPT ![k.job] = row]
    BY <1>1, ClaimType DEF SignHeartbeat, CompleteLook, TypeOK
  <2>2. /\ row \in Row /\ row.status = rows[k.job].status
        /\ row.attempt = rows[k.job].attempt /\ row.machine = rows[k.job].machine
        /\ row.signFailures = rows[k.job].signFailures
    BY ClaimType, ColumnRewritten DEF TypeOK
  <2> HIDE DEF row
  <2> QED
    BY <1>0, <2>1, <2>2, ReportMoves
<1>2. ASSUME NEW c \in Calls, NEW s \in Signers, NEW j \in Jobs, SignLook(c, s, j)
      PROVE  OnlyOneMoves
  BY <1>2 DEF SignLook, OnlyOneMoves
<1>4. ASSUME NEW c \in Calls, NEW k \in claims, SignDefer(c, k) PROVE OnlyOneMoves
  <2>1. /\ \A i \in Jobs : i # k.job => rows'[i] = rows[i]
        /\ Goes(k.job, {rows[k.job].status}, {"built"})
    BY <1>4, ClaimType, TransitionTo DEF SignDefer
  <2> QED
    BY <1>0, <1>4, <2>1 DEF SignDefer, OnlyOneMoves, Moves, Goes
<1>5. ASSUME NEW c \in Calls, NEW k \in claims, NEW kind \in {"violation", "transient"},
             RejectLook(c, k, kind)
      PROVE  OnlyOneMoves
  BY <1>5 DEF RejectLook, OnlyOneMoves
<1>6. ASSUME NEW c \in Calls, SignClaim(c) PROVE OnlyOneMoves
  <2> DEFINE p == calls[c]
  <2> DEFINE j == p.job
  <2> DEFINE new == [To(rows[j], "signing") EXCEPT !.signAttempt = p.number + 1, !.signer = {p.by}]
  <2>1. j \in Jobs /\ p.by \in Signers /\ p.number \in Nat
    BY <1>6, Remembers DEF SignClaim
  <2>2. \/ rows' = rows
        \/ rows[j].status = "built" /\ Transition(c, j, To(rows[j], "failed"), Files)
        \/ /\ rows[j].status = "built" /\ Transition(c, j, new, {"signed"})
           /\ Increases(BuildNumberOf[j]) /\ releases' = releases
    BY <1>6 DEF SignClaim
  <2>3. /\ new \in Row /\ new.status = "signing" /\ new.attempt = rows[j].attempt
        /\ new.machine = rows[j].machine /\ new.signFailures = rows[j].signFailures
    <3> HIDE DEF p, j
    <3>1. To(rows[j], "signing") \in Row
      BY <2>1, ToRow
    <3>2. p.number + 1 \in Nat /\ {p.by} \in Nullable(Signers)
      BY <2>1, NullableIntro
    <3> DEFINE old == To(rows[j], "signing")
    <3>3. /\ old.status = "signing" /\ old.attempt = rows[j].attempt
          /\ old.machine = rows[j].machine /\ old.signFailures = rows[j].signFailures
      BY <2>1, ToRow
    <3> HIDE DEF old
    <3>4. LET r == [old EXCEPT !.signAttempt = p.number + 1]
          IN /\ r \in Row /\ r.status = old.status /\ r.attempt = old.attempt
             /\ r.machine = old.machine /\ r.signFailures = old.signFailures
      BY <3>1, <3>2 DEF Row, old
    <3> QED
      BY <3>2, <3>3, <3>4 DEF Row, old
  <2> HIDE DEF p, j, new
  <2>4. CASE rows[j].status = "built" /\ Transition(c, j, To(rows[j], "failed"), Files)
    <3>1. /\ \A i \in Jobs : i # j => rows'[i] = rows[i]
          /\ Goes(j, {rows[j].status}, {"failed"})
      BY <2>1, <2>4, TransitionTo
    <3> QED
      BY <2>1, <2>4, <3>1 DEF OnlyOneMoves, Moves, Goes, OnlyPackagesAreBuilt
  <2>5. CASE /\ rows[j].status = "built" /\ Transition(c, j, new, {"signed"})
             /\ Increases(BuildNumberOf[j]) /\ releases' = releases
    <3>1. /\ \A i \in Jobs : i # j => rows'[i] = rows[i]
          /\ Goes(j, {rows[j].status}, {"signing"})
      BY <2>1, <2>3, <2>5, TransitionRow DEF Goes
    <3> QED
      BY <2>1, <2>5, <3>1 DEF OnlyOneMoves, Moves, IsSignClaimed, Goes, OnlyPackagesAreBuilt
  <2> QED
    BY <2>2, <2>4, <2>5 DEF OnlyOneMoves
<1>7. ASSUME NEW c \in Calls, CompleteVerify(c) PROVE OnlyOneMoves
  BY <1>7 DEF CompleteVerify, OnlyOneMoves
<1>8. ASSUME NEW c \in Calls, CompleteCommit(c) PROVE OnlyOneMoves
  <2> DEFINE v == calls[c]
  <2> DEFINE j == v.job
  <2> DEFINE new == [To(rows[j], "succeeded") EXCEPT !.artifact = {v.content}]
  <2>1. j \in Jobs
    BY <1>8, Remembers DEF CompleteCommit
  <2>2. \/ rows' = rows
        \/ /\ rows[j].status = "signing" /\ rows' = [rows EXCEPT ![j] = new]
           /\ StillCompletable(calls[c]) /\ calls[c].job = j
    BY <1>8 DEF CompleteCommit, StillCompletable, CurrentSigning
  <2>3. new.status = "succeeded" /\ new.attempt = rows[j].attempt
        /\ new.machine = rows[j].machine /\ new.signFailures = rows[j].signFailures
    <3> HIDE DEF v, j
    <3> QED BY <2>1, ToRow DEF Row
  <2> HIDE DEF v, j, new
  <2>4. CASE /\ rows[j].status = "signing" /\ rows' = [rows EXCEPT ![j] = new]
             /\ StillCompletable(calls[c]) /\ calls[c].job = j
    <3>1. rows'[j] = new /\ \A i \in Jobs : i # j => rows'[i] = rows[i]
      BY <2>1, <2>4 DEF TypeOK
    <3>2. Goes(j, {"signing"}, {"succeeded"})
      BY <2>3, <2>4, <3>1 DEF Goes
    <3>3. IsReleased(j)
      BY <1>8, <2>1, <2>4, <3>2 DEF IsReleased, OnlyPackagesAreBuilt
    <3> QED
      BY <2>1, <3>1, <3>3 DEF OnlyOneMoves, Moves
  <2> QED
    BY <2>2, <2>4 DEF OnlyOneMoves
<1>9. ASSUME NEW c \in Calls, RejectCommit(c) PROVE OnlyOneMoves
  <2> DEFINE p == calls[c]
  <2> DEFINE j == p.job
  <2>1. j \in Jobs
    BY <1>9, Remembers DEF RejectCommit
  <2>2. \/ rows' = rows
        \/ rows[j].status = "signing" /\ Transition(c, j, To(rows[j], "failed"), Files)
        \/ rows[j].status = "signing" /\ SigningFailed(c, j, rows[j].signFailures)
    BY <1>9 DEF RejectCommit, CurrentSigning
  <2> HIDE DEF p, j
  <2>3. CASE rows[j].status = "signing" /\ Transition(c, j, To(rows[j], "failed"), Files)
    <3>1. /\ \A i \in Jobs : i # j => rows'[i] = rows[i]
          /\ Goes(j, {rows[j].status}, {"failed"})
      BY <2>1, <2>3, TransitionTo
    <3> QED
      BY <2>1, <2>3, <3>1 DEF OnlyOneMoves, Moves, Goes, OnlyPackagesAreBuilt
  <2>4. CASE rows[j].status = "signing" /\ SigningFailed(c, j, rows[j].signFailures)
    BY <2>1, <2>4, SigningFailedMoves
  <2> QED
    BY <2>2, <2>3, <2>4 DEF OnlyOneMoves
<1> QED
  BY <1>1, <1>2, <1>4, <1>5, <1>6, <1>7, <1>8, <1>9 DEF Signing

LEMMA ReapingMoves ==
    TypeOK /\ OnlyPackagesAreBuilt /\ Reaping => OnlyOneMoves
<1> SUFFICES ASSUME TypeOK, OnlyPackagesAreBuilt, Reaping PROVE OnlyOneMoves
  OBVIOUS
<1> USE StatusNames
<1>1. ASSUME NEW j \in Jobs, FallQuiet(j) PROVE OnlyOneMoves
  <2> DEFINE row == [rows[j] EXCEPT !.quiet = TRUE]
  <2>1. rows[j].status \in BuilderActive \cup {"signing"} /\ rows' = [rows EXCEPT ![j] = row]
    BY <1>1 DEF FallQuiet, TypeOK
  <2>2. /\ row \in Row /\ row.status = rows[j].status
        /\ row.attempt = rows[j].attempt /\ row.machine = rows[j].machine
        /\ row.signFailures = rows[j].signFailures
    BY DEF TypeOK, Row
  <2> HIDE DEF row
  <2> QED
    BY <2>1, <2>2, ReportMoves
<1>2. ASSUME NEW r \in Reapers, NEW j \in Jobs, ReapLook(r, j) PROVE OnlyOneMoves
  BY <1>2 DEF ReapLook, OnlyOneMoves
<1>3. ASSUME NEW r \in Reapers, ReapBuild(r) PROVE OnlyOneMoves
  <2> DEFINE j == calls[r].job
  <2>1. j \in Jobs
    BY <1>3, Remembers DEF ReapBuild
  <2>2. \/ rows' = rows
        \/ /\ BuilderHolds(j)
           /\ \/ /\ Transition(r, j, To(rows[j], "queued"), BuildFiles)
                 /\ IsPackage(j) /\ rows[j].attempt < MaxBuildAttempts
              \/ Transition(r, j, To(rows[j], "failed"), BuildFiles)
    BY <1>3 DEF ReapBuild, StillStale, MayRequeue
  <2> HIDE DEF j
  <2>3. CASE /\ BuilderHolds(j)
             /\ Transition(r, j, To(rows[j], "queued"), BuildFiles)
             /\ IsPackage(j) /\ rows[j].attempt < MaxBuildAttempts
    <3>1. /\ \A i \in Jobs : i # j => rows'[i] = rows[i]
          /\ Goes(j, {rows[j].status}, {"queued"})
      BY <2>1, <2>3, TransitionTo
    <3> QED
      BY <2>1, <2>3, <3>1 DEF OnlyOneMoves, Moves, Goes, BuilderHolds
  <2>4. CASE BuilderHolds(j) /\ Transition(r, j, To(rows[j], "failed"), BuildFiles)
    <3>1. /\ \A i \in Jobs : i # j => rows'[i] = rows[i]
          /\ Goes(j, {rows[j].status}, {"failed"})
      BY <2>1, <2>4, TransitionTo
    <3> QED
      BY <2>1, <2>4, <3>1 DEF OnlyOneMoves, Moves, Goes, BuilderHolds
  <2> QED
    BY <2>2, <2>3, <2>4 DEF OnlyOneMoves
<1>4. ASSUME NEW r \in Reapers, ReapSign(r) PROVE OnlyOneMoves
  <2> DEFINE j == calls[r].job
  <2>1. j \in Jobs
    BY <1>4, Remembers DEF ReapSign
  <2>2. \/ rows' = rows
        \/ rows[j].status = "signing" /\ SigningFailed(r, j, rows[j].signFailures)
    BY <1>4 DEF ReapSign
  <2> QED
    BY <2>1, <2>2, SigningFailedMoves DEF OnlyOneMoves
<1> QED
  BY <1>1, <1>2, <1>3, <1>4 DEF Reaping

LEMMA OneRowMoves ==
    TypeOK /\ OnlyPackagesAreBuilt /\ [Next]_vars => OnlyOneMoves
<1>1. Server => rows' = rows
  BY DEF Server, DeleteObjects, Abandon
<1>2. UNCHANGED vars => rows' = rows
  BY DEF vars
<1> QED
  BY <1>1, <1>2, AdministratorMoves, BuildingMoves, UploadingMoves, SigningMoves, ReapingMoves
     DEF Next, OnlyOneMoves

(***************************************************************************)
(* Only packages are built: by whatever row moves, and because a /built    *)
(* request begins with a package and remembers the job it is for.          *)
(***************************************************************************)
LEMMA BuiltBegins ==
    ASSUME TypeOK, [Next]_vars, NEW c \in Calls \cup Reapers, At(c, "built")'
    PROVE  calls'[c] = calls[c] \/ \E k \in claims : BuiltCheck(c, k)
<1> DEFINE Goal == calls'[c] = calls[c] \/ \E k \in claims : BuiltCheck(c, k)
<1>1. ASSUME NEW d, NEW call, Becomes(d, call), call.op # "built" PROVE Goal
  BY <1>1 DEF Becomes, At, TypeOK
<1>2. ASSUME NEW d, Returns(d) PROVE Goal
  BY <1>1, <1>2 DEF Returns, Idle
<1>3. ASSUME NEW d, NEW keys, ThenDeletes(d, keys) PROVE Goal
  BY <1>1, <1>3 DEF ThenDeletes, Idle
<1>4. ASSUME NEW d, NEW j, NEW row, NEW files, Transition(d, j, row, files) PROVE Goal
  BY <1>3, <1>4 DEF Transition
<1>5. ASSUME UNCHANGED calls PROVE Goal
  BY <1>5
<1>6. CASE Administrator
  BY <1>1, <1>2, <1>3, <1>4, <1>5, <1>6 DEF Administrator, CreateCheck, Cancel, ForceFail,
     CreateInsert, ManualRelease, Purge, SetPrimary, Revoke, ChangeIdentity
<1>7. CASE Building
  <2>1. ASSUME NEW d \in Calls, NEW k \in claims, BuiltCheck(d, k) PROVE Goal
    BY <2>1 DEF BuiltCheck, Becomes, TypeOK
  <2> QED
    BY <1>1, <1>2, <1>4, <1>5, <1>7, <2>1 DEF Building, ClaimRefused, Claim, Heartbeat,
       CompleteOTA, Fail, FailOrphaned, Dispatch, DispatchFail, BuiltCommit
<1>8. CASE Uploading
  BY <1>1, <1>2, <1>3, <1>8 DEF Uploading, UploadScope, UploadPut, UploadRefuse,
     UploadRecord, UploadRecordUnsure
<1>9. CASE Signing
  <2>1. ASSUME NEW d, NEW j, NEW n, SigningFailed(d, j, n) PROVE Goal
    BY <1>4, <2>1 DEF SigningFailed
  <2>2. ASSUME NEW d \in Calls, SignClaim(d) PROVE Goal
    BY <1>2, <1>4, <2>2 DEF SignClaim
  <2>3. ASSUME NEW d \in Calls, RejectCommit(d) PROVE Goal
    BY <1>2, <1>4, <2>1, <2>3 DEF RejectCommit
  <2>4. ASSUME NEW d \in Calls, CompleteVerify(d) \/ CompleteCommit(d) PROVE Goal
    BY <1>1, <1>2, <2>4 DEF CompleteVerify, CompleteCommit
  <2>5. ASSUME NEW d \in Calls, NEW k \in claims,
               \/ SignDefer(d, k) \/ SignHeartbeat(k)
               \/ \E x \in Contents : CompleteLook(d, k, x)
               \/ \E kind \in {"violation", "transient"} : RejectLook(d, k, kind)
        PROVE  Goal
    BY <1>1, <1>4, <1>5, <2>5 DEF SignDefer, SignHeartbeat, CompleteLook, RejectLook
  <2>6. ASSUME NEW d \in Calls, NEW s \in Signers, NEW j \in Jobs, SignLook(d, s, j) PROVE Goal
    BY <1>1, <2>6 DEF SignLook
  <2>7. ASSUME NEW k \in claims, SignHeartbeat(k) PROVE Goal
    BY <1>5, <2>7 DEF SignHeartbeat
  <2> QED
    BY <1>9, <2>2, <2>3, <2>4, <2>5, <2>6, <2>7 DEF Signing
<1>10. CASE Reaping
  <2>1. ASSUME NEW d, NEW j, NEW n, SigningFailed(d, j, n) PROVE Goal
    BY <1>4, <2>1 DEF SigningFailed
  <2> QED
    BY <1>1, <1>2, <1>4, <1>5, <1>10, <2>1 DEF Reaping, FallQuiet, ReapLook, ReapBuild, ReapSign
<1>11. CASE Server
  BY <1>2, <1>11 DEF Server, DeleteObjects, Abandon
<1>12. CASE UNCHANGED vars
  BY <1>5, <1>12 DEF vars
<1> QED
  BY <1>6, <1>7, <1>8, <1>9, <1>10, <1>11, <1>12 DEF Next

LEMMA OnlyPackagesStep ==
    TypeOK /\ OnlyPackagesAreBuilt /\ [Next]_vars => OnlyPackagesAreBuilt'
<1> SUFFICES ASSUME TypeOK, OnlyPackagesAreBuilt, [Next]_vars PROVE OnlyPackagesAreBuilt'
  OBVIOUS
<1>1. ASSUME NEW j \in Jobs, rows'[j].status \in {"built", "signing"} PROVE IsPackage(j)
  <2>1. rows'[j] = rows[j] \/ Moves(j)
    BY OneRowMoves DEF OnlyOneMoves
  <2>2. CASE Moves(j)
    BY <1>1, <2>2 DEF Moves, Goes, IsReported, IsPurged, IsClaimed, IsFailedSigning,
       IsSignClaimed, IsReleased, OnlyPackagesAreBuilt, BuilderActive
  <2> QED
    BY <1>1, <2>1, <2>2 DEF OnlyPackagesAreBuilt
<1>2. ASSUME NEW c \in Calls \cup Reapers, At(c, "built")' PROVE IsPackage(calls'[c].job)
  <2>1. CASE calls'[c] = calls[c]
    BY <1>2, <2>1 DEF OnlyPackagesAreBuilt, At
  <2>2. CASE \E k \in claims : BuiltCheck(c, k)
    BY <2>2 DEF BuiltCheck, Becomes, TypeOK
  <2> QED
    BY <1>2, <2>1, <2>2, BuiltBegins
<1> QED
  BY <1>1, <1>2 DEF OnlyPackagesAreBuilt, IsPackage

LEMMA OnlyPackagesInvariant == Spec => [](TypeOK /\ OnlyPackagesAreBuilt)
<1>1. Init => OnlyPackagesAreBuilt
  BY DEF Init, OnlyPackagesAreBuilt, NewRow, At, Idle
<1> QED
  BY <1>1, OnlyPackagesStep, TypeCorrect, PTL DEF Spec

(***************************************************************************)
(* The theorems                                                            *)
(***************************************************************************)

(* A build machine never has two claimed or running jobs: only a claim     *)
(* gives it one, and a claim looks, in its transaction, at all it has.     *)
THEOREM OneBuildPerMachineHolds == Spec => []OneBuildPerMachine
<1>1. Init => OneBuildPerMachine
  BY DEF Init, OneBuildPerMachine, NewRow, BuilderHolds, BuilderActive
<1>2. TypeOK /\ OnlyPackagesAreBuilt /\ OneBuildPerMachine /\ [Next]_vars => OneBuildPerMachine'
  <2> SUFFICES ASSUME TypeOK, OnlyPackagesAreBuilt, OneBuildPerMachine, [Next]_vars,
                      NEW m \in Builders, NEW i \in Jobs, NEW j \in Jobs,
                      BuilderHolds(i)', rows'[i].machine = {m},
                      BuilderHolds(j)', rows'[j].machine = {m}
               PROVE  i = j
    BY DEF OneBuildPerMachine
  <2>1. ASSUME NEW k \in Jobs, BuilderHolds(k)', rows'[k].machine = {m},
               Moves(k) \/ rows'[k] = rows[k]
        PROVE  \/ BuilderHolds(k) /\ rows[k].machine = {m}
               \/ MayClaim(m, k)
    <3>1. CASE IsClaimed(k)
      BY <2>1, <3>1 DEF IsClaimed
    <3>2. CASE rows'[k] = rows[k]
      BY <2>1, <3>2 DEF BuilderHolds
    <3>3. CASE Moves(k) /\ ~IsClaimed(k)
      BY <2>1, <3>3 DEF Moves, Goes, IsReported, IsPurged, IsFailedSigning, IsSignClaimed,
         IsReleased, BuilderHolds, BuilderActive
    <3> QED
      BY <2>1, <3>1, <3>2, <3>3
  <2>2. CASE rows' = rows
    BY <2>2 DEF OneBuildPerMachine, BuilderHolds
  <2>3. ASSUME NEW k \in Jobs, Moves(k), \A l \in Jobs : l # k => rows'[l] = rows[l]
        PROVE  i = j
    BY <2>1, <2>3 DEF OneBuildPerMachine, MayClaim, BuilderHolds
  <2> QED
    BY <2>2, <2>3, OneRowMoves DEF OnlyOneMoves
<1> QED
  BY <1>1, <1>2, OnlyPackagesInvariant, PTL DEF Spec

(* What a step may do to the row of a concluded job.                       *)
LEMMA ConcludedStep ==
    ASSUME TypeOK, OnlyPackagesAreBuilt, [Next]_vars, NEW j \in Jobs,
           rows[j].status \in Concluded, rows'[j] # rows[j]
    PROVE  /\ rows'[j] = WithoutKeys(rows[j], Files)
           /\ \E r \in releases \ releases' : r.job = {j}
<1>1. Moves(j)
  BY OneRowMoves DEF OnlyOneMoves
<1>2. IsPurged(j)
  BY <1>1 DEF Moves, Goes, IsReported, IsClaimed, IsFailedSigning, IsSignClaimed, IsReleased,
     MayClaim, Concluded, BuilderActive
<1> QED
  BY <1>2 DEF IsPurged

(* A concluded job is final: the only thing that still happens to its row  *)
(* is that the release it became is purged.                                *)
THEOREM ConcludedRowsStay == Spec => ConcludedRowsAreFinal
<1> DEFINE Final(j) ==
      rows[j].status \in Concluded /\ rows'[j] # rows[j] =>
          /\ rows'[j] = WithoutKeys(rows[j], Files)
          /\ \E r \in releases \ releases' : r.job = {j}
<1>1. TypeOK /\ OnlyPackagesAreBuilt /\ [Next]_vars => [\A j \in Jobs : Final(j)]_vars
  BY ConcludedStep
<1> QED
  BY <1>1, OnlyPackagesInvariant, PTL DEF Spec, ConcludedRowsAreFinal

(* What bounds the retries, inductively: a job nobody queued has not been  *)
(* claimed either.                                                         *)
UnclaimedUntilQueued == \A j \in Jobs : rows[j].status = "absent" => rows[j].attempt = 0

(* Neither builds nor signings are retried beyond their limits, whoever    *)
(* counts: the orphan report, the reapers, the rejections.                 *)
THEOREM RetriesStayBounded == Spec => []RetriesAreBounded
<1>1. Init => RetriesAreBounded /\ UnclaimedUntilQueued
  BY LimitsAssumption DEF Init, RetriesAreBounded, UnclaimedUntilQueued, NewRow
<1>2. TypeOK /\ OnlyPackagesAreBuilt /\ RetriesAreBounded /\ UnclaimedUntilQueued /\ [Next]_vars
      => RetriesAreBounded' /\ UnclaimedUntilQueued'
  <2> SUFFICES ASSUME TypeOK, OnlyPackagesAreBuilt, RetriesAreBounded, UnclaimedUntilQueued,
                      [Next]_vars, NEW j \in Jobs
               PROVE  /\ rows'[j].attempt <= MaxBuildAttempts
                      /\ rows'[j].status = "queued" => rows'[j].attempt < MaxBuildAttempts
                      /\ rows'[j].signFailures <= MaxSignFailures
                      /\ rows'[j].signFailures = MaxSignFailures => rows'[j].status = "failed"
                      /\ rows'[j].status = "absent" => rows'[j].attempt = 0
    BY DEF RetriesAreBounded, UnclaimedUntilQueued
  <2>1. /\ rows[j].attempt \in Nat /\ rows[j].signFailures \in Nat
        /\ MaxBuildAttempts \in Nat \ {0} /\ MaxSignFailures \in Nat \ {0}
    BY RowColumns, LimitsAssumption DEF TypeOK
  <2>2. /\ rows[j].attempt <= MaxBuildAttempts
        /\ rows[j].status = "queued" => rows[j].attempt < MaxBuildAttempts
        /\ rows[j].signFailures <= MaxSignFailures
        /\ rows[j].signFailures = MaxSignFailures => rows[j].status = "failed"
        /\ rows[j].status = "absent" => rows[j].attempt = 0
    BY DEF RetriesAreBounded, UnclaimedUntilQueued
  <2>3. rows'[j] = rows[j] \/ Moves(j)
    BY OneRowMoves DEF OnlyOneMoves
  <2>4. CASE rows'[j] = rows[j]
    BY <2>2, <2>4
  <2>5. CASE IsClaimed(j)
    BY <2>1, <2>2, <2>5 DEF IsClaimed, MayClaim
  <2>6. CASE IsFailedSigning(j)
    BY <2>1, <2>2, <2>6 DEF IsFailedSigning
  <2>7. CASE IsReported(j) \/ IsPurged(j)
    BY <2>2, <2>7 DEF IsReported, IsPurged, Goes
  <2>8. CASE Moves(j) /\ ~IsClaimed(j) /\ ~IsFailedSigning(j) /\ ~IsReported(j) /\ ~IsPurged(j)
    BY <2>1, <2>2, <2>8 DEF Moves, IsSignClaimed, IsReleased, Goes, BuilderActive
  <2> QED
    BY <2>3, <2>4, <2>5, <2>6, <2>7, <2>8
<1> QED
  BY <1>1, <1>2, OnlyPackagesInvariant, PTL DEF Spec

(* Every step of every handler is an edge of the state machine the code    *)
(* declares, for any interleaving: the pipeline implements                 *)
(* BuildJobLifecycle under the mapping that keeps the status column.       *)
THEOREM FollowsTheStateMachineHolds == Spec => FollowsTheStateMachine
<1> DEFINE st == [j \in Jobs |-> rows[j].status]
<1>1. Init => Lifecycle!Init
  BY DEF Init, Lifecycle!Init, NewRow
<1>2. TypeOK /\ OnlyPackagesAreBuilt /\ [Next]_vars => [Lifecycle!Next]_st
  <2> SUFFICES ASSUME TypeOK, OnlyPackagesAreBuilt, [Next]_vars, st' # st
               PROVE  Lifecycle!Next
    OBVIOUS
  <2>1. PICK j \in Jobs : Moves(j) /\ \A i \in Jobs : i # j => rows'[i] = rows[i]
    BY OneRowMoves DEF OnlyOneMoves
  <2>2. st' = [st EXCEPT ![j] = rows'[j].status] /\ st[j] = rows[j].status
    BY <2>1
  <2>3. rows'[j].status # rows[j].status
    BY <2>2
  <2>4. \/ KindOf[j] = "apk" /\ IsPackage(j)
        \/ KindOf[j] = "ota" /\ ~IsPackage(j)
    BY KindsAssumption DEF IsPackage
  <2> SUFFICES Lifecycle!Queue(j) \/ Lifecycle!Refuse(j)
               \/ \E e \in Lifecycle!Edges : Lifecycle!Fire(j, e)
    BY <2>2, <2>3 DEF Lifecycle!Next
  <2> HIDE DEF st
  <2>5. ASSUME NEW e \in Lifecycle!Edges, KindOf[j] \in e.kinds, rows[j].status \in e.from,
               rows'[j].status \in e.to
        PROVE  \E f \in Lifecycle!Edges : Lifecycle!Fire(j, f)
    BY <2>2, <2>5 DEF Lifecycle!Fire, st
  <2>6. /\ Lifecycle!Kinds = {"apk", "ipa", "ota"}
        /\ Lifecycle!Packages = {"apk", "ipa"}
        /\ Lifecycle!BuilderActiveStatuses = {"claimed", "running"}
        /\ BuilderActive = {"claimed", "running"}
    BY DEF Lifecycle!Kinds, Lifecycle!Packages, Lifecycle!BuilderActiveStatuses, BuilderActive
  <2> DEFINE Fires(event, kinds, from, to) ==
        /\ Lifecycle!Edge(event, kinds, from, to) \in Lifecycle!Edges
        /\ KindOf[j] \in kinds
        /\ rows[j].status \in from
        /\ rows'[j].status \in to
  <2>7. ASSUME NEW event, NEW kinds, NEW from, NEW to, Fires(event, kinds, from, to)
        PROVE  \E f \in Lifecycle!Edges : Lifecycle!Fire(j, f)
    BY <2>5, <2>7 DEF Lifecycle!Edge
  <2>8. CASE IsClaimed(j)
    <3>1. CASE rows'[j].status = "failed"
      BY <2>2, <2>8, <3>1 DEF IsClaimed, MayClaim, Lifecycle!Refuse, st
    <3>2. CASE rows'[j].status = "claimed"
      <4>1. Fires("builder.claim", Lifecycle!Kinds, {"queued"}, {"claimed"})
        BY <2>4, <2>6, <2>8, <3>2 DEF IsClaimed, MayClaim, Lifecycle!Edges
      <4> QED
        BY <2>7, <4>1
    <3> QED
      BY <2>8, <3>1, <3>2 DEF IsClaimed
  <2>9. CASE IsFailedSigning(j)
    <3>1. Fires("reaper.sign-timeout", {"apk"}, {"signing"}, {"built", "failed"})
      BY <2>4, <2>9 DEF IsFailedSigning, Lifecycle!Edges
    <3> QED
      BY <2>7, <3>1
  <2>10. CASE Goes(j, {"absent"}, {"queued"})
    BY <2>2, <2>10 DEF Goes, Lifecycle!Queue, st
  <2>11. CASE Goes(j, {"queued"}, {"canceled"})
    <3>1. Fires("admin.cancel", Lifecycle!Kinds, Lifecycle!BuilderActiveStatuses \cup {"queued"},
                {"canceled"})
      BY <2>4, <2>6, <2>11 DEF Goes, Lifecycle!Edges
    <3> QED
      BY <2>7, <3>1
  <2>12. CASE Goes(j, BuilderActive, {"running", "failed", "canceled"})
    <3>1. \/ Fires("builder.heartbeat", Lifecycle!Kinds, Lifecycle!BuilderActiveStatuses,
                   {"running"})
          \/ Fires("builder.fail", Lifecycle!Kinds, Lifecycle!BuilderActiveStatuses, {"failed"})
          \/ Fires("admin.cancel", Lifecycle!Kinds,
                   Lifecycle!BuilderActiveStatuses \cup {"queued"}, {"canceled"})
      BY <2>4, <2>6, <2>12 DEF Goes, Lifecycle!Edges
    <3> QED
      BY <2>7, <3>1
  <2>13. CASE IsPackage(j) /\ Goes(j, BuilderActive, {"built"})
    <3>1. Fires("builder.built", {"apk"}, Lifecycle!BuilderActiveStatuses, {"built"})
      BY <2>4, <2>6, <2>13 DEF Goes, Lifecycle!Edges
    <3> QED
      BY <2>7, <3>1
  <2>14. CASE IsPackage(j) /\ Goes(j, BuilderActive, {"queued"})
    <3>1. Fires("reaper.build-timeout", Lifecycle!Packages, Lifecycle!BuilderActiveStatuses,
                {"queued", "failed"})
      BY <2>4, <2>6, <2>14 DEF Goes, Lifecycle!Edges
    <3> QED
      BY <2>7, <3>1
  <2>15. CASE ~IsPackage(j) /\ Goes(j, BuilderActive, {"succeeded"})
    <3>1. Fires("builder.complete", {"ota"}, Lifecycle!BuilderActiveStatuses, {"succeeded"})
      BY <2>4, <2>6, <2>15 DEF Goes, Lifecycle!Edges
    <3> QED
      BY <2>7, <3>1
  <2>16. CASE IsPackage(j) /\ Goes(j, {"built"}, {"canceled", "failed"})
    <3>1. \/ Fires("admin.cancel", {"apk"}, {"built"}, {"canceled"})
          \/ Fires("server.sign-overtaken", {"apk"}, {"built"}, {"failed"})
      BY <2>4, <2>16 DEF Goes, Lifecycle!Edges
    <3> QED
      BY <2>7, <3>1
  <2>17. CASE IsSignClaimed(j)
    <3>1. Fires("signer.claim", {"apk"}, {"built"}, {"signing"})
      BY <2>4, <2>17 DEF IsSignClaimed, Goes, Lifecycle!Edges
    <3> QED
      BY <2>7, <3>1
  <2>18. CASE IsPackage(j) /\ Goes(j, {"signing"}, {"built", "failed"})
    <3>1. \/ Fires("signer.release", {"apk"}, {"signing"}, {"built"})
          \/ Fires("admin.force-fail", {"apk"}, {"signing"}, {"failed"})
      BY <2>4, <2>18 DEF Goes, Lifecycle!Edges
    <3> QED
      BY <2>7, <3>1
  <2>19. CASE IsReleased(j)
    <3>1. Fires("signer.complete", {"apk"}, {"signing"}, {"succeeded"})
      BY <2>4, <2>19 DEF IsReleased, Goes, Lifecycle!Edges
    <3> QED
      BY <2>7, <3>1
  <2>20. ~IsReported(j) /\ ~IsPurged(j)
    BY <2>3 DEF IsReported, IsPurged, Goes
  <2>21. Moves(j)
    BY <2>1
  <2> QED
    BY <2>8, <2>9, <2>10, <2>11, <2>12, <2>13, <2>14, <2>15, <2>16, <2>17, <2>18, <2>19, <2>20,
       <2>21 DEF Moves
<1> QED
  BY <1>1, <1>2, OnlyPackagesInvariant, PTL DEF Spec, FollowsTheStateMachine, Lifecycle!Spec

-----------------------------------------------------------------------------
(***************************************************************************)
(* Releases: the sequence only rises, packages are warranted when they are *)
(* released, and nothing overtakes a package that is being signed.         *)
(***************************************************************************)

(* Releases come from a signed package or from an administrator, and go    *)
(* when one is purged; no other handler touches them.                      *)
LEMMA ReleasesMove ==
    ASSUME [Next]_vars
    PROVE  \/ UNCHANGED releases
           \/ \E n \in ManualBuilds : ManualRelease(n)
           \/ \E c \in Calls, r \in releases : Purge(c, r)
           \/ \E c \in Calls : CompleteCommit(c) /\ StillCompletable(calls[c])
<1>1. CASE Administrator
  BY <1>1 DEF Administrator, CreateCheck, Cancel, ForceFail, CreateInsert, SetPrimary, Revoke,
     ChangeIdentity
<1>2. Building => UNCHANGED releases
  BY DEF Building, ClaimRefused, Claim, Heartbeat, CompleteOTA, Fail, FailOrphaned, BuiltCheck,
     Dispatch, DispatchFail, BuiltCommit
<1>3. Uploading => UNCHANGED releases
  BY DEF Uploading, UploadScope, UploadPut, UploadRefuse, UploadRecord, UploadRecordUnsure
<1>4. ASSUME Signing, ~ \E c \in Calls : CompleteCommit(c)
      PROVE  UNCHANGED releases
  <2>1. ASSUME NEW k \in claims, NEW c \in Calls,
               \/ SignDefer(c, k)
               \/ \E kind \in {"violation", "transient"} : RejectLook(c, k, kind)
               \/ \E x \in Contents : CompleteLook(c, k, x)
        PROVE  UNCHANGED releases
    BY <2>1 DEF SignDefer, RejectLook, CompleteLook
  <2>3. ASSUME NEW k \in claims, SignHeartbeat(k) PROVE UNCHANGED releases
    BY <2>3 DEF SignHeartbeat
  <2>2. ASSUME NEW c \in Calls,
               \/ SignClaim(c) \/ CompleteVerify(c) \/ RejectCommit(c)
               \/ \E s \in Signers, j \in Jobs : SignLook(c, s, j)
        PROVE  UNCHANGED releases
    BY <2>2 DEF SignClaim, CompleteVerify, RejectCommit, SignLook
  <2> QED
    BY <1>4, <2>1, <2>2, <2>3 DEF Signing
<1>7. ASSUME NEW c \in Calls, CompleteCommit(c)
      PROVE  StillCompletable(calls[c]) \/ UNCHANGED releases
  BY <1>7 DEF CompleteCommit
<1>5. Reaping => UNCHANGED releases
  BY DEF Reaping, FallQuiet, ReapLook, ReapBuild, ReapSign
<1>6. Server => UNCHANGED releases
  BY DEF Server, DeleteObjects, Abandon
<1> QED
  BY <1>1, <1>2, <1>3, <1>4, <1>5, <1>6, <1>7 DEF Next, vars

(* What the transaction of completeSigning adds to the releases.           *)
LEMMA ReleaseOfPackage ==
    ASSUME TypeOK, NEW c \in Calls, CompleteCommit(c), StillCompletable(calls[c])
    PROVE  LET v == calls[c]
               r == [build |-> BuildNumberOf[v.job], job |-> {v.job}, key |-> v.key,
                     content |-> {v.content}, certificate |-> {v.identity}]
           IN /\ v.job \in Jobs /\ releases' = releases \cup {r}
              /\ rows[v.job].status = "signing" /\ rows[v.job].signer = {v.by}
              /\ v.by \notin revoked /\ v.identity = identity
              /\ Increases(BuildNumberOf[v.job])
  BY Remembers DEF CompleteCommit, StillCompletable, CurrentSigning

(* Whoever makes a release, it is above all that are there: an upload by   *)
(* hand and a finished signing both compare under the sequence lock.       *)
THEOREM ReleasesOnlyRiseHolds == Spec => ReleasesOnlyRise
<1>1. TypeOK /\ [Next]_vars =>
        [\A r \in releases' \ releases : \A q \in releases : q.build < r.build]_vars
  <2> SUFFICES ASSUME TypeOK, [Next]_vars, NEW r \in releases' \ releases, NEW q \in releases
               PROVE  q.build < r.build
    OBVIOUS
  <2>1. CASE \E n \in ManualBuilds : ManualRelease(n)
    BY <2>1 DEF ManualRelease, Increases
  <2>2. CASE \E c \in Calls : CompleteCommit(c) /\ StillCompletable(calls[c])
    BY <2>2, ReleaseOfPackage DEF Increases
  <2>3. CASE \E c \in Calls, p \in releases : Purge(c, p)
    BY <2>3 DEF Purge
  <2> QED
    BY <2>1, <2>2, <2>3, ReleasesMove
<1> QED
  BY <1>1, TypeCorrect, PTL DEF Spec, ReleasesOnlyRise

(* When a package becomes a release its signer is not revoked and the      *)
(* certificate it was verified against is the one registered now.          *)
THEOREM ReleasesStayWarranted == Spec => ReleasesAreStillWarranted
<1>1. TypeOK /\ [Next]_vars =>
        [\A r \in releases' \ releases : \A j \in r.job :
            /\ rows[j].signer \cap revoked = {}
            /\ r.certificate = {identity}]_vars
  <2> SUFFICES ASSUME TypeOK, [Next]_vars, NEW r \in releases' \ releases, NEW j \in r.job
               PROVE  /\ rows[j].signer \cap revoked = {}
                      /\ r.certificate = {identity}
    OBVIOUS
  <2>1. CASE \E n \in ManualBuilds : ManualRelease(n)
    BY <2>1 DEF ManualRelease
  <2>2. CASE \E c \in Calls : CompleteCommit(c) /\ StillCompletable(calls[c])
    BY <2>2, ReleaseOfPackage
  <2>3. CASE \E c \in Calls, p \in releases : Purge(c, p)
    BY <2>3 DEF Purge
  <2> QED
    BY <2>1, <2>2, <2>3, ReleasesMove
<1> QED
  BY <1>1, TypeCorrect, PTL DEF Spec, ReleasesAreStillWarranted

(* No release uploaded by hand ever overtakes a package being signed: the  *)
(* claim compares with all that is released, the upload looks for a job in *)
(* signing, and a job only gets there by a claim.                          *)
THEOREM NothingOvertakesSigning == Spec => []NoManualReleaseOvertakesSigning
<1>1. Init => NoManualReleaseOvertakesSigning
  BY DEF Init, NoManualReleaseOvertakesSigning
<1>2. TypeOK /\ OnlyPackagesAreBuilt /\ NoManualReleaseOvertakesSigning /\ [Next]_vars
      => NoManualReleaseOvertakesSigning'
  <2> SUFFICES ASSUME TypeOK, OnlyPackagesAreBuilt, NoManualReleaseOvertakesSigning,
                      [Next]_vars, NEW j \in Jobs, rows'[j].status = "signing",
                      NEW r \in releases', r.job = {}
               PROVE  r.build < BuildNumberOf[j]
    BY DEF NoManualReleaseOvertakesSigning
  <2>1. rows[j].status = "signing" \/ IsSignClaimed(j)
    <3>1. rows'[j] = rows[j] \/ Moves(j)
      BY OneRowMoves DEF OnlyOneMoves
    <3> QED
      BY <3>1 DEF Moves, Goes, IsReported, IsPurged, IsClaimed, IsFailedSigning, IsReleased,
         BuilderActive
  <2>2. CASE IsSignClaimed(j)
    BY <2>2 DEF IsSignClaimed, Increases
  <2>3. CASE rows[j].status = "signing"
    <3>1. ~\E n \in ManualBuilds : ManualRelease(n)
      BY <2>3 DEF ManualRelease, SigningInFlight, OnlyPackagesAreBuilt
    <3>2. r \in releases
      <4>1. ASSUME NEW c \in Calls, CompleteCommit(c), StillCompletable(calls[c])
            PROVE  r \in releases
        BY <4>1, ReleaseOfPackage
      <4> QED
        BY <3>1, <4>1, ReleasesMove DEF Purge
    <3> QED
      BY <2>3, <3>2 DEF NoManualReleaseOvertakesSigning
  <2> QED
    BY <2>1, <2>2, <2>3
<1> QED
  BY <1>1, <1>2, OnlyPackagesInvariant, PTL DEF Spec

-----------------------------------------------------------------------------
(***************************************************************************)
(* Deliveries.  The lemma StepEffect says once what each handler does to   *)
(* the delivered files; the invariants after it need no more of the        *)
(* actions than that.                                                      *)
(***************************************************************************)

(* The columns that say what was delivered, and under which claim.         *)
SameDeliveries(j) ==
    /\ rows'[j].key = rows[j].key
    /\ rows'[j].sha = rows[j].sha
    /\ rows'[j].attempt = rows[j].attempt
    /\ rows'[j].signAttempt = rows[j].signAttempt
    /\ rows'[j].artifact = rows[j].artifact

(* The steps of a handler at which it remembers a key.                     *)
KeyOps == {"delete", "dispatch", "put", "record", "verify", "finish"}

(* One handler goes on, remembering call.                                  *)
GoesOn(c, call) ==
    /\ c \in Calls \cup Reapers
    /\ calls' = [calls EXCEPT ![c] = call]

IsQuiet ==
    /\ \A j \in Jobs : SameDeliveries(j)
    /\ UNCHANGED <<releases, objects, uploads>>
    /\ \/ UNCHANGED calls
       \/ \E c, call : GoesOn(c, call) /\ call.op \notin KeyOps

(* A job that is not concluded lets go of some files; their keys, or some, *)
(* are what a handler still has to delete.                                 *)
LetsGo(j, files) ==
    /\ rows[j].status \notin Concluded
    /\ \A i \in Jobs : i # j => rows'[i] = rows[i]
    /\ rows'[j].key = [f \in Files |-> IF f \in files THEN {} ELSE rows[j].key[f]]
    /\ rows'[j].sha = rows[j].sha \/ BuildFiles \subseteq files
    /\ rows'[j].attempt = rows[j].attempt \/ BuildFiles \subseteq files
    /\ rows'[j].signAttempt = rows[j].signAttempt \/ "signed" \in files
    /\ UNCHANGED <<releases, objects, uploads>>
    /\ \/ UNCHANGED calls
       \/ \E c, call :
             /\ GoesOn(c, call)
             /\ \/ call.op \notin KeyOps
                \/ call.op \in {"delete", "dispatch"} /\ call.keys \subseteq KeysOf(rows[j], files)

(* A handler has deleted some of what it had to delete.                    *)
HasDeleted(c) ==
    /\ At(c, "delete") \/ At(c, "dispatch")
    /\ \A j \in Jobs : SameDeliveries(j)
    /\ \E gone \in SUBSET calls[c].keys : objects' = Without(gone)
    /\ GoesOn(c, Idle)
    /\ UNCHANGED <<releases, uploads>>

(* An upload is refused or comes too late: its own object is to go.        *)
TurnsAway(c) ==
    /\ At(c, "record")
    /\ UNCHANGED <<rows, releases, objects, uploads>>
    /\ GoesOn(c, [op |-> "delete", keys |-> {calls[c].key}])

(* An upload is recorded: the object it replaces may be left to delete.    *)
Records(c) ==
    LET u == calls[c] IN
    /\ At(c, "record")
    /\ StillCurrent(u)
    /\ rows' = [rows EXCEPT ![u.job] = Recorded(rows[u.job], u)]
    /\ UNCHANGED <<releases, objects, uploads>>
    /\ \E call :
          /\ GoesOn(c, call)
          /\ \/ call = Idle
             \/ call.op = "delete" /\ call.keys = rows[u.job].key[u.file] \ {u.key}

(* A signer's package is being verified.                                   *)
BeginsToVerify(c) ==
    \E k \in claims, x \in Contents : CompleteLook(c, k, x) /\ \A j \in Jobs : SameDeliveries(j)

Releases(c) == CompleteCommit(c) /\ StillCompletable(calls[c])

Effect ==
    \/ IsQuiet
    \/ \E j \in Jobs, files \in SUBSET Files : LetsGo(j, files)
    \/ \E c \in Calls \cup Reapers : HasDeleted(c)
    \/ \E c \in Calls :
          \/ \E k \in claims, f \in Files : UploadScope(c, k, f)
          \/ \E x \in Contents : UploadPut(c, x)
          \/ TurnsAway(c) \/ Records(c)
          \/ BeginsToVerify(c) \/ CompleteVerify(c) \/ Releases(c)
          \/ \E r \in releases : Purge(c, r)
    \/ \E n \in ManualBuilds : ManualRelease(n)

(***************************************************************************)
(* Every step has one of these effects.                                    *)
(***************************************************************************)

(* A row that enters a status, or of which one plain column is rewritten.  *)
LEMMA PlainRewrite ==
    ASSUME NEW row \in Row
    PROVE  /\ \A s \in Status :
                 LET new == To(row, s) IN
                 /\ new.key = row.key /\ new.sha = row.sha /\ new.attempt = row.attempt
                 /\ new.signAttempt = row.signAttempt /\ new.artifact = row.artifact
           /\ \A q \in BOOLEAN :
                 LET new == [row EXCEPT !.quiet = q] IN
                 /\ new.key = row.key /\ new.sha = row.sha /\ new.attempt = row.attempt
                 /\ new.signAttempt = row.signAttempt /\ new.artifact = row.artifact
           /\ \A s \in Status :
                 LET new == [row EXCEPT !.status = s] IN
                 /\ new.key = row.key /\ new.sha = row.sha /\ new.attempt = row.attempt
                 /\ new.signAttempt = row.signAttempt /\ new.artifact = row.artifact
           /\ \A n \in Nat :
                 LET new == [row EXCEPT !.signFailures = n] IN
                 /\ new.key = row.key /\ new.sha = row.sha /\ new.attempt = row.attempt
                 /\ new.signAttempt = row.signAttempt /\ new.artifact = row.artifact
  BY DEF To, Row

(* A handler that is done is at no step at which it remembers a key.       *)
LEMMA IdleHoldsNothing == Idle.op \notin KeyOps
  BY DEF Idle, KeyOps

(* What a change of the status leaves alone.                               *)
LEMMA ToKeeps ==
    ASSUME NEW row \in Row, NEW s \in Status
    PROVE  /\ To(row, s) \in Row /\ To(row, s).status = s
           /\ To(row, s).key = row.key /\ To(row, s).artifact = row.artifact
           /\ To(row, s).sha = row.sha /\ To(row, s).provenance = row.provenance
           /\ To(row, s).attempt = row.attempt
           /\ To(row, s).signAttempt = row.signAttempt
<1>1. To(row, s) \in Row
  BY RowRewritten
<1> QED
  BY <1>1 DEF To, Row

(* Writing a row whose delivery columns are as they were.                  *)
LEMMA SameWrite ==
    ASSUME TypeOK, NEW j \in Jobs, NEW new,
           new.key = rows[j].key, new.sha = rows[j].sha, new.attempt = rows[j].attempt,
           new.signAttempt = rows[j].signAttempt, new.artifact = rows[j].artifact,
           rows' = [rows EXCEPT ![j] = new]
    PROVE  \A i \in Jobs : SameDeliveries(i)
  BY DEF SameDeliveries, TypeOK

LEMMA SameRows ==
    ASSUME rows' = rows
    PROVE  \A i \in Jobs : SameDeliveries(i)
  BY DEF SameDeliveries

(* A transaction that takes files from a job that is not concluded.        *)
LEMMA TransitionLetsGo ==
    ASSUME TypeOK, NEW c \in Calls \cup Reapers, NEW j \in Jobs, NEW row \in Row,
           NEW files \in SUBSET Files, Transition(c, j, row, files),
           UNCHANGED <<releases, objects, uploads>>,
           rows[j].status \notin Concluded,
           row.key = rows[j].key, row.sha = rows[j].sha, row.attempt = rows[j].attempt,
           row.signAttempt = rows[j].signAttempt \/ "signed" \in files
    PROVE  LetsGo(j, files)
<1>1. /\ rows'[j] = WithoutKeys(row, files)
      /\ \A i \in Jobs : i # j => rows'[i] = rows[i]
  BY DEF Transition, TypeOK
<1>2. /\ rows'[j].key = [f \in Files |-> IF f \in files THEN {} ELSE rows[j].key[f]]
      /\ rows'[j].sha = rows[j].sha /\ rows'[j].attempt = rows[j].attempt
      /\ rows'[j].signAttempt = row.signAttempt
  BY <1>1 DEF WithoutKeys, Row
<1>3. KeysOf(row, files) = KeysOf(rows[j], files) /\ KeysOf(row, files) \in SUBSET Key
  BY KeysOfType DEF KeysOf
<1>4. \E call : /\ GoesOn(c, call)
                /\ \/ call.op \notin KeyOps
                   \/ call.op = "delete" /\ call.keys \subseteq KeysOf(rows[j], files)
  <2>1. CASE KeysOf(row, files) = {}
    BY <2>1, IdleHoldsNothing DEF Transition, ThenDeletes, Becomes, GoesOn
  <2>2. CASE KeysOf(row, files) # {}
    <3> DEFINE call == [op |-> "delete", keys |-> KeysOf(row, files)]
    <3>1. GoesOn(c, call)
      BY <2>2 DEF Transition, ThenDeletes, Becomes, GoesOn
    <3> QED
      BY <1>3, <3>1
  <2> QED
    BY <2>1, <2>2
<1> QED
  BY <1>1, <1>2, <1>4 DEF LetsGo

LEMMA ToLetsGo ==
    ASSUME TypeOK, NEW c \in Calls \cup Reapers, NEW j \in Jobs, NEW s \in Status,
           NEW files \in SUBSET Files, Transition(c, j, To(rows[j], s), files),
           UNCHANGED <<releases, objects, uploads>>,
           rows[j].status \notin Concluded
    PROVE  LetsGo(j, files)
<1>1. rows[j] \in Row /\ To(rows[j], s) \in Row
  BY RowRewritten DEF TypeOK
<1> QED
  BY <1>1, PlainRewrite, TransitionLetsGo

LEMMA SigningFailedEffect ==
    ASSUME TypeOK, NEW c \in Calls \cup Reapers, NEW j \in Jobs, NEW n \in Nat,
           SigningFailed(c, j, n), UNCHANGED <<releases, objects, uploads>>,
           rows[j].status = "signing"
    PROVE  Effect
<1> USE StatusNames
<1> DEFINE To1(s) == [To(rows[j], s) EXCEPT !.signFailures = n + 1]
<1>1. ASSUME NEW s \in Status
      PROVE  /\ To1(s) \in Row
             /\ To1(s).key = rows[j].key /\ To1(s).sha = rows[j].sha
             /\ To1(s).attempt = rows[j].attempt
             /\ To1(s).signAttempt = rows[j].signAttempt
  <2>1. rows[j] \in Row /\ To(rows[j], s) \in Row
    BY RowRewritten DEF TypeOK
  <2>2. To1(s) \in Row
    BY <2>1, ColumnRewritten
  <2> QED
    BY <2>1, <2>2, PlainRewrite
<1>2. \/ Transition(c, j, To1("failed"), Files)
      \/ Transition(c, j, To1("built"), {"signed"})
  BY DEF SigningFailed
<1> HIDE DEF To1
<1>3. rows[j].status \notin Concluded
  BY DEF Concluded
<1>4. LetsGo(j, Files) \/ LetsGo(j, {"signed"})
  BY <1>1, <1>2, <1>3, TransitionLetsGo
<1> QED
  BY <1>4 DEF Effect

(* A handler goes on without a key, and nothing else that counts changes.  *)
LEMMA QuietStep ==
    ASSUME \A i \in Jobs : SameDeliveries(i), UNCHANGED <<releases, objects, uploads>>,
           \/ UNCHANGED calls
           \/ \E c \in Calls \cup Reapers : \E call : Becomes(c, call) /\ call.op \notin KeyOps
           \/ \E c \in Calls \cup Reapers : Returns(c)
    PROVE  Effect
  BY IdleHoldsNothing DEF Effect, IsQuiet, GoesOn, Becomes, Returns

LEMMA AdministratorEffect == TypeOK /\ Administrator => Effect
<1> SUFFICES ASSUME TypeOK, Administrator PROVE Effect
  OBVIOUS
<1> USE StatusNames
<1>1. ASSUME NEW j \in Jobs, NEW c \in Calls, CreateCheck(c, j) PROVE Effect
  BY <1>1, QuietStep, SameRows DEF CreateCheck, KeyOps
<1>2. ASSUME NEW j \in Jobs, NEW c \in Calls, Cancel(c, j) PROVE Effect
  <2>1. rows[j].status \notin Concluded
    BY <1>2 DEF Cancel, Cancelable, Concluded, BuilderActive
  <2> QED
    BY <1>2, <2>1, ToLetsGo DEF Cancel, Effect
<1>3. ASSUME NEW j \in Jobs, NEW c \in Calls, ForceFail(c, j) PROVE Effect
  <2>1. rows[j].status \notin Concluded
    BY <1>3 DEF ForceFail, Concluded
  <2> QED
    BY <1>3, <2>1, ToLetsGo DEF ForceFail, Effect
<1>4. ASSUME NEW c \in Calls, CreateInsert(c) PROVE Effect
  <2> DEFINE j == calls[c].job
  <2>1. j \in Jobs
    BY <1>4, Remembers DEF CreateInsert
  <2>2. rows' = rows \/ rows' = [rows EXCEPT ![j].status = "queued"]
    BY <1>4 DEF CreateInsert
  <2> HIDE DEF j
  <2>3. CASE rows' = [rows EXCEPT ![j].status = "queued"]
    <3>1. rows[j] \in Row
      BY <2>1 DEF TypeOK
    <3>2. rows' = [rows EXCEPT ![j] = [rows[j] EXCEPT !.status = "queued"]]
      BY <2>1, <2>3 DEF TypeOK
    <3> DEFINE new == [rows[j] EXCEPT !.status = "queued"]
    <3>3. /\ new.key = rows[j].key /\ new.sha = rows[j].sha /\ new.attempt = rows[j].attempt
          /\ new.signAttempt = rows[j].signAttempt /\ new.artifact = rows[j].artifact
      BY <3>1 DEF Row
    <3> HIDE DEF new
    <3>4. \A i \in Jobs : SameDeliveries(i)
      BY <2>1, <3>2, <3>3, SameWrite DEF new
    <3> QED
      BY <1>4, <3>4, QuietStep DEF CreateInsert
  <2> QED
    BY <1>4, <2>2, <2>3, SameRows, QuietStep DEF CreateInsert
<1>5. ASSUME NEW p \in Nullable(Signers \cap Administered), SetPrimary(p) PROVE Effect
  BY <1>5, QuietStep, SameRows DEF SetPrimary
<1>6. ASSUME NEW m \in Machines \cap Administered, Revoke(m) PROVE Effect
  BY <1>6, QuietStep, SameRows DEF Revoke
<1>7. ASSUME NEW i \in Certificates, ChangeIdentity(i) PROVE Effect
  BY <1>7, QuietStep, SameRows DEF ChangeIdentity
<1> QED
  BY <1>1, <1>2, <1>3, <1>4, <1>5, <1>6, <1>7 DEF Administrator, Effect

LEMMA BuildingEffect == TypeOK /\ Building => Effect
<1> SUFFICES ASSUME TypeOK, Building PROVE Effect
  OBVIOUS
<1> USE StatusNames
<1>0. ASSUME NEW m \in Builders, NEW j \in Jobs
      PROVE  /\ Claimed(rows[j], m) \in Row
             /\ Claimed(rows[j], m).key =
                    [f \in Files |-> IF f \in BuildFiles THEN {} ELSE rows[j].key[f]]
             /\ Claimed(rows[j], m).signAttempt = rows[j].signAttempt
  <2> DEFINE cl == [To(rows[j], "claimed") EXCEPT !.attempt = rows[j].attempt + 1,
                        !.machine = {m}, !.sha = [f \in BuildFiles |-> {}], !.provenance = {}]
  <2>1. rows[j] \in Row /\ To(rows[j], "claimed") \in Row
    BY RowRewritten DEF TypeOK
  <2>2. To(rows[j], "claimed").key = rows[j].key
        /\ To(rows[j], "claimed").signAttempt = rows[j].signAttempt
    BY <2>1, PlainRewrite
  <2>3. cl.key = rows[j].key /\ cl.signAttempt = rows[j].signAttempt
    BY <2>1, <2>2 DEF Row
  <2>4. Claimed(rows[j], m)
            = [cl EXCEPT !.key = [f \in Files |-> IF f \in BuildFiles THEN {} ELSE cl.key[f]]]
    BY DEF Claimed, WithoutKeys
  <2>5. Claimed(rows[j], m) \in Row
    BY <2>1, RowRewritten
  <2>6. "key" \in DOMAIN cl /\ "signAttempt" \in DOMAIN cl
    BY <2>1 DEF Row
  <2> HIDE DEF cl
  <2> QED
    BY <2>3, <2>4, <2>5, <2>6
<1>1. ASSUME NEW m \in Builders, NEW j \in Jobs, ClaimRefused(m, j) PROVE Effect
  <2> DEFINE new == To(Claimed(rows[j], m), "failed")
  <2>1. new.key = Claimed(rows[j], m).key /\ new.signAttempt = Claimed(rows[j], m).signAttempt
    BY <1>0, PlainRewrite
  <2>2. rows'[j] = new /\ \A i \in Jobs : i # j => rows'[i] = rows[i]
    BY <1>1 DEF ClaimRefused, TypeOK
  <2>3. rows[j].status \notin Concluded
    BY <1>1 DEF ClaimRefused, MayClaim, Concluded
  <2> HIDE DEF new
  <2>4. LetsGo(j, BuildFiles)
    BY <1>0, <1>1, <2>1, <2>2, <2>3 DEF LetsGo, ClaimRefused
  <2> QED
    BY <2>4 DEF Effect
<1>2. ASSUME NEW m \in Builders, NEW j \in Jobs, NEW c \in Calls, Claim(c, m, j) PROVE Effect
  <2> DEFINE call == [op |-> "dispatch", job |-> j, by |-> m, number |-> rows[j].attempt + 1,
                      keys |-> KeysOf(rows[j], BuildFiles)]
  <2>1. rows'[j] = Claimed(rows[j], m) /\ \A i \in Jobs : i # j => rows'[i] = rows[i]
    BY <1>2 DEF Claim, TypeOK
  <2>2. rows[j].status \notin Concluded
    BY <1>2 DEF Claim, MayClaim, Concluded
  <2>3. GoesOn(c, call)
    BY <1>2 DEF Claim, Becomes, GoesOn
  <2>4. call.op = "dispatch" /\ call.keys \subseteq KeysOf(rows[j], BuildFiles)
    OBVIOUS
  <2> HIDE DEF call
  <2>5. LetsGo(j, BuildFiles)
    BY <1>0, <1>2, <2>1, <2>2, <2>3, <2>4 DEF LetsGo, Claim
  <2> QED
    BY <2>5 DEF Effect
<1>3. ASSUME NEW k \in claims, Heartbeat(k) \/ CompleteOTA(k) PROVE Effect
  <2>1. /\ k.job \in Jobs /\ rows[k.job] \in Row
        /\ \E s \in Status : rows' = [rows EXCEPT ![k.job] = To(rows[k.job], s)]
    BY <1>3, ClaimType DEF Heartbeat, CompleteOTA, TypeOK
  <2>2. PICK s \in Status : rows' = [rows EXCEPT ![k.job] = To(rows[k.job], s)]
    BY <2>1
  <2> DEFINE new == To(rows[k.job], s)
  <2>4. /\ new.key = rows[k.job].key /\ new.sha = rows[k.job].sha
        /\ new.attempt = rows[k.job].attempt /\ new.artifact = rows[k.job].artifact
        /\ new.signAttempt = rows[k.job].signAttempt
    <3> DEFINE row == rows[k.job]
    <3>1. row \in Row
      BY <2>1
    <3> HIDE DEF row
    <3> QED
      BY <3>1, ToKeeps DEF row
  <2> HIDE DEF new
  <2>3. \A i \in Jobs : SameDeliveries(i)
    BY <2>1, <2>2, <2>4, SameWrite DEF new
  <2> QED
    BY <1>3, <2>3, QuietStep DEF Heartbeat, CompleteOTA
<1>4. ASSUME NEW k \in claims, NEW c \in Calls, Fail(c, k) \/ FailOrphaned(c, k) PROVE Effect
  <2>1. k.job \in Jobs /\ rows[k.job].status \notin Concluded
    BY <1>4, ClaimType DEF Fail, FailOrphaned, CurrentBuild, BuilderHolds, BuilderActive, Concluded
  <2>2. LetsGo(k.job, BuildFiles)
    BY <1>4, <2>1, ToLetsGo DEF Fail, FailOrphaned
  <2> QED
    BY <2>1, <2>2 DEF Effect
<1>5. ASSUME NEW k \in claims, NEW c \in Calls, BuiltCheck(c, k) PROVE Effect
  BY <1>5, QuietStep, SameRows DEF BuiltCheck, KeyOps
<1>6. ASSUME NEW c \in Calls, Dispatch(c) PROVE Effect
  BY <1>6, SameRows DEF Dispatch, Effect, HasDeleted, Returns, Becomes, GoesOn
<1>7. ASSUME NEW c \in Calls, DispatchFail(c) PROVE Effect
  <2> DEFINE d == calls[c]
  <2>1. d.job \in Jobs /\ rows[d.job] \in Row
    BY <1>7, Remembers DEF DispatchFail, TypeOK
  <2>2. rows' = rows \/ rows' = [rows EXCEPT ![d.job] = To(rows[d.job], "failed")]
    BY <1>7 DEF DispatchFail
  <2>3. \E gone \in SUBSET d.keys : objects' = Without(gone)
    BY <1>7 DEF DispatchFail
  <2> HIDE DEF d
  <2>4. \A i \in Jobs : SameDeliveries(i)
    BY <2>1, <2>2, PlainRewrite, SameWrite, SameRows
  <2> QED
    BY <1>7, <2>3, <2>4 DEF DispatchFail, Effect, HasDeleted, Returns, Becomes, GoesOn, d
<1>8. ASSUME NEW c \in Calls, BuiltCommit(c) PROVE Effect
  <2> DEFINE b == calls[c]
  <2> DEFINE new == [To(rows[b.job], "built") EXCEPT !.provenance = {b.sha}]
  <2>1. b.job \in Jobs /\ rows[b.job] \in Row
    BY <1>8, Remembers DEF BuiltCommit, TypeOK
  <2>2. rows' = rows \/ rows' = [rows EXCEPT ![b.job] = new]
    BY <1>8 DEF BuiltCommit
  <2>3. /\ new.key = rows[b.job].key /\ new.sha = rows[b.job].sha
        /\ new.attempt = rows[b.job].attempt /\ new.signAttempt = rows[b.job].signAttempt
        /\ new.artifact = rows[b.job].artifact
    <3> HIDE DEF b
    <3> DEFINE row == To(rows[b.job], "built")
    <3>1. row \in Row
      BY <2>1, RowRewritten
    <3>2. /\ row.key = rows[b.job].key /\ row.sha = rows[b.job].sha
          /\ row.attempt = rows[b.job].attempt /\ row.signAttempt = rows[b.job].signAttempt
          /\ row.artifact = rows[b.job].artifact
      BY <2>1, PlainRewrite
    <3> HIDE DEF row
    <3>3. LET r == [row EXCEPT !.provenance = {b.sha}]
          IN /\ r.key = row.key /\ r.sha = row.sha /\ r.attempt = row.attempt
             /\ r.signAttempt = row.signAttempt /\ r.artifact = row.artifact
      BY <3>1 DEF Row
    <3> QED
      BY <3>2, <3>3 DEF row
  <2> HIDE DEF new, b
  <2>4. \A i \in Jobs : SameDeliveries(i)
    BY <2>1, <2>2, <2>3, SameWrite, SameRows
  <2> QED
    BY <1>8, <2>4, QuietStep DEF BuiltCommit
<1> QED
  BY <1>1, <1>2, <1>3, <1>4, <1>5, <1>6, <1>7, <1>8 DEF Building

LEMMA UploadingEffect == TypeOK /\ Uploading => Effect
<1> SUFFICES ASSUME TypeOK, Uploading PROVE Effect
  OBVIOUS
<1>1. ASSUME NEW c \in Calls, UploadRefuse(c) PROVE TurnsAway(c)
  BY <1>1 DEF UploadRefuse, TurnsAway, ThenDeletes, Becomes, GoesOn
<1>2. ASSUME NEW c \in Calls, UploadRecord(c) PROVE TurnsAway(c) \/ Records(c)
  <2> DEFINE u == calls[c]
  <2>1. CASE StillCurrent(u)
    <3>1. ThenDeletes(c, rows[u.job].key[u.file] \ {u.key})
      BY <1>2, <2>1 DEF UploadRecord
    <3>2. \E call : /\ GoesOn(c, call)
                    /\ \/ call = Idle
                       \/ call.op = "delete" /\ call.keys = rows[u.job].key[u.file] \ {u.key}
      <4> HIDE DEF u
      <4>1. \E call : /\ Becomes(c, call)
                      /\ \/ call = Idle
                         \/ call.op = "delete" /\ call.keys = rows[u.job].key[u.file] \ {u.key}
        BY <3>1 DEF ThenDeletes
      <4> QED
        BY <4>1 DEF Becomes, GoesOn
    <3> QED
      BY <1>2, <2>1, <3>2 DEF UploadRecord, Records
  <2>2. CASE ~StillCurrent(u)
    BY <1>2, <2>2 DEF UploadRecord, TurnsAway, ThenDeletes, Becomes, GoesOn
  <2> QED
    BY <2>1, <2>2
<1>3. ASSUME NEW c \in Calls, UploadRecordUnsure(c) PROVE Records(c)
  BY <1>3 DEF UploadRecordUnsure, Records, Returns, Becomes, GoesOn
<1> QED
  BY <1>1, <1>2, <1>3 DEF Uploading, Effect

LEMMA SigningEffect == TypeOK /\ Signing => Effect
<1> SUFFICES ASSUME TypeOK, Signing PROVE Effect
  OBVIOUS
<1> USE StatusNames
<1>0. ASSUME NEW k \in claims, rows' = [rows EXCEPT ![k.job].quiet = FALSE]
      PROVE  \A i \in Jobs : SameDeliveries(i)
  <2>1. k.job \in Jobs /\ rows[k.job] \in Row
    BY ClaimType DEF TypeOK
  <2>2. rows' = [rows EXCEPT ![k.job] = [rows[k.job] EXCEPT !.quiet = FALSE]]
    BY <1>0, <2>1 DEF TypeOK
  <2> QED
    BY <2>1, <2>2, PlainRewrite, SameWrite
<1>1. ASSUME NEW k \in claims, SignHeartbeat(k) PROVE Effect
  BY <1>0, <1>1, QuietStep DEF SignHeartbeat
<1>2. ASSUME NEW c \in Calls, NEW s \in Signers, NEW j \in Jobs, SignLook(c, s, j)
      PROVE  Effect
  BY <1>2, QuietStep, SameRows DEF SignLook, KeyOps
<1>3. ASSUME NEW c \in Calls, NEW k \in claims, NEW x \in Contents, CompleteLook(c, k, x)
      PROVE  Effect
  <2>1. \A i \in Jobs : SameDeliveries(i)
    BY <1>0, <1>3 DEF CompleteLook
  <2> QED
    BY <1>3, <2>1 DEF Effect, BeginsToVerify
<1>4. ASSUME NEW c \in Calls, NEW k \in claims, SignDefer(c, k) PROVE Effect
  <2>1. k.job \in Jobs /\ rows[k.job].status \notin Concluded
    BY <1>4, ClaimType DEF SignDefer, CurrentSigning, Concluded
  <2>2. LetsGo(k.job, {"signed"})
    BY <1>4, <2>1, ToLetsGo DEF SignDefer
  <2> QED
    BY <2>1, <2>2 DEF Effect
<1>5. ASSUME NEW c \in Calls, NEW k \in claims, NEW kind \in {"violation", "transient"},
             RejectLook(c, k, kind)
      PROVE  Effect
  BY <1>5, QuietStep, SameRows DEF RejectLook, KeyOps
<1>6. ASSUME NEW c \in Calls, SignClaim(c) PROVE Effect
  <2> DEFINE p == calls[c]
  <2> DEFINE j == p.job
  <2> DEFINE new == [To(rows[j], "signing") EXCEPT !.signAttempt = p.number + 1, !.signer = {p.by}]
  <2>1. j \in Jobs /\ p.by \in Signers /\ p.number \in Nat
    BY <1>6, Remembers DEF SignClaim
  <2>2. \/ Returns(c) /\ rows' = rows
        \/ rows[j].status = "built" /\ Transition(c, j, To(rows[j], "failed"), Files)
        \/ rows[j].status = "built" /\ Transition(c, j, new, {"signed"})
    BY <1>6 DEF SignClaim
  <2>3. UNCHANGED <<releases, objects, uploads>>
    BY <1>6 DEF SignClaim
  <2>4. new \in Row /\ new.key = rows[j].key /\ new.sha = rows[j].sha
        /\ new.attempt = rows[j].attempt
    <3> HIDE DEF p, j
    <3> DEFINE row == To(rows[j], "signing")
    <3>1. rows[j] \in Row
      BY <2>1 DEF TypeOK
    <3>2. row \in Row /\ row.key = rows[j].key /\ row.sha = rows[j].sha
          /\ row.attempt = rows[j].attempt
      BY <3>1, PlainRewrite, RowRewritten
    <3> HIDE DEF row
    <3>3. p.number + 1 \in Nat /\ {p.by} \in Nullable(Signers)
      BY <2>1, NullableIntro
    <3>4. LET r == [row EXCEPT !.signAttempt = p.number + 1]
          IN r \in Row /\ r.key = row.key /\ r.sha = row.sha /\ r.attempt = row.attempt
      BY <3>2, <3>3 DEF Row
    <3>5. LET r == [row EXCEPT !.signAttempt = p.number + 1, !.signer = {p.by}]
          IN r \in Row /\ r.key = row.key /\ r.sha = row.sha /\ r.attempt = row.attempt
      BY <3>3, <3>4 DEF Row
    <3> QED
      BY <3>2, <3>5 DEF row
  <2> HIDE DEF p, j, new
  <2>5. CASE rows[j].status = "built" /\ Transition(c, j, To(rows[j], "failed"), Files)
    BY <2>1, <2>3, <2>5, ToLetsGo DEF Effect, Concluded
  <2>6. CASE rows[j].status = "built" /\ Transition(c, j, new, {"signed"})
    <3>1. LetsGo(j, {"signed"})
      BY <2>1, <2>3, <2>4, <2>6, TransitionLetsGo DEF Concluded
    <3> QED
      BY <2>1, <3>1 DEF Effect
  <2> QED
    BY <2>2, <2>3, <2>5, <2>6, SameRows, QuietStep
<1>7. ASSUME NEW c \in Calls, CompleteCommit(c) PROVE Effect
  <2>1. CASE StillCompletable(calls[c])
    BY <1>7, <2>1 DEF Effect, Releases
  <2>2. CASE ~StillCompletable(calls[c])
    BY <1>7, <2>2, SameRows, QuietStep DEF CompleteCommit
  <2> QED
    BY <2>1, <2>2
<1>8. ASSUME NEW c \in Calls, RejectCommit(c) PROVE Effect
  <2> DEFINE p == calls[c]
  <2>1. p.job \in Jobs /\ p.failures \in Nat
    BY <1>8, Remembers DEF RejectCommit
  <2>2. \/ Returns(c) /\ rows' = rows
        \/ /\ rows[p.job].status = "signing"
           /\ \/ Transition(c, p.job, To(rows[p.job], "failed"), Files)
              \/ SigningFailed(c, p.job, p.failures)
    BY <1>8 DEF RejectCommit, CurrentSigning
  <2>3. UNCHANGED <<releases, objects, uploads>>
    BY <1>8 DEF RejectCommit
  <2> HIDE DEF p
  <2>4. CASE /\ rows[p.job].status = "signing"
             /\ Transition(c, p.job, To(rows[p.job], "failed"), Files)
    BY <2>1, <2>3, <2>4, ToLetsGo DEF Effect, Concluded
  <2>5. CASE rows[p.job].status = "signing" /\ SigningFailed(c, p.job, p.failures)
    BY <2>1, <2>3, <2>5, SigningFailedEffect
  <2> QED
    BY <2>2, <2>3, <2>4, <2>5, SameRows, QuietStep
<1> QED
  BY <1>1, <1>2, <1>3, <1>4, <1>5, <1>6, <1>7, <1>8 DEF Signing, Effect

LEMMA ReapingEffect == TypeOK /\ Reaping => Effect
<1> SUFFICES ASSUME TypeOK, Reaping PROVE Effect
  OBVIOUS
<1> USE StatusNames
<1>1. ASSUME NEW j \in Jobs, FallQuiet(j) PROVE Effect
  <2>1. rows[j] \in Row
    BY DEF TypeOK
  <2>2. rows' = [rows EXCEPT ![j] = [rows[j] EXCEPT !.quiet = TRUE]]
    BY <1>1 DEF FallQuiet, TypeOK
  <2> QED
    BY <1>1, <2>1, <2>2, PlainRewrite, SameWrite, QuietStep DEF FallQuiet
<1>2. ASSUME NEW r \in Reapers, NEW j \in Jobs, ReapLook(r, j) PROVE Effect
  <2>1. \E call : Becomes(r, call) /\ call.op \notin KeyOps
    BY <1>2 DEF ReapLook, KeyOps
  <2> QED
    BY <1>2, <2>1, SameRows, QuietStep DEF ReapLook
<1>3. ASSUME NEW r \in Reapers, ReapBuild(r) PROVE Effect
  <2> DEFINE j == calls[r].job
  <2>1. j \in Jobs
    BY <1>3, Remembers DEF ReapBuild
  <2>2. \/ Returns(r) /\ rows' = rows
        \/ /\ BuilderHolds(j)
           /\ \E s \in Status : Transition(r, j, To(rows[j], s), BuildFiles)
    BY <1>3 DEF ReapBuild, StillStale
  <2>3. UNCHANGED <<releases, objects, uploads>>
    BY <1>3 DEF ReapBuild
  <2> HIDE DEF j
  <2>4. CASE BuilderHolds(j) /\ \E s \in Status : Transition(r, j, To(rows[j], s), BuildFiles)
    <3>1. rows[j].status \notin Concluded
      BY <2>4 DEF BuilderHolds, BuilderActive, Concluded
    <3>2. LetsGo(j, BuildFiles)
      BY <2>1, <2>3, <2>4, <3>1, ToLetsGo
    <3> QED
      BY <2>1, <3>2 DEF Effect
  <2> QED
    BY <2>2, <2>3, <2>4, SameRows, QuietStep
<1>4. ASSUME NEW r \in Reapers, ReapSign(r) PROVE Effect
  <2> DEFINE p == calls[r]
  <2>1. p.job \in Jobs /\ p.failures \in Nat
    BY <1>4, Remembers DEF ReapSign
  <2>2. \/ Returns(r) /\ rows' = rows
        \/ rows[p.job].status = "signing" /\ SigningFailed(r, p.job, p.failures)
    BY <1>4 DEF ReapSign
  <2>3. UNCHANGED <<releases, objects, uploads>>
    BY <1>4 DEF ReapSign
  <2> HIDE DEF p
  <2> QED
    BY <2>1, <2>2, <2>3, SigningFailedEffect, SameRows, QuietStep
<1> QED
  BY <1>1, <1>2, <1>3, <1>4 DEF Reaping

LEMMA StepEffect == TypeOK /\ [Next]_vars => Effect
<1> SUFFICES ASSUME TypeOK, [Next]_vars PROVE Effect
  OBVIOUS
<1>1. ASSUME NEW c \in Calls \cup Reapers, DeleteObjects(c) PROVE Effect
  BY <1>1, SameRows DEF DeleteObjects, Effect, HasDeleted, Returns, Becomes, GoesOn
<1>2. ASSUME NEW c \in Calls \cup Reapers, Abandon(c) PROVE Effect
  BY <1>2, SameRows, QuietStep DEF Abandon
<1>3. CASE UNCHANGED vars
  BY <1>3, SameRows, QuietStep DEF vars
<1> QED
  BY <1>1, <1>2, <1>3, AdministratorEffect, BuildingEffect, UploadingEffect, SigningEffect,
     ReapingEffect DEF Next, Server
(***************************************************************************)
(* What a row references, and what a handler remembers, one step later.    *)
(***************************************************************************)

(* The keys a handler remembers.                                           *)
Held(call) ==
    IF call.op \in {"delete", "dispatch"} THEN call.keys
    ELSE IF call.op \in {"put", "record"} THEN {call.key}
    ELSE IF call.op \in {"verify", "finish"} THEN call.key
    ELSE {}

Uploads(call) == call.op \in {"put", "record"}

(* An upload writes to a key that is labelled with what it is for.         *)
UploadsAreLabelled ==
    \A c \in Calls \cup Reapers : Uploads(calls[c]) =>
        LET u == calls[c] IN
        u.key.job = u.job /\ u.key.file = u.file /\ u.key.number = u.number

LEMMA GoesOnCalls ==
    ASSUME TypeOK, NEW c, NEW call, GoesOn(c, call)
    PROVE  /\ c \in Calls \cup Reapers
           /\ calls'[c] = call
           /\ \A d \in Calls \cup Reapers : d # c => calls'[d] = calls[d]
  BY DEF GoesOn, TypeOK

LEMMA BecomesCalls ==
    ASSUME TypeOK, NEW c \in Calls \cup Reapers, NEW call, Becomes(c, call)
    PROVE  /\ calls'[c] = call
           /\ \A d \in Calls \cup Reapers : d # c => calls'[d] = calls[d]
  BY DEF Becomes, TypeOK

(* What recording an upload does to the row.                               *)
LEMMA RecordsRow ==
    ASSUME TypeOK, NEW c \in Calls, Records(c)
    PROVE  LET u == calls[c] IN
           /\ u.job \in Jobs /\ u.file \in Files /\ u.key \in Key /\ u.content \in Contents
           /\ u.op = "record"
           /\ \A i \in Jobs : i # u.job => rows'[i] = rows[i]
           /\ rows'[u.job].key = [rows[u.job].key EXCEPT ![u.file] = {u.key}]
           /\ u.file # "signed" => rows'[u.job].sha = [rows[u.job].sha EXCEPT ![u.file] = {u.content}]
           /\ u.file = "signed" => rows'[u.job].sha = rows[u.job].sha
           /\ rows'[u.job].attempt = rows[u.job].attempt
           /\ rows'[u.job].signAttempt = rows[u.job].signAttempt
           /\ u.file = "signed" => rows[u.job].signAttempt = u.number
           /\ u.file # "signed" => rows[u.job].attempt = u.number
           /\ rows[u.job].status \notin Concluded
<1> DEFINE u == calls[c]
<1> DEFINE row == rows[u.job]
<1>1. At(c, "record") /\ StillCurrent(u) /\ rows' = [rows EXCEPT ![u.job] = Recorded(row, u)]
  BY DEF Records
<1>2. u.job \in Jobs /\ u.file \in Files /\ u.key \in Key /\ u.content \in Contents
  BY <1>1, Remembers
<1>3. u.op = "record"
  BY <1>1 DEF At
<1>4. row \in Row
  BY <1>2 DEF TypeOK
<1>5. rows'[u.job] = Recorded(row, u) /\ \A i \in Jobs : i # u.job => rows'[i] = rows[i]
  BY <1>1, <1>2 DEF TypeOK
<1>6. /\ u.file = "signed" => row.signAttempt = u.number
      /\ u.file # "signed" => row.attempt = u.number
      /\ row.status \notin Concluded
  BY <1>1 DEF StillCurrent, CurrentSigning, CurrentBuild, BuilderHolds, BuilderActive, Concluded
<1> HIDE DEF u, row
<1>7. LET new == Recorded(row, u) IN
      /\ new.key = [row.key EXCEPT ![u.file] = {u.key}]
      /\ u.file # "signed" => new.sha = [row.sha EXCEPT ![u.file] = {u.content}]
      /\ u.file = "signed" => new.sha = row.sha
      /\ new.attempt = row.attempt /\ new.signAttempt = row.signAttempt
  BY <1>4 DEF Recorded, Row
<1> QED
  BY <1>2, <1>3, <1>5, <1>6, <1>7 DEF u, row

(* A row keeps a key with all that is said of it, or has just recorded it. *)
LEMMA RowKeysMove ==
    ASSUME TypeOK, Effect, NEW j \in Jobs, NEW f \in Files, NEW k \in rows'[j].key[f]
    PROVE  \/ /\ k \in rows[j].key[f]
              /\ f \in BuildFiles => /\ rows'[j].sha[f] = rows[j].sha[f]
                                     /\ rows'[j].attempt = rows[j].attempt
              /\ f = "signed" => rows'[j].signAttempt = rows[j].signAttempt
           \/ \E c \in Calls :
                 LET u == calls[c] IN
                 /\ Records(c)
                 /\ j = u.job /\ f = u.file /\ k = u.key
                 /\ f # "signed" => /\ rows'[j].sha[f] = {u.content}
                                    /\ rows'[j].attempt = u.number
                 /\ f = "signed" => rows'[j].signAttempt = u.number
<1> USE FilesAssumption DEF Files
<1> DEFINE Kept == /\ k \in rows[j].key[f]
                   /\ f \in BuildFiles => /\ rows'[j].sha[f] = rows[j].sha[f]
                                          /\ rows'[j].attempt = rows[j].attempt
                   /\ f = "signed" => rows'[j].signAttempt = rows[j].signAttempt
<1>1. SameDeliveries(j) => Kept
  BY DEF SameDeliveries
<1>2. rows' = rows => Kept
  OBVIOUS
<1>3. ASSUME NEW i \in Jobs, NEW files \in SUBSET Files, LetsGo(i, files) PROVE Kept
  <2>1. CASE j # i
    BY <1>2, <1>3, <2>1 DEF LetsGo
  <2>2. CASE j = i
    <3>1. /\ rows'[j].key = [g \in Files |-> IF g \in files THEN {} ELSE rows[j].key[g]]
          /\ rows'[j].sha = rows[j].sha \/ BuildFiles \subseteq files
          /\ rows'[j].attempt = rows[j].attempt \/ BuildFiles \subseteq files
          /\ rows'[j].signAttempt = rows[j].signAttempt \/ "signed" \in files
      BY <1>3, <2>2 DEF LetsGo
    <3>2. f \notin files /\ k \in rows[j].key[f]
      BY <3>1
    <3> QED
      BY <3>1, <3>2
  <2> QED
    BY <2>1, <2>2
<1>4. ASSUME NEW c \in Calls, NEW r \in releases, Purge(c, r) PROVE Kept
  <2>1. r.job # {j}
    <3> SUFFICES ASSUME r.job = {j} PROVE FALSE
      OBVIOUS
    <3>1. rows'[j] = WithoutKeys(rows[j], Files)
      BY <1>4 DEF Purge
    <3>2. rows[j] \in Row
      BY DEF TypeOK
    <3> QED
      BY <3>1, <3>2 DEF WithoutKeys, Row
  <2>2. rows'[j] = rows[j]
    BY <1>4, <2>1 DEF Purge
  <2> QED
    BY <2>2
<1>5. ASSUME NEW c \in Calls, Releases(c) PROVE Kept
  <2> DEFINE v == calls[c]
  <2> DEFINE new == [To(rows[v.job], "succeeded") EXCEPT !.artifact = {v.content}]
  <2>1. v.job \in Jobs /\ rows[v.job] \in Row /\ rows' = [rows EXCEPT ![v.job] = new]
    BY <1>5, Remembers DEF Releases, CompleteCommit, TypeOK
  <2>2. /\ new.key = rows[v.job].key /\ new.sha = rows[v.job].sha
        /\ new.attempt = rows[v.job].attempt /\ new.signAttempt = rows[v.job].signAttempt
    <3> HIDE DEF v
    <3> DEFINE row == To(rows[v.job], "succeeded")
    <3>1. row \in Row /\ row.key = rows[v.job].key /\ row.sha = rows[v.job].sha
          /\ row.attempt = rows[v.job].attempt /\ row.signAttempt = rows[v.job].signAttempt
      BY <2>1, ToKeeps, StatusNames
    <3> HIDE DEF row
    <3>2. LET n == [row EXCEPT !.artifact = {v.content}]
          IN /\ n.key = row.key /\ n.sha = row.sha
             /\ n.attempt = row.attempt /\ n.signAttempt = row.signAttempt
      BY <3>1 DEF Row
    <3> QED
      BY <3>1, <3>2 DEF row
  <2> HIDE DEF v, new
  <2>3. CASE j = v.job
    <3>1. rows'[j] = new
      BY <2>1, <2>3 DEF TypeOK
    <3> QED
      BY <2>2, <2>3, <3>1
  <2>4. CASE j # v.job
    <3>1. rows'[j] = rows[j]
      BY <2>1, <2>4 DEF TypeOK
    <3> QED
      BY <3>1
  <2> QED
    BY <2>3, <2>4
<1>6. ASSUME NEW c \in Calls, Records(c)
      PROVE  LET u == calls[c] IN
             \/ Kept
             \/ /\ j = u.job /\ f = u.file /\ k = u.key
                /\ f # "signed" => /\ rows'[j].sha[f] = {u.content}
                                   /\ rows'[j].attempt = u.number
                /\ f = "signed" => rows'[j].signAttempt = u.number
  <2> DEFINE u == calls[c]
  <2>0. rows[j].key \in [Files -> Nullable(Key)] /\ rows[j].sha \in [BuildFiles -> Nullable(Contents)]
    BY RowColumns DEF TypeOK
  <2>1. CASE j # u.job
    BY <1>2, <1>6, <2>1, RecordsRow
  <2>2. CASE j = u.job /\ f # u.file
    <3>1. rows'[j].key = [rows[j].key EXCEPT ![u.file] = {u.key}]
      BY <1>6, <2>2, RecordsRow
    <3>2. \/ rows'[j].sha = [rows[j].sha EXCEPT ![u.file] = {u.content}]
          \/ rows'[j].sha = rows[j].sha
      BY <1>6, <2>2, RecordsRow
    <3>3. rows'[j].attempt = rows[j].attempt /\ rows'[j].signAttempt = rows[j].signAttempt
      BY <1>6, <2>2, RecordsRow
    <3> HIDE DEF u
    <3>4. rows'[j].key[f] = rows[j].key[f] /\ (f \in BuildFiles => rows'[j].sha[f] = rows[j].sha[f])
      BY <2>0, <2>2, <3>1, <3>2
    <3> QED
      BY <3>3, <3>4
  <2>3. CASE j = u.job /\ f = u.file
    <3>1. /\ rows'[j].key = [rows[j].key EXCEPT ![u.file] = {u.key}]
          /\ u.file # "signed" => /\ rows'[j].sha = [rows[j].sha EXCEPT ![u.file] = {u.content}]
                                  /\ rows[j].attempt = u.number
          /\ rows'[j].attempt = rows[j].attempt /\ rows'[j].signAttempt = rows[j].signAttempt
          /\ u.file = "signed" => rows[j].signAttempt = u.number
      BY <1>6, <2>3, RecordsRow
    <3> HIDE DEF u
    <3>2. k = u.key
      BY <2>0, <2>3, <3>1
    <3>3. f # "signed" => rows'[j].sha[f] = {u.content}
      BY <2>0, <2>3, <3>1
    <3> QED
      BY <2>3, <3>1, <3>2, <3>3 DEF u
  <2> QED
    BY <2>1, <2>2, <2>3
<1> HIDE DEF Kept
<1>7. ASSUME NEW c \in Calls,
             \/ \E q \in claims, g \in Files : UploadScope(c, q, g)
             \/ \E x \in Contents : UploadPut(c, x)
             \/ TurnsAway(c) \/ BeginsToVerify(c) \/ CompleteVerify(c)
      PROVE  Kept
  BY <1>1, <1>2, <1>7 DEF UploadScope, UploadPut, TurnsAway, BeginsToVerify, CompleteVerify
<1>8. ASSUME IsQuiet \/ \E c \in Calls \cup Reapers : HasDeleted(c) PROVE Kept
  BY <1>1, <1>8 DEF IsQuiet, HasDeleted
<1>9. ASSUME NEW n \in ManualBuilds, ManualRelease(n) PROVE Kept
  BY <1>2, <1>9 DEF ManualRelease
<1> QED
  BY <1>3, <1>4, <1>5, <1>6, <1>7, <1>8, <1>9 DEF Effect, Kept

(* An upload under way was under way before, for the same claim, unless it *)
(* has just been given its key.                                            *)
LEMMA UploadsMove ==
    ASSUME TypeOK, Effect, NEW d \in Calls \cup Reapers, Uploads(calls'[d])
    PROVE  \/ LET u == calls[d]
                  v == calls'[d]
              IN /\ Uploads(u)
                 /\ v.job = u.job /\ v.file = u.file /\ v.number = u.number /\ v.key = u.key
           \/ /\ d \in Calls
              /\ \E k \in claims, f \in Files : UploadScope(d, k, f)
              /\ LET v == calls'[d] IN
                 /\ v.key.job = v.job /\ v.key.file = v.file /\ v.key.number = v.number
                 /\ v.key.random = uploads + 1 /\ v.op = "put"
                 /\ uploads' = uploads + 1
<1> DEFINE Same == LET u == calls[d]
                       v == calls'[d]
                   IN /\ Uploads(u)
                      /\ v.job = u.job /\ v.file = u.file /\ v.number = u.number /\ v.key = u.key
<1>1. ASSUME NEW c, NEW call, GoesOn(c, call), call.op \notin {"put", "record"} PROVE Same
  <2>1. calls'[d] = calls[d]
    BY <1>1, GoesOnCalls DEF Uploads
  <2> QED
    BY <2>1
<1>2. ASSUME NEW c \in Calls, NEW call, Becomes(c, call), call.op \notin {"put", "record"} PROVE Same
  <2>1. calls'[d] = calls[d]
    BY <1>2, BecomesCalls DEF Uploads
  <2> QED
    BY <2>1
<1>3. ASSUME UNCHANGED calls PROVE Same
  BY <1>3
<1>4. ASSUME IsQuiet PROVE Same
  BY <1>1, <1>3, <1>4 DEF IsQuiet, KeyOps
<1>5. ASSUME NEW j, NEW files, LetsGo(j, files) PROVE Same
  <2>1. \/ UNCHANGED calls
        \/ \E c, call : GoesOn(c, call) /\ call.op \notin {"put", "record"}
    BY <1>5 DEF LetsGo, KeyOps
  <2> QED
    BY <1>1, <1>3, <2>1
<1>6. ASSUME NEW c, HasDeleted(c) \/ TurnsAway(c) PROVE Same
  <2>1. \E call : GoesOn(c, call) /\ call.op \notin {"put", "record"}
    BY <1>6 DEF HasDeleted, TurnsAway, Idle
  <2> QED
    BY <1>1, <2>1
<1>7. ASSUME NEW c, Records(c) PROVE Same
  <2>1. \E call : GoesOn(c, call) /\ call.op \notin {"put", "record"}
    BY <1>7 DEF Records, Idle
  <2> QED
    BY <1>1, <2>1
<1>8. ASSUME NEW c \in Calls, BeginsToVerify(c) \/ CompleteVerify(c) \/ Releases(c) PROVE Same
  <2>1. CASE BeginsToVerify(c)
    BY <1>2, <2>1 DEF BeginsToVerify, CompleteLook
  <2>2. CASE CompleteVerify(c)
    BY <1>2, <2>2 DEF CompleteVerify
  <2>3. CASE Releases(c)
    BY <1>2, <2>3 DEF Releases, CompleteCommit, Returns, Idle
  <2> QED
    BY <1>8, <2>1, <2>2, <2>3
<1>9. ASSUME NEW c \in Calls, NEW r \in releases, Purge(c, r) PROVE Same
  <2>1. \E call : Becomes(c, call) /\ call.op \notin {"put", "record"}
    BY <1>9 DEF Purge, ThenDeletes, Idle
  <2> QED
    BY <1>2, <2>1
<1>10. ASSUME NEW n, ManualRelease(n) PROVE Same
  BY <1>3, <1>10 DEF ManualRelease
<1>11. ASSUME NEW c \in Calls, NEW x \in Contents, UploadPut(c, x) PROVE Same
  <2> DEFINE u == calls[c]
  <2> DEFINE call == [op |-> "record", job |-> u.job, by |-> u.by, number |-> u.number,
                      file |-> u.file, key |-> u.key, content |-> x]
  <2>1. Becomes(c, call) /\ Uploads(u)
    BY <1>11 DEF UploadPut, At, Uploads
  <2>2. calls'[c] = call /\ (d # c => calls'[d] = calls[d])
    BY <2>1, BecomesCalls
  <2>3. call.job = u.job /\ call.file = u.file /\ call.number = u.number /\ call.key = u.key
    OBVIOUS
  <2> HIDE DEF call
  <2> QED
    BY <2>1, <2>2, <2>3
<1>12. ASSUME NEW c \in Calls, NEW k \in claims, NEW f \in Files, UploadScope(c, k, f), ~Same
       PROVE  /\ d = c
              /\ LET v == calls'[d] IN
                 /\ v.key.job = v.job /\ v.key.file = v.file /\ v.key.number = v.number
                 /\ v.key.random = uploads + 1 /\ v.op = "put"
                 /\ uploads' = uploads + 1
  <2> DEFINE call == [op |-> "put", job |-> k.job, by |-> k.by, number |-> k.number,
                      file |-> f, key |-> FreshKey(k.job, f, k.number)]
  <2>1. Becomes(c, call) /\ uploads' = uploads + 1
    BY <1>12 DEF UploadScope
  <2>2. calls'[c] = call /\ (d # c => calls'[d] = calls[d])
    BY <2>1, BecomesCalls
  <2>3. /\ call.key.job = call.job /\ call.key.file = call.file /\ call.key.number = call.number
        /\ call.key.random = uploads + 1 /\ call.op = "put"
    BY DEF FreshKey
  <2> HIDE DEF call
  <2>4. d = c
    BY <1>12, <2>2
  <2> QED
    BY <2>1, <2>2, <2>3, <2>4
<1> HIDE DEF Same
<1> QED
  BY <1>4, <1>5, <1>6, <1>7, <1>8, <1>9, <1>10, <1>11, <1>12 DEF Effect, Same

(* Every step keeps the labels: a key is made with the label of the claim  *)
(* it is for, and a claim that changes makes the row let go of its keys.   *)
LEMMA LabelsStep ==
    TypeOK /\ DeliveriesAreOfTheCurrentClaim /\ UploadsAreLabelled /\ [Next]_vars
    => DeliveriesAreOfTheCurrentClaim' /\ UploadsAreLabelled'
<1> SUFFICES ASSUME TypeOK, DeliveriesAreOfTheCurrentClaim, UploadsAreLabelled, [Next]_vars
             PROVE  DeliveriesAreOfTheCurrentClaim' /\ UploadsAreLabelled'
  OBVIOUS
<1>1. Effect
  BY StepEffect
<1>2. ASSUME NEW j \in Jobs, NEW f \in Files, NEW k \in rows'[j].key[f]
      PROVE  /\ k.job = j /\ k.file = f
             /\ k.number = IF f = "signed" THEN rows'[j].signAttempt ELSE rows'[j].attempt
  <2>1. CASE /\ k \in rows[j].key[f]
             /\ f \in BuildFiles => rows'[j].attempt = rows[j].attempt
             /\ f = "signed" => rows'[j].signAttempt = rows[j].signAttempt
    BY <2>1 DEF DeliveriesAreOfTheCurrentClaim, Files
  <2>2. ASSUME NEW c \in Calls, Records(c),
               LET u == calls[c] IN
                 /\ j = u.job /\ f = u.file /\ k = u.key
                 /\ f # "signed" => rows'[j].attempt = u.number
                 /\ f = "signed" => rows'[j].signAttempt = u.number
        PROVE  /\ k.job = j /\ k.file = f
               /\ k.number = IF f = "signed" THEN rows'[j].signAttempt ELSE rows'[j].attempt
    BY <2>2, RecordsRow DEF UploadsAreLabelled, Uploads
  <2> QED
    BY <1>1, <2>1, <2>2, RowKeysMove
<1>3. ASSUME NEW c \in Calls \cup Reapers, Uploads(calls'[c])
      PROVE  LET u == calls'[c] IN
             u.key.job = u.job /\ u.key.file = u.file /\ u.key.number = u.number
  BY <1>1, <1>3, UploadsMove DEF UploadsAreLabelled
<1> QED
  BY <1>2, <1>3 DEF DeliveriesAreOfTheCurrentClaim, UploadsAreLabelled, Uploads

LEMMA LabelsInvariant == Spec => [](DeliveriesAreOfTheCurrentClaim /\ UploadsAreLabelled)
<1>1. Init => DeliveriesAreOfTheCurrentClaim /\ UploadsAreLabelled
  BY DEF Init, DeliveriesAreOfTheCurrentClaim, UploadsAreLabelled, Uploads, NewRow, Idle
<1> QED
  BY <1>1, LabelsStep, TypeCorrect, PTL DEF Spec

(* Whatever uploads, claims, retries and the reaper interleave, what a row *)
(* references was delivered for this job, as this file and under the       *)
(* attempt that is the current one.                                        *)
THEOREM DeliveriesStayCurrent == Spec => []DeliveriesAreOfTheCurrentClaim
<1> QED
  BY LabelsInvariant, PTL
(***************************************************************************)
(* A succeeded package and its release                                     *)
(***************************************************************************)

(* A signer's package that is being verified is there to be verified.      *)
VerifiersHaveAPackage ==
    \A c \in Calls \cup Reapers : calls[c].op \in {"verify", "finish"} => calls[c].key # {}

(* A release comes from a package job, or from an administrator, and then  *)
(* the pipeline holds no object for it.                                    *)
ReleasesAreOfPackages ==
    \A r \in releases : \/ r.job = {} /\ r.key = {}
                        \/ \E j \in Jobs : IsPackage(j) /\ r.job = {j}

(* The releases of a job.                                                  *)
Mine(j) == {r \in releases : r.job = {j}}

Carries(j) ==
    /\ Mine(j) # {} <=> rows[j].status = "succeeded" /\ rows[j].key["signed"] # {}
    /\ \A r \in Mine(j) : /\ Mine(j) = {r}
                          /\ r.key = rows[j].key["signed"]
                          /\ r.content = rows[j].artifact
                          /\ r.build = BuildNumberOf[j]

LEMMA SucceededIsCarried == SucceededMeansReleased <=> \A j \in Jobs : IsPackage(j) => Carries(j)
  BY DEF SucceededMeansReleased, Carries, Mine

LEMMA VerifiersMove ==
    ASSUME TypeOK, Effect, NEW d \in Calls \cup Reapers, calls'[d].op \in {"verify", "finish"}
    PROVE  \/ calls'[d] = calls[d]
           \/ d \in Calls /\ BeginsToVerify(d)
           \/ d \in Calls /\ CompleteVerify(d)
<1> DEFINE Same == calls'[d] = calls[d]
<1>1. ASSUME NEW c, NEW call, GoesOn(c, call), call.op \notin {"verify", "finish"} PROVE Same
  BY <1>1, GoesOnCalls
<1>2. ASSUME NEW c \in Calls, NEW call, Becomes(c, call), call.op \notin {"verify", "finish"} PROVE Same
  BY <1>2, BecomesCalls
<1>3. ASSUME UNCHANGED calls PROVE Same
  BY <1>3
<1>4. ASSUME IsQuiet PROVE Same
  BY <1>1, <1>3, <1>4 DEF IsQuiet, KeyOps
<1>5. ASSUME NEW j, NEW files, LetsGo(j, files) PROVE Same
  <2>1. \/ UNCHANGED calls
        \/ \E c, call : GoesOn(c, call) /\ call.op \notin {"verify", "finish"}
    BY <1>5 DEF LetsGo, KeyOps
  <2> QED
    BY <1>1, <1>3, <2>1
<1>6. ASSUME NEW c, HasDeleted(c) \/ TurnsAway(c) PROVE Same
  <2>1. \E call : GoesOn(c, call) /\ call.op \notin {"verify", "finish"}
    BY <1>6 DEF HasDeleted, TurnsAway, Idle
  <2> QED
    BY <1>1, <2>1
<1>7. ASSUME NEW c, Records(c) PROVE Same
  <2>1. \E call : GoesOn(c, call) /\ call.op \notin {"verify", "finish"}
    BY <1>7 DEF Records, Idle
  <2> QED
    BY <1>1, <2>1
<1>8. ASSUME NEW c \in Calls, Releases(c) PROVE Same
  BY <1>2, <1>8 DEF Releases, CompleteCommit, Returns, Idle
<1>9. ASSUME NEW c \in Calls, NEW r \in releases, Purge(c, r) PROVE Same
  <2>1. \E call : Becomes(c, call) /\ call.op \notin {"verify", "finish"}
    BY <1>9 DEF Purge, ThenDeletes, Idle
  <2> QED
    BY <1>2, <2>1
<1>10. ASSUME NEW n, ManualRelease(n) PROVE Same
  BY <1>3, <1>10 DEF ManualRelease
<1>11. ASSUME NEW c \in Calls, NEW x \in Contents, UploadPut(c, x) PROVE Same
  BY <1>2, <1>11 DEF UploadPut
<1>12. ASSUME NEW c \in Calls, NEW k \in claims, NEW f \in Files, UploadScope(c, k, f) PROVE Same
  BY <1>2, <1>12 DEF UploadScope
<1>13. ASSUME NEW c \in Calls, BeginsToVerify(c) \/ CompleteVerify(c), c # d PROVE Same
  <2>1. CASE BeginsToVerify(c)
    BY <1>13, <2>1, BecomesCalls DEF BeginsToVerify, CompleteLook
  <2>2. CASE CompleteVerify(c)
    BY <1>13, <2>2, BecomesCalls DEF CompleteVerify
  <2> QED
    BY <1>13, <2>1, <2>2
<1> HIDE DEF Same
<1> QED
  BY <1>4, <1>5, <1>6, <1>7, <1>8, <1>9, <1>10, <1>11, <1>12, <1>13 DEF Effect, Same

LEMMA VerifiersStep == TypeOK /\ VerifiersHaveAPackage /\ [Next]_vars => VerifiersHaveAPackage'
<1> SUFFICES ASSUME TypeOK, VerifiersHaveAPackage, [Next]_vars,
                    NEW c \in Calls \cup Reapers, calls'[c].op \in {"verify", "finish"}
             PROVE  calls'[c].key # {}
  BY DEF VerifiersHaveAPackage
<1>1. CASE calls'[c] = calls[c]
  BY <1>1 DEF VerifiersHaveAPackage
<1>2. CASE c \in Calls /\ BeginsToVerify(c)
  BY <1>2, BecomesCalls DEF BeginsToVerify, CompleteLook
<1>3. CASE c \in Calls /\ CompleteVerify(c)
  <2>1. calls'[c].key = calls[c].key /\ calls[c].op = "verify"
    BY <1>3, BecomesCalls DEF CompleteVerify, At
  <2> QED
    BY <2>1 DEF VerifiersHaveAPackage
<1> QED
  BY <1>1, <1>2, <1>3, StepEffect, VerifiersMove

(* A signed package is released and its job succeeded in one transaction.  *)
LEMMA ReleasesStep ==
    ASSUME TypeOK, OnlyPackagesAreBuilt, VerifiersHaveAPackage, NEW c \in Calls, Releases(c)
    PROVE  LET v == calls[c]
               r == [build |-> BuildNumberOf[v.job], job |-> {v.job}, key |-> v.key,
                     content |-> {v.content}, certificate |-> {v.identity}]
           IN /\ v.job \in Jobs /\ IsPackage(v.job) /\ v.op = "finish"
              /\ releases' = releases \cup {r}
              /\ rows[v.job].status = "signing" /\ rows'[v.job].status = "succeeded"
              /\ rows[v.job].key["signed"] = v.key /\ v.key # {}
              /\ rows'[v.job].key = rows[v.job].key /\ rows'[v.job].artifact = {v.content}
              /\ \A i \in Jobs : i # v.job => rows'[i] = rows[i]
              /\ UNCHANGED <<objects, uploads>>
              /\ Becomes(c, Idle)
<1> DEFINE v == calls[c]
<1> DEFINE row == To(rows[v.job], "succeeded")
<1>1. /\ At(c, "finish") /\ StillCompletable(v)
      /\ releases' = releases \cup {[build |-> BuildNumberOf[v.job], job |-> {v.job},
             key |-> v.key, content |-> {v.content}, certificate |-> {v.identity}]}
      /\ rows' = [rows EXCEPT ![v.job] = [row EXCEPT !.artifact = {v.content}]]
      /\ Becomes(c, Idle) /\ UNCHANGED <<objects, uploads>>
  BY DEF Releases, CompleteCommit, Returns
<1>2. v.job \in Jobs /\ v.content \in Contents
  BY <1>1, Remembers
<1>3. /\ rows[v.job].status = "signing" /\ rows[v.job].key["signed"] = v.key
      /\ IsPackage(v.job)
  BY <1>1, <1>2 DEF StillCompletable, CurrentSigning, OnlyPackagesAreBuilt
<1>4. v.op = "finish" /\ v.key # {}
  BY <1>1 DEF At, VerifiersHaveAPackage
<1>5. rows[v.job] \in Row /\ row \in Row /\ row.key = rows[v.job].key /\ row.status = "succeeded"
  BY <1>2, ToKeeps, StatusNames DEF TypeOK
<1>6. rows'[v.job] = [row EXCEPT !.artifact = {v.content}]
      /\ \A i \in Jobs : i # v.job => rows'[i] = rows[i]
  BY <1>1, <1>2 DEF TypeOK
<1> HIDE DEF row
<1>7. LET n == [row EXCEPT !.artifact = {v.content}]
      IN n.key = row.key /\ n.status = row.status /\ n.artifact = {v.content}
  BY <1>5 DEF Row
<1> QED
  BY <1>1, <1>2, <1>3, <1>4, <1>5, <1>6, <1>7

LEMMA ReleasesOfPackagesStep ==
    TypeOK /\ OnlyPackagesAreBuilt /\ VerifiersHaveAPackage /\ ReleasesAreOfPackages /\ [Next]_vars
    => ReleasesAreOfPackages'
<1> SUFFICES ASSUME TypeOK, OnlyPackagesAreBuilt, VerifiersHaveAPackage, ReleasesAreOfPackages,
                    [Next]_vars, NEW r \in releases', r \notin releases
             PROVE  \/ r.job = {} /\ r.key = {}
                    \/ \E j \in Jobs : IsPackage(j) /\ r.job = {j}
  BY DEF ReleasesAreOfPackages, IsPackage
<1>1. CASE \E n \in ManualBuilds : ManualRelease(n)
  BY <1>1 DEF ManualRelease
<1>2. ASSUME NEW c \in Calls, Releases(c)
      PROVE  \E j \in Jobs : IsPackage(j) /\ r.job = {j}
  BY <1>2, ReleasesStep
<1>3. CASE \E c \in Calls, p \in releases : Purge(c, p)
  BY <1>3 DEF Purge
<1> QED
  BY <1>1, <1>2, <1>3, ReleasesMove DEF Releases

LEMMA SucceededStep ==
    /\ TypeOK /\ OnlyPackagesAreBuilt /\ VerifiersHaveAPackage /\ SucceededMeansReleased
    /\ [Next]_vars
    => SucceededMeansReleased'
<1> SUFFICES ASSUME TypeOK, OnlyPackagesAreBuilt, VerifiersHaveAPackage, SucceededMeansReleased,
                    [Next]_vars, NEW j \in Jobs, IsPackage(j)
             PROVE  Carries(j)'
  BY SucceededIsCarried DEF IsPackage, SucceededMeansReleased, Carries, Mine
<1>1. Carries(j)
  BY SucceededIsCarried
<1>2. ASSUME rows'[j] = rows[j], Mine(j)' = Mine(j) PROVE Carries(j)'
  BY <1>1, <1>2 DEF Carries
<1>3. ASSUME NEW c \in Calls, Releases(c) PROVE Carries(j)'
  <2> DEFINE v == calls[c]
  <2> DEFINE r == [build |-> BuildNumberOf[v.job], job |-> {v.job}, key |-> v.key,
                   content |-> {v.content}, certificate |-> {v.identity}]
  <2>1. r.job = {v.job} /\ r.key = v.key /\ r.content = {v.content}
        /\ r.build = BuildNumberOf[v.job]
    OBVIOUS
  <2>2. releases' = releases \cup {r}
    BY <1>3, ReleasesStep
  <2> HIDE DEF r
  <2>3. CASE j # v.job
    <3>1. Mine(j)' = Mine(j)
      BY <2>1, <2>2, <2>3 DEF Mine
    <3> QED
      BY <1>2, <1>3, <2>3, <3>1, ReleasesStep
  <2>4. CASE j = v.job
    <3>1. /\ rows[j].status = "signing" /\ rows'[j].status = "succeeded"
          /\ rows[j].key["signed"] = v.key /\ v.key # {}
          /\ rows'[j].key = rows[j].key /\ rows'[j].artifact = {v.content}
      BY <1>3, <2>4, ReleasesStep
    <3>2. Mine(j) = {}
      BY <1>1, <3>1 DEF Carries
    <3>3. Mine(j)' = {r}
      BY <2>1, <2>2, <2>4, <3>2 DEF Mine
    <3> QED
      BY <2>1, <2>4, <3>1, <3>3 DEF Carries
  <2> QED
    BY <2>3, <2>4
<1>4. ASSUME NEW c \in Calls, NEW p \in releases, Purge(c, p) PROVE Carries(j)'
  <2>1. releases' = releases \ {p}
    BY <1>4 DEF Purge
  <2>2. CASE p.job = {j}
    <3>1. Mine(j) = {p}
      BY <1>1, <2>2 DEF Carries, Mine
    <3>2. Mine(j)' = {}
      BY <2>1, <3>1 DEF Mine
    <3>3. rows'[j] = WithoutKeys(rows[j], Files) /\ rows[j] \in Row
      BY <1>4, <2>2 DEF Purge, TypeOK
    <3>4. rows'[j].key["signed"] = {}
      BY <3>3 DEF WithoutKeys, Row, Files
    <3> QED
      BY <3>2, <3>4 DEF Carries
  <2>3. CASE p.job # {j}
    <3>1. rows'[j] = rows[j]
      BY <1>4, <2>3 DEF Purge
    <3>2. Mine(j)' = Mine(j)
      BY <2>1, <2>3 DEF Mine
    <3> QED
      BY <1>2, <3>1, <3>2
  <2> QED
    BY <2>2, <2>3
<1>5. ASSUME NEW n \in ManualBuilds, ManualRelease(n) PROVE Carries(j)'
  <2>1. rows'[j] = rows[j] /\ Mine(j)' = Mine(j)
    BY <1>5 DEF ManualRelease, Mine
  <2> QED
    BY <1>2, <2>1
<1>6. CASE UNCHANGED releases /\ ~\E c \in Calls : Releases(c)
  <2>1. Mine(j)' = Mine(j)
    BY <1>6 DEF Mine
  <2>2. CASE rows'[j] = rows[j]
    BY <1>2, <2>1, <2>2
  <2>3. CASE rows'[j] # rows[j]
    <3>1. rows[j].status \notin Concluded
      BY <1>6, <2>3, ConcludedStep
    <3>2. Moves(j)
      BY <2>3, OneRowMoves DEF OnlyOneMoves
    <3>3. rows'[j].status # "succeeded"
      <4>1. ~IsReleased(j)
        BY <1>6 DEF IsReleased, Releases
      <4> QED
        BY <3>1, <3>2, <4>1 DEF Moves, Goes, IsReported, IsPurged, IsClaimed, IsFailedSigning,
           IsSignClaimed, BuilderActive, Concluded
    <3> QED
      BY <1>1, <2>1, <3>1, <3>3 DEF Carries, Concluded
  <2> QED
    BY <2>2, <2>3
<1> QED
  BY <1>3, <1>4, <1>5, <1>6, ReleasesMove DEF Releases

LEMMA SucceededInvariant ==
    Spec => [](VerifiersHaveAPackage /\ ReleasesAreOfPackages /\ SucceededMeansReleased)
<1>1. Init => VerifiersHaveAPackage /\ ReleasesAreOfPackages /\ SucceededMeansReleased
  BY DEF Init, VerifiersHaveAPackage, ReleasesAreOfPackages, SucceededMeansReleased, NewRow, Idle
<1> QED
  BY <1>1, VerifiersStep, ReleasesOfPackagesStep, SucceededStep, OnlyPackagesInvariant, PTL DEF Spec

(* A package job has succeeded, and still has its package, exactly when    *)
(* one release carries it: the one transaction makes both so, and purging  *)
(* the release is the one thing that undoes it.                            *)
THEOREM SucceededStaysReleased == Spec => []SucceededMeansReleased
<1> QED
  BY SucceededInvariant, PTL
(***************************************************************************)
(* What is referenced is there                                             *)
(***************************************************************************)

IsReferenced(k) ==
    \/ \E j \in Jobs : \E f \in Files : k \in rows[j].key[f]
    \/ \E r \in releases : k \in r.key

(* Every key in use was handed out.                                        *)
KeysAreKnown ==
    /\ \A c \in Calls \cup Reapers : \A k \in Held(calls[c]) : k.random \in 0..uploads
    /\ \A j \in Jobs : \A f \in Files : \A k \in rows[j].key[f] : k.random \in 0..uploads

(* An upload shares its key with no other handler.                         *)
UploadsAreAlone ==
    \A c, d \in Calls \cup Reapers :
        Uploads(calls[c]) /\ d # c => calls[c].key \notin Held(calls[d])

(* Neither what is to be deleted nor what is still uploaded is referenced. *)
Unrecorded(call) == call.op \in {"delete", "dispatch", "put", "record"}

HeldIsUnreferenced ==
    \A c \in Calls \cup Reapers : Unrecorded(calls[c]) =>
        \A k \in Held(calls[c]) : ~IsReferenced(k)

(* An upload to be recorded is stored, and a package that was verified     *)
(* stays what it was for as long as it is referenced.                      *)
UploadsAreStored ==
    \A c \in Calls \cup Reapers : calls[c].op = "record" =>
        Object(calls[c].key, calls[c].content) \in objects

VerifiedIsKept ==
    \A c \in Calls \cup Reapers : calls[c].op = "finish" =>
        \A k \in calls[c].key : IsReferenced(k) => Object(k, calls[c].content) \in objects

(* The inductive invariant.                                                *)
KeysAreKept ==
    /\ KeysAreKnown /\ UploadsAreAlone /\ HeldIsUnreferenced
    /\ UploadsAreStored /\ VerifiedIsKept /\ ReferencesAreBacked

(* What the invariant rests on.                                            *)
Known ==
    /\ TypeOK /\ OnlyPackagesAreBuilt
    /\ DeliveriesAreOfTheCurrentClaim /\ UploadsAreLabelled
    /\ VerifiersHaveAPackage /\ ReleasesAreOfPackages /\ SucceededMeansReleased

(* A release shares its package with the job it is of.                     *)
LEMMA ReleasedKeys ==
    ASSUME Known, NEW r \in releases, NEW k \in r.key
    PROVE  \E j \in Jobs : /\ IsPackage(j) /\ r.job = {j} /\ r.key = rows[j].key["signed"]
                           /\ rows[j].status = "succeeded" /\ k.job = j
<1>1. PICK j \in Jobs : IsPackage(j) /\ r.job = {j}
  BY DEF Known, ReleasesAreOfPackages
<1>2. r \in Mine(j)
  BY <1>1 DEF Mine
<1>3. r.key = rows[j].key["signed"] /\ rows[j].status = "succeeded"
  BY <1>1, <1>2, SucceededIsCarried DEF Known, Carries
<1>4. k.job = j
  BY <1>3 DEF Known, DeliveriesAreOfTheCurrentClaim, Files
<1> QED
  BY <1>1, <1>3, <1>4

(* Only recording an upload adds to what is referenced.                    *)
LEMMA ReferencesMove ==
    ASSUME Known, [Next]_vars, NEW k, IsReferenced(k)'
    PROVE  IsReferenced(k) \/ \E c \in Calls : Records(c) /\ k = calls[c].key
<1>1. Effect
  BY StepEffect DEF Known
<1>2. ASSUME NEW j \in Jobs, NEW f \in Files, k \in rows'[j].key[f]
      PROVE  IsReferenced(k) \/ \E c \in Calls : Records(c) /\ k = calls[c].key
  BY <1>1, <1>2, RowKeysMove DEF Known, IsReferenced
<1>3. ASSUME NEW r \in releases', k \in r.key PROVE IsReferenced(k)
  <2>1. CASE r \in releases
    BY <1>3, <2>1 DEF IsReferenced
  <2>2. CASE \E n \in ManualBuilds : ManualRelease(n)
    BY <1>3, <2>2 DEF ManualRelease, IsReferenced
  <2>3. CASE \E c \in Calls, p \in releases : Purge(c, p)
    BY <1>3, <2>3 DEF Purge, IsReferenced
  <2>4. ASSUME NEW c \in Calls, Releases(c) PROVE IsReferenced(k)
    <3>1. r \in releases \/ k \in calls[c].key
      BY <1>3, <2>4, ReleasesStep DEF Known
    <3>2. calls[c].job \in Jobs /\ rows[calls[c].job].key["signed"] = calls[c].key
      BY <2>4, ReleasesStep DEF Known
    <3> QED
      BY <2>1, <3>1, <3>2 DEF IsReferenced, Files
  <2> QED
    BY <2>1, <2>2, <2>3, <2>4, ReleasesMove DEF Releases
<1> QED
  BY <1>2, <1>3 DEF IsReferenced

(* The keys a job lets go of are referenced no more: labels keep them      *)
(* apart from those of other jobs and files, and of no release is a job    *)
(* that is not concluded.                                                  *)
LEMMA LetGoIsUnreferenced ==
    ASSUME Known, Effect, NEW j \in Jobs, NEW files \in SUBSET Files, LetsGo(j, files),
           NEW k \in KeysOf(rows[j], files)
    PROVE  IsReferenced(k) /\ ~IsReferenced(k)'
<1>1. PICK f \in files : k \in rows[j].key[f]
  BY DEF KeysOf
<1>2. k.job = j /\ k.file = f
  BY <1>1 DEF Known, DeliveriesAreOfTheCurrentClaim
<1>3. IsReferenced(k)
  BY <1>1 DEF IsReferenced
<1>4. ASSUME NEW i \in Jobs, NEW g \in Files, k \in rows'[i].key[g] PROVE FALSE
  <2>1. CASE i # j
    <3>1. k \in rows[i].key[g]
      BY <1>4, <2>1 DEF LetsGo
    <3> QED
      BY <1>2, <2>1, <3>1 DEF Known, DeliveriesAreOfTheCurrentClaim
  <2>2. CASE i = j
    <3>1. g \notin files /\ k \in rows[j].key[g]
      BY <1>4, <2>2 DEF LetsGo
    <3> QED
      BY <1>1, <1>2, <3>1 DEF Known, DeliveriesAreOfTheCurrentClaim
  <2> QED
    BY <2>1, <2>2
<1>5. ASSUME NEW r \in releases', k \in r.key PROVE FALSE
  <2>1. r \in releases
    BY <1>5 DEF LetsGo
  <2>2. rows[j].status = "succeeded"
    BY <1>2, <1>5, <2>1, ReleasedKeys
  <2> QED
    BY <2>2 DEF LetsGo, Concluded
<1> QED
  BY <1>3, <1>4, <1>5 DEF IsReferenced

LEMMA ReplacedIsUnreferenced ==
    ASSUME Known, NEW c \in Calls, Records(c),
           NEW k \in rows[calls[c].job].key[calls[c].file], k # calls[c].key
    PROVE  IsReferenced(k) /\ ~IsReferenced(k)'
<1> DEFINE j == calls[c].job
<1> DEFINE f == calls[c].file
<1>1. /\ j \in Jobs /\ f \in Files
      /\ \A i \in Jobs : i # j => rows'[i] = rows[i]
      /\ rows'[j].key = [rows[j].key EXCEPT ![f] = {calls[c].key}]
      /\ rows[j].status \notin Concluded
  BY RecordsRow DEF Known
<1>2. k.job = j /\ k.file = f
  BY <1>1 DEF Known, DeliveriesAreOfTheCurrentClaim
<1>3. IsReferenced(k)
  BY <1>1 DEF IsReferenced
<1>4. ASSUME NEW i \in Jobs, NEW g \in Files, k \in rows'[i].key[g] PROVE FALSE
  <2>1. CASE i # j
    <3>1. k \in rows[i].key[g]
      BY <1>1, <1>4, <2>1
    <3> QED
      BY <1>2, <2>1, <3>1 DEF Known, DeliveriesAreOfTheCurrentClaim
  <2>2. CASE i = j
    <3>0. rows[j].key \in [Files -> Nullable(Key)]
      BY <1>1, RowColumns DEF Known, TypeOK
    <3>1. g # f /\ k \in rows[j].key[g]
      BY <1>1, <1>4, <2>2, <3>0
    <3> QED
      BY <1>1, <1>2, <3>1 DEF Known, DeliveriesAreOfTheCurrentClaim
  <2> QED
    BY <2>1, <2>2
<1>5. ASSUME NEW r \in releases', k \in r.key PROVE FALSE
  <2>1. r \in releases
    BY <1>5 DEF Records
  <2>2. rows[j].status = "succeeded"
    BY <1>2, <1>5, <2>1, ReleasedKeys
  <2> QED
    BY <1>1, <2>2 DEF Concluded
<1> QED
  BY <1>3, <1>4, <1>5 DEF IsReferenced

LEMMA PurgedIsUnreferenced ==
    ASSUME Known, NEW c \in Calls, NEW r \in releases, Purge(c, r),
           NEW k \in r.key \cup UNION {KeysOf(rows[j], BuildFiles) : j \in r.job}
    PROVE  IsReferenced(k) /\ ~IsReferenced(k)'
<1>1. PICK j \in Jobs : IsPackage(j) /\ r.job = {j}
  BY DEF Known, ReleasesAreOfPackages
<1>2. r \in Mine(j)
  BY <1>1 DEF Mine
<1>3. r.key = rows[j].key["signed"] /\ Mine(j) = {r}
  BY <1>1, <1>2, SucceededIsCarried DEF Known, Carries
<1>4. \E f \in Files : k \in rows[j].key[f]
  BY <1>1, <1>3 DEF KeysOf, Files
<1>5. k.job = j /\ IsReferenced(k)
  BY <1>4 DEF Known, DeliveriesAreOfTheCurrentClaim, IsReferenced
<1>6. ASSUME NEW i \in Jobs, NEW g \in Files, k \in rows'[i].key[g] PROVE FALSE
  <2>1. CASE i # j
    <3>1. k \in rows[i].key[g]
      BY <1>1, <1>6, <2>1 DEF Purge
    <3> QED
      BY <1>5, <2>1, <3>1 DEF Known, DeliveriesAreOfTheCurrentClaim
  <2>2. CASE i = j
    <3>1. rows'[j] = WithoutKeys(rows[j], Files) /\ rows[j] \in Row
      BY <1>1 DEF Purge, Known, TypeOK
    <3> QED
      BY <1>6, <2>2, <3>1 DEF WithoutKeys, Row
  <2> QED
    BY <2>1, <2>2
<1>7. ASSUME NEW p \in releases', k \in p.key PROVE FALSE
  <2>1. p \in releases /\ p # r
    BY <1>7 DEF Purge
  <2>2. p \in Mine(j)
    BY <1>5, <1>7, <2>1, ReleasedKeys DEF Mine
  <2> QED
    BY <1>3, <2>1, <2>2
<1> QED
  BY <1>5, <1>6, <1>7 DEF IsReferenced

(* A key a handler remembers: it did before, or a row or a release         *)
(* referenced it until now, or it is a new one.                            *)
Kept(d, k) == k \in Held(calls[d]) /\ (Unrecorded(calls'[d]) => Unrecorded(calls[d]))

TakenOver(d, k) ==
    /\ IsReferenced(k)
    /\ ~Uploads(calls'[d])
    /\ Unrecorded(calls'[d]) => ~IsReferenced(k)'

IsNew(d, k) ==
    /\ k.random = uploads + 1
    /\ uploads' = uploads + 1
    /\ UNCHANGED <<rows, releases>>
    /\ Uploads(calls'[d])
    /\ \A c \in Calls \cup Reapers : c # d => calls'[c] = calls[c]

LEMMA HeldMoves ==
    ASSUME Known, Effect, NEW d \in Calls \cup Reapers, NEW k \in Held(calls'[d])
    PROVE  Kept(d, k) \/ TakenOver(d, k) \/ IsNew(d, k)
<1> DEFINE Goal == Kept(d, k) \/ TakenOver(d, k) \/ IsNew(d, k)
<1>1. ASSUME calls'[d] = calls[d] PROVE Goal
  BY <1>1 DEF Kept
<1>2. ASSUME calls'[d].op \notin KeyOps PROVE Goal
  BY <1>2 DEF Held, KeyOps
<1>3. ASSUME IsQuiet PROVE Goal
  BY <1>1, <1>2, <1>3, GoesOnCalls DEF IsQuiet, Known
<1>4. ASSUME NEW j \in Jobs, NEW files \in SUBSET Files, LetsGo(j, files) PROVE Goal
  <2>1. \/ calls'[d] = calls[d]
        \/ calls'[d].op \notin KeyOps
        \/ calls'[d].op \in {"delete", "dispatch"} /\ calls'[d].keys \subseteq KeysOf(rows[j], files)
    BY <1>4, GoesOnCalls DEF LetsGo, Known
  <2>2. CASE calls'[d].op \in {"delete", "dispatch"} /\ calls'[d].keys \subseteq KeysOf(rows[j], files)
    BY <1>4, <2>2, LetGoIsUnreferenced DEF Held, TakenOver, Uploads
  <2> QED
    BY <1>1, <1>2, <2>1, <2>2
<1>5. ASSUME NEW c \in Calls \cup Reapers, HasDeleted(c) PROVE Goal
  BY <1>1, <1>2, <1>5, GoesOnCalls, IdleHoldsNothing DEF HasDeleted, Known
<1>6. ASSUME NEW c \in Calls, TurnsAway(c) PROVE Goal
  <2>1. CASE c = d
    <3>1. k = calls[d].key /\ calls[d].op = "record"
      BY <1>6, <2>1, GoesOnCalls DEF TurnsAway, Known, Held, At
    <3> QED
      BY <3>1 DEF Kept, Held, Unrecorded
  <2>2. CASE c # d
    BY <1>1, <1>6, <2>2, GoesOnCalls DEF TurnsAway, Known
  <2> QED
    BY <2>1, <2>2
<1>7. ASSUME NEW c \in Calls, Records(c) PROVE Goal
  <2>1. \/ calls'[d] = calls[d]
        \/ calls'[d] = Idle
        \/ /\ calls'[d].op = "delete"
           /\ calls'[d].keys = rows[calls[c].job].key[calls[c].file] \ {calls[c].key}
    BY <1>7, GoesOnCalls DEF Records, Known
  <2>2. CASE /\ calls'[d].op = "delete"
             /\ calls'[d].keys = rows[calls[c].job].key[calls[c].file] \ {calls[c].key}
    BY <1>7, <2>2, ReplacedIsUnreferenced DEF Held, TakenOver, Uploads
  <2> QED
    BY <1>1, <1>2, <2>1, <2>2, IdleHoldsNothing
<1>8. ASSUME NEW c \in Calls, NEW r \in releases, Purge(c, r) PROVE Goal
  <2> DEFINE keys == r.key \cup UNION {KeysOf(rows[j], BuildFiles) : j \in r.job}
  <2>1. ThenDeletes(c, keys) \/ ThenDeletes(c, {})
    BY <1>8 DEF Purge
  <2>2. \A q \in keys : IsReferenced(q) /\ ~IsReferenced(q)'
    BY <1>8, PurgedIsUnreferenced
  <2> HIDE DEF keys
  <2>3. \/ calls'[d] = calls[d]
        \/ calls'[d] = Idle
        \/ calls'[d].op = "delete" /\ calls'[d].keys = keys
    BY <2>1, BecomesCalls DEF ThenDeletes, Known
  <2>4. CASE calls'[d].op = "delete" /\ calls'[d].keys = keys
    BY <2>2, <2>4 DEF Held, TakenOver, Uploads
  <2> QED
    BY <1>1, <1>2, <2>3, <2>4, IdleHoldsNothing
<1>9. ASSUME NEW c \in Calls, BeginsToVerify(c) PROVE Goal
  <2>1. PICK q \in claims, x \in Contents : CompleteLook(c, q, x)
    BY <1>9 DEF BeginsToVerify
  <2>2. q.job \in Jobs
    BY ClaimType DEF Known
  <2>3. \/ calls'[d] = calls[d]
        \/ calls'[d].op = "verify" /\ calls'[d].key = rows[q.job].key["signed"]
    BY <2>1, BecomesCalls DEF CompleteLook, Known
  <2>4. CASE calls'[d].op = "verify" /\ calls'[d].key = rows[q.job].key["signed"]
    BY <2>2, <2>4 DEF Held, TakenOver, Uploads, Unrecorded, IsReferenced, Files
  <2> QED
    BY <1>1, <2>3, <2>4
<1>10. ASSUME NEW c \in Calls, CompleteVerify(c) PROVE Goal
  <2>1. \/ calls'[d] = calls[d]
        \/ calls[d].op = "verify" /\ calls'[d].op = "finish" /\ calls'[d].key = calls[d].key
    BY <1>10, BecomesCalls DEF CompleteVerify, Known, At
  <2>2. CASE calls[d].op = "verify" /\ calls'[d].op = "finish" /\ calls'[d].key = calls[d].key
    BY <2>2 DEF Kept, Held, Unrecorded
  <2> QED
    BY <1>1, <2>1, <2>2
<1>11. ASSUME NEW c \in Calls, Releases(c) PROVE Goal
  BY <1>1, <1>2, <1>11, ReleasesStep, BecomesCalls, IdleHoldsNothing DEF Known
<1>12. ASSUME NEW n \in ManualBuilds, ManualRelease(n) PROVE Goal
  BY <1>1, <1>12 DEF ManualRelease
<1>13. ASSUME NEW c \in Calls, NEW x \in Contents, UploadPut(c, x) PROVE Goal
  <2>1. \/ calls'[d] = calls[d]
        \/ calls[d].op = "put" /\ calls'[d].op = "record" /\ calls'[d].key = calls[d].key
    BY <1>13, BecomesCalls DEF UploadPut, Known, At
  <2>2. CASE calls[d].op = "put" /\ calls'[d].op = "record" /\ calls'[d].key = calls[d].key
    BY <2>2 DEF Kept, Held, Unrecorded
  <2> QED
    BY <1>1, <2>1, <2>2
<1>14. ASSUME NEW c \in Calls, NEW q \in claims, NEW f \in Files, UploadScope(c, q, f)
       PROVE  Goal
  <2> DEFINE call == [op |-> "put", job |-> q.job, by |-> q.by, number |-> q.number,
                      file |-> f, key |-> FreshKey(q.job, f, q.number)]
  <2>1. Becomes(c, call) /\ uploads' = uploads + 1 /\ UNCHANGED <<rows, releases>>
    BY <1>14 DEF UploadScope
  <2>2. calls'[c] = call /\ \A e \in Calls \cup Reapers : e # c => calls'[e] = calls[e]
    BY <2>1, BecomesCalls DEF Known
  <2>3. call.op = "put" /\ call.key.random = uploads + 1
    BY DEF FreshKey
  <2> HIDE DEF call
  <2>4. CASE d = c
    <3>1. k = call.key
      BY <2>2, <2>3, <2>4 DEF Held
    <3> QED
      BY <2>1, <2>2, <2>3, <2>4, <3>1 DEF IsNew, Uploads
  <2> QED
    BY <1>1, <2>2, <2>4
<1> HIDE DEF Goal
<1> QED
  BY <1>3, <1>4, <1>5, <1>6, <1>7, <1>8, <1>9, <1>10, <1>11, <1>12, <1>13, <1>14 DEF Effect, Goal

(* An object only goes when a handler deletes a key it held, or writes its *)
(* own once more.                                                          *)
LEMMA ObjectsMove ==
    ASSUME Known, Effect, NEW o \in objects, o \notin objects'
    PROVE  \E c \in Calls \cup Reapers :
              /\ calls[c].op \in {"delete", "dispatch", "put"}
              /\ o.key \in Held(calls[c])
<1>1. ASSUME NEW c \in Calls \cup Reapers, HasDeleted(c)
      PROVE  calls[c].op \in {"delete", "dispatch"} /\ o.key \in Held(calls[c])
  BY <1>1 DEF HasDeleted, At, Without, Held
<1>2. ASSUME NEW c \in Calls, NEW x \in Contents, UploadPut(c, x)
      PROVE  calls[c].op = "put" /\ o.key \in Held(calls[c])
  BY <1>2 DEF UploadPut, At, Without, Held
<1>3. IsQuiet => UNCHANGED objects
  BY DEF IsQuiet
<1>4. ASSUME NEW j, NEW files, LetsGo(j, files) PROVE UNCHANGED objects
  BY <1>4 DEF LetsGo
<1>5. ASSUME NEW c \in Calls,
             \/ \E k \in claims, f \in Files : UploadScope(c, k, f)
             \/ TurnsAway(c) \/ Records(c)
             \/ BeginsToVerify(c) \/ CompleteVerify(c) \/ Releases(c)
             \/ \E r \in releases : Purge(c, r)
      PROVE  UNCHANGED objects
  BY <1>5 DEF UploadScope, TurnsAway, Records, BeginsToVerify, CompleteLook, CompleteVerify,
     Releases, CompleteCommit, Purge
<1>6. ASSUME NEW n, ManualRelease(n) PROVE UNCHANGED objects
  BY <1>6 DEF ManualRelease
<1> QED
  BY <1>1, <1>2, <1>3, <1>4, <1>5, <1>6 DEF Effect

(* So what is referenced, or about to be recorded, stays.                  *)
LEMMA ObjectsStay ==
    ASSUME Known, KeysAreKept, Effect, NEW o \in objects,
           \/ IsReferenced(o.key)
           \/ \E c \in Calls \cup Reapers : calls[c].op = "record" /\ calls[c].key = o.key
    PROVE  o \in objects'
<1> SUFFICES ASSUME o \notin objects' PROVE FALSE
  OBVIOUS
<1>1. PICK c \in Calls \cup Reapers : /\ calls[c].op \in {"delete", "dispatch", "put"}
                                      /\ o.key \in Held(calls[c])
  BY ObjectsMove
<1>2. ~IsReferenced(o.key)
  BY <1>1 DEF KeysAreKept, HeldIsUnreferenced, Unrecorded
<1>3. PICK d \in Calls \cup Reapers : calls[d].op = "record" /\ calls[d].key = o.key
  BY <1>2
<1>4. c # d
  BY <1>1, <1>3
<1> QED
  BY <1>1, <1>3, <1>4 DEF KeysAreKept, UploadsAreAlone, Uploads

(* A key that is referenced was handed out.                                *)
LEMMA ReferencedIsKnown ==
    ASSUME Known, KeysAreKnown, NEW k, IsReferenced(k)
    PROVE  k.random \in 0..uploads
<1>1. CASE \E j \in Jobs : \E f \in Files : k \in rows[j].key[f]
  BY <1>1 DEF KeysAreKnown
<1>2. ASSUME NEW r \in releases, k \in r.key PROVE k.random \in 0..uploads
  <2>1. PICK j \in Jobs : r.key = rows[j].key["signed"]
    BY <1>2, ReleasedKeys
  <2> QED
    BY <1>2, <2>1 DEF KeysAreKnown, Files
<1> QED
  BY <1>1, <1>2 DEF IsReferenced

LEMMA UploadsRise ==
    ASSUME TypeOK, Effect
    PROVE  /\ uploads \in Nat
           /\ uploads' = uploads \/ uploads' = uploads + 1
<1>1. uploads \in Nat
  BY LimitsAssumption DEF TypeOK
<1>2. uploads' = uploads \/ uploads' = uploads + 1
  BY DEF Effect, IsQuiet, LetsGo, HasDeleted, UploadScope, UploadPut, TurnsAway, Records,
     BeginsToVerify, CompleteLook, CompleteVerify, Releases, CompleteCommit, Purge, ManualRelease
<1> QED
  BY <1>1, <1>2

LEMMA KnownStep ==
    ASSUME Known, KeysAreKept, [Next]_vars
    PROVE  KeysAreKnown'
<1>0. Effect /\ KeysAreKnown
  BY StepEffect DEF Known, KeysAreKept
<1>1. uploads \in Nat /\ (uploads' = uploads \/ uploads' = uploads + 1)
  BY <1>0, UploadsRise DEF Known
<1>2. ASSUME NEW c \in Calls \cup Reapers, NEW k \in Held(calls'[c])
      PROVE  k.random \in 0..uploads'
  <2>1. CASE Kept(c, k)
    BY <1>0, <1>1, <2>1 DEF Kept, KeysAreKnown
  <2>2. CASE TakenOver(c, k)
    BY <1>0, <1>1, <2>2, ReferencedIsKnown DEF TakenOver
  <2>3. CASE IsNew(c, k)
    BY <1>1, <2>3 DEF IsNew
  <2> QED
    BY <1>0, <2>1, <2>2, <2>3, HeldMoves
<1>3. ASSUME NEW j \in Jobs, NEW f \in Files, NEW k \in rows'[j].key[f]
      PROVE  k.random \in 0..uploads'
  <2>1. IsReferenced(k)'
    BY <1>3 DEF IsReferenced
  <2>2. CASE IsReferenced(k)
    BY <1>0, <1>1, <2>2, ReferencedIsKnown
  <2>3. ASSUME NEW c \in Calls, Records(c), k = calls[c].key PROVE k.random \in 0..uploads'
    <3>1. k \in Held(calls[c])
      BY <2>3 DEF Records, At, Held
    <3> QED
      BY <1>0, <1>1, <3>1 DEF KeysAreKnown
  <2> QED
    BY <2>1, <2>2, <2>3, ReferencesMove
<1> QED
  BY <1>2, <1>3 DEF KeysAreKnown

LEMMA AloneStep ==
    ASSUME Known, KeysAreKept, [Next]_vars
    PROVE  UploadsAreAlone'
<1> SUFFICES ASSUME NEW c \in Calls \cup Reapers, NEW d \in Calls \cup Reapers,
                    Uploads(calls'[c]), d # c, NEW k \in Held(calls'[d]), k = calls'[c].key
             PROVE  FALSE
  BY DEF UploadsAreAlone, Uploads
<1>0. Effect /\ KeysAreKnown
  BY StepEffect DEF Known, KeysAreKept
<1>1. uploads \in Nat
  BY <1>0, UploadsRise DEF Known
<1>2. Kept(d, k) \/ TakenOver(d, k) \/ IsNew(d, k)
  BY <1>0, HeldMoves
<1>3. CASE Uploads(calls[c]) /\ k = calls[c].key
  <2>1. k \in Held(calls[c]) /\ Unrecorded(calls[c])
    BY <1>3 DEF Uploads, Held, Unrecorded
  <2>2. k \notin Held(calls[d])
    BY <1>3 DEF KeysAreKept, UploadsAreAlone
  <2>3. ~IsReferenced(k)
    BY <2>1 DEF KeysAreKept, HeldIsUnreferenced
  <2>4. k.random # uploads + 1
    BY <1>0, <1>1, <2>1 DEF KeysAreKnown
  <2> QED
    BY <1>2, <2>2, <2>3, <2>4 DEF Kept, TakenOver, IsNew
<1>4. CASE /\ k.random = uploads + 1
           /\ \E q \in claims, f \in Files : UploadScope(c, q, f)
           /\ calls'[c].op = "put"
  <2>1. k \notin Held(calls[d])
    BY <1>0, <1>1, <1>4 DEF KeysAreKnown
  <2>2. ~IsReferenced(k)
    BY <1>0, <1>1, <1>4, ReferencedIsKnown
  <2>3. calls'[c] # calls[c]
    BY <1>4 DEF UploadScope, Free, Idle
  <2> QED
    BY <1>2, <2>1, <2>2, <2>3 DEF Kept, TakenOver, IsNew
<1> QED
  BY <1>0, <1>3, <1>4, UploadsMove DEF Known

LEMMA UnreferencedStep ==
    ASSUME Known, KeysAreKept, [Next]_vars
    PROVE  HeldIsUnreferenced'
<1> SUFFICES ASSUME NEW c \in Calls \cup Reapers, Unrecorded(calls'[c]),
                    NEW k \in Held(calls'[c]), IsReferenced(k)'
             PROVE  FALSE
  BY DEF HeldIsUnreferenced, Unrecorded, IsReferenced, Held
<1>0. Effect /\ KeysAreKnown
  BY StepEffect DEF Known, KeysAreKept
<1>1. uploads \in Nat
  BY <1>0, UploadsRise DEF Known
<1>2. CASE IsReferenced(k)
  <2>1. ~Kept(c, k)
    BY <1>2 DEF Kept, KeysAreKept, HeldIsUnreferenced
  <2>2. k.random # uploads + 1
    BY <1>0, <1>1, <1>2, ReferencedIsKnown
  <2> QED
    BY <1>0, <2>1, <2>2, HeldMoves DEF TakenOver, IsNew
<1>3. ASSUME NEW e \in Calls, Records(e), k = calls[e].key PROVE FALSE
  <2>1. \E call : /\ GoesOn(e, call)
                  /\ \/ call = Idle
                     \/ call.op = "delete" /\ k \notin call.keys
    BY <1>3 DEF Records
  <2>2. CASE c = e
    BY <2>1, <2>2, GoesOnCalls DEF Known, Unrecorded, Held, Idle
  <2>3. CASE c # e
    <3>1. calls'[c] = calls[c]
      BY <2>1, <2>3, GoesOnCalls DEF Known
    <3>2. Uploads(calls[e])
      BY <1>3 DEF Records, At, Uploads
    <3> QED
      BY <1>3, <2>3, <3>1, <3>2 DEF KeysAreKept, UploadsAreAlone
  <2> QED
    BY <2>2, <2>3
<1> QED
  BY <1>2, <1>3, ReferencesMove

(* An upload that is to be recorded was before, or has just been stored.   *)
LEMMA RecordersMove ==
    ASSUME TypeOK, Effect, NEW d \in Calls \cup Reapers, calls'[d].op = "record"
    PROVE  \/ calls'[d] = calls[d]
           \/ d \in Calls /\ \E x \in Contents : UploadPut(d, x)
<1> DEFINE Same == calls'[d] = calls[d]
<1>1. ASSUME NEW c, NEW call, GoesOn(c, call), call.op # "record" PROVE Same
  BY <1>1, GoesOnCalls
<1>2. ASSUME NEW c \in Calls, NEW call, Becomes(c, call), call.op # "record" PROVE Same
  BY <1>2, BecomesCalls
<1>3. ASSUME UNCHANGED calls PROVE Same
  BY <1>3
<1>4. ASSUME IsQuiet PROVE Same
  BY <1>1, <1>3, <1>4 DEF IsQuiet, KeyOps
<1>5. ASSUME NEW j, NEW files, LetsGo(j, files) PROVE Same
  <2>1. \/ UNCHANGED calls
        \/ \E c, call : GoesOn(c, call) /\ call.op # "record"
    BY <1>5 DEF LetsGo, KeyOps
  <2> QED
    BY <1>1, <1>3, <2>1
<1>6. ASSUME NEW c, HasDeleted(c) \/ TurnsAway(c) PROVE Same
  <2>1. \E call : GoesOn(c, call) /\ call.op # "record"
    BY <1>6 DEF HasDeleted, TurnsAway, Idle
  <2> QED
    BY <1>1, <2>1
<1>7. ASSUME NEW c, Records(c) PROVE Same
  <2>1. \E call : GoesOn(c, call) /\ call.op # "record"
    BY <1>7 DEF Records, Idle
  <2> QED
    BY <1>1, <2>1
<1>8. ASSUME NEW c \in Calls, BeginsToVerify(c) \/ CompleteVerify(c) \/ Releases(c) PROVE Same
  <2>1. CASE BeginsToVerify(c)
    BY <1>2, <2>1 DEF BeginsToVerify, CompleteLook
  <2>2. CASE CompleteVerify(c)
    BY <1>2, <2>2 DEF CompleteVerify
  <2>3. CASE Releases(c)
    BY <1>2, <2>3 DEF Releases, CompleteCommit, Returns, Idle
  <2> QED
    BY <1>8, <2>1, <2>2, <2>3
<1>9. ASSUME NEW c \in Calls, NEW r \in releases, Purge(c, r) PROVE Same
  <2>1. \E call : Becomes(c, call) /\ call.op # "record"
    BY <1>9 DEF Purge, ThenDeletes, Idle
  <2> QED
    BY <1>2, <2>1
<1>10. ASSUME NEW n, ManualRelease(n) PROVE Same
  BY <1>3, <1>10 DEF ManualRelease
<1>11. ASSUME NEW c \in Calls, NEW k \in claims, NEW f \in Files, UploadScope(c, k, f) PROVE Same
  BY <1>2, <1>11 DEF UploadScope
<1>12. ASSUME NEW c \in Calls, NEW x \in Contents, UploadPut(c, x), c # d PROVE Same
  BY <1>12, BecomesCalls DEF UploadPut
<1> HIDE DEF Same
<1> QED
  BY <1>4, <1>5, <1>6, <1>7, <1>8, <1>9, <1>10, <1>11, <1>12 DEF Effect, Same

LEMMA ObjectKey ==
    ASSUME NEW k, NEW x
    PROVE  Object(k, x).key = k
  BY DEF Object

LEMMA StoredStep ==
    ASSUME Known, KeysAreKept, [Next]_vars
    PROVE  UploadsAreStored'
<1> SUFFICES ASSUME NEW c \in Calls \cup Reapers, calls'[c].op = "record"
             PROVE  Object(calls'[c].key, calls'[c].content) \in objects'
  BY DEF UploadsAreStored, Object
<1>0. Effect
  BY StepEffect DEF Known
<1>1. CASE calls'[c] = calls[c]
  <2> DEFINE o == Object(calls[c].key, calls[c].content)
  <2>1. o \in objects
    BY <1>1 DEF KeysAreKept, UploadsAreStored
  <2>2. calls[c].op = "record" /\ calls[c].key = o.key
    BY <1>1, ObjectKey
  <2> HIDE DEF o
  <2>3. o \in objects'
    BY <1>0, <2>1, <2>2, ObjectsStay
  <2> QED
    BY <1>1, <2>3 DEF o
<1>2. ASSUME c \in Calls, NEW x \in Contents, UploadPut(c, x)
      PROVE  Object(calls'[c].key, calls'[c].content) \in objects'
  BY <1>2, BecomesCalls DEF UploadPut, Known
<1> QED
  BY <1>0, <1>1, <1>2, RecordersMove DEF Known

LEMMA VerifiedStep ==
    ASSUME Known, KeysAreKept, [Next]_vars
    PROVE  VerifiedIsKept'
<1> SUFFICES ASSUME NEW c \in Calls \cup Reapers, calls'[c].op = "finish",
                    NEW k \in calls'[c].key, IsReferenced(k)'
             PROVE  Object(k, calls'[c].content) \in objects'
  BY DEF VerifiedIsKept, Object, IsReferenced
<1>0. Effect
  BY StepEffect DEF Known
<1>1. CASE calls'[c] = calls[c]
  <2> DEFINE o == Object(k, calls[c].content)
  <2>1. IsReferenced(k)
    <3>1. ASSUME NEW e \in Calls, Records(e), k = calls[e].key PROVE FALSE
      <4>1. Uploads(calls[e]) /\ calls[e].op = "record"
        BY <3>1 DEF Records, At, Uploads
      <4>2. c # e /\ k \in Held(calls[c])
        BY <1>1, <4>1 DEF Held
      <4> QED
        BY <3>1, <4>1, <4>2 DEF KeysAreKept, UploadsAreAlone
    <3> QED
      BY <3>1, ReferencesMove
  <2>2. o \in objects
    BY <1>1, <2>1 DEF KeysAreKept, VerifiedIsKept
  <2>3. o.key = k
    BY ObjectKey
  <2> HIDE DEF o
  <2>4. o \in objects'
    BY <1>0, <2>1, <2>2, <2>3, ObjectsStay
  <2> QED
    BY <1>1, <2>4 DEF o
<1>2. CASE c \in Calls /\ BeginsToVerify(c)
  BY <1>2, BecomesCalls DEF BeginsToVerify, CompleteLook, Known
<1>3. CASE c \in Calls /\ CompleteVerify(c)
  <2>1. /\ calls'[c].key = calls[c].key /\ calls'[c].content = calls[c].content
        /\ \A q \in calls[c].key : Object(q, calls[c].content) \in objects
        /\ objects' = objects
    BY <1>3, BecomesCalls DEF CompleteVerify, Known
  <2> QED
    BY <2>1
<1> QED
  BY <1>0, <1>1, <1>2, <1>3, VerifiersMove DEF Known

LEMMA BackedStep ==
    ASSUME Known, KeysAreKept, [Next]_vars
    PROVE  ReferencesAreBacked'
<1>0. Effect /\ ReferencesAreBacked
  BY StepEffect DEF Known, KeysAreKept
<1>1. ASSUME NEW k, NEW x, IsReferenced(k), Object(k, x) \in objects
      PROVE  Object(k, x) \in objects'
  <2> DEFINE o == Object(k, x)
  <2>1. o \in objects /\ IsReferenced(o.key)
    BY <1>1, ObjectKey
  <2> HIDE DEF o
  <2>2. o \in objects'
    BY <1>0, <2>1, ObjectsStay
  <2> QED
    BY <2>2 DEF o
<1>2. ASSUME NEW j \in Jobs, NEW f \in Files, NEW k \in rows'[j].key[f]
      PROVE  /\ \E o \in objects' : o.key = k
             /\ f # "signed" => \E x \in rows'[j].sha[f] : Object(k, x) \in objects'
  <2>1. CASE k \in rows[j].key[f] /\ (f \in BuildFiles => rows'[j].sha[f] = rows[j].sha[f])
    <3>1. IsReferenced(k)
      BY <2>1 DEF IsReferenced
    <3>2. PICK o \in objects : o.key = k
      BY <1>0, <2>1 DEF ReferencesAreBacked, Holds
    <3>3. o \in objects'
      BY <1>0, <3>1, <3>2, ObjectsStay
    <3>4. f # "signed" => \E x \in rows[j].sha[f] : Object(k, x) \in objects'
      BY <1>0, <1>1, <2>1, <3>1 DEF ReferencesAreBacked
    <3> QED
      BY <2>1, <3>2, <3>3, <3>4 DEF Files
  <2>2. ASSUME NEW c \in Calls, Records(c), k = calls[c].key,
               f # "signed" => rows'[j].sha[f] = {calls[c].content}
        PROVE  /\ \E o \in objects' : o.key = k
               /\ f # "signed" => \E x \in rows'[j].sha[f] : Object(k, x) \in objects'
    <3>1. Object(k, calls[c].content) \in objects'
      BY <2>2 DEF Records, At, KeysAreKept, UploadsAreStored
    <3> QED
      BY <2>2, <3>1, ObjectKey
  <2> QED
    BY <1>0, <2>1, <2>2, RowKeysMove DEF Known
<1>3. ASSUME NEW r \in releases', NEW k \in r.key
      PROVE  \E x \in r.content : Object(k, x) \in objects'
  <2>1. CASE r \in releases
    <3>1. IsReferenced(k)
      BY <2>1 DEF IsReferenced
    <3> QED
      BY <1>0, <1>1, <2>1, <3>1 DEF ReferencesAreBacked
  <2>2. CASE \E n \in ManualBuilds : ManualRelease(n)
    BY <2>1, <2>2 DEF ManualRelease
  <2>3. CASE \E c \in Calls, p \in releases : Purge(c, p)
    BY <2>1, <2>3 DEF Purge
  <2>4. ASSUME NEW c \in Calls, Releases(c), r \notin releases
        PROVE  \E x \in r.content : Object(k, x) \in objects'
    <3>1. r.key = calls[c].key /\ r.content = {calls[c].content}
      BY <2>4, ReleasesStep DEF Known
    <3>2. /\ calls[c].op = "finish" /\ calls[c].job \in Jobs
          /\ rows[calls[c].job].key["signed"] = calls[c].key
          /\ objects' = objects
      BY <2>4, ReleasesStep DEF Known
    <3>3. IsReferenced(k)
      BY <3>1, <3>2 DEF IsReferenced, Files
    <3> QED
      BY <3>1, <3>2, <3>3 DEF KeysAreKept, VerifiedIsKept
  <2> QED
    BY <2>1, <2>2, <2>3, <2>4, ReleasesMove DEF Releases
<1> QED
  BY <1>2, <1>3 DEF ReferencesAreBacked, Holds, Object

LEMMA KeptStep == Known /\ KeysAreKept /\ [Next]_vars => KeysAreKept'
  BY KnownStep, AloneStep, UnreferencedStep, StoredStep, VerifiedStep, BackedStep DEF KeysAreKept

(* A key in a row or in a release names an object that is stored and holds *)
(* what its digest says, however uploads, their late records, re-uploads,  *)
(* cleanups and purges interleave and however many instances die.          *)
THEOREM ReferencesStayBacked == Spec => []ReferencesAreBacked
<1>1. Init => KeysAreKept
  BY LimitsAssumption DEF Init, KeysAreKept, KeysAreKnown, UploadsAreAlone, HeldIsUnreferenced, UploadsAreStored,
     VerifiedIsKept, ReferencesAreBacked, NewRow, Idle, Held, Uploads, Unrecorded
<1>2. KeysAreKept => ReferencesAreBacked
  BY DEF KeysAreKept
<1>3. Spec => []Known
  <2>1. TypeOK /\ OnlyPackagesAreBuilt
        /\ (DeliveriesAreOfTheCurrentClaim /\ UploadsAreLabelled)
        /\ (VerifiersHaveAPackage /\ ReleasesAreOfPackages /\ SucceededMeansReleased) => Known
    BY DEF Known
  <2> QED
    BY <2>1, TypeCorrect, OnlyPackagesInvariant, LabelsInvariant, SucceededInvariant, PTL
<1> QED
  BY <1>1, <1>2, <1>3, KeptStep, PTL DEF Spec

-----------------------------------------------------------------------------
(***************************************************************************)
(* What was attested is what is referenced.  Besides the keys and digests  *)
(* this needs the provenance, and at which status a row lets go of what.   *)
(***************************************************************************)

Attested == {"built", "signing", "succeeded"}

(* A job that is built, or being built, has a file for every digest.       *)
DigestsHaveFiles ==
    \A j \in Jobs : rows[j].status \in BuilderActive \cup {"built", "signing"} =>
        \A f \in BuildFiles : rows[j].sha[f] # {} => rows[j].key[f] # {}

(* A /built request began when all files had been delivered.               *)
ChecksAreWhole ==
    \A c \in Calls \cup Reapers :
        At(c, "built") => \A f \in BuildFiles : calls[c].sha[f] # {}

SameKeys(j) == \A f \in BuildFiles : rows'[j].key[f] = rows[j].key[f]

(* The digests and the provenance stay, and the row is no more than it was *)
(* in what it vouches for.                                                 *)
Vouches(j) ==
    /\ rows'[j].sha = rows[j].sha /\ rows'[j].provenance = rows[j].provenance
    /\ \/ rows'[j].status \notin BuilderActive \cup Attested
       \/ SameKeys(j) /\ {rows[j].status, rows'[j].status} \subseteq BuilderActive
       \/ SameKeys(j) /\ {rows[j].status, rows'[j].status} \subseteq {"built", "signing"}
       \/ rows'[j].status = "succeeded" /\ (rows[j].status \in Attested \/ ~IsPackage(j))

(* A claim forgets what was delivered under the one before.                *)
Forgets(j) ==
    /\ rows'[j].status \in {"claimed", "failed"}
    /\ \A f \in BuildFiles : rows'[j].sha[f] = {}

(* A file is delivered to the holder's row, with its digest.               *)
Delivers(j) ==
    /\ rows[j].status \in BuilderActive /\ rows'[j].status = rows[j].status
    /\ \A f \in BuildFiles : \/ rows'[j].key[f] # {}
                             \/ /\ rows'[j].key[f] = rows[j].key[f]
                                /\ rows'[j].sha[f] = rows[j].sha[f]

(* The provenance that was checked is recorded, if the digests are those   *)
(* it was checked against.                                                 *)
Attests(j) ==
    \E c \in Calls :
        /\ At(c, "built") /\ rows[j].sha = calls[c].sha
        /\ rows[j].status \in BuilderActive /\ rows'[j].status = "built"
        /\ rows'[j].sha = rows[j].sha /\ rows'[j].provenance = {rows[j].sha}
        /\ SameKeys(j)

FilesMove(j) == Vouches(j) \/ Forgets(j) \/ Delivers(j) \/ Attests(j)

(* A row that is left alone.                                               *)
LEMMA LeftAlone ==
    ASSUME NEW j \in Jobs, rows'[j] = rows[j]
    PROVE  FilesMove(j)
<1>1. CASE rows[j].status \in BuilderActive
  BY <1>1 DEF FilesMove, Vouches, SameKeys
<1>2. CASE rows[j].status \in Attested
  BY <1>2 DEF FilesMove, Vouches, SameKeys, Attested
<1> QED
  BY <1>1, <1>2 DEF FilesMove, Vouches

(* Entering a status, or rewriting a plain column, leaves the files alone. *)
LEMMA PlainFiles ==
    ASSUME NEW row \in Row
    PROVE  /\ \A s \in Status :
                 LET new == To(row, s) IN
                 /\ new.status = s /\ new.key = row.key
                 /\ new.sha = row.sha /\ new.provenance = row.provenance
           /\ \A q \in BOOLEAN :
                 LET new == [row EXCEPT !.quiet = q] IN
                 /\ new.status = row.status /\ new.key = row.key
                 /\ new.sha = row.sha /\ new.provenance = row.provenance
           /\ \A n \in Nat :
                 LET new == [row EXCEPT !.signFailures = n] IN
                 /\ new.status = row.status /\ new.key = row.key
                 /\ new.sha = row.sha /\ new.provenance = row.provenance
           /\ \A n \in Nat, s \in Nullable(Signers) :
                 LET new == [row EXCEPT !.signAttempt = n, !.signer = s] IN
                 /\ new.status = row.status /\ new.key = row.key
                 /\ new.sha = row.sha /\ new.provenance = row.provenance
           /\ \A x \in Nullable(Contents) :
                 LET new == [row EXCEPT !.artifact = x] IN
                 /\ new.status = row.status /\ new.key = row.key
                 /\ new.sha = row.sha /\ new.provenance = row.provenance
  BY DEF To, Row

(* What a row that lets go of some files still says.                       *)
LEMMA FilesLetGo ==
    ASSUME NEW row \in Row, NEW files
    PROVE  LET new == WithoutKeys(row, files) IN
           /\ new.status = row.status /\ new.sha = row.sha /\ new.provenance = row.provenance
           /\ files = {"signed"} => \A f \in BuildFiles : new.key[f] = row.key[f]
  BY FilesAssumption DEF WithoutKeys, Row, Files

(* Writing one row moves no other.                                         *)
LEMMA OthersLeftAlone ==
    ASSUME TypeOK, NEW j \in Jobs, NEW new, rows' = [rows EXCEPT ![j] = new],
           rows'[j] = new => FilesMove(j)
    PROVE  \A i \in Jobs : FilesMove(i)
<1>1. rows'[j] = new /\ \A i \in Jobs : i # j => rows'[i] = rows[i]
  BY DEF TypeOK
<1> QED
  BY <1>1, LeftAlone

(* A transaction by which a job ends, or is queued again: its files may go.*)
LEMMA TransitionEnds ==
    ASSUME TypeOK, NEW c, NEW j \in Jobs, NEW row \in Row, NEW files,
           Transition(c, j, row, files),
           row.sha = rows[j].sha, row.provenance = rows[j].provenance,
           row.status \in {"queued", "failed", "canceled"}
    PROVE  \A i \in Jobs : FilesMove(i)
<1>1. ASSUME rows'[j] = WithoutKeys(row, files) PROVE FilesMove(j)
  BY <1>1, FilesLetGo DEF FilesMove, Vouches, BuilderActive, Attested
<1> QED
  BY <1>1, OthersLeftAlone DEF Transition

(* A transaction by which a job is signed, or waits for it again.          *)
LEMMA TransitionSigns ==
    ASSUME TypeOK, NEW c, NEW j \in Jobs, NEW row \in Row,
           Transition(c, j, row, {"signed"}),
           row.sha = rows[j].sha, row.provenance = rows[j].provenance, row.key = rows[j].key,
           rows[j].status \in {"built", "signing"}, row.status \in {"built", "signing"}
    PROVE  \A i \in Jobs : FilesMove(i)
<1>1. ASSUME rows'[j] = WithoutKeys(row, {"signed"}) PROVE FilesMove(j)
  BY <1>1, FilesLetGo DEF FilesMove, Vouches, SameKeys
<1> QED
  BY <1>1, OthersLeftAlone DEF Transition

LEMMA TransitionToEnds ==
    ASSUME TypeOK, NEW c, NEW j \in Jobs, NEW files,
           NEW s \in {"queued", "failed", "canceled"}, Transition(c, j, To(rows[j], s), files)
    PROVE  \A i \in Jobs : FilesMove(i)
<1>1. s \in Status /\ rows[j] \in Row
  BY StatusNames DEF TypeOK
<1>2. To(rows[j], s) \in Row
  BY <1>1, RowRewritten
<1> QED
  BY <1>1, <1>2, PlainFiles, TransitionEnds

(* The holder's row, with its files as they were.                          *)
LEMMA SameFiles ==
    ASSUME TypeOK, NEW j \in Jobs, NEW new, rows' = [rows EXCEPT ![j] = new],
           new.sha = rows[j].sha, new.provenance = rows[j].provenance, new.key = rows[j].key,
           \/ new.status \notin BuilderActive \cup Attested
           \/ {rows[j].status, new.status} \subseteq BuilderActive
           \/ {rows[j].status, new.status} \subseteq {"built", "signing"}
           \/ new.status = "succeeded" /\ (rows[j].status \in Attested \/ ~IsPackage(j))
    PROVE  \A i \in Jobs : FilesMove(i)
<1>1. ASSUME rows'[j] = new PROVE FilesMove(j)
  BY <1>1 DEF FilesMove, Vouches, SameKeys
<1> QED
  BY <1>1, OthersLeftAlone

(* A claim, whether it is answered or fails the job at once.               *)
LEMMA ClaimForgets ==
    ASSUME TypeOK, NEW m \in Builders, NEW j \in Jobs,
           rows' \in {[rows EXCEPT ![j] = Claimed(rows[j], m)],
                      [rows EXCEPT ![j] = To(Claimed(rows[j], m), "failed")]}
    PROVE  \A i \in Jobs : FilesMove(i)
<1> DEFINE new == Claimed(rows[j], m)
<1>1. new \in Row /\ rows[j] \in Row
  BY RowRewritten DEF TypeOK
<1>2. new.status = "claimed" /\ new.sha = [f \in BuildFiles |-> {}]
  BY <1>1 DEF Claimed, WithoutKeys, To, Row
<1>3. To(new, "failed").status = "failed" /\ To(new, "failed").sha = new.sha
  BY <1>1, PlainFiles, StatusNames
<1> HIDE DEF new
<1>4. ASSUME rows'[j] \in {new, To(new, "failed")} PROVE FilesMove(j)
  BY <1>2, <1>3, <1>4 DEF FilesMove, Forgets
<1> QED
  BY <1>4, OthersLeftAlone DEF new

(* A recorded file, with its digest, in the row of the present claim.      *)
LEMMA RecordedDelivers ==
    ASSUME TypeOK, NEW c \in Calls, At(c, "record"), StillCurrent(calls[c]),
           rows' = [rows EXCEPT ![calls[c].job] = Recorded(rows[calls[c].job], calls[c])]
    PROVE  \A i \in Jobs : FilesMove(i)
<1> DEFINE u == calls[c]
<1> DEFINE j == u.job
<1> DEFINE new == Recorded(rows[j], u)
<1>1. j \in Jobs /\ u.file \in Files /\ u.key \in Key /\ u.content \in Contents
  BY Remembers
<1>2. rows[j] \in Row
  BY <1>1 DEF TypeOK
<1>3. CASE u.file = "signed"
  <2>1. rows[j].status = "signing"
    BY <1>3 DEF StillCurrent, CurrentSigning
  <2>2. /\ new.status = rows[j].status
        /\ new.sha = rows[j].sha /\ new.provenance = rows[j].provenance
        /\ \A f \in BuildFiles : new.key[f] = rows[j].key[f]
    <3> HIDE DEF u
    <3> QED
      BY <1>2, <1>3, FilesAssumption DEF Recorded, Row, Files
  <2> HIDE DEF new
  <2>3. ASSUME rows'[j] = new PROVE FilesMove(j)
    BY <2>1, <2>2, <2>3 DEF FilesMove, Vouches, SameKeys
  <2> QED
    BY <1>1, <2>3, OthersLeftAlone DEF new
<1>4. CASE u.file # "signed"
  <2>1. rows[j].status \in BuilderActive
    BY <1>4 DEF StillCurrent, CurrentBuild, BuilderHolds
  <2>2. /\ new.status = rows[j].status
        /\ new.key = [rows[j].key EXCEPT ![u.file] = {u.key}]
        /\ new.sha = [rows[j].sha EXCEPT ![u.file] = {u.content}]
    <3> HIDE DEF u
    <3> QED
      BY <1>2, <1>4 DEF Recorded, Row
  <2>3. \A f \in BuildFiles : \/ new.key[f] # {}
                              \/ new.key[f] = rows[j].key[f] /\ new.sha[f] = rows[j].sha[f]
    <3>1. /\ rows[j].key \in [Files -> Nullable(Key)]
          /\ rows[j].sha \in [BuildFiles -> Nullable(Contents)]
      BY <1>2, RowColumns
    <3> HIDE DEF new, u
    <3> QED
      BY <2>2, <3>1 DEF Files
  <2> HIDE DEF new
  <2>4. ASSUME rows'[j] = new PROVE FilesMove(j)
    BY <2>1, <2>2, <2>3, <2>4 DEF FilesMove, Delivers
  <2> QED
    BY <1>1, <2>4, OthersLeftAlone DEF new
<1> QED
  BY <1>3, <1>4

(* The end of a /built request.                                            *)
LEMMA BuiltAttests ==
    ASSUME TypeOK, NEW c \in Calls, BuiltCommit(c)
    PROVE  \A i \in Jobs : FilesMove(i)
<1> DEFINE b == calls[c]
<1> DEFINE j == b.job
<1> DEFINE row == To(rows[j], "built")
<1> DEFINE new == [row EXCEPT !.provenance = {b.sha}]
<1>1. At(c, "built") /\ j \in Jobs
  BY Remembers DEF BuiltCommit
<1>2. CASE ~StillAttested(b)
  BY <1>2, LeftAlone DEF BuiltCommit
<1>3. CASE StillAttested(b)
  <2>1. /\ rows' = [rows EXCEPT ![j] = new]
        /\ rows[j].status \in BuilderActive /\ rows[j].sha = b.sha
    BY <1>3 DEF BuiltCommit, StillAttested, CurrentBuild, BuilderHolds
  <2>2. rows[j] \in Row /\ row \in Row
    BY <1>1, RowRewritten, StatusNames DEF TypeOK
  <2>3. row.status = "built" /\ row.key = rows[j].key /\ row.sha = rows[j].sha
    BY <2>2, PlainFiles, StatusNames
  <2> HIDE DEF row, b
  <2>4. /\ new.status = row.status /\ new.key = row.key /\ new.sha = row.sha
        /\ new.provenance = {b.sha}
    BY <2>2 DEF Row
  <2> HIDE DEF new
  <2>5. ASSUME rows'[j] = new PROVE FilesMove(j)
    BY <1>1, <2>1, <2>3, <2>4, <2>5 DEF FilesMove, Attests, SameKeys, b
  <2> QED
    BY <1>1, <2>1, <2>5, OthersLeftAlone
<1> QED
  BY <1>2, <1>3

(* What both the reaper and a transient rejection do to a signing job.     *)
LEMMA SigningFailedFiles ==
    ASSUME TypeOK, NEW c, NEW j \in Jobs, NEW n \in Nat, SigningFailed(c, j, n),
           rows[j].status = "signing"
    PROVE  \A i \in Jobs : FilesMove(i)
<1> USE StatusNames
<1> DEFINE To1(s) == [To(rows[j], s) EXCEPT !.signFailures = n + 1]
<1>1. ASSUME NEW s \in {"failed", "built"}
      PROVE  /\ To1(s) \in Row /\ To1(s).status = s
             /\ To1(s).sha = rows[j].sha /\ To1(s).provenance = rows[j].provenance
             /\ To1(s).key = rows[j].key
  <2>1. rows[j] \in Row /\ To(rows[j], s) \in Row /\ n + 1 \in Nat
    BY RowRewritten DEF TypeOK
  <2>2. To1(s) \in Row
    BY <2>1, ColumnRewritten
  <2> QED
    BY <2>1, <2>2, PlainFiles
<1>2. \/ Transition(c, j, To1("failed"), Files)
      \/ Transition(c, j, To1("built"), {"signed"})
  BY DEF SigningFailed
<1> HIDE DEF To1
<1> QED
  BY <1>1, <1>2, TransitionEnds, TransitionSigns

(* A released job is a package that has succeeded, so that a purge takes   *)
(* no files from a job that still needs them.                              *)
LEMMA PurgeFiles ==
    ASSUME TypeOK, SucceededMeansReleased, ReleasesAreOfPackages,
           NEW c, NEW r \in releases, Purge(c, r), NEW j \in Jobs
    PROVE  FilesMove(j)
<1>1. CASE r.job # {j}
  BY <1>1, LeftAlone DEF Purge
<1>2. CASE r.job = {j}
  <2>1. IsPackage(j)
    BY <1>2 DEF ReleasesAreOfPackages
  <2>2. rows[j].status = "succeeded"
    BY <1>2, <2>1 DEF SucceededMeansReleased
  <2>3. rows'[j] = WithoutKeys(rows[j], Files) /\ rows[j] \in Row
    BY <1>2 DEF Purge, TypeOK
  <2> QED
    BY <2>2, <2>3, FilesLetGo DEF FilesMove, Vouches, Attested
<1> QED
  BY <1>1, <1>2

LEMMA AdministratorFiles ==
    ASSUME TypeOK, SucceededMeansReleased, ReleasesAreOfPackages, Administrator
    PROVE  \A j \in Jobs : FilesMove(j)
<1>1. ASSUME NEW j \in Jobs, NEW c \in Calls, Cancel(c, j) \/ ForceFail(c, j)
      PROVE  \A i \in Jobs : FilesMove(i)
  BY <1>1, TransitionToEnds DEF Cancel, ForceFail
<1>2. ASSUME NEW c \in Calls, CreateInsert(c) PROVE \A i \in Jobs : FilesMove(i)
  <2> DEFINE j == calls[c].job
  <2>1. j \in Jobs
    BY <1>2, Remembers DEF CreateInsert
  <2>2. CASE rows' = rows
    BY <2>2, LeftAlone
  <2>3. CASE rows' = [rows EXCEPT ![j].status = "queued"]
    <3> DEFINE new == [rows[j] EXCEPT !.status = "queued"]
    <3>1. rows' = [rows EXCEPT ![j] = new]
      BY <2>3
    <3>2. rows[j] \in Row
      BY <2>1 DEF TypeOK
    <3> HIDE DEF j
    <3>3. /\ new.status = "queued" /\ new.sha = rows[j].sha
          /\ new.provenance = rows[j].provenance /\ new.key = rows[j].key
      BY <3>2 DEF Row
    <3>4. new.status \notin BuilderActive \cup Attested
      BY <3>3 DEF BuilderActive, Attested
    <3> HIDE DEF new
    <3> QED
      BY <2>1, <3>1, <3>3, <3>4, SameFiles
  <2> QED
    BY <1>2, <2>2, <2>3 DEF CreateInsert
<1>3. ASSUME UNCHANGED rows PROVE \A i \in Jobs : FilesMove(i)
  BY <1>3, LeftAlone
<1> QED
  BY <1>1, <1>2, <1>3, PurgeFiles DEF Administrator, CreateCheck, ManualRelease, SetPrimary,
     Revoke, ChangeIdentity

LEMMA BuildingFiles ==
    ASSUME TypeOK, Building
    PROVE  \A j \in Jobs : FilesMove(j)
<1> USE StatusNames
<1> DEFINE Goal == \A i \in Jobs : FilesMove(i)
<1>1. ASSUME NEW m \in Builders, NEW j \in Jobs,
             ClaimRefused(m, j) \/ \E c \in Calls : Claim(c, m, j)
      PROVE  Goal
  BY <1>1, ClaimForgets DEF ClaimRefused, Claim
<1>2. ASSUME NEW k \in claims, Heartbeat(k) PROVE Goal
  <2>1. /\ rows[k.job].status \in BuilderActive
        /\ rows' = [rows EXCEPT ![k.job] = To(rows[k.job], "running")]
    BY <1>2 DEF Heartbeat, CurrentBuild, BuilderHolds
  <2>2. k.job \in Jobs /\ rows[k.job] \in Row
    BY ClaimType DEF TypeOK
  <2>3. {rows[k.job].status, To(rows[k.job], "running").status} \subseteq BuilderActive
    BY <2>1, <2>2, ToKeeps DEF BuilderActive
  <2> DEFINE new == To(rows[k.job], "running")
  <2>4. /\ new.sha = rows[k.job].sha /\ new.provenance = rows[k.job].provenance
        /\ new.key = rows[k.job].key
    BY <2>2, ToKeeps
  <2> HIDE DEF new
  <2> QED
    BY <2>1, <2>2, <2>3, <2>4, SameFiles DEF new
<1>3. ASSUME NEW k \in claims, CompleteOTA(k) PROVE Goal
  <2>1. ~IsPackage(k.job) /\ rows' = [rows EXCEPT ![k.job] = To(rows[k.job], "succeeded")]
    BY <1>3 DEF CompleteOTA
  <2>2. k.job \in Jobs /\ rows[k.job] \in Row
    BY ClaimType DEF TypeOK
  <2> DEFINE new == To(rows[k.job], "succeeded")
  <2>3. /\ new.sha = rows[k.job].sha /\ new.provenance = rows[k.job].provenance
        /\ new.key = rows[k.job].key /\ new.status = "succeeded"
    BY <2>2, ToKeeps
  <2> HIDE DEF new
  <2> QED
    BY <2>1, <2>2, <2>3, SameFiles DEF new
<1>4. ASSUME NEW k \in claims, NEW c \in Calls, Fail(c, k) \/ FailOrphaned(c, k) PROVE Goal
  BY <1>4, ClaimType, TransitionToEnds DEF Fail, FailOrphaned
<1>5. ASSUME NEW c \in Calls, DispatchFail(c) PROVE Goal
  <2> DEFINE d == calls[c]
  <2>1. d.job \in Jobs /\ rows[d.job] \in Row
    BY <1>5, Remembers DEF DispatchFail, TypeOK
  <2>2. \/ rows' = rows
        \/ rows' = [rows EXCEPT ![d.job] = To(rows[d.job], "failed")]
    BY <1>5 DEF DispatchFail
  <2>3. To(rows[d.job], "failed").status \notin BuilderActive \cup Attested
    BY <2>1, PlainFiles DEF BuilderActive, Attested
  <2> QED
    BY <2>1, <2>2, <2>3, PlainFiles, SameFiles, LeftAlone
<1>6. ASSUME UNCHANGED rows PROVE Goal
  BY <1>6, LeftAlone
<1> HIDE DEF Goal
<1> QED
  BY <1>1, <1>2, <1>3, <1>4, <1>5, <1>6, BuiltAttests DEF Building, BuiltCheck, Dispatch, Goal

LEMMA UploadingFiles ==
    ASSUME TypeOK, Uploading
    PROVE  \A j \in Jobs : FilesMove(j)
<1>1. ASSUME NEW c \in Calls, UploadRecord(c) \/ UploadRecordUnsure(c)
      PROVE  \A i \in Jobs : FilesMove(i)
  BY <1>1, RecordedDelivers, LeftAlone DEF UploadRecord, UploadRecordUnsure
<1>2. ASSUME UNCHANGED rows PROVE \A i \in Jobs : FilesMove(i)
  BY <1>2, LeftAlone
<1> QED
  BY <1>1, <1>2 DEF Uploading, UploadScope, UploadPut, UploadRefuse

(* A heartbeat is refreshed, or grows old.                                 *)
LEMMA QuietFiles ==
    ASSUME TypeOK, NEW j \in Jobs, NEW q \in BOOLEAN, rows' = [rows EXCEPT ![j].quiet = q],
           rows[j].status \in BuilderActive \cup {"signing"}
    PROVE  \A i \in Jobs : FilesMove(i)
<1> DEFINE new == [rows[j] EXCEPT !.quiet = q]
<1>1. rows[j] \in Row /\ rows' = [rows EXCEPT ![j] = new]
  BY DEF TypeOK
<1>2. /\ new.status = rows[j].status /\ new.key = rows[j].key
      /\ new.sha = rows[j].sha /\ new.provenance = rows[j].provenance
  BY <1>1, PlainFiles
<1> HIDE DEF new
<1>3. \/ {rows[j].status, new.status} \subseteq BuilderActive
      \/ {rows[j].status, new.status} \subseteq {"built", "signing"}
  BY <1>2
<1> QED
  BY <1>1, <1>2, <1>3, SameFiles

LEMMA SigningFiles ==
    ASSUME TypeOK, Signing
    PROVE  \A j \in Jobs : FilesMove(j)
<1> USE StatusNames
<1> DEFINE Goal == \A i \in Jobs : FilesMove(i)
<1>1. ASSUME NEW k \in claims,
             \/ SignHeartbeat(k)
             \/ \E c \in Calls, x \in Contents : CompleteLook(c, k, x)
      PROVE  Goal
  <2>1. /\ rows[k.job].status = "signing"
        /\ rows' = [rows EXCEPT ![k.job].quiet = FALSE]
    BY <1>1 DEF SignHeartbeat, CompleteLook, CurrentSigning
  <2> QED
    BY <2>1, ClaimType, QuietFiles
<1>2. ASSUME NEW k \in claims, NEW c \in Calls, SignDefer(c, k) PROVE Goal
  <2>1. /\ rows[k.job].status = "signing"
        /\ Transition(c, k.job, To(rows[k.job], "built"), {"signed"})
    BY <1>2 DEF SignDefer, CurrentSigning
  <2>2. k.job \in Jobs /\ rows[k.job] \in Row /\ To(rows[k.job], "built") \in Row
    BY ClaimType, RowRewritten DEF TypeOK
  <2> QED
    BY <2>1, <2>2, PlainFiles, TransitionSigns
<1>3. ASSUME NEW c \in Calls, SignClaim(c) PROVE Goal
  <2> DEFINE p == calls[c]
  <2> DEFINE j == p.job
  <2> DEFINE row == To(rows[j], "signing")
  <2> DEFINE new == [row EXCEPT !.signAttempt = p.number + 1, !.signer = {p.by}]
  <2>1. j \in Jobs /\ p.number + 1 \in Nat /\ {p.by} \in Nullable(Signers) /\ rows[j] \in Row
    BY <1>3, Remembers, NullableIntro DEF SignClaim, TypeOK
  <2>2. row \in Row /\ row.status = "signing" /\ row.key = rows[j].key
        /\ row.sha = rows[j].sha /\ row.provenance = rows[j].provenance
    BY <2>1, ToKeeps
  <2>3. CASE rows' = rows
    BY <2>3, LeftAlone
  <2>4. CASE Transition(c, j, To(rows[j], "failed"), Files)
    BY <2>1, <2>4, TransitionToEnds
  <2>5. CASE rows[j].status = "built" /\ Transition(c, j, new, {"signed"})
    <3> HIDE DEF p, row
    <3>1. new.status = row.status /\ new.key = row.key
          /\ new.sha = row.sha /\ new.provenance = row.provenance
      BY <2>1, <2>2, PlainFiles
    <3>2. [row EXCEPT !.signAttempt = p.number + 1] \in Row
      BY <2>1, <2>2 DEF Row
    <3>3. new \in Row
      BY <2>1, <3>2 DEF Row
    <3> HIDE DEF new
    <3> QED
      BY <2>1, <2>2, <2>5, <3>1, <3>3, TransitionSigns
  <2> QED
    BY <1>3, <2>3, <2>4, <2>5 DEF SignClaim
<1>4. ASSUME NEW c \in Calls, CompleteCommit(c) PROVE Goal
  <2> DEFINE v == calls[c]
  <2> DEFINE row == To(rows[v.job], "succeeded")
  <2> DEFINE new == [row EXCEPT !.artifact = {v.content}]
  <2>1. v.job \in Jobs /\ {v.content} \in Nullable(Contents) /\ rows[v.job] \in Row
    BY <1>4, Remembers, NullableIntro DEF CompleteCommit, TypeOK
  <2>2. row \in Row /\ row.status = "succeeded" /\ row.key = rows[v.job].key
        /\ row.sha = rows[v.job].sha /\ row.provenance = rows[v.job].provenance
    BY <2>1, ToKeeps
  <2>3. CASE rows' = rows
    BY <2>3, LeftAlone
  <2>4. CASE rows[v.job].status = "signing" /\ rows' = [rows EXCEPT ![v.job] = new]
    <3> HIDE DEF v, row
    <3>1. new.status = row.status /\ new.key = row.key
          /\ new.sha = row.sha /\ new.provenance = row.provenance
      BY <2>1, <2>2, PlainFiles
    <3>2. rows[v.job].status \in Attested
      BY <2>4 DEF Attested
    <3> HIDE DEF new
    <3> QED
      BY <2>1, <2>2, <2>4, <3>1, <3>2, SameFiles
  <2> QED
    BY <1>4, <2>3, <2>4 DEF CompleteCommit, StillCompletable, CurrentSigning
<1>5. ASSUME NEW c \in Calls, RejectCommit(c) PROVE Goal
  <2> DEFINE p == calls[c]
  <2>1. p.job \in Jobs /\ p.failures \in Nat
    BY <1>5, Remembers DEF RejectCommit
  <2>2. CASE rows' = rows
    BY <2>2, LeftAlone
  <2>3. CASE Transition(c, p.job, To(rows[p.job], "failed"), Files)
    BY <2>1, <2>3, TransitionToEnds
  <2>4. CASE rows[p.job].status = "signing" /\ SigningFailed(c, p.job, p.failures)
    BY <2>1, <2>4, SigningFailedFiles
  <2> QED
    BY <1>5, <2>2, <2>3, <2>4 DEF RejectCommit, CurrentSigning
<1>6. ASSUME UNCHANGED rows PROVE Goal
  BY <1>6, LeftAlone
<1> HIDE DEF Goal
<1> QED
  BY <1>1, <1>2, <1>3, <1>4, <1>5, <1>6 DEF Signing, SignLook, RejectLook, CompleteVerify, Goal

LEMMA ReapingFiles ==
    ASSUME TypeOK, Reaping
    PROVE  \A j \in Jobs : FilesMove(j)
<1> DEFINE Goal == \A i \in Jobs : FilesMove(i)
<1>1. ASSUME NEW j \in Jobs, FallQuiet(j) PROVE Goal
  BY <1>1, QuietFiles DEF FallQuiet
<1>2. ASSUME NEW r \in Reapers, ReapBuild(r) PROVE Goal
  <2> DEFINE j == calls[r].job
  <2>1. j \in Jobs
    BY <1>2, Remembers DEF ReapBuild
  <2>2. \/ rows' = rows
        \/ \E s \in {"queued", "failed", "canceled"} : Transition(r, j, To(rows[j], s), BuildFiles)
    BY <1>2 DEF ReapBuild
  <2> QED
    BY <2>1, <2>2, LeftAlone, TransitionToEnds
<1>3. ASSUME NEW r \in Reapers, ReapSign(r) PROVE Goal
  <2> DEFINE p == calls[r]
  <2>1. p.job \in Jobs /\ p.failures \in Nat
    BY <1>3, Remembers DEF ReapSign
  <2>2. \/ rows' = rows
        \/ rows[p.job].status = "signing" /\ SigningFailed(r, p.job, p.failures)
    BY <1>3 DEF ReapSign
  <2> QED
    BY <2>1, <2>2, LeftAlone, SigningFailedFiles
<1>4. ASSUME UNCHANGED rows PROVE Goal
  BY <1>4, LeftAlone
<1> HIDE DEF Goal
<1> QED
  BY <1>1, <1>2, <1>3, <1>4 DEF Reaping, ReapLook, Goal

LEMMA StepFiles ==
    ASSUME TypeOK, SucceededMeansReleased, ReleasesAreOfPackages, [Next]_vars
    PROVE  \A j \in Jobs : FilesMove(j)
<1>1. ASSUME UNCHANGED rows PROVE \A j \in Jobs : FilesMove(j)
  BY <1>1, LeftAlone
<1> QED
  BY <1>1, AdministratorFiles, BuildingFiles, UploadingFiles, SigningFiles, ReapingFiles
     DEF Next, Server, DeleteObjects, Abandon, vars

(* A /built request looks at its row when it begins.                       *)
LEMMA ChecksStep ==
    ASSUME TypeOK, ChecksAreWhole, [Next]_vars
    PROVE  ChecksAreWhole'
<1> SUFFICES ASSUME NEW c \in Calls \cup Reapers, At(c, "built")', NEW f \in BuildFiles
             PROVE  calls'[c].sha[f] # {}
  BY DEF ChecksAreWhole, At
<1>1. CASE calls'[c] = calls[c]
  BY <1>1 DEF ChecksAreWhole, At
<1>2. ASSUME NEW k \in claims, BuiltCheck(c, k) PROVE calls'[c].sha[f] # {}
  <2>1. calls'[c].sha = rows[k.job].sha /\ rows[k.job].sha[f] # {}
    BY <1>2 DEF BuiltCheck, Becomes, TypeOK
  <2> QED
    BY <2>1
<1> QED
  BY <1>1, <1>2, BuiltBegins

(* Every step keeps what is attested.                                      *)
LEMMA AttestedStep ==
    ASSUME TypeOK, OnlyPackagesAreBuilt, SucceededMeansReleased, ReleasesAreOfPackages,
           ChecksAreWhole, DigestsHaveFiles, AttestedIsDelivered, [Next]_vars
    PROVE  DigestsHaveFiles' /\ AttestedIsDelivered'
<1> DEFINE Filed(row) == \A f \in BuildFiles : row.sha[f] # {} => row.key[f] # {}
<1> DEFINE Whole(row) == /\ row.provenance = {row.sha}
                         /\ \A f \in BuildFiles : row.sha[f] # {}
<1> SUFFICES ASSUME NEW j \in Jobs
             PROVE  /\ rows'[j].status \in BuilderActive \cup {"built", "signing"}
                          => Filed(rows'[j])
                    /\ IsPackage(j) /\ rows'[j].status \in Attested => Whole(rows'[j])
                    /\ rows'[j].status \in {"built", "signing"} => IsPackage(j)
  <2>1. rows' \in [Jobs -> Row]
    BY TypeStep DEF TypeOK
  <2>2. \A j \in Jobs : DOMAIN rows'[j].sha = BuildFiles
    BY <2>1 DEF Row
  <2> QED
    BY <2>2 DEF DigestsHaveFiles, AttestedIsDelivered, Attested, IsPackage
<1>1. rows[j] \in Row /\ DOMAIN rows[j].sha = BuildFiles
  BY DEF TypeOK, Row
<1>2. rows[j].status \in BuilderActive \cup {"built", "signing"} => Filed(rows[j])
  BY DEF DigestsHaveFiles
<1>3. IsPackage(j) /\ rows[j].status \in Attested => Whole(rows[j])
  BY <1>1 DEF AttestedIsDelivered, Attested
<1>4. rows'[j].status \in {"built", "signing"} => IsPackage(j)
  BY OnlyPackagesStep DEF OnlyPackagesAreBuilt, IsPackage
<1>5. CASE Vouches(j)
  BY <1>2, <1>3, <1>4, <1>5 DEF Vouches, SameKeys, Attested, BuilderActive
<1>6. CASE Forgets(j)
  BY <1>4, <1>6 DEF Forgets, Attested
<1>7. CASE Delivers(j)
  BY <1>2, <1>4, <1>7 DEF Delivers, Attested, BuilderActive
<1>8. CASE Attests(j)
  <2>1. \A f \in BuildFiles : rows[j].sha[f] # {}
    BY <1>8 DEF Attests, ChecksAreWhole
  <2> QED
    BY <1>2, <1>4, <1>8, <2>1 DEF Attests, SameKeys
<1> HIDE DEF Filed, Whole
<1> QED
  BY <1>4, <1>5, <1>6, <1>7, <1>8, StepFiles DEF FilesMove

(* From /built on, what the builder attested is what the row references,   *)
(* however late a second upload of a file, or of the other file, commits.  *)
THEOREM AttestedStaysDelivered == Spec => []AttestedIsDelivered
<1>1. Init => ChecksAreWhole /\ DigestsHaveFiles /\ AttestedIsDelivered
  BY DEF Init, ChecksAreWhole, DigestsHaveFiles, AttestedIsDelivered, NewRow, At, Idle,
     BuilderActive
<1> QED
  BY <1>1, ChecksStep, AttestedStep, OnlyPackagesInvariant, SucceededInvariant, PTL DEF Spec
=============================================================================
