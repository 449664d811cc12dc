--------------------------- MODULE ArtifactUploads ---------------------------
(***************************************************************************)
(* One package that an administrator uploads by hand, from the first part  *)
(* to the phones that download it (internal/api/upload_sessions.go,        *)
(* internal/api/simplified_releases.go and the storage behind              *)
(* internal/objectstore/s3.go).  It comes as the parts of an upload        *)
(* session, or in one piece with a token; requests overlap, and each reads *)
(* its session once and writes later.                                      *)
(*                                                                         *)
(* The content of a package is what its parts are made of: one content is  *)
(* one file, a package of two contents is of no file, and the ETag that    *)
(* the storage gives is the content itself.                                *)
(***************************************************************************)
EXTENDS Naturals, FiniteSets

CONSTANTS
    Way,        \* "session" or "whole": in parts, or in one piece
    Parts,      \* the parts of the package, 1..n
    Files,      \* what the parts may be made of
    Short,      \* the files that have not the size that was declared
    None,
    Requests,   \* requests that may be under way
    Faults,     \* what may fail: "list", "answer", "head", "update", "abort"
    MaxWrites,  \* bound on the uploads of parts and packages
    MaxDeletes  \* bound on the packages that an administrator takes back

VARIABLES
    session,    \* status of the row in upload_sessions, or that a package was declared
    ledger,     \* the parts that the row lists
    late,       \* the session has expired
    upload,     \* the multipart upload in the storage: its parts, or None
    object,     \* the package in the storage, or None
    presigned,  \* parts that the administrator may send straight to the storage
    known,      \* parts as the administrator knows them
    token,      \* whether the administrator holds a token for the package
    release,    \* the row in app_releases: hash and ETag, or None
    requests,   \* what every request does
    download,   \* what the phone has so far, and whether it has all
    writes, deletes,
    acknowledged, \* parts that were acknowledged (auxiliary)
    touched     \* a package was written or deleted between two reads (auxiliary)

vars == <<session, ledger, late, upload, object, presigned, known, token, release, requests,
          download, writes, deletes, acknowledged, touched>>

UploadsAssumption ==
    /\ Parts # {} /\ IsFiniteSet(Parts) /\ Parts \subseteq Nat
    /\ Way \in {"session", "whole"} /\ None \notin Files /\ Short \subseteq Files
    /\ Faults \subseteq {"list", "answer", "head", "update", "abort"}
    /\ MaxWrites \in Nat /\ MaxDeletes \in Nat

-----------------------------------------------------------------------------
NoParts == [p \in Parts |-> None]
Whole(f) == [p \in Parts |-> f]
IsComplete(parts) == \A p \in Parts : parts[p] # None

(* The size that was declared (upload_sessions.go: expected).              *)
HasSize(content) == \A p \in Parts : content[p] \notin Short

(* verifyAndroidArtifact: only a file that somebody built and signed       *)
(* passes.                                                                 *)
IsPackage(content) == \E f \in Files \ Short : content = Whole(f)

Idle == [kind |-> "none", step |-> "none", part |-> 0, file |-> None, etag |-> NoParts,
         seen |-> NoParts]
Begun(kind, step) == [Idle EXCEPT !.kind = kind, !.step = step]
At(r, kind, step) == requests[r].kind = kind /\ requests[r].step = step
Step(r, step) == requests' = [requests EXCEPT ![r].step = step]
End(r) == requests' = [requests EXCEPT ![r] = Idle]

IsReading(q) ==
    \/ q.kind = "release" /\ q.step = "statted"
    \/ q.kind = "download" /\ q.step = "statted"

(* A write to the package while a request is between two reads of it.      *)
Touch == touched' = (touched \/ \E r \in Requests : IsReading(requests[r]))

Init ==
    /\ session = "none" /\ ledger = NoParts /\ late = FALSE
    /\ upload = None /\ object = None /\ presigned = {} /\ known = NoParts
    /\ token = FALSE /\ release = None
    /\ requests = [r \in Requests |-> Idle]
    /\ download = [content |-> NoParts, whole |-> FALSE]
    /\ writes = 0 /\ deletes = 0 /\ acknowledged = {} /\ touched = FALSE

-----------------------------------------------------------------------------
(* Sessions.                                                               *)

(* createUploadSession: the upload is begun in the storage before the row  *)
(* is written, and given up when that fails.                               *)
CreateSession ==
    /\ Way = "session" /\ session = "none" /\ upload = None
    /\ \/ session' = "active" /\ upload' = NoParts
       \/ "update" \in Faults /\ UNCHANGED <<session, upload>>
    /\ UNCHANGED <<ledger, late, object, presigned, known, token, release, requests,
                   download, writes, deletes, touched, acknowledged>>

(* The time of the session passes (expires_at, and that of its token).     *)
Expire ==
    /\ session = "active" /\ ~late
    /\ late' = TRUE
    /\ UNCHANGED <<session, ledger, upload, object, presigned, known, token, release,
                   requests, download, writes, deletes, touched, acknowledged>>

(* loadUploadSession, as the requests for parts see it.                    *)
IsOpen == session = "active" /\ ~late

(* uploadSessionPart: what is in the ledger is not sent again.             *)
SendPart(r, p, f) ==
    /\ requests[r] = Idle /\ IsOpen /\ writes < MaxWrites
    /\ f \notin Short
    /\ IF ledger[p] # None
       THEN known' = [known EXCEPT ![p] = ledger[p]] /\ UNCHANGED <<requests, writes>>
       ELSE /\ requests' = [requests EXCEPT ![r] =
                   [Begun("part", "read") EXCEPT !.part = p, !.file = f, !.seen = ledger]]
            /\ writes' = writes + 1
            /\ UNCHANGED known
    /\ UNCHANGED <<session, ledger, late, upload, object, presigned, token, release,
                   download, deletes, touched, acknowledged>>

StorePart(r) ==
    /\ At(r, "part", "read")
    /\ IF upload = None THEN End(r) /\ UNCHANGED upload
       ELSE /\ upload' = [upload EXCEPT ![requests[r].part] = requests[r].file]
            /\ Step(r, "stored")
    /\ UNCHANGED <<session, ledger, late, object, presigned, known, token, release,
                   download, writes, deletes, touched, acknowledged>>

(* What a request adds to the ledger it reads under the lock of the row.   *)
Added(r) == [ledger EXCEPT ![requests[r].part] = requests[r].file]

(* recordUploadPart: only one content of a part is recorded, and only in   *)
(* an active session; the answer follows.                                  *)
RecordPart(r) ==
    /\ At(r, "part", "stored")
    /\ LET p == requests[r].part  f == requests[r].file IN
       IF session = "active" /\ ledger[p] \in {None, f}
       THEN /\ ledger' = Added(r) /\ known' = [known EXCEPT ![p] = f]
            /\ acknowledged' = acknowledged \cup {p}
       ELSE UNCHANGED <<ledger, known, acknowledged>>
    /\ End(r)
    /\ UNCHANGED <<session, late, upload, object, presigned, token, release, download,
                   writes, deletes, touched>>

(* presignUploadSessionPart, and the part that is sent to the storage with *)
(* its URL, of any size, as long as there is an upload.                    *)
PresignPart(p) ==
    /\ IsOpen /\ p \notin presigned
    /\ presigned' = presigned \cup {p}
    /\ UNCHANGED <<session, ledger, late, upload, object, known, token, release, requests,
                   download, writes, deletes, touched, acknowledged>>

StorePresigned(p, f) ==
    /\ p \in presigned /\ upload # None /\ writes < MaxWrites
    /\ upload' = [upload EXCEPT ![p] = f]
    /\ known' = [known EXCEPT ![p] = f]
    /\ writes' = writes + 1
    /\ UNCHANGED <<session, ledger, late, object, presigned, token, release, requests,
                   download, deletes, touched, acknowledged>>

(* getUploadSession: the parts that the storage lists, or the ledger's.    *)
Listed == IF upload # None THEN {upload} ELSE {}
Listings(parts) == Listed \cup (IF upload = None \/ "list" \in Faults THEN {parts} ELSE {})

AskSession ==
    /\ session # "none" /\ ~late
    /\ \E parts \in Listings(ledger) : known' = parts
    /\ UNCHANGED <<session, ledger, late, upload, object, presigned, token, release,
                   requests, download, writes, deletes, touched, acknowledged>>

-----------------------------------------------------------------------------
(* completeUploadSession.                                                  *)

(* A session that is completed answers again, if its package is there.     *)
AnswerAgain ==
    /\ session = "completed" /\ ~late /\ object # None /\ HasSize(object)
    /\ token' = TRUE
    /\ UNCHANGED <<session, ledger, late, upload, object, presigned, known, release,
                   requests, download, writes, deletes, touched, acknowledged>>

(* The administrator names every part, as it knows them.                   *)
BeginComplete(r) ==
    /\ requests[r] = Idle /\ IsOpen /\ IsComplete(known)
    /\ requests' = [requests EXCEPT ![r] =
           [Begun("complete", "loaded") EXCEPT !.etag = known, !.seen = ledger]]
    /\ UNCHANGED <<session, ledger, late, upload, object, presigned, known, token, release,
                   download, writes, deletes, touched, acknowledged>>

(* partMatches: the parts that are named are those of the storage; of the  *)
(* ledger that was read if the storage lists none.                         *)
MatchParts(r) ==
    /\ At(r, "complete", "loaded")
    /\ \E parts \in Listings(requests[r].seen) :
           IF parts = requests[r].etag THEN Step(r, "matched") ELSE End(r)
    /\ UNCHANGED <<session, ledger, late, upload, object, presigned, known, token, release,
                   download, writes, deletes, touched, acknowledged>>

(* CompleteMultipartUpload: the storage has the last word on the parts, and *)
(* its answer may be lost.                                                 *)
Assemble(r) ==
    /\ At(r, "complete", "matched")
    /\ IF upload = requests[r].etag
       THEN /\ object' = upload /\ upload' = None
            /\ \/ Step(r, "assembled")
               \/ "answer" \in Faults /\ Step(r, "doubted")
       ELSE Step(r, "doubted") /\ UNCHANGED <<object, upload>>
    /\ UNCHANGED <<session, ledger, late, presigned, known, token, release, download,
                   writes, deletes, touched, acknowledged>>

IsThere == object # None /\ HasSize(object)

(* An error counts only if there is no package of the declared size.       *)
Doubt(r) ==
    /\ At(r, "complete", "doubted")
    /\ IF IsThere THEN Step(r, "assembled") ELSE End(r)
    /\ UNCHANGED <<session, ledger, late, upload, object, presigned, known, token, release,
                   download, writes, deletes, touched, acknowledged>>

(* A package that is not as declared, or that the storage cannot tell of,  *)
(* is deleted, and the session is ended whatever its status.               *)
Check(r) ==
    /\ At(r, "complete", "assembled")
    /\ \/ IsThere /\ Step(r, "checked") /\ UNCHANGED <<object, touched>>
       \/ /\ ~IsThere \/ "head" \in Faults
          /\ object' = None /\ Touch /\ Step(r, "discarded")
    /\ UNCHANGED <<session, ledger, late, upload, presigned, known, token, release,
                   download, writes, deletes, acknowledged>>

Discard(r) ==
    /\ At(r, "complete", "discarded")
    /\ session' = "aborted" /\ End(r)
    /\ UNCHANGED <<ledger, late, upload, object, presigned, known, token, release,
                   download, writes, deletes, touched, acknowledged>>

(* The status is written if the session is still active; the administrator *)
(* gets a token if it is completed now, by whomever.                       *)
Conclude(r) ==
    /\ At(r, "complete", "checked")
    /\ \/ /\ session' = IF session = "active" THEN "completed" ELSE session
          /\ token' = (token \/ session' = "completed")
          /\ UNCHANGED <<object, touched>>
       \/ /\ "update" \in Faults
          /\ object' = None /\ Touch /\ UNCHANGED <<session, token>>
    /\ End(r)
    /\ UNCHANGED <<ledger, late, upload, presigned, known, release, download, writes,
                   deletes, acknowledged>>

-----------------------------------------------------------------------------
(* cancelUploadSession, and cleanupExpiredUploadSessions, which takes the  *)
(* sessions whose time has passed.                                         *)
BeginEnd(r) ==
    /\ requests[r] = Idle /\ session = "active"
    /\ requests' = [requests EXCEPT ![r] = Begun(IF late THEN "expired" ELSE "aborted", "read")]
    /\ UNCHANGED <<session, ledger, late, upload, object, presigned, known, token, release,
                   download, writes, deletes, touched, acknowledged>>

AbortUpload(r) ==
    /\ requests[r].kind \in {"aborted", "expired"} /\ requests[r].step = "read"
    /\ \/ upload' = None
       \/ "abort" \in Faults /\ UNCHANGED upload
    /\ Step(r, "gone")
    /\ UNCHANGED <<session, ledger, late, object, presigned, known, token, release,
                   download, writes, deletes, touched, acknowledged>>

(* Only a session that is still active ends.                               *)
Ended(r) == IF session = "active" THEN requests[r].kind ELSE session

EndSession(r) ==
    /\ requests[r].kind \in {"aborted", "expired"} /\ requests[r].step = "gone"
    /\ session' = Ended(r) /\ End(r)
    /\ UNCHANGED <<ledger, late, upload, object, presigned, known, token, release,
                   download, writes, deletes, touched, acknowledged>>

-----------------------------------------------------------------------------
(* Packages in one piece: createReleaseArtifactUpload, and the upload      *)
(* through the server or straight to the storage, as often as one likes    *)
(* while the token holds.                                                  *)
CreateUpload ==
    /\ Way = "whole" /\ session = "none"
    /\ session' = "declared" /\ token' = TRUE
    /\ UNCHANGED <<ledger, late, upload, object, presigned, known, release, requests,
                   download, writes, deletes, touched, acknowledged>>

TokenExpires ==
    /\ token /\ token' = FALSE
    /\ UNCHANGED <<session, ledger, late, upload, object, presigned, known, release,
                   requests, download, writes, deletes, touched, acknowledged>>

BeginPut(r, f) ==
    /\ Way = "whole" /\ token /\ requests[r] = Idle /\ writes < MaxWrites /\ f \notin Short
    /\ requests' = [requests EXCEPT ![r] = [Begun("put", "accepted") EXCEPT !.file = f]]
    /\ writes' = writes + 1
    /\ UNCHANGED <<session, ledger, late, upload, object, presigned, known, token, release,
                   download, deletes, touched, acknowledged>>

Put(r) ==
    /\ At(r, "put", "accepted")
    /\ object' = Whole(requests[r].file) /\ Touch /\ End(r)
    /\ UNCHANGED <<session, ledger, late, upload, presigned, known, token, release,
                   download, writes, deletes, acknowledged>>

(* deleteReleaseArtifact: whoever holds the token takes the package back.  *)
Delete ==
    /\ token /\ deletes < MaxDeletes
    /\ object' = None /\ Touch /\ deletes' = deletes + 1
    /\ UNCHANGED <<session, ledger, late, upload, presigned, known, token, release,
                   requests, download, writes, acknowledged>>

-----------------------------------------------------------------------------
(* createReleaseFromArtifact: downloadStoredArtifact asks for the ETag     *)
(* first and reads the content then; what was read is verified, and what   *)
(* was asked for is recorded with it.                                      *)
BeginRelease(r) ==
    /\ token /\ requests[r] = Idle
    /\ requests' = [requests EXCEPT ![r] = Begun("release", "accepted")]
    /\ UNCHANGED <<session, ledger, late, upload, object, presigned, known, token, release,
                   download, writes, deletes, touched, acknowledged>>

StatArtifact(r) ==
    /\ At(r, "release", "accepted")
    /\ IF IsThere
       THEN requests' = [requests EXCEPT ![r].step = "statted", ![r].etag = object]
       ELSE End(r)
    /\ UNCHANGED <<session, ledger, late, upload, object, presigned, known, token, release,
                   download, writes, deletes, touched, acknowledged>>

ReadArtifact(r) ==
    /\ At(r, "release", "statted")
    /\ IF IsThere /\ IsPackage(object)
       THEN requests' = [requests EXCEPT ![r].step = "verified", ![r].seen = object]
       ELSE End(r)
    /\ UNCHANGED <<session, ledger, late, upload, object, presigned, known, token, release,
                   download, writes, deletes, touched, acknowledged>>

(* insertReleaseInTx: a second release of the same number is refused.      *)
InsertRelease(r) ==
    /\ At(r, "release", "verified")
    /\ release' = IF release = None THEN [etag |-> requests[r].etag, hash |-> requests[r].seen]
                  ELSE release
    /\ End(r)
    /\ UNCHANGED <<session, ledger, late, upload, object, presigned, known, token,
                   download, writes, deletes, touched, acknowledged>>

-----------------------------------------------------------------------------
(* publicReleaseDownload.                                                  *)

(* parseByteRange: which bytes to send of a file of that size: a part, all *)
(* for a header that is not understood, none for one that nothing          *)
(* satisfies.  A header has a start and an end, either of which may lack.  *)
BytesOf(of, from, to) == [of |-> of, from |-> from, to |-> to]
ParseByteBytesOf(header, size) ==
    LET last == IF header.end = None \/ header.end > size - 1 THEN size - 1 ELSE header.end
        all == BytesOf("all", 0, IF size = 0 THEN 0 ELSE size - 1)
    IN  CASE size = 0 \/ (header.start = None /\ header.end \in {None, 0}) -> all
          [] header.start = None /\ header.end > size -> BytesOf("part", 0, size - 1)
          [] header.start = None -> BytesOf("part", size - header.end, size - 1)
          [] header.end # None /\ header.end < header.start -> all
          [] header.start >= size -> BytesOf("none", 0, 0)
          [] OTHER -> BytesOf("part", header.start, last)

(* objectIntegrityMismatch: size and ETag are those of the record.         *)
IsRecorded(content) == content # None /\ content = release.etag

(* The phone has the beginning of the package, asks for the rest, and gets *)
(* nothing that is not what was recorded when it asked.                    *)
Has(content) == Cardinality({p \in Parts : content[p] # None})
StatDownload(r) ==
    /\ release # None /\ requests[r] = Idle /\ ~download.whole /\ IsRecorded(object)
    /\ \A q \in Requests : requests[q].kind # "download"
    /\ requests' = [requests EXCEPT ![r] = Begun("download", "statted")]
    /\ UNCHANGED <<session, ledger, late, upload, object, presigned, known, token, release,
                   download, writes, deletes, touched, acknowledged>>

(* The connection may break after any part.                                *)
ReadDownload(r) ==
    /\ At(r, "download", "statted")
    /\ IF object = None THEN UNCHANGED download
       ELSE LET size == Cardinality(Parts)
                range == ParseByteBytesOf([start |-> Has(download.content), end |-> None], size)
            IN  \E to \in range.from..range.to :
                   download' = [content |-> [p \in Parts |->
                                    IF p - 1 \in range.from..to THEN object[p]
                                    ELSE download.content[p]],
                                whole |-> to = range.to]
    /\ End(r)
    /\ UNCHANGED <<session, ledger, late, upload, object, presigned, known, token, release,
                   writes, deletes, touched, acknowledged>>

-----------------------------------------------------------------------------
Next ==
    \/ CreateSession \/ Expire \/ AskSession \/ AnswerAgain
    \/ CreateUpload \/ TokenExpires \/ Delete
    \/ \E p \in Parts : \/ PresignPart(p)
                       \/ \E f \in Files : StorePresigned(p, f)
    \/ \E r \in Requests :
          \/ \E p \in Parts, f \in Files : SendPart(r, p, f)
          \/ StorePart(r) \/ RecordPart(r)
          \/ BeginComplete(r) \/ MatchParts(r) \/ Assemble(r) \/ Doubt(r) \/ Check(r)
          \/ Discard(r) \/ Conclude(r)
          \/ BeginEnd(r) \/ AbortUpload(r) \/ EndSession(r)
          \/ \E f \in Files : BeginPut(r, f)
          \/ Put(r)
          \/ BeginRelease(r) \/ StatArtifact(r) \/ ReadArtifact(r) \/ InsertRelease(r)
          \/ StatDownload(r) \/ ReadDownload(r)

Spec == Init /\ [][Next]_vars

-----------------------------------------------------------------------------
Contents == [Parts -> Files \cup {None}]
Statuses == {"none", "declared", "active", "completed", "aborted", "expired"}
TypeOK ==
    /\ session \in Statuses /\ ledger \in Contents /\ late \in BOOLEAN
    /\ upload \in Contents \cup {None} /\ object \in Contents \cup {None}
    /\ presigned \subseteq Parts /\ known \in Contents /\ token \in BOOLEAN
    /\ release = None \/ release \in [etag : Contents, hash : Contents]
    /\ DOMAIN requests = Requests
    /\ \A r \in Requests : /\ requests[r].part \in Parts \cup {0}
                          /\ requests[r].file \in Files \cup {None}
                          /\ requests[r].etag \in Contents /\ requests[r].seen \in Contents
    /\ download \in [content : Contents, whole : BOOLEAN]
    /\ writes \in 0..MaxWrites /\ deletes \in 0..MaxDeletes
    /\ acknowledged \subseteq Parts /\ touched \in BOOLEAN

(* What a phone has, from however many answers, is the package that was    *)
(* verified, unless it was replaced between the two reads of a request; a  *)
(* package that came in parts cannot be replaced at all.                   *)
ServedIsVerified ==
    download.whole /\ (~touched \/ Way = "session") => download.content = release.hash

(* The administrator who holds a token has the package, unless it was      *)
(* taken back, and a package in parts is what a session completed.         *)
TokensAreBacked ==
    Way = "session" /\ token /\ deletes = 0 => session = "completed" /\ IsThere

(* Once a session has ended the storage keeps no parts for it, and a       *)
(* release has its package, unless somebody took it back.                  *)
NothingIsLeft == session \in {"completed", "aborted", "expired"} => upload = None
ReleasesHaveTheirPackage ==
    Way = "session" /\ release # None /\ deletes = 0 => object = release.etag

(* Every part that the server acknowledged is in the ledger, which is what *)
(* a session is completed from when the storage does not list its parts.   *)
LedgerIsComplete == \A p \in acknowledged : ledger[p] # None

(* Whatever range is asked for, the answer has the bytes of the file that  *)
(* are in it, or the whole file if the header makes no sense.              *)
RangesAreRight ==
    \A size \in 0..3, start, end \in 0..4 \cup {None} :
        LET answer == ParseByteBytesOf([start |-> start, end |-> end], size)
            asked == {b \in 0..(size - 1) :
                         IF start = None THEN end # None /\ b + end >= size
                         ELSE b >= start /\ (end # None => b <= end)}
        IN  CASE answer.of = "all" ->
                     \/ size = 0
                     \/ start = None /\ end \in {None, 0}
                     \/ start # None /\ end # None /\ end < start
              [] answer.of = "none" -> asked = {}
              [] OTHER -> asked # {} /\ asked = answer.from..answer.to

UploadsAreRight ==
    /\ ServedIsVerified /\ TokensAreBacked /\ NothingIsLeft /\ ReleasesHaveTheirPackage
    /\ LedgerIsComplete
=============================================================================
