------------------------------ MODULE PushOutbox ------------------------------
(***************************************************************************)
(* The outbox of push events (internal/push) and the tokens of the phones  *)
(* it sends to (internal/api/installations.go).  Every server instance has *)
(* a dispatcher that takes a pending event, sends it to each phone and     *)
(* concludes the row.  Each statement of the database is one step.         *)
(***************************************************************************)
EXTENDS Naturals, FiniteSets

CONSTANTS
    Phones,        \* app installations of a tenant
    Workers,       \* dispatchers, each in a process of its own
    Events,        \* numbers, in the order the rows are created
    TargetsOf,     \* the phones an event is for
    Broken,        \* events whose payload cannot be parsed
    MaxAttempts,   \* 5 in the code
    SlowSends      \* a dispatch may take longer than the age of a dead lock
CONSTANTS          \* bounds of the model
    MaxTokens,     \* tokens the providers ever give to a phone
    MaxFaults      \* processes killed, answers lost

EventsAssumption == Events \subseteq Nat /\ Broken \subseteq Events
TargetsAssumption == TargetsOf \in [Events -> SUBSET Phones]
BoundsAssumption ==
    /\ MaxAttempts \in Nat \ {0} /\ MaxTokens \in Nat /\ MaxFaults \in Nat
    /\ SlowSends \in BOOLEAN

VARIABLES
    outbox,       \* app_push_outbox
    tokens,       \* the rows of app_push_tokens without invalid_at: <<phone, token>>
    active,       \* the installations with status 'active'
    registering,  \* registrations past their check of the credential
    revoking,     \* revocations whose second statement is to come
    device,       \* the token of the app on a phone: 0 before the first, above MaxTokens when removed
    dispatch,     \* what each worker is doing
    received,     \* how often a phone got an event
    saved,        \* every registration that was ever stored
    exposed,      \* the events being dispatched when a phone was revoked
    faults

rows == <<outbox, tokens, active>>
requests == <<registering, revoking>>
vars == <<outbox, tokens, active, registering, revoking, device, dispatch, received, saved,
          exposed, faults>>

-----------------------------------------------------------------------------
Concluded == {"sent", "partial_failed", "failed"}
Unqueued == [status |-> "absent", attempts |-> 0, due |-> FALSE, stale |-> FALSE]
Queued == [Unqueued EXCEPT !.status = "pending", !.due = TRUE]
Rows == [status : {"absent", "pending", "processing"} \cup Concluded, attempts : Nat,
         due : BOOLEAN,      \* next_attempt_at has come
         stale : BOOLEAN]    \* locked_at is more than five minutes ago

Recipients == Phones \X (1..MaxTokens)
Idle == [step |-> "idle"]
Down == [step |-> "down"]
Working == [step : {"selected", "claimed", "sending"}, event : Events,
            attempts : Nat,                \* as it was when the row was selected
            left : SUBSET Recipients,      \* to be sent to
            dead : SUBSET Recipients,      \* the provider knows the token no more
            sent : BOOLEAN, failed : BOOLEAN,
            blocked : BOOLEAN]             \* by the credential
Selected(e) == [step |-> "selected", event |-> e, attempts |-> outbox[e].attempts, left |-> {},
                dead |-> {}, sent |-> FALSE, failed |-> FALSE, blocked |-> FALSE]

At(w, step) == dispatch[w].step = step
Becomes(w, d) == dispatch' = [dispatch EXCEPT ![w] = d]
Dispatched == {dispatch[w].event : w \in {v \in Workers : dispatch[v].step \in {"claimed", "sending"}}}

(* The three updates by id alone that conclude a row or put it back.       *)
Finish(w, failures) ==
    LET e == dispatch[w].event IN
    outbox' = [outbox EXCEPT ![e].status = IF failures THEN "partial_failed" ELSE "sent",
                             ![e].attempts = @ + 1]
FailNow(w) ==
    LET e == dispatch[w].event IN
    outbox' = [outbox EXCEPT ![e].status = "failed", ![e].attempts = @ + 1]
Retry(w) ==
    LET e == dispatch[w].event  n == dispatch[w].attempts + 1 IN
    outbox' = [outbox EXCEPT ![e] = [status |-> IF n >= MaxAttempts THEN "failed" ELSE "pending",
                                     attempts |-> n, due |-> FALSE, stale |-> FALSE]]

-----------------------------------------------------------------------------
(***************************************************************************)
(* A publication queues its event in its own transaction.                  *)
(***************************************************************************)
Enqueue(e) ==
    /\ outbox[e].status = "absent"
    /\ \A f \in Events : f < e => outbox[f].status # "absent"
    /\ outbox' = [outbox EXCEPT ![e] = Queued]
    /\ UNCHANGED <<tokens, active, requests, device, dispatch, received, saved, exposed, faults>>

Due(e) ==
    /\ outbox[e].status = "pending" /\ ~outbox[e].due
    /\ outbox' = [outbox EXCEPT ![e].due = TRUE]
    /\ UNCHANGED <<tokens, active, requests, device, dispatch, received, saved, exposed, faults>>

(* A lock grows old.  Unless sends are slow, only that of a dead worker.   *)
LockAges(e) ==
    /\ outbox[e].status = "processing" /\ ~outbox[e].stale
    /\ SlowSends \/ e \notin Dispatched
    /\ outbox' = [outbox EXCEPT ![e].stale = TRUE]
    /\ UNCHANGED <<tokens, active, requests, device, dispatch, received, saved, exposed, faults>>

(* Run: once, when the process starts, the old locks are broken.           *)
Start(w) ==
    /\ At(w, "down")
    /\ outbox' = [e \in Events |->
         IF outbox[e].status = "processing" /\ outbox[e].stale
         THEN [outbox[e] EXCEPT !.status = "pending", !.stale = FALSE] ELSE outbox[e]]
    /\ Becomes(w, Idle)
    /\ UNCHANGED <<tokens, active, requests, device, received, saved, exposed, faults>>

Crash(w) ==
    /\ ~At(w, "down")
    /\ faults < MaxFaults /\ faults' = faults + 1
    /\ Becomes(w, Down)
    /\ UNCHANGED <<rows, requests, device, received, saved, exposed>>

IsNext(e) ==
    /\ outbox[e].status = "pending" /\ outbox[e].due
    /\ \A f \in Events : outbox[f].status = "pending" /\ outbox[f].due => e <= f

Select(w) ==
    /\ At(w, "idle")
    /\ \E e \in Events : IsNext(e) /\ Becomes(w, Selected(e))
    /\ UNCHANGED <<rows, requests, device, received, saved, exposed, faults>>

FinishBroken(w) ==
    /\ At(w, "selected") /\ dispatch[w].event \in Broken
    /\ Finish(w, TRUE)
    /\ Becomes(w, Idle)
    /\ UNCHANGED <<tokens, active, requests, device, received, saved, exposed, faults>>

MayClaim_Selected(e) == TRUE
MayClaim(e) == outbox[e].status = "pending"

Claim(w) ==
    /\ At(w, "selected") /\ dispatch[w].event \notin Broken
    /\ LET e == dispatch[w].event IN
       IF MayClaim(e)
       THEN /\ outbox' = [outbox EXCEPT ![e].status = "processing", ![e].stale = FALSE]
            /\ Becomes(w, [dispatch[w] EXCEPT !.step = "claimed"])
       ELSE Becomes(w, Idle) /\ UNCHANGED outbox
    /\ UNCHANGED <<tokens, active, requests, device, received, saved, exposed, faults>>

Reachable(e) == {r \in tokens : r[1] \in active /\ r[1] \in TargetsOf[e]}

ReadTargets(w) ==
    /\ At(w, "claimed")
    /\ Becomes(w, [dispatch[w] EXCEPT !.step = "sending", !.left = Reachable(dispatch[w].event)])
    /\ UNCHANGED <<rows, requests, device, received, saved, exposed, faults>>

TargetsUnread(w) ==
    /\ At(w, "claimed")
    /\ Retry(w) /\ Becomes(w, Idle)
    /\ UNCHANGED <<tokens, active, requests, device, received, saved, exposed, faults>>

-----------------------------------------------------------------------------
(***************************************************************************)
(* What a provider answers.  An answer that does not come counts as a      *)
(* failure, although the phone may have the message.                       *)
(***************************************************************************)
Knows(r) == device[r[1]] = r[2]
Gets(w, r) == received' = [received EXCEPT ![dispatch[w].event][r[1]] = @ + 1]
Without(w, r) == [dispatch[w] EXCEPT !.left = @ \ {r}]

Accepted(w, r) ==
    /\ Knows(r) /\ Gets(w, r)
    /\ Becomes(w, [Without(w, r) EXCEPT !.sent = TRUE])
    /\ UNCHANGED faults
Unregistered(w, r) ==
    /\ ~Knows(r)
    /\ Becomes(w, [Without(w, r) EXCEPT !.failed = TRUE, !.dead = @ \cup {r}])
    /\ UNCHANGED <<received, faults>>
(* The key was revoked, or is of another project: no fault of the token.   *)
CredentialRefused(w, r) ==
    /\ Becomes(w, [Without(w, r) EXCEPT !.failed = TRUE, !.blocked = TRUE])
    /\ UNCHANGED <<received, faults>>
Unavailable(w, r) ==
    /\ Becomes(w, [Without(w, r) EXCEPT !.failed = TRUE])
    /\ UNCHANGED <<received, faults>>
AnswerLost(w, r) ==
    /\ Knows(r) /\ Gets(w, r)
    /\ faults < MaxFaults /\ faults' = faults + 1
    /\ Becomes(w, [Without(w, r) EXCEPT !.failed = TRUE])

Send(w) ==
    /\ At(w, "sending")
    /\ \E r \in dispatch[w].left :
         \/ Accepted(w, r) \/ Unregistered(w, r) \/ CredentialRefused(w, r)
         \/ Unavailable(w, r) \/ AnswerLost(w, r)
    /\ UNCHANGED <<rows, requests, device, saved, exposed>>

(* Only the row with the very token that was refused.                      *)
Invalidated(r) == {r}

Invalidate(w) ==
    /\ At(w, "sending")
    /\ \E r \in dispatch[w].dead :
         /\ tokens' = tokens \ Invalidated(r)
         /\ Becomes(w, [dispatch[w] EXCEPT !.dead = @ \ {r}])
    /\ UNCHANGED <<outbox, active, requests, device, received, saved, exposed, faults>>

(* Tried again only if nobody got it; never for a credential.              *)
Outcome_AllOrNothing(d) ==
    IF d.failed THEN (IF d.blocked THEN "blocked" ELSE "retry") ELSE "finish"
Outcome(d) ==
    IF d.failed /\ ~d.sent THEN (IF d.blocked THEN "blocked" ELSE "retry") ELSE "finish"

Conclude(w) ==
    /\ At(w, "sending") /\ dispatch[w].left = {} /\ dispatch[w].dead = {}
    /\ CASE Outcome(dispatch[w]) = "blocked" -> FailNow(w)
         [] Outcome(dispatch[w]) = "retry"   -> Retry(w)
         [] OTHER                            -> Finish(w, dispatch[w].failed)
    /\ Becomes(w, Idle)
    /\ UNCHANGED <<tokens, active, requests, device, received, saved, exposed, faults>>

-----------------------------------------------------------------------------
(***************************************************************************)
(* Phones and administrators                                               *)
(***************************************************************************)
(* The provider gives the app another token, or the app is removed.        *)
NewToken(p) ==
    /\ device[p] < MaxTokens
    /\ device' = [device EXCEPT ![p] = @ + 1]
    /\ UNCHANGED <<rows, requests, dispatch, received, saved, exposed, faults>>
Removed(p) ==
    /\ device[p] \in 1..(MaxTokens - 1)
    /\ device' = [device EXCEPT ![p] = MaxTokens + 1]
    /\ UNCHANGED <<rows, requests, dispatch, received, saved, exposed, faults>>

(* registerPushToken: the credential is checked, then the row is written.  *)
Register(p) ==
    /\ p \in active /\ device[p] \in 1..MaxTokens
    /\ registering' = registering \cup {<<p, device[p]>>}
    /\ UNCHANGED <<rows, revoking, device, dispatch, received, saved, exposed, faults>>
Registered(r) ==
    /\ r \in registering
    /\ registering' = registering \ {r}
    /\ tokens' = tokens \cup {r}
    /\ saved' = saved \cup {r}
    /\ UNCHANGED <<outbox, active, revoking, device, dispatch, received, exposed, faults>>

(* revokeInstallation: the status, then the tokens, if it lives so long.   *)
Revoke(p) ==
    /\ p \in active
    /\ active' = active \ {p}
    /\ revoking' = revoking \cup {p}
    /\ exposed' = [exposed EXCEPT ![p] = Dispatched]
    /\ UNCHANGED <<outbox, tokens, registering, device, dispatch, received, saved, faults>>
RevokeTokens(p) ==
    /\ p \in revoking
    /\ revoking' = revoking \ {p}
    /\ tokens' \in {tokens, {r \in tokens : r[1] # p}}
    /\ UNCHANGED <<outbox, active, registering, device, dispatch, received, saved, exposed, faults>>

-----------------------------------------------------------------------------
Init ==
    /\ outbox = [e \in Events |-> Unqueued]
    /\ tokens = {} /\ active = Phones /\ registering = {} /\ revoking = {}
    /\ device = [p \in Phones |-> 0]
    /\ dispatch = [w \in Workers |-> Down]
    /\ received = [e \in Events |-> [p \in Phones |-> 0]]
    /\ saved = {} /\ exposed = [p \in Phones |-> {}] /\ faults = 0

Work(w) ==
    Select(w) \/ FinishBroken(w) \/ Claim(w) \/ ReadTargets(w) \/ TargetsUnread(w)
      \/ Send(w) \/ Invalidate(w) \/ Conclude(w)

Next ==
    \/ \E e \in Events : Enqueue(e) \/ Due(e) \/ LockAges(e)
    \/ \E w \in Workers : Start(w) \/ Crash(w) \/ Work(w)
    \/ \E p \in Phones : NewToken(p) \/ Removed(p) \/ Register(p) \/ Revoke(p) \/ RevokeTokens(p)
    \/ \E r \in registering : Registered(r)

Spec == Init /\ [][Next]_vars

(* Systemd starts a process again, the loop polls, and time passes.        *)
FairSpec ==
    /\ Spec
    /\ \A w \in Workers : WF_vars(Start(w)) /\ WF_vars(Work(w))
    /\ \A e \in Events : WF_vars(Due(e)) /\ WF_vars(LockAges(e))

-----------------------------------------------------------------------------
TypeOK ==
    /\ outbox \in [Events -> Rows]
    /\ tokens \subseteq Recipients /\ saved \subseteq Recipients /\ registering \subseteq Recipients
    /\ active \subseteq Phones /\ revoking \subseteq Phones
    /\ device \in [Phones -> 0..(MaxTokens + 1)]
    /\ dispatch \in [Workers -> {Idle, Down} \cup Working]
    /\ received \in [Events -> [Phones -> Nat]]
    /\ exposed \in [Phones -> SUBSET Events]
    /\ faults \in 0..MaxFaults

(* A phone gets an event once on each token it ever had, however many      *)
(* workers and attempts there are; only a killed worker or a lost answer   *)
(* can make it get the event again.                                        *)
NotSentTwice ==
    \A e \in Events, p \in Phones : received[e][p] <= device[p] * (1 + faults)

(* A token is given up only when its provider knows it no more: that of an *)
(* active phone that still has it stays valid, whatever was sent to its    *)
(* older tokens or refused for the key.                                    *)
GoodTokensStay ==
    \A r \in saved : r[1] \in active /\ Knows(r) => r \in tokens

(* What is concluded stays so: no second worker that selected the row      *)
(* earlier puts it back or concludes it differently.                       *)
ConcludedEventsStay ==
    [][\A e \in Events : outbox[e].status \in Concluded => outbox'[e].status = outbox[e].status]_vars

(* After a phone is revoked it gets at most what was being sent right      *)
(* then, even if a registration of its token was just under way.           *)
NothingAfterRevocation ==
    [][\A e \in Events, p \in Phones :
         received'[e][p] # received[e][p] /\ p \notin active => e \in exposed[p]]_vars

=============================================================================
