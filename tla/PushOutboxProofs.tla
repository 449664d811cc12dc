-------------------------- MODULE PushOutboxProofs --------------------------
(***************************************************************************)
(* What the outbox promises of the events it sends and of the tokens it    *)
(* sends them to, proved of PushOutbox for any number of dispatchers,      *)
(* events, phones and tokens, and whatever is killed or lost.              *)
(***************************************************************************)
EXTENDS PushOutbox, FiniteSetTheorems, TLAPS

(* What the theorems take for granted of the constants.                    *)
Assumptions == EventsAssumption /\ TargetsAssumption /\ BoundsAssumption

-----------------------------------------------------------------------------
(***************************************************************************)
(* Type correctness                                                        *)
(***************************************************************************)
LEMMA Numbers ==
    ASSUME Assumptions
    PROVE  /\ MaxAttempts \in Nat /\ MaxTokens \in Nat /\ MaxFaults \in Nat
           /\ \A e \in Events : e \in Nat
  BY DEF Assumptions, EventsAssumption, BoundsAssumption

(* What a worker is doing, by the step it is at.                           *)
LEMMA StepsOf ==
    ASSUME NEW d \in {Idle, Down} \cup Working
    PROVE  /\ d.step \in {"selected", "claimed", "sending"} => d \in Working
           /\ d.step = "idle" => d = Idle
           /\ d.step = "down" => d = Down
  BY DEF Idle, Down, Working

LEMMA WorkingColumns ==
    ASSUME NEW d \in Working
    PROVE  /\ d.step \in {"selected", "claimed", "sending"}
           /\ d.event \in Events /\ d.attempts \in Nat
           /\ d.left \subseteq Recipients /\ d.dead \subseteq Recipients
           /\ d.sent \in BOOLEAN /\ d.failed \in BOOLEAN /\ d.blocked \in BOOLEAN
  BY DEF Working

LEMMA RowColumns ==
    ASSUME NEW row \in Rows
    PROVE  /\ row.status \in {"absent", "pending", "processing"} \cup Concluded
           /\ row.attempts \in Nat /\ row.due \in BOOLEAN /\ row.stale \in BOOLEAN
  BY DEF Rows

LEMMA RecipientParts ==
    ASSUME NEW r \in Recipients
    PROVE  r[1] \in Phones /\ r[2] \in 1..MaxTokens /\ r = <<r[1], r[2]>>
  BY DEF Recipients

LEMMA TypeInit == ASSUME Assumptions, Init PROVE TypeOK
<1>1. Unqueued \in Rows
  BY DEF Unqueued, Rows
<1> QED
  BY <1>1, Numbers DEF Init, TypeOK, Recipients, Idle, Down

(* Every row that the outbox is given is one.                              *)
LEMMA OutboxTypes ==
    ASSUME Assumptions, TypeOK
    PROVE  /\ \A e \in Events : Enqueue(e) \/ Due(e) \/ LockAges(e) => outbox' \in [Events -> Rows]
           /\ \A w \in Workers :
                Start(w) \/ FinishBroken(w) \/ Claim(w) \/ TargetsUnread(w) \/ Conclude(w)
                  => outbox' \in [Events -> Rows]
<1>1. \A e \in Events : outbox[e] \in Rows
  BY DEF TypeOK
<1>2. ASSUME NEW e \in Events, NEW row \in Rows, outbox' = [outbox EXCEPT ![e] = row]
      PROVE  outbox' \in [Events -> Rows]
  BY <1>2 DEF TypeOK
<1>3. ASSUME NEW e \in Events, NEW s \in {"absent", "pending", "processing"} \cup Concluded
      PROVE  /\ [outbox[e] EXCEPT !.status = s, !.attempts = @ + 1] \in Rows
             /\ [outbox[e] EXCEPT !.status = s, !.stale = FALSE] \in Rows
             /\ [outbox[e] EXCEPT !.due = TRUE] \in Rows
             /\ [outbox[e] EXCEPT !.stale = TRUE] \in Rows
             /\ \A n \in Nat : [status |-> s, attempts |-> n, due |-> FALSE, stale |-> FALSE] \in Rows
  <2> DEFINE row == outbox[e]
  <2>1. row \in Rows
    BY <1>1
  <2>2. row.attempts \in Nat /\ row.due \in BOOLEAN /\ row.stale \in BOOLEAN
    BY <2>1, RowColumns
  <2> HIDE DEF row
  <2>3. [row EXCEPT !.status = s, !.attempts = @ + 1] \in Rows
    <3>1. \A n \in Nat : [row EXCEPT !.status = s, !.attempts = n] \in Rows
      BY <2>1 DEF Rows
    <3>2. row.attempts + 1 \in Nat
      BY <2>2
    <3> QED
      BY <3>1, <3>2
  <2>5. [row EXCEPT !.status = s, !.stale = FALSE] \in Rows
    BY <2>1, <2>2 DEF Rows
  <2>6. [row EXCEPT !.due = TRUE] \in Rows
    BY <2>1, <2>2 DEF Rows
  <2>7. [row EXCEPT !.stale = TRUE] \in Rows
    BY <2>1, <2>2 DEF Rows
  <2>4. \A n \in Nat : [status |-> s, attempts |-> n, due |-> FALSE, stale |-> FALSE] \in Rows
    BY DEF Rows
  <2> QED
    BY <2>3, <2>4, <2>5, <2>6, <2>7 DEF row
<1>4. ASSUME NEW e \in Events, Enqueue(e) \/ Due(e) \/ LockAges(e)
      PROVE  outbox' \in [Events -> Rows]
  <2>1. Queued \in Rows
    BY DEF Queued, Unqueued, Rows
  <2>2. CASE Enqueue(e)
    BY <2>1, <2>2, <1>2 DEF Enqueue
  <2>3. CASE Due(e)
    BY <2>3, <1>2, <1>3 DEF Due
  <2>4. CASE LockAges(e)
    BY <2>4, <1>2, <1>3 DEF LockAges
  <2> QED
    BY <1>4, <2>2, <2>3, <2>4
<1>5. ASSUME NEW w \in Workers,
             Start(w) \/ FinishBroken(w) \/ Claim(w) \/ TargetsUnread(w) \/ Conclude(w)
      PROVE  outbox' \in [Events -> Rows]
  <2> DEFINE d == dispatch[w]
  <2>1. d \in {Idle, Down} \cup Working
    BY DEF TypeOK
  <2>2. At(w, "selected") \/ At(w, "claimed") \/ At(w, "sending") => d \in Working
    BY <2>1, StepsOf DEF At
  <2>3. d \in Working => d.event \in Events /\ d.attempts + 1 \in Nat
    BY WorkingColumns
  <2>4. ASSUME d \in Working, NEW s \in Concluded,
               outbox' = [outbox EXCEPT ![d.event].status = s, ![d.event].attempts = @ + 1]
        PROVE  outbox' \in [Events -> Rows]
    <3>1. outbox' = [outbox EXCEPT ![d.event] = [outbox[d.event] EXCEPT !.status = s, !.attempts = @ + 1]]
      BY <2>3, <2>4, <1>1 DEF TypeOK, Rows
    <3> QED
      BY <3>1, <2>3, <2>4, <1>2, <1>3
  <2>5. d \in Working /\ FailNow(w) => outbox' \in [Events -> Rows]
    BY <2>4 DEF FailNow, Concluded
  <2>55. ASSUME d \in Working, NEW b \in BOOLEAN, Finish(w, b) PROVE outbox' \in [Events -> Rows]
    BY <2>4, <2>55 DEF Finish, Concluded
  <2>6. ASSUME d \in Working, Retry(w) PROVE outbox' \in [Events -> Rows]
    BY <2>3, <2>6, <1>2, <1>3 DEF Retry, Concluded
  <2>7. CASE Start(w)
    BY <2>7, <1>1, <1>3 DEF Start
  <2>8. CASE FinishBroken(w)
    BY <2>8, <2>2, <2>55 DEF FinishBroken
  <2>9. CASE Claim(w)
    <3>1. d \in Working /\ d.event \in Events
      BY <2>9, <2>2, <2>3 DEF Claim
    <3>2. outbox' = outbox
            \/ outbox' = [outbox EXCEPT ![d.event] = [outbox[d.event] EXCEPT !.status = "processing", !.stale = FALSE]]
      BY <3>1, <2>9, <1>1 DEF Claim, TypeOK, Rows
    <3> QED
      BY <3>1, <3>2, <1>2, <1>3 DEF TypeOK
  <2>10. CASE TargetsUnread(w)
    BY <2>10, <2>2, <2>6 DEF TargetsUnread
  <2>11. CASE Conclude(w)
    <3>1. d \in Working /\ d.failed \in BOOLEAN
      BY <2>11, <2>2, WorkingColumns DEF Conclude
    <3> QED
      BY <3>1, <2>11, <2>55, <2>5, <2>6 DEF Conclude
  <2> QED
    BY <1>5, <2>7, <2>8, <2>9, <2>10, <2>11
<1> QED
  BY <1>4, <1>5

(* A worker takes up only what there is to do.                             *)
LEMMA WorkTypes ==
    ASSUME Assumptions, TypeOK, NEW w \in Workers, Start(w) \/ Crash(w) \/ Work(w)
    PROVE  /\ dispatch' \in [Workers -> {Idle, Down} \cup Working]
           /\ received' \in [Events -> [Phones -> Nat]]
           /\ faults' \in 0..MaxFaults
<1> DEFINE d == dispatch[w]  D == {Idle, Down} \cup Working
           Typed == /\ dispatch' \in [Workers -> D]
                    /\ received' \in [Events -> [Phones -> Nat]]
                    /\ faults' \in 0..MaxFaults
<1>1. d \in D /\ dispatch \in [Workers -> D]
  BY DEF TypeOK
<1>2. At(w, "selected") \/ At(w, "claimed") \/ At(w, "sending") => d \in Working
  BY <1>1, StepsOf DEF At
<1>3. ASSUME NEW x \in D, Becomes(w, x) PROVE dispatch' \in [Workers -> D]
  BY <1>1, <1>3 DEF Becomes
<1>4. UNCHANGED <<received, faults>> =>
        received' \in [Events -> [Phones -> Nat]] /\ faults' \in 0..MaxFaults
  BY DEF TypeOK
<1>5. Idle \in D /\ Down \in D
  OBVIOUS
<1>6. ASSUME d \in Working, NEW s \in {"selected", "claimed", "sending"},
             NEW left \in SUBSET Recipients, NEW dead \in SUBSET Recipients
      PROVE  /\ [d EXCEPT !.step = s] \in D
             /\ [d EXCEPT !.step = "sending", !.left = left] \in D
             /\ [d EXCEPT !.dead = dead] \in D
             /\ [[d EXCEPT !.left = left] EXCEPT !.sent = TRUE] \in D
             /\ [[d EXCEPT !.left = left] EXCEPT !.failed = TRUE] \in D
             /\ [[d EXCEPT !.left = left] EXCEPT !.failed = TRUE, !.dead = dead] \in D
             /\ [[d EXCEPT !.left = left] EXCEPT !.failed = TRUE, !.blocked = TRUE] \in D
  BY <1>6 DEF Working
<1>7. CASE Start(w)
  BY <1>7, <1>3, <1>4, <1>5 DEF Start
<1>8. CASE Crash(w)
  BY <1>8, <1>3, <1>5, Numbers DEF Crash, TypeOK
<1>9. CASE Select(w)
  <2>1. PICK e \in Events : Becomes(w, Selected(e))
    BY <1>9 DEF Select
  <2>2. Selected(e) \in Working
    BY DEF Selected, Working, TypeOK, Rows
  <2> QED
    BY <2>1, <2>2, <1>3, <1>4, <1>9 DEF Select
<1>10. CASE FinishBroken(w)
  BY <1>10, <1>3, <1>4, <1>5 DEF FinishBroken
<1>11. CASE Claim(w)
  <2>1. d \in Working
    BY <1>11, <1>2 DEF Claim
  <2> QED
    BY <2>1, <1>11, <1>3, <1>4, <1>5, <1>6 DEF Claim
<1>12. CASE ReadTargets(w)
  <2>1. d \in Working /\ Reachable(d.event) \subseteq Recipients
    BY <1>12, <1>2 DEF ReadTargets, Reachable, TypeOK
  <2> QED
    BY <2>1, <1>12, <1>3, <1>4, <1>6 DEF ReadTargets
<1>13. CASE TargetsUnread(w)
  BY <1>13, <1>3, <1>4, <1>5 DEF TargetsUnread
<1>14. CASE Send(w)
  <2>1. d \in Working /\ d.left \subseteq Recipients /\ d.dead \subseteq Recipients /\ d.event \in Events
    BY <1>14, <1>2, WorkingColumns DEF Send
  <2>2. PICK r \in d.left :
          \/ Accepted(w, r) \/ Unregistered(w, r) \/ CredentialRefused(w, r)
          \/ Unavailable(w, r) \/ AnswerLost(w, r)
    BY <1>14 DEF Send
  <2>3. r \in Recipients /\ r[1] \in Phones
    BY <2>1, <2>2, RecipientParts
  <2>4. Gets(w, r) => received' \in [Events -> [Phones -> Nat]]
    BY <2>1, <2>3 DEF Gets, TypeOK
  <2>5. d.left \ {r} \in SUBSET Recipients /\ d.dead \cup {r} \in SUBSET Recipients
    BY <2>1, <2>3
  <2>6. CASE Accepted(w, r)
    BY <2>6, <2>1, <2>4, <2>5, <1>3, <1>6 DEF Accepted, Without, TypeOK
  <2>7. CASE Unregistered(w, r)
    <3>1. [Without(w, r) EXCEPT !.failed = TRUE, !.dead = @ \cup {r}]
            = [[d EXCEPT !.left = d.left \ {r}] EXCEPT !.failed = TRUE, !.dead = d.dead \cup {r}]
      BY <2>1 DEF Without, Working
    <3> QED
      BY <3>1, <2>7, <2>1, <2>5, <1>3, <1>4, <1>6 DEF Unregistered
  <2>8. CASE CredentialRefused(w, r)
    BY <2>8, <2>1, <2>5, <1>3, <1>4, <1>6 DEF CredentialRefused, Without
  <2>9. CASE Unavailable(w, r)
    BY <2>9, <2>1, <2>5, <1>3, <1>4, <1>6 DEF Unavailable, Without
  <2>10. CASE AnswerLost(w, r)
    <3>1. faults' \in 0..MaxFaults
      BY <2>10, Numbers DEF AnswerLost, TypeOK
    <3> QED
      BY <3>1, <2>10, <2>1, <2>4, <2>5, <1>3, <1>6 DEF AnswerLost, Without
  <2> QED
    BY <2>2, <2>6, <2>7, <2>8, <2>9, <2>10
<1>15. CASE Invalidate(w)
  <2>1. d \in Working /\ d.dead \subseteq Recipients
    BY <1>15, <1>2, WorkingColumns DEF Invalidate
  <2>2. PICK r \in d.dead : Becomes(w, [d EXCEPT !.dead = @ \ {r}])
    BY <1>15 DEF Invalidate
  <2> QED
    BY <2>1, <2>2, <1>15, <1>3, <1>4, <1>6 DEF Invalidate
<1>16. CASE Conclude(w)
  BY <1>16, <1>3, <1>4, <1>5 DEF Conclude
<1> QED
  BY <1>7, <1>8, <1>9, <1>10, <1>11, <1>12, <1>13, <1>14, <1>15, <1>16 DEF Work
(* What phones and administrators do.                                      *)
PhoneStep ==
    \/ \E p \in Phones : NewToken(p) \/ Removed(p) \/ Register(p) \/ Revoke(p) \/ RevokeTokens(p)
    \/ \E r \in registering : Registered(r)

LEMMA PhoneTypes ==
    ASSUME Assumptions, TypeOK, PhoneStep
    PROVE  /\ tokens' \subseteq Recipients /\ saved' \subseteq Recipients
           /\ registering' \subseteq Recipients
           /\ active' \subseteq Phones /\ revoking' \subseteq Phones
           /\ device' \in [Phones -> 0..(MaxTokens + 1)]
           /\ exposed' \in [Phones -> SUBSET Events]
<1>1. ASSUME NEW p \in Phones, NewToken(p) \/ Removed(p) PROVE device' \in [Phones -> 0..(MaxTokens + 1)]
  BY <1>1, Numbers DEF NewToken, Removed, TypeOK
<1>2. ASSUME NEW p \in Phones, NewToken(p) \/ Removed(p)
      PROVE  UNCHANGED <<tokens, saved, registering, active, revoking, exposed>>
  BY <1>2 DEF NewToken, Removed, rows, requests
<1>3. ASSUME NEW p \in Phones, Register(p)
      PROVE  /\ registering' \subseteq Recipients
             /\ UNCHANGED <<tokens, saved, active, revoking, device, exposed>>
  BY <1>3 DEF Register, rows, Recipients, TypeOK
<1>4. ASSUME NEW p \in Phones, Revoke(p)
      PROVE  /\ active' \subseteq Phones /\ revoking' \subseteq Phones
             /\ exposed' \in [Phones -> SUBSET Events]
             /\ UNCHANGED <<tokens, saved, registering, device>>
  <2>1. Dispatched \subseteq Events
    <3>1. \A v \in Workers : dispatch[v].step \in {"claimed", "sending"} => dispatch[v].event \in Events
      BY StepsOf, WorkingColumns DEF TypeOK
    <3> QED
      BY <3>1 DEF Dispatched
  <2> QED
    BY <2>1, <1>4 DEF Revoke, TypeOK
<1>5. ASSUME NEW p \in Phones, RevokeTokens(p)
      PROVE  /\ tokens' \subseteq Recipients /\ revoking' \subseteq Phones
             /\ UNCHANGED <<saved, registering, active, device, exposed>>
  BY <1>5 DEF RevokeTokens, TypeOK
<1>6. ASSUME NEW r \in registering, Registered(r)
      PROVE  /\ tokens' \subseteq Recipients /\ saved' \subseteq Recipients
             /\ registering' \subseteq Recipients
             /\ UNCHANGED <<active, revoking, device, exposed>>
  BY <1>6 DEF Registered, TypeOK
<1> QED
  BY <1>1, <1>2, <1>3, <1>4, <1>5, <1>6 DEF PhoneStep, TypeOK

(* What the dispatchers and the rows leave alone.                          *)
LEMMA RowFrame ==
    ASSUME NEW e \in Events, Enqueue(e) \/ Due(e) \/ LockAges(e)
    PROVE  UNCHANGED <<tokens, active, registering, revoking, device, dispatch, received, saved,
                       exposed, faults>>
  BY DEF Enqueue, Due, LockAges, requests

LEMMA WorkerFrame ==
    ASSUME NEW w \in Workers, Start(w) \/ Crash(w) \/ Work(w)
    PROVE  /\ UNCHANGED <<active, registering, revoking, device, saved, exposed>>
           /\ ~Invalidate(w) => UNCHANGED tokens
  BY DEF Start, Crash, Work, Select, FinishBroken, Claim, ReadTargets, TargetsUnread, Send,
         Invalidate, Conclude, rows, requests

LEMMA PhoneFrame ==
    ASSUME PhoneStep
    PROVE  UNCHANGED <<outbox, dispatch, received, faults>>
  BY DEF PhoneStep, NewToken, Removed, Register, Registered, Revoke, RevokeTokens, rows, requests

LEMMA NextSteps ==
    ASSUME [Next]_vars
    PROVE  \/ \E e \in Events : Enqueue(e) \/ Due(e) \/ LockAges(e)
           \/ \E w \in Workers : Start(w) \/ Crash(w) \/ Work(w)
           \/ PhoneStep
           \/ UNCHANGED vars
  BY DEF Next, PhoneStep

LEMMA TypeStep == ASSUME Assumptions, TypeOK, [Next]_vars PROVE TypeOK'
<1>1. ASSUME NEW e \in Events, Enqueue(e) \/ Due(e) \/ LockAges(e) PROVE TypeOK'
  BY <1>1, OutboxTypes, RowFrame DEF TypeOK
<1>2. ASSUME NEW w \in Workers, Start(w) \/ Crash(w) \/ Work(w) PROVE TypeOK'
  <2>1. outbox' \in [Events -> Rows]
    <3>1. Crash(w) \/ Select(w) \/ ReadTargets(w) \/ Send(w) \/ Invalidate(w) => UNCHANGED outbox
      BY DEF Crash, Select, ReadTargets, Send, Invalidate, rows
    <3> QED
      BY <1>2, <3>1, OutboxTypes DEF Work, TypeOK
  <2>2. tokens' \subseteq tokens
    BY <1>2, WorkerFrame DEF Invalidate
  <2> QED
    BY <1>2, <2>1, <2>2, WorkTypes, WorkerFrame DEF TypeOK
<1>3. CASE PhoneStep
  BY <1>3, PhoneTypes, PhoneFrame DEF TypeOK
<1>4. CASE UNCHANGED vars
  BY <1>4 DEF vars, TypeOK
<1> QED
  BY <1>1, <1>2, <1>3, <1>4, NextSteps

(* Every variable always has its type: a dispatcher that read a row before *)
(* another one changed it still writes a row.                              *)
THEOREM TypeCorrect == ASSUME Assumptions PROVE Spec => []TypeOK
  BY TypeInit, TypeStep, PTL DEF Spec

-----------------------------------------------------------------------------
(***************************************************************************)
(* Who sends what                                                          *)
(*                                                                         *)
(* As long as a lock is broken only when its dispatcher is gone, a row     *)
(* that is being processed has one dispatcher at most, which alone writes  *)
(* it by its id.  A row that cannot be parsed is dispatched by nobody, so  *)
(* it is of no matter how often it is concluded.                           *)
(***************************************************************************)
Dispatches(w, e) == dispatch[w].step \in {"claimed", "sending"} /\ dispatch[w].event = e

OneDispatcher ==
    \A w \in Workers, e \in Events : Dispatches(w, e) =>
        /\ outbox[e].status = "processing" /\ ~outbox[e].stale /\ e \notin Broken
        /\ \A v \in Workers : Dispatches(v, e) => v = w

BrokenRows ==
    \A e \in Broken : outbox[e].status \in {"absent", "pending", "partial_failed"}

(* What a worker does to its own record, and to the one row it is at.      *)
OnlyRow(e) == \A f \in Events \ {e} : outbox'[f] = outbox[f]

OnlyWorker(w) == \A v \in Workers \ {w} : dispatch'[v] = dispatch[v]

LEMMA OneWorker ==
    ASSUME TypeOK, NEW w \in Workers, Start(w) \/ Crash(w) \/ Work(w)
    PROVE  OnlyWorker(w)
<1>1. ASSUME NEW d, Becomes(w, d) PROVE OnlyWorker(w)
  BY <1>1 DEF Becomes, OnlyWorker, TypeOK
<1>2. \E d : Becomes(w, d)
  BY DEF Start, Crash, Work, Select, FinishBroken, Claim, ReadTargets, TargetsUnread, Send,
         Invalidate, Conclude, Accepted, Unregistered, CredentialRefused, Unavailable, AnswerLost
<1> QED
  BY <1>1, <1>2
(* A row that is concluded by its id keeps the rest of its columns.        *)
LEMMA ConcludedRow ==
    ASSUME TypeOK, NEW e \in Events, NEW s,
           outbox' = [outbox EXCEPT ![e].status = s, ![e].attempts = @ + 1]
    PROVE  /\ outbox'[e] = [outbox[e] EXCEPT !.status = s, !.attempts = @ + 1]
           /\ outbox'[e].status = s /\ OnlyRow(e)
<1>1. outbox[e] \in Rows /\ outbox \in [Events -> Rows]
  BY DEF TypeOK
<1>2. OnlyRow(e)
  BY <1>1 DEF OnlyRow
<1>3. outbox'[e] = [outbox[e] EXCEPT !.status = s, !.attempts = @ + 1]
  BY <1>1 DEF Rows
<1>4. \A n : [outbox[e] EXCEPT !.status = s, !.attempts = n].status = s
  BY <1>1 DEF Rows
<1> QED
  BY <1>2, <1>3, <1>4

(* A worker does one of six things to the rows.                            *)
IsOff(w) == dispatch[w].step \notin {"claimed", "sending"}

BreaksLocks(w) ==
    /\ IsOff(w) /\ IsOff(w)'
    /\ \A e \in Events : \/ outbox'[e] = outbox[e]
                         \/ /\ outbox[e].status = "processing" /\ outbox[e].stale
                            /\ outbox'[e].status = "pending"
LeavesRows(w) == IsOff(w)' /\ UNCHANGED outbox
Takes(w, e) ==
    /\ IsOff(w) /\ dispatch'[w].step = "claimed" /\ dispatch'[w].event = e
    /\ outbox[e].status = "pending" /\ e \notin Broken
    /\ outbox'[e].status = "processing" /\ ~outbox'[e].stale /\ OnlyRow(e)
GoesOn(w, e) == Dispatches(w, e) /\ Dispatches(w, e)' /\ UNCHANGED outbox
Ends(w, e) ==
    /\ Dispatches(w, e) /\ IsOff(w)'
    /\ outbox'[e].status \in {"pending"} \cup Concluded /\ OnlyRow(e)
DropsBroken(w, e) ==
    /\ IsOff(w) /\ IsOff(w)' /\ e \in Broken
    /\ outbox'[e].status = "partial_failed" /\ OnlyRow(e)

WorkerDoes(w) ==
    \/ BreaksLocks(w) \/ LeavesRows(w)
    \/ \E e \in Events : Takes(w, e) \/ GoesOn(w, e) \/ Ends(w, e) \/ DropsBroken(w, e)

LEMMA WorkerEffects ==
    ASSUME Assumptions, TypeOK, NEW w \in Workers, Start(w) \/ Crash(w) \/ Work(w)
    PROVE  WorkerDoes(w)
<1> DEFINE d == dispatch[w]
<1>1. dispatch \in [Workers -> {Idle, Down} \cup Working] /\ d \in {Idle, Down} \cup Working
  BY DEF TypeOK
<1>2. At(w, "selected") \/ At(w, "claimed") \/ At(w, "sending") =>
        d \in Working /\ d.event \in Events /\ d.failed \in BOOLEAN
  BY <1>1, StepsOf, WorkingColumns DEF At
<1>3. \A x : Becomes(w, x) => dispatch'[w] = x
  BY <1>1 DEF Becomes
<1>4. Idle.step = "idle" /\ Down.step = "down"
  BY DEF Idle, Down
<1>5. \A x : Becomes(w, x) /\ x.step \notin {"claimed", "sending"} => IsOff(w)'
  BY <1>3 DEF IsOff
<1>6. ASSUME NEW e \in Events, NEW s, NEW row, row.status = s, outbox' = [outbox EXCEPT ![e] = row]
      PROVE  outbox'[e].status = s /\ OnlyRow(e)
  BY <1>6 DEF OnlyRow, TypeOK
<1>7. \A e \in Events : outbox[e] \in Rows
  BY DEF TypeOK
<1>8. ASSUME d \in Working, d.event \in Events, NEW s \in Concluded,
             outbox' = [outbox EXCEPT ![d.event].status = s, ![d.event].attempts = @ + 1]
      PROVE  outbox'[d.event].status = s /\ OnlyRow(d.event)
  BY <1>8, ConcludedRow
<1>9. ASSUME d \in Working, d.event \in Events, Retry(w)
      PROVE  outbox'[d.event].status \in {"pending"} \cup Concluded /\ OnlyRow(d.event)
  BY <1>9 DEF Retry, Concluded, OnlyRow, TypeOK
<1>10. d \in Working /\ d.event \in Events /\ FailNow(w) =>
         outbox'[d.event].status \in Concluded /\ OnlyRow(d.event)
  BY <1>8 DEF FailNow, Concluded
<1>11. ASSUME d \in Working, d.event \in Events, NEW b \in BOOLEAN, Finish(w, b)
       PROVE  outbox'[d.event].status = (IF b THEN "partial_failed" ELSE "sent") /\ OnlyRow(d.event)
  BY <1>8, <1>11 DEF Finish, Concluded
<1>12. CASE Start(w)
  <2>1. \A e \in Events : \/ outbox'[e] = outbox[e]
                          \/ /\ outbox[e].status = "processing" /\ outbox[e].stale
                             /\ outbox'[e].status = "pending"
    BY <1>12, <1>7 DEF Start, Rows
  <2>2. IsOff(w) /\ IsOff(w)'
    BY <1>12, <1>4, <1>5 DEF Start, At, IsOff
  <2> QED
    BY <2>1, <2>2 DEF WorkerDoes, BreaksLocks
<1>13. CASE Crash(w) \/ Select(w)
  <2>1. IsOff(w)'
    <3>1. CASE Crash(w)
      BY <3>1, <1>4, <1>5 DEF Crash
    <3>2. CASE Select(w)
      <4>1. \A e : Selected(e).step = "selected"
        BY DEF Selected
      <4> QED
        BY <3>2, <4>1, <1>5 DEF Select
    <3> QED
      BY <1>13, <3>1, <3>2
  <2> QED
    BY <2>1, <1>13 DEF Crash, Select, rows, WorkerDoes, LeavesRows
<1>14. CASE FinishBroken(w)
  <2>1. d \in Working /\ d.event \in Events /\ Finish(w, TRUE) /\ d.event \in Broken
    BY <1>14, <1>2 DEF FinishBroken
  <2>2. IsOff(w) /\ IsOff(w)'
    BY <1>14, <1>4, <1>5 DEF FinishBroken, At, IsOff
  <2> QED
    BY <2>1, <2>2, <1>11 DEF WorkerDoes, DropsBroken
<1>15. CASE Claim(w)
  <2>1. d \in Working /\ d.event \in Events /\ d.event \notin Broken /\ IsOff(w)
    BY <1>15, <1>2 DEF Claim, At, IsOff
  <2>2. CASE MayClaim(d.event)
    <3>1. /\ outbox' = [outbox EXCEPT ![d.event].status = "processing", ![d.event].stale = FALSE]
          /\ Becomes(w, [d EXCEPT !.step = "claimed"])
      BY <1>15, <2>2 DEF Claim
    <3>2. dispatch'[w].step = "claimed" /\ dispatch'[w].event = d.event
      BY <3>1, <2>1, <1>3 DEF Working
    <3>3. outbox'[d.event].status = "processing" /\ ~outbox'[d.event].stale /\ OnlyRow(d.event)
      BY <3>1, <2>1, <1>7 DEF OnlyRow, TypeOK, Rows
    <3> QED
      BY <2>1, <2>2, <3>2, <3>3 DEF WorkerDoes, Takes, MayClaim
  <2>3. CASE ~MayClaim(d.event)
    BY <1>15, <2>3, <1>4, <1>5 DEF Claim, WorkerDoes, LeavesRows
  <2> QED
    BY <2>2, <2>3
<1>16. CASE ReadTargets(w) \/ Send(w) \/ Invalidate(w)
  <2>1. d \in Working /\ d.event \in Events /\ Dispatches(w, d.event) /\ UNCHANGED outbox
    BY <1>16, <1>2 DEF ReadTargets, Send, Invalidate, Dispatches, At, rows
  <2>2. dispatch'[w].step = "sending" /\ dispatch'[w].event = d.event
    <3>1. ASSUME NEW x, x \in {[d EXCEPT !.step = "sending", !.left = Reachable(d.event)]}
          PROVE  x.step = "sending" /\ x.event = d.event
      BY <2>1, <3>1 DEF Working
    <3>2. CASE ReadTargets(w)
      BY <3>1, <3>2, <1>3 DEF ReadTargets
    <3>3. CASE Send(w)
      <4>1. PICK r \in d.left :
              \/ Accepted(w, r) \/ Unregistered(w, r) \/ CredentialRefused(w, r)
              \/ Unavailable(w, r) \/ AnswerLost(w, r)
        BY <3>3 DEF Send
      <4>2. d.step = "sending"
        BY <3>3 DEF Send, At
      <4>3. /\ [Without(w, r) EXCEPT !.sent = TRUE].step = d.step
            /\ [Without(w, r) EXCEPT !.sent = TRUE].event = d.event
            /\ [Without(w, r) EXCEPT !.failed = TRUE].step = d.step
            /\ [Without(w, r) EXCEPT !.failed = TRUE].event = d.event
        BY <2>1 DEF Without, Working
      <4>4. /\ [Without(w, r) EXCEPT !.failed = TRUE, !.dead = @ \cup {r}].step = d.step
            /\ [Without(w, r) EXCEPT !.failed = TRUE, !.dead = @ \cup {r}].event = d.event
            /\ [Without(w, r) EXCEPT !.failed = TRUE, !.blocked = TRUE].step = d.step
            /\ [Without(w, r) EXCEPT !.failed = TRUE, !.blocked = TRUE].event = d.event
        BY <2>1 DEF Without, Working
      <4> QED
        BY <4>1, <4>2, <4>3, <4>4, <1>3
        DEF Accepted, Unregistered, CredentialRefused, Unavailable, AnswerLost
    <3>4. CASE Invalidate(w)
      <4>1. PICK r \in d.dead : Becomes(w, [d EXCEPT !.dead = @ \ {r}])
        BY <3>4 DEF Invalidate
      <4> QED
        BY <4>1, <2>1, <1>3, <3>4 DEF Invalidate, At, Working
    <3> QED
      BY <1>16, <3>2, <3>3, <3>4
  <2> QED
    BY <2>1, <2>2 DEF WorkerDoes, GoesOn, Dispatches
<1>17. CASE TargetsUnread(w) \/ Conclude(w)
  <2>1. d \in Working /\ d.event \in Events /\ d.failed \in BOOLEAN /\ Dispatches(w, d.event)
    BY <1>17, <1>2 DEF TargetsUnread, Conclude, Dispatches, At
  <2>2. IsOff(w)'
    BY <1>17, <1>4, <1>5 DEF TargetsUnread, Conclude
  <2>3. Finish(w, d.failed) \/ FailNow(w) \/ Retry(w)
    BY <1>17 DEF TargetsUnread, Conclude
  <2>4. outbox'[d.event].status \in {"pending"} \cup Concluded /\ OnlyRow(d.event)
    BY <2>1, <2>3, <1>9, <1>10, <1>11 DEF Concluded
  <2> QED
    BY <2>1, <2>2, <2>4 DEF WorkerDoes, Ends
<1> QED
  BY <1>12, <1>13, <1>14, <1>15, <1>16, <1>17 DEF Work

(* The rows move by themselves as they become due and their locks old.     *)
LEMMA RowEffects ==
    ASSUME TypeOK, NEW e \in Events, Enqueue(e) \/ Due(e) \/ LockAges(e)
    PROVE  /\ OnlyRow(e)
           /\ \/ outbox[e].status = "absent" /\ outbox'[e].status = "pending"
              \/ outbox[e].status = "pending" /\ outbox'[e].status = "pending"
              \/ /\ outbox[e].status = "processing" /\ outbox'[e].status = "processing"
                 /\ SlowSends \/ \A w \in Workers : ~Dispatches(w, e)
<1>1. outbox[e] \in Rows
  BY DEF TypeOK
<1>2. CASE Enqueue(e)
  BY <1>2 DEF Enqueue, Queued, Unqueued, OnlyRow, TypeOK
<1>3. CASE Due(e)
  BY <1>1, <1>3 DEF Due, OnlyRow, TypeOK, Rows
<1>4. CASE LockAges(e)
  <2>1. e \notin Dispatched => \A w \in Workers : ~Dispatches(w, e)
    BY DEF Dispatched, Dispatches
  <2> QED
    BY <1>1, <1>4, <2>1 DEF LockAges, OnlyRow, TypeOK, Rows
<1> QED
  BY <1>2, <1>3, <1>4
DispatchInv == TypeOK /\ OneDispatcher /\ BrokenRows

LEMMA DispatchInit == ASSUME Assumptions, Init PROVE DispatchInv
<1>1. \A w \in Workers, e \in Events : ~Dispatches(w, e)
  BY DEF Init, Dispatches, Down
<1>2. BrokenRows
  BY DEF Init, BrokenRows, Unqueued, Assumptions, EventsAssumption
<1> QED
  BY <1>1, <1>2, TypeInit DEF DispatchInv, OneDispatcher

LEMMA DispatchStep ==
    ASSUME Assumptions, ~SlowSends, DispatchInv, [Next]_vars
    PROVE  DispatchInv'
<1>0. TypeOK /\ TypeOK'
  BY TypeStep DEF DispatchInv
<1>1. ASSUME NEW e \in Events, Enqueue(e) \/ Due(e) \/ LockAges(e)
      PROVE  (OneDispatcher /\ BrokenRows)'
  <2>1. UNCHANGED dispatch /\ OnlyRow(e)
    BY <1>0, <1>1, RowFrame, RowEffects
  <2>2. \/ outbox[e].status = "absent" /\ outbox'[e].status = "pending"
        \/ outbox[e].status = "pending" /\ outbox'[e].status = "pending"
        \/ outbox[e].status = "processing" /\ \A w \in Workers : ~Dispatches(w, e)
    BY <1>0, <1>1, RowEffects
  <2>3. \A w \in Workers, f \in Events : Dispatches(w, f)' = Dispatches(w, f)
    BY <2>1 DEF Dispatches
  <2>4. \A w \in Workers : ~Dispatches(w, e)
    BY <2>2 DEF DispatchInv, OneDispatcher
  <2>5. OneDispatcher'
    BY <2>1, <2>3, <2>4 DEF DispatchInv, OneDispatcher, OnlyRow
  <2>6. BrokenRows'
    BY <2>1, <2>2 DEF DispatchInv, BrokenRows, OnlyRow, Assumptions, EventsAssumption
  <2> QED
    BY <2>5, <2>6
<1>2. ASSUME NEW w \in Workers, Start(w) \/ Crash(w) \/ Work(w)
      PROVE  (OneDispatcher /\ BrokenRows)'
  <2>1. OnlyWorker(w) /\ WorkerDoes(w)
    BY <1>0, <1>2, OneWorker, WorkerEffects
  <2>2. \A v \in Workers \ {w}, e \in Events : Dispatches(v, e)' = Dispatches(v, e)
    BY <2>1 DEF OnlyWorker, Dispatches
  <2>3. \A e \in Events : IsOff(w)' => ~Dispatches(w, e)'
    BY DEF IsOff, Dispatches
  <2>4. \A e \in Events : Dispatches(w, e) => e \notin Broken
    BY DEF DispatchInv, OneDispatcher
  <2>5. CASE BreaksLocks(w)
    <3>1. \A v \in Workers, e \in Events : Dispatches(v, e) => outbox'[e] = outbox[e]
      BY <2>5 DEF BreaksLocks, DispatchInv, OneDispatcher
    <3>2. OneDispatcher'
      BY <2>2, <2>3, <2>5, <3>1 DEF BreaksLocks, DispatchInv, OneDispatcher
    <3>3. BrokenRows'
      BY <2>5 DEF BreaksLocks, DispatchInv, BrokenRows, Assumptions, EventsAssumption
    <3> QED
      BY <3>2, <3>3
  <2>6. CASE LeavesRows(w)
    BY <2>2, <2>3, <2>6 DEF LeavesRows, DispatchInv, OneDispatcher, BrokenRows
  <2>7. ASSUME NEW e \in Events, Takes(w, e) PROVE (OneDispatcher /\ BrokenRows)'
    <3>1. \A v \in Workers : ~Dispatches(v, e)
      BY <2>7 DEF Takes, DispatchInv, OneDispatcher
    <3>2. \A f \in Events : Dispatches(w, f)' => f = e
      BY <2>7 DEF Takes, Dispatches
    <3>3. OneDispatcher'
      BY <2>2, <2>7, <3>1, <3>2 DEF Takes, OnlyRow, DispatchInv, OneDispatcher
    <3>4. BrokenRows'
      BY <2>7 DEF Takes, OnlyRow, DispatchInv, BrokenRows, Assumptions, EventsAssumption
    <3> QED
      BY <3>3, <3>4
  <2>8. ASSUME NEW e \in Events, GoesOn(w, e) PROVE (OneDispatcher /\ BrokenRows)'
    <3>1. \A f \in Events : Dispatches(w, f)' = Dispatches(w, f)
      BY <2>8 DEF GoesOn, Dispatches
    <3> QED
      BY <2>2, <2>8, <3>1 DEF GoesOn, DispatchInv, OneDispatcher, BrokenRows
  <2>9. ASSUME NEW e \in Events, Ends(w, e) PROVE (OneDispatcher /\ BrokenRows)'
    <3>1. \A v \in Workers : Dispatches(v, e) => v = w
      BY <2>9 DEF Ends, DispatchInv, OneDispatcher
    <3>2. \A v \in Workers : ~Dispatches(v, e)'
      BY <2>2, <2>3, <2>9, <3>1 DEF Ends
    <3>3. OneDispatcher'
      BY <2>2, <2>3, <2>9, <3>2 DEF Ends, OnlyRow, DispatchInv, OneDispatcher
    <3>4. BrokenRows'
      BY <2>4, <2>9 DEF Ends, OnlyRow, DispatchInv, BrokenRows, Assumptions, EventsAssumption
    <3> QED
      BY <3>3, <3>4
  <2>10. ASSUME NEW e \in Events, DropsBroken(w, e) PROVE (OneDispatcher /\ BrokenRows)'
    <3>1. \A v \in Workers : ~Dispatches(v, e)
      BY <2>10 DEF DropsBroken, DispatchInv, OneDispatcher
    <3>2. OneDispatcher'
      BY <2>2, <2>3, <2>10, <3>1 DEF DropsBroken, OnlyRow, DispatchInv, OneDispatcher
    <3>3. BrokenRows'
      BY <2>10 DEF DropsBroken, OnlyRow, DispatchInv, BrokenRows, Assumptions, EventsAssumption
    <3> QED
      BY <3>2, <3>3
  <2> QED
    BY <2>1, <2>5, <2>6, <2>7, <2>8, <2>9, <2>10 DEF WorkerDoes
<1>3. CASE PhoneStep \/ UNCHANGED vars
  <2>1. UNCHANGED <<outbox, dispatch>>
    BY <1>3, PhoneFrame DEF vars
  <2>2. \A w \in Workers, e \in Events : Dispatches(w, e)' = Dispatches(w, e)
    BY <2>1 DEF Dispatches
  <2>3. OneDispatcher'
    BY <2>1, <2>2 DEF DispatchInv, OneDispatcher
  <2>4. BrokenRows'
    BY <2>1 DEF DispatchInv, BrokenRows
  <2> QED
    BY <1>0, <2>3, <2>4 DEF DispatchInv
<1> QED
  BY <1>0, <1>1, <1>2, <1>3, NextSteps DEF DispatchInv

(* An event has one dispatcher at a time, and its row is then in           *)
(* processing; a lock that is broken was of a dispatcher that is gone.     *)
THEOREM DispatchInvariant ==
    ASSUME Assumptions, ~SlowSends
    PROVE  Spec => []DispatchInv
  BY DispatchInit, DispatchStep, PTL DEF Spec

(* ConcludedEventsStay: no worker that selected a row earlier puts it back *)
(* or concludes it differently.                                            *)
LEMMA ConcludedStep ==
    ASSUME Assumptions, ~SlowSends, DispatchInv, [Next]_vars, NEW e \in Events,
           outbox[e].status \in Concluded
    PROVE  outbox'[e].status = outbox[e].status
<1>0. TypeOK /\ \A w \in Workers : ~Dispatches(w, e)
  BY DEF DispatchInv, OneDispatcher, Concluded
<1>1. ASSUME NEW f \in Events, Enqueue(f) \/ Due(f) \/ LockAges(f)
      PROVE  outbox'[e].status = outbox[e].status
  BY <1>0, <1>1, RowEffects DEF OnlyRow, Concluded
<1>2. ASSUME NEW w \in Workers, Start(w) \/ Crash(w) \/ Work(w)
      PROVE  outbox'[e].status = outbox[e].status
  <2>1. WorkerDoes(w)
    BY <1>0, <1>2, WorkerEffects
  <2>2. BreaksLocks(w) \/ LeavesRows(w) => outbox'[e].status = outbox[e].status
    BY DEF BreaksLocks, LeavesRows, Concluded
  <2>3. ASSUME NEW f \in Events, Takes(w, f) \/ GoesOn(w, f) \/ Ends(w, f)
        PROVE  outbox'[e].status = outbox[e].status
    BY <1>0, <2>3 DEF Takes, GoesOn, Ends, OnlyRow, Concluded
  <2>4. ASSUME NEW f \in Events, DropsBroken(w, f)
        PROVE  outbox'[e].status = outbox[e].status
    BY <2>4 DEF DropsBroken, OnlyRow, Concluded, DispatchInv, BrokenRows
  <2> QED
    BY <2>1, <2>2, <2>3, <2>4 DEF WorkerDoes
<1>3. PhoneStep \/ UNCHANGED vars => outbox'[e].status = outbox[e].status
  BY PhoneFrame DEF vars
<1> QED
  BY <1>1, <1>2, <1>3, NextSteps

(* ConcludedEventsStay: no late result, retry or broken lock takes back    *)
(* that an event was sent, sent in part or given up.                       *)
THEOREM ConcludedEventsStayHolds ==
    ASSUME Assumptions, ~SlowSends
    PROVE  Spec => ConcludedEventsStay
<1>1. DispatchInv /\ [Next]_vars =>
        [\A e \in Events : outbox[e].status \in Concluded => outbox'[e].status = outbox[e].status]_vars
  BY ConcludedStep
<1> QED
  BY <1>1, DispatchInvariant, PTL DEF Spec, ConcludedEventsStay
-----------------------------------------------------------------------------
(***************************************************************************)
(* Tokens, and the phones that have them                                   *)
(*                                                                         *)
(* A phone's tokens come one after the other.  What a dispatcher has to    *)
(* send to was given to its phone at some time, and what it found dead was *)
(* replaced since: it cannot become good again.                            *)
(***************************************************************************)
IsBusy(w) == dispatch[w].step \in {"selected", "claimed", "sending"}

TokensWereGiven ==
    /\ \A r \in tokens \cup saved \cup registering : r[2] <= device[r[1]]
    /\ \A w \in Workers : IsBusy(w) => \A r \in dispatch[w].left : r[2] <= device[r[1]]

DeadAreReplaced ==
    \A w \in Workers : IsBusy(w) => \A r \in dispatch[w].dead : r[2] < device[r[1]]

RevokedAreInactive == revoking \cap active = {}

(* Whoever a dispatch still has to reach was active when it began, or is   *)
(* among those that were being sent to when they were revoked.             *)
ReachedWereExposed ==
    \A w \in Workers : IsBusy(w) =>
        \A r \in dispatch[w].left : r[1] \in active \/ dispatch[w].event \in exposed[r[1]]

(* Only a dispatch that sends has something to do.                         *)
OnlySendersHaveTasks ==
    \A w \in Workers : IsBusy(w) /\ ~At(w, "sending") =>
        dispatch[w].left = {} /\ dispatch[w].dead = {}

TokenInv ==
    /\ TypeOK /\ TokensWereGiven /\ DeadAreReplaced /\ RevokedAreInactive
    /\ ReachedWereExposed /\ OnlySendersHaveTasks /\ GoodTokensStay

(* One answer of a provider.                                               *)
SendsTo(w, r) ==
    /\ r \in dispatch[w].left
    /\ dispatch'[w].step = "sending" /\ dispatch'[w].event = dispatch[w].event
    /\ dispatch'[w].left = dispatch[w].left \ {r}
    /\ \/ dispatch'[w].dead = dispatch[w].dead
       \/ dispatch'[w].dead = dispatch[w].dead \cup {r} /\ ~Knows(r)
    /\ \/ UNCHANGED <<received, faults>> /\ dispatch'[w].sent = dispatch[w].sent
       \/ Knows(r) /\ Gets(w, r) /\ UNCHANGED faults /\ dispatch'[w].sent
       \/ Knows(r) /\ Gets(w, r) /\ faults' = faults + 1 /\ dispatch'[w].sent = dispatch[w].sent

LEMMA SendEffects ==
    ASSUME TypeOK, NEW w \in Workers, Send(w)
    PROVE  \E r \in dispatch[w].left : SendsTo(w, r)
<1> DEFINE d == dispatch[w]
<1>1. d \in Working /\ d.step = "sending"
  BY StepsOf DEF Send, At, TypeOK
<1>2. \A x : Becomes(w, x) => dispatch'[w] = x
  BY DEF Becomes, TypeOK
<1>3. PICK r \in d.left :
        \/ Accepted(w, r) \/ Unregistered(w, r) \/ CredentialRefused(w, r)
        \/ Unavailable(w, r) \/ AnswerLost(w, r)
  BY DEF Send
<1>4. CASE Accepted(w, r)
  <2>1. dispatch'[w] = [Without(w, r) EXCEPT !.sent = TRUE]
    BY <1>4, <1>2 DEF Accepted
  <2> QED
    BY <2>1, <1>1, <1>3, <1>4 DEF Accepted, SendsTo, Without, Working
<1>5. CASE Unregistered(w, r)
  <2>1. dispatch'[w] = [Without(w, r) EXCEPT !.failed = TRUE, !.dead = @ \cup {r}]
    BY <1>5, <1>2 DEF Unregistered
  <2> QED
    BY <2>1, <1>1, <1>3, <1>5 DEF Unregistered, SendsTo, Without, Working
<1>6. CASE CredentialRefused(w, r)
  <2>1. dispatch'[w] = [Without(w, r) EXCEPT !.failed = TRUE, !.blocked = TRUE]
    BY <1>6, <1>2 DEF CredentialRefused
  <2> QED
    BY <2>1, <1>1, <1>3, <1>6 DEF CredentialRefused, SendsTo, Without, Working
<1>7. CASE Unavailable(w, r)
  <2>1. dispatch'[w] = [Without(w, r) EXCEPT !.failed = TRUE]
    BY <1>7, <1>2 DEF Unavailable
  <2> QED
    BY <2>1, <1>1, <1>3, <1>7 DEF Unavailable, SendsTo, Without, Working
<1>8. CASE AnswerLost(w, r)
  <2>1. dispatch'[w] = [Without(w, r) EXCEPT !.failed = TRUE]
    BY <1>8, <1>2 DEF AnswerLost
  <2> QED
    BY <2>1, <1>1, <1>3, <1>8 DEF AnswerLost, SendsTo, Without, Working
<1> QED
  BY <1>3, <1>4, <1>5, <1>6, <1>7, <1>8

(* What a worker has to do after a step, other than to send.               *)
LEMMA TaskEffects ==
    ASSUME TypeOK, NEW w \in Workers, Start(w) \/ Crash(w) \/ Work(w), ~Send(w)
    PROVE  \/ ~IsBusy(w)'
           \/ /\ dispatch'[w].left = {} /\ dispatch'[w].dead = {} /\ dispatch'[w].step = "selected"
           \/ /\ At(w, "selected") /\ dispatch'[w].left = dispatch[w].left
              /\ dispatch'[w].dead = dispatch[w].dead /\ dispatch'[w].step = "claimed"
              /\ dispatch'[w].event = dispatch[w].event
           \/ /\ At(w, "claimed") /\ dispatch'[w].left = Reachable(dispatch[w].event)
              /\ dispatch'[w].dead = dispatch[w].dead /\ dispatch'[w].step = "sending"
              /\ dispatch'[w].event = dispatch[w].event
           \/ /\ At(w, "sending") /\ dispatch'[w].left = dispatch[w].left
              /\ dispatch'[w].step = "sending" /\ dispatch'[w].event = dispatch[w].event
              /\ \E r \in dispatch[w].dead : dispatch'[w].dead = dispatch[w].dead \ {r}
<1> DEFINE d == dispatch[w]
<1>1. dispatch \in [Workers -> {Idle, Down} \cup Working] /\ d \in {Idle, Down} \cup Working
  BY DEF TypeOK
<1>2. At(w, "selected") \/ At(w, "claimed") \/ At(w, "sending") => d \in Working
  BY <1>1, StepsOf DEF At
<1>3. \A x : Becomes(w, x) => dispatch'[w] = x
  BY <1>1 DEF Becomes
<1>4. Becomes(w, Idle) \/ Becomes(w, Down) => ~IsBusy(w)'
  BY <1>3 DEF IsBusy, Idle, Down
<1>5. CASE Start(w) \/ Crash(w) \/ FinishBroken(w) \/ TargetsUnread(w) \/ Conclude(w)
  BY <1>4, <1>5 DEF Start, Crash, FinishBroken, TargetsUnread, Conclude
<1>6. CASE Select(w)
  <2>1. PICK e \in Events : dispatch'[w] = Selected(e)
    BY <1>3, <1>6 DEF Select
  <2> QED
    BY <2>1 DEF Selected
<1>7. CASE Claim(w)
  <2>1. d \in Working /\ (dispatch'[w] = [d EXCEPT !.step = "claimed"] \/ Becomes(w, Idle))
    BY <1>2, <1>3, <1>7 DEF Claim
  <2> QED
    BY <2>1, <1>4, <1>7 DEF Claim, Working
<1>8. CASE ReadTargets(w)
  <2>1. d \in Working /\ dispatch'[w] = [d EXCEPT !.step = "sending", !.left = Reachable(d.event)]
    BY <1>2, <1>3, <1>8 DEF ReadTargets
  <2> QED
    BY <2>1, <1>8 DEF ReadTargets, Working
<1>9. CASE Invalidate(w)
  <2>1. PICK r \in d.dead : dispatch'[w] = [d EXCEPT !.dead = @ \ {r}]
    BY <1>3, <1>9 DEF Invalidate
  <2>2. d \in Working
    BY <1>2, <1>9 DEF Invalidate
  <2> QED
    BY <2>1, <2>2, <1>9 DEF Invalidate, At, Working
<1> QED
  BY <1>5, <1>6, <1>7, <1>8, <1>9 DEF Work
LEMMA TokenInit == ASSUME Assumptions, Init PROVE TokenInv
<1>1. \A w \in Workers : ~IsBusy(w)
  BY DEF Init, IsBusy, Down
<1> QED
  BY <1>1, TypeInit DEF Init, TokenInv, TokensWereGiven, DeadAreReplaced, RevokedAreInactive,
     ReachedWereExposed, OnlySendersHaveTasks, GoodTokensStay

(* A worker changes nothing of the phones, and gives up dead tokens only.  *)
LEMMA TokenWorkerStep ==
    ASSUME Assumptions, TokenInv, NEW w \in Workers, Start(w) \/ Crash(w) \/ Work(w)
    PROVE  TokenInv'
<1>0. TypeOK /\ TypeOK'
  BY TypeStep DEF TokenInv, Next
<1>1. UNCHANGED <<active, registering, revoking, device, saved, exposed>>
  BY WorkerFrame
<1>2. OnlyWorker(w)
  BY <1>0, OneWorker
<1>3. \A v \in Workers \ {w} : dispatch'[v] = dispatch[v]
  BY <1>2 DEF OnlyWorker
<1>4. tokens' \subseteq tokens
  BY WorkerFrame DEF Invalidate
<1>5. \A r \in Recipients : r \in tokens /\ r \notin tokens' => ~Knows(r)
  <2>1. CASE Invalidate(w)
    <3>1. PICK r \in dispatch[w].dead : tokens' = tokens \ {r}
      BY <2>1 DEF Invalidate, Invalidated
    <3>2. IsBusy(w)
      BY <2>1 DEF Invalidate, At, IsBusy
    <3>3. dispatch[w].dead \subseteq Recipients
      BY <1>0, <3>2, StepsOf, WorkingColumns DEF IsBusy, TypeOK
    <3>4. r[2] < device[r[1]] /\ r[2] \in Nat /\ device[r[1]] \in Nat
      BY <1>0, <3>1, <3>2, <3>3, RecipientParts, Numbers DEF TokenInv, DeadAreReplaced, TypeOK
    <3>5. ~Knows(r)
      BY <3>4 DEF Knows
    <3> QED
      BY <3>1, <3>5
  <2>2. CASE ~Invalidate(w)
    BY <2>2, WorkerFrame
  <2> QED
    BY <2>1, <2>2
<1>6. GoodTokensStay'
  <2>1. \A r : Knows(r)' = Knows(r)
    BY <1>1 DEF Knows
  <2>2. saved \subseteq Recipients
    BY <1>0 DEF TypeOK
  <2> QED
    BY <1>1, <1>5, <2>1, <2>2 DEF TokenInv, GoodTokensStay
<1>7. RevokedAreInactive'
  BY <1>1 DEF TokenInv, RevokedAreInactive
<1> DEFINE
      Given(v) == IsBusy(v) => \A r \in dispatch[v].left : r[2] <= device[r[1]]
      Replaced(v) == IsBusy(v) => \A r \in dispatch[v].dead : r[2] < device[r[1]]
      Exposed(v) == IsBusy(v) =>
        \A r \in dispatch[v].left : r[1] \in active \/ dispatch[v].event \in exposed[r[1]]
      Tasks(v) == IsBusy(v) /\ ~At(v, "sending") => dispatch[v].left = {} /\ dispatch[v].dead = {}
<1>8. \A v \in Workers : Given(v) /\ Replaced(v) /\ Exposed(v) /\ Tasks(v)
  BY DEF TokenInv, TokensWereGiven, DeadAreReplaced, ReachedWereExposed, OnlySendersHaveTasks
<1>9. ASSUME NEW v \in Workers, v # w PROVE (Given(v) /\ Replaced(v) /\ Exposed(v) /\ Tasks(v))'
  <2>1. dispatch'[v] = dispatch[v]
    BY <1>3, <1>9
  <2> QED
    BY <1>1, <1>8, <2>1 DEF IsBusy, At
<1>10. (Given(w) /\ Replaced(w) /\ Exposed(w) /\ Tasks(w))'
  <2>1. CASE Send(w)
    <3>1. PICK r \in dispatch[w].left : SendsTo(w, r)
      BY <1>0, <2>1, SendEffects
    <3>2. IsBusy(w) /\ IsBusy(w)' /\ At(w, "sending")'
      BY <2>1, <3>1 DEF Send, At, IsBusy, SendsTo
    <3>3. r[2] <= device[r[1]]
      BY <1>8, <3>1, <3>2
    <3>4. r \in Recipients
      BY <1>0, <3>1, <3>2, StepsOf, WorkingColumns DEF IsBusy, TypeOK
    <3>5. r[2] \in Nat /\ device[r[1]] \in Nat
      BY <1>0, <3>4, RecipientParts, Numbers DEF TypeOK
    <3>6. ~Knows(r) => r[2] < device[r[1]]
      BY <3>3, <3>5 DEF Knows
    <3>7. Given(w)' /\ Exposed(w)' /\ Tasks(w)'
      BY <1>1, <1>8, <3>1, <3>2 DEF SendsTo
    <3>8. Replaced(w)'
      BY <1>1, <1>8, <3>1, <3>2, <3>6 DEF SendsTo
    <3> QED
      BY <3>7, <3>8
  <2>2. CASE ~Send(w)
    <3>1. Reachable(dispatch[w].event) \subseteq tokens
      BY DEF Reachable
    <3>2. \A r \in Reachable(dispatch[w].event) : r[2] <= device[r[1]] /\ r[1] \in active
      BY <3>1 DEF TokenInv, TokensWereGiven, Reachable
    <3>3. At(w, "selected") \/ At(w, "claimed") \/ At(w, "sending") => IsBusy(w)
      BY DEF At, IsBusy
    <3>4. At(w, "selected") \/ At(w, "claimed") => dispatch[w].left = {} /\ dispatch[w].dead = {}
      BY <1>8, <3>3 DEF At
    <3>5. Given(w)'
      BY <1>0, <1>1, <1>8, <2>2, <3>2, <3>3, <3>4, TaskEffects
    <3>6. Replaced(w)'
      BY <1>0, <1>1, <1>8, <2>2, <3>3, <3>4, TaskEffects
    <3>7. Exposed(w)'
      BY <1>0, <1>1, <1>8, <2>2, <3>2, <3>3, <3>4, TaskEffects
    <3>8. Tasks(w)'
      BY <1>0, <1>8, <2>2, <3>4, TaskEffects DEF At
    <3> QED
      BY <3>5, <3>6, <3>7, <3>8
  <2> QED
    BY <2>1, <2>2
<1>11. \A v \in Workers : (Given(v) /\ Replaced(v) /\ Exposed(v) /\ Tasks(v))'
  BY <1>9, <1>10
<1>12. TokensWereGiven'
  BY <1>1, <1>4, <1>11 DEF TokenInv, TokensWereGiven
<1>13. DeadAreReplaced' /\ ReachedWereExposed' /\ OnlySendersHaveTasks'
  BY <1>11 DEF DeadAreReplaced, ReachedWereExposed, OnlySendersHaveTasks
<1> QED
  BY <1>0, <1>6, <1>7, <1>12, <1>13 DEF TokenInv

(* A phone's token only rises, and an inactive phone stays inactive.       *)
LEMMA TokenPhoneStep ==
    ASSUME Assumptions, TokenInv, PhoneStep
    PROVE  TokenInv'
<1>0. TypeOK /\ TypeOK' /\ UNCHANGED dispatch
  BY TypeStep, PhoneFrame DEF TokenInv, Next, PhoneStep
<1>1. \A v \in Workers : IsBusy(v)' = IsBusy(v) /\ (At(v, "sending")' = At(v, "sending"))
  BY <1>0 DEF IsBusy, At
<1>2. \A v \in Workers : IsBusy(v) =>
        /\ dispatch[v].left \subseteq Recipients /\ dispatch[v].dead \subseteq Recipients
        /\ dispatch[v].event \in Events
  BY <1>0, StepsOf, WorkingColumns DEF IsBusy, TypeOK
<1>3. OnlySendersHaveTasks'
  BY <1>0, <1>1 DEF TokenInv, OnlySendersHaveTasks
<1>4. \A p \in Phones : device[p] \in Nat /\ device'[p] \in Nat
  BY <1>0, Numbers DEF TypeOK
<1>5. \A r \in Recipients : r[1] \in Phones /\ r[2] \in Nat
  BY RecipientParts, Numbers
<1>6. ASSUME \A p \in Phones : device[p] <= device'[p],
             \A r \in tokens' \cup saved' \cup registering' :
               r \in tokens \cup saved \cup registering \/ r[2] <= device'[r[1]]
      PROVE  TokensWereGiven' /\ DeadAreReplaced'
  <2>1. \A r \in Recipients : r[2] <= device[r[1]] => r[2] <= device'[r[1]]
    BY <1>4, <1>5, <1>6
  <2>2. \A r \in Recipients : r[2] < device[r[1]] => r[2] < device'[r[1]]
    BY <1>4, <1>5, <1>6
  <2>3. tokens \cup saved \cup registering \subseteq Recipients
    BY <1>0 DEF TypeOK
  <2>4. TokensWereGiven'
    BY <1>0, <1>1, <1>2, <1>6, <2>1, <2>3 DEF TokenInv, TokensWereGiven
  <2>5. DeadAreReplaced'
    BY <1>0, <1>1, <1>2, <2>2 DEF TokenInv, DeadAreReplaced
  <2> QED
    BY <2>4, <2>5
<1>7. UNCHANGED <<active, exposed>> => ReachedWereExposed'
  BY <1>0, <1>1 DEF TokenInv, ReachedWereExposed
<1>8. ASSUME NEW p \in Phones, NewToken(p) \/ Removed(p) PROVE TokenInv'
  <2>1. /\ \/ device' = [device EXCEPT ![p] = @ + 1]
           \/ device' = [device EXCEPT ![p] = MaxTokens + 1] /\ device[p] <= MaxTokens
        /\ UNCHANGED <<tokens, saved, registering, active, revoking, exposed>>
    BY <1>8, <1>4, Numbers DEF NewToken, Removed, rows, requests
  <2>2. \A q \in Phones : device[q] <= device'[q] /\ (device'[q] = device[q] \/ (q = p /\ device[p] < device'[p]))
    BY <1>0, <1>4, <2>1, Numbers DEF TypeOK
  <2>3. TokensWereGiven' /\ DeadAreReplaced'
    BY <1>6, <2>1, <2>2
  <2>4. GoodTokensStay'
    <3>1. ASSUME NEW r \in saved, r[1] \in active, Knows(r)' PROVE r \in tokens
      <4>1. r \in Recipients /\ r[2] <= device[r[1]]
        BY <1>0 DEF TypeOK, TokenInv, TokensWereGiven
      <4>2. device'[r[1]] = r[2] /\ r[1] \in Phones /\ r[2] \in Nat
        BY <3>1, <4>1, <1>5 DEF Knows
      <4>3. device[r[1]] = r[2]
        BY <4>1, <4>2, <2>2, <1>4
      <4> QED
        BY <3>1, <4>3 DEF Knows, TokenInv, GoodTokensStay
    <3> QED
      BY <2>1, <3>1 DEF GoodTokensStay
  <2>5. RevokedAreInactive'
    BY <2>1 DEF TokenInv, RevokedAreInactive
  <2> QED
    BY <1>0, <1>3, <1>7, <2>1, <2>3, <2>4, <2>5 DEF TokenInv
<1>9. ASSUME NEW p \in Phones, Register(p) PROVE TokenInv'
  <2>1. /\ registering' = registering \cup {<<p, device[p]>>}
        /\ UNCHANGED <<tokens, saved, active, revoking, exposed, device>>
    BY <1>9 DEF Register, rows
  <2>2. TokensWereGiven' /\ DeadAreReplaced'
    BY <1>4, <1>6, <2>1
  <2>3. GoodTokensStay' /\ RevokedAreInactive'
    BY <2>1 DEF TokenInv, GoodTokensStay, RevokedAreInactive, Knows
  <2> QED
    BY <1>0, <1>3, <1>7, <2>1, <2>2, <2>3 DEF TokenInv
<1>10. ASSUME NEW r \in registering, Registered(r) PROVE TokenInv'
  <2>1. /\ registering' = registering \ {r} /\ tokens' = tokens \cup {r} /\ saved' = saved \cup {r}
        /\ UNCHANGED <<active, revoking, exposed, device>>
    BY <1>10 DEF Registered
  <2>2. TokensWereGiven' /\ DeadAreReplaced'
    BY <1>4, <1>6, <2>1
  <2>3. GoodTokensStay' /\ RevokedAreInactive'
    BY <2>1 DEF TokenInv, GoodTokensStay, RevokedAreInactive, Knows
  <2> QED
    BY <1>0, <1>3, <1>7, <2>1, <2>2, <2>3 DEF TokenInv
<1>11. ASSUME NEW p \in Phones, Revoke(p) PROVE TokenInv'
  <2>1. /\ active' = active \ {p} /\ revoking' = revoking \cup {p}
        /\ exposed' = [exposed EXCEPT ![p] = Dispatched]
        /\ UNCHANGED <<tokens, saved, registering, device>>
    BY <1>11 DEF Revoke
  <2>2. TokensWereGiven' /\ DeadAreReplaced'
    BY <1>4, <1>6, <2>1
  <2>3. GoodTokensStay' /\ RevokedAreInactive'
    BY <2>1 DEF TokenInv, GoodTokensStay, RevokedAreInactive, Knows
  <2>4. ReachedWereExposed'
    <3>1. ASSUME NEW v \in Workers, IsBusy(v), NEW r \in dispatch[v].left
          PROVE  r[1] \in active' \/ dispatch[v].event \in exposed'[r[1]]
      <4>1. r[1] \in Phones /\ (r[1] \in active \/ dispatch[v].event \in exposed[r[1]])
        BY <1>2, <1>5, <3>1 DEF TokenInv, ReachedWereExposed
      <4>2. dispatch[v].event \in Dispatched
        <5>1. At(v, "sending")
          BY <3>1 DEF TokenInv, OnlySendersHaveTasks
        <5> QED
          BY <5>1 DEF At, Dispatched
      <4> QED
        BY <1>0, <2>1, <4>1, <4>2 DEF TypeOK
    <3> QED
      BY <1>0, <1>1, <3>1 DEF ReachedWereExposed
  <2> QED
    BY <1>0, <1>3, <2>2, <2>3, <2>4 DEF TokenInv
<1>12. ASSUME NEW p \in Phones, RevokeTokens(p) PROVE TokenInv'
  <2>1. /\ p \in revoking /\ revoking' = revoking \ {p}
        /\ tokens' \in {tokens, {r \in tokens : r[1] # p}}
        /\ UNCHANGED <<active, saved, registering, device, exposed>>
    BY <1>12 DEF RevokeTokens
  <2>2. TokensWereGiven' /\ DeadAreReplaced'
    BY <1>4, <1>6, <2>1
  <2>3. p \notin active
    BY <2>1 DEF TokenInv, RevokedAreInactive
  <2>4. RevokedAreInactive'
    BY <2>1 DEF TokenInv, RevokedAreInactive
  <2>5. GoodTokensStay'
    <3>1. \A r \in saved : r[1] \in active /\ Knows(r) => r \in tokens'
      BY <2>1, <2>3 DEF TokenInv, GoodTokensStay
    <3>2. \A r : Knows(r)' = Knows(r)
      BY <2>1 DEF Knows
    <3> QED
      BY <2>1, <3>1, <3>2 DEF GoodTokensStay
  <2> QED
    BY <1>0, <1>3, <1>7, <2>1, <2>2, <2>4, <2>5 DEF TokenInv
<1> QED
  BY <1>8, <1>9, <1>10, <1>11, <1>12 DEF PhoneStep

LEMMA TokenStep == ASSUME Assumptions, TokenInv, [Next]_vars PROVE TokenInv'
<1>0. TypeOK /\ TypeOK'
  BY TypeStep DEF TokenInv
<1>1. ASSUME UNCHANGED <<tokens, active, registering, revoking, device, dispatch, saved, exposed>>
      PROVE  TokenInv'
  <2>1. TokensWereGiven' /\ DeadAreReplaced' /\ RevokedAreInactive' /\ ReachedWereExposed'
    BY <1>1 DEF TokenInv, TokensWereGiven, DeadAreReplaced, RevokedAreInactive,
       ReachedWereExposed, IsBusy
  <2>2. OnlySendersHaveTasks' /\ GoodTokensStay'
    BY <1>1 DEF TokenInv, OnlySendersHaveTasks, GoodTokensStay, IsBusy, At, Knows
  <2> QED
    BY <1>0, <2>1, <2>2 DEF TokenInv
<1>2. \A e \in Events : Enqueue(e) \/ Due(e) \/ LockAges(e) => TokenInv'
  BY <1>1, RowFrame
<1>3. UNCHANGED vars => TokenInv'
  BY <1>1 DEF vars
<1> QED
  BY <1>2, <1>3, NextSteps, TokenWorkerStep, TokenPhoneStep

(* The inductive invariant of the tokens, for every constant, slow sends   *)
(* included.                                                               *)
THEOREM TokenInvariant == ASSUME Assumptions PROVE Spec => []TokenInv
  BY TokenInit, TokenStep, PTL DEF Spec

(* GoodTokensStay: the token that the app of an active phone has stays in  *)
(* the table once it is there, whatever was sent to its older tokens, and  *)
(* whatever a provider refused for the key.                                *)
THEOREM GoodTokensStayHolds == ASSUME Assumptions PROVE Spec => []GoodTokensStay
<1>1. TokenInv => GoodTokensStay
  BY DEF TokenInv
<1> QED
  BY <1>1, TokenInvariant, PTL

(* NothingAfterRevocation: a revoked phone gets only what was being sent   *)
(* when it was revoked, even if a registration of it was under way then.   *)
LEMMA RevocationStep ==
    ASSUME Assumptions, TokenInv, [Next]_vars, NEW e \in Events, NEW p \in Phones,
           received'[e][p] # received[e][p], p \notin active
    PROVE  e \in exposed[p]
<1>0. TypeOK
  BY DEF TokenInv
<1>1. PICK w \in Workers : Send(w)
  <2>1. \A w \in Workers : Start(w) \/ Crash(w) \/ Work(w) => Send(w) \/ UNCHANGED received
    BY DEF Start, Crash, Work, Select, FinishBroken, Claim, ReadTargets, TargetsUnread,
       Invalidate, Conclude
  <2> QED
    BY <2>1, NextSteps, RowFrame, PhoneFrame DEF vars
<1>2. PICK r \in dispatch[w].left : SendsTo(w, r)
  BY <1>0, <1>1, SendEffects
<1>3. IsBusy(w) /\ Gets(w, r)
  BY <1>1, <1>2 DEF SendsTo, Send, At, IsBusy
<1>4. r \in Recipients /\ dispatch[w].event \in Events
  BY <1>0, <1>2, <1>3, StepsOf, WorkingColumns DEF IsBusy, TypeOK
<1>5. e = dispatch[w].event /\ p = r[1]
  BY <1>0, <1>3, <1>4, RecipientParts DEF Gets, TypeOK
<1> QED
  BY <1>2, <1>3, <1>5 DEF TokenInv, ReachedWereExposed

(* NothingAfterRevocation: a phone that is revoked gets only what a        *)
(* dispatcher had read its tokens for before, slow sends included.         *)
THEOREM NothingAfterRevocationHolds == ASSUME Assumptions PROVE Spec => NothingAfterRevocation
<1>1. TokenInv /\ [Next]_vars =>
        [\A e \in Events, p \in Phones :
           received'[e][p] # received[e][p] /\ p \notin active => e \in exposed[p]]_vars
  BY RevocationStep
<1> QED
  BY <1>1, TokenInvariant, PTL DEF Spec, NothingAfterRevocation
-----------------------------------------------------------------------------
(***************************************************************************)
(* How often a phone gets an event                                         *)
(*                                                                         *)
(* A dispatch reaches each token of a phone once at most, and after one    *)
(* that reached anybody there is no other, unless the dispatcher was       *)
(* killed or did not hear of it: each of these is a fault, and allows one  *)
(* more dispatch.                                                          *)
(***************************************************************************)
Sends(w, e) == At(w, "sending") /\ dispatch[w].event = e
TokensOf(p, left) == {n \in 1..MaxTokens : <<p, n>> \in left}
TokensLeft(w, p) == TokensOf(p, dispatch[w].left)

SentOnceAt(e, p) ==
    /\ received[e][p] <= device[p] * (faults + 1)
    /\ outbox[e].status \notin Concluded /\ (\A w \in Workers : ~Sends(w, e)) =>
         received[e][p] <= device[p] * faults
    /\ \A w \in Workers : Sends(w, e) =>
         /\ received[e][p] + Cardinality(TokensLeft(w, p)) <= device[p] * (faults + 1)
         /\ ~dispatch[w].sent => received[e][p] <= device[p] * faults

SentOnce == \A e \in Events, p \in Phones : SentOnceAt(e, p)
CountInv == DispatchInv /\ TokenInv /\ SentOnce

LEMMA Products ==
    ASSUME NEW a \in Nat, NEW b \in Nat
    PROVE  /\ a * b \in Nat /\ a * (b + 1) = a * b + a
           /\ \A c \in Nat, m \in Nat : a <= c /\ b <= m => a * b <= c * m
<1>1. a * b \in Nat /\ a * (b + 1) = a * b + a
  OBVIOUS
<1>2. \A c \in Nat, m \in Nat : a <= c /\ b <= m => a * b <= c * m
  <2> TAKE c \in Nat, m \in Nat
  <2> HAVE a <= c /\ b <= m
  <2>1. \A k \in Nat, i \in Nat : (a + k) * b = a * b + k * b /\ k * b \in Nat
    OBVIOUS
  <2>2. \A k \in Nat, i \in Nat : c * (b + i) = c * b + c * i /\ c * i \in Nat
    OBVIOUS
  <2>3. c - a \in Nat /\ a + (c - a) = c /\ m - b \in Nat /\ b + (m - b) = m
    OBVIOUS
  <2>4. c * b = a * b + (c - a) * b /\ (c - a) * b \in Nat
    BY <2>1, <2>3
  <2>5. c * m = c * b + c * (m - b) /\ c * (m - b) \in Nat
    BY <2>2, <2>3
  <2>6. c * b \in Nat /\ c * m \in Nat
    OBVIOUS
  <2> QED
    BY <1>1, <2>4, <2>5, <2>6
<1> QED
  BY <1>1, <1>2

(* The tokens of a phone that are still to be sent to.                     *)
LEMMA TokensOfBounded ==
    ASSUME Assumptions, NEW p \in Phones, NEW left, NEW n \in Nat,
           \A r \in left : r[1] = p => r[2] <= n
    PROVE  /\ IsFiniteSet(TokensOf(p, left))
           /\ Cardinality(TokensOf(p, left)) \in Nat /\ Cardinality(TokensOf(p, left)) <= n
<1>1. IsFiniteSet(1..n) /\ Cardinality(1..n) = n
  BY FS_Interval
<1>2. TokensOf(p, left) \subseteq 1..n
  BY Numbers DEF TokensOf
<1>3. /\ IsFiniteSet(TokensOf(p, left))
      /\ Cardinality(TokensOf(p, left)) <= Cardinality(1..n)
  BY <1>1, <1>2, FS_Subset
<1> QED
  BY <1>1, <1>3, FS_CardinalityType

LEMMA TokensOfWithout ==
    ASSUME Assumptions, NEW left \in SUBSET Recipients, NEW r \in left
    PROVE  /\ Cardinality(TokensOf(r[1], left \ {r})) + 1 = Cardinality(TokensOf(r[1], left))
           /\ \A p \in Phones : p # r[1] => TokensOf(p, left \ {r}) = TokensOf(p, left)
<1>1. r[1] \in Phones /\ r[2] \in 1..MaxTokens /\ r = <<r[1], r[2]>>
  BY RecipientParts
<1>2. TokensOf(r[1], left \ {r}) = TokensOf(r[1], left) \ {r[2]} /\ r[2] \in TokensOf(r[1], left)
  BY <1>1 DEF TokensOf
<1>3. IsFiniteSet(TokensOf(r[1], left)) /\ Cardinality(TokensOf(r[1], left)) \in Nat
  <2>1. \A s \in left : s[1] = r[1] => s[2] <= MaxTokens
    BY RecipientParts, Numbers
  <2> QED
    BY <1>1, <2>1, Numbers, TokensOfBounded
<1>4. Cardinality(TokensOf(r[1], left) \ {r[2]}) = Cardinality(TokensOf(r[1], left)) - 1
  <2> DEFINE S == TokensOf(r[1], left)
  <2>1. IsFiniteSet(S) /\ r[2] \in S
    BY <1>2, <1>3
  <2> HIDE DEF S
  <2> DEFINE x == r[2]
  <2> HIDE DEF x
  <2>2. Cardinality(S \ {x}) = Cardinality(S) - 1
    BY <2>1, FS_RemoveElement DEF x
  <2> QED
    BY <2>2 DEF S, x
<1>5. \A p \in Phones : p # r[1] => TokensOf(p, left \ {r}) = TokensOf(p, left)
  BY <1>1 DEF TokensOf
<1> QED
  BY <1>2, <1>3, <1>4, <1>5

(* What can be counted has a number.                                       *)
LEMMA CountTypes ==
    ASSUME Assumptions, TypeOK, NEW e \in Events, NEW p \in Phones
    PROVE  /\ received[e][p] \in Nat /\ device[p] \in Nat /\ faults \in Nat
           /\ \A w \in Workers : IsBusy(w) =>
                /\ dispatch[w].left \subseteq Recipients /\ dispatch[w].event \in Events
                /\ IsFiniteSet(TokensLeft(w, p)) /\ Cardinality(TokensLeft(w, p)) \in Nat
<1>1. received[e][p] \in Nat /\ device[p] \in Nat /\ faults \in Nat
  BY Numbers DEF TypeOK
<1>2. ASSUME NEW w \in Workers, IsBusy(w)
      PROVE  /\ dispatch[w].left \subseteq Recipients /\ dispatch[w].event \in Events
             /\ IsFiniteSet(TokensLeft(w, p)) /\ Cardinality(TokensLeft(w, p)) \in Nat
  <2>1. dispatch[w].left \subseteq Recipients /\ dispatch[w].event \in Events
    BY <1>2, StepsOf, WorkingColumns DEF IsBusy, TypeOK
  <2>2. \A r \in dispatch[w].left : r[1] = p => r[2] <= MaxTokens
    BY <2>1, RecipientParts, Numbers
  <2> QED
    BY <2>1, <2>2, Numbers, TokensOfBounded DEF TokensLeft
<1> QED
  BY <1>1, <1>2

LEMMA CountInit == ASSUME Assumptions, Init PROVE CountInv
<1>1. \A w \in Workers, e \in Events : ~Sends(w, e)
  BY DEF Init, Sends, At, Down
<1>2. \A e \in Events, p \in Phones : received[e][p] = 0 /\ device[p] = 0 /\ faults = 0
  BY DEF Init
<1>3. SentOnce
  BY <1>1, <1>2 DEF SentOnce, SentOnceAt
<1> QED
  BY <1>3, DispatchInit, TokenInit DEF CountInv

(* A row that is put back was sent to nobody.                              *)
LEMMA PutBackUnsent ==
    ASSUME Assumptions, TypeOK, NEW w \in Workers, Conclude(w),
           outbox'[dispatch[w].event].status \notin Concluded
    PROVE  ~dispatch[w].sent
<1> DEFINE d == dispatch[w]
<1>1. d \in Working /\ d.event \in Events /\ d.failed \in BOOLEAN /\ d.sent \in BOOLEAN
  BY StepsOf, WorkingColumns DEF Conclude, At, TypeOK
<1>2. ~FailNow(w)
  BY <1>1, ConcludedRow DEF FailNow, Concluded
<1>3. ~Finish(w, d.failed)
  BY <1>1, ConcludedRow DEF Finish, Concluded
<1>4. Outcome(d) = "retry"
  BY <1>2, <1>3 DEF Conclude
<1> QED
  BY <1>1, <1>4 DEF Outcome
(* A step by which the phone gets nothing of the event, and no dispatch    *)
(* begins to send it.                                                      *)
LEMMA CountFrame ==
    ASSUME Assumptions, TypeOK, TypeOK', SentOnce, NEW e \in Events, NEW p \in Phones,
           received'[e][p] = received[e][p], faults <= faults', device[p] <= device'[p],
           outbox'[e].status \notin Concluded /\ (\A w \in Workers : ~Sends(w, e)') =>
             received[e][p] <= device[p] * faults',
           \A w \in Workers : Sends(w, e)' => /\ Sends(w, e)
                                              /\ dispatch'[w].left = dispatch[w].left
                                              /\ dispatch'[w].sent = dispatch[w].sent
    PROVE  SentOnceAt(e, p)'
<1> DEFINE n == received[e][p]  k == device[p]  m == device'[p]  f == faults  g == faults'
<1>1. n \in Nat /\ k \in Nat /\ m \in Nat /\ f \in Nat /\ g \in Nat /\ k <= m /\ f <= g
  BY CountTypes, Numbers DEF TypeOK
<1>2. f + 1 \in Nat /\ g + 1 \in Nat /\ f + 1 <= g + 1 /\ g <= g
  <2> HIDE DEF n, k, m, f, g
  <2> QED
    BY <1>1
<1>3. /\ k * f \in Nat /\ k * g \in Nat /\ m * g \in Nat
      /\ k * (f + 1) \in Nat /\ m * (g + 1) \in Nat
      /\ k * f <= m * g /\ k * g <= m * g /\ k * (f + 1) <= m * (g + 1)
  BY <1>1, <1>2, Products
<1>4. n <= k * (f + 1)
  BY DEF SentOnce, SentOnceAt
<1>5. n <= m * (g + 1)
  BY <1>1, <1>3, <1>4
<1>6. ASSUME outbox'[e].status \notin Concluded, \A w \in Workers : ~Sends(w, e)' PROVE n <= m * g
  <2>1. n <= k * g
    BY <1>6
  <2> QED
    BY <1>1, <1>3, <2>1
<1>7. ASSUME NEW w \in Workers, Sends(w, e)'
      PROVE  /\ n + Cardinality(TokensLeft(w, p))' <= m * (g + 1)
             /\ ~dispatch'[w].sent => n <= m * g
  <2> DEFINE c == Cardinality(TokensLeft(w, p))
  <2>1. Sends(w, e) /\ IsBusy(w)
    BY <1>7 DEF Sends, At, IsBusy
  <2>2. TokensLeft(w, p)' = TokensLeft(w, p) /\ dispatch'[w].sent = dispatch[w].sent
    BY <1>7 DEF TokensLeft
  <2>3. c \in Nat /\ n + c <= k * (f + 1) /\ (~dispatch[w].sent => n <= k * f)
    BY <2>1, CountTypes DEF SentOnce, SentOnceAt
  <2> HIDE DEF c
  <2>4. n + c <= m * (g + 1) /\ (~dispatch[w].sent => n <= m * g)
    BY <1>1, <1>3, <2>3
  <2> QED
    BY <2>2, <2>4 DEF c
<1> HIDE DEF n, k, m, f, g
<1>8. received'[e][p] = n /\ device'[p] = m /\ faults' = g
  BY DEF n, m, g
<1> QED
  BY <1>5, <1>6, <1>7, <1>8 DEF SentOnceAt

(* A dispatch that begins to send: nobody has got the event so far.        *)
LEMMA CountBegins ==
    ASSUME Assumptions, TypeOK, TokenInv', SentOnce, NEW e \in Events, NEW p \in Phones,
           NEW w \in Workers, UNCHANGED <<received, faults, device>>,
           outbox[e].status \notin Concluded, \A v \in Workers : ~Sends(v, e),
           Sends(w, e)', \A v \in Workers : Sends(v, e)' => v = w
    PROVE  SentOnceAt(e, p)'
<1> DEFINE n == received[e][p]  k == device[p]  f == faults  c == Cardinality(TokensLeft(w, p)')
<1>1. n \in Nat /\ k \in Nat /\ f \in Nat
  BY CountTypes
<1>2. k * f \in Nat /\ k * (f + 1) = k * f + k
  BY <1>1, Products
<1>3. n <= k * f /\ n <= k * (f + 1)
  BY DEF SentOnce, SentOnceAt
<1>4. c \in Nat /\ c <= k
  <2>1. \A r \in dispatch'[w].left : r[2] <= device'[r[1]]
    BY DEF TokenInv, TokensWereGiven, Sends, At, IsBusy
  <2>2. \A r \in dispatch'[w].left : r[1] = p => r[2] <= k
    BY <2>1
  <2> QED
    BY <1>1, <2>2, TokensOfBounded DEF TokensLeft
<1>5. n + c <= k * (f + 1)
  BY <1>1, <1>2, <1>3, <1>4
<1> HIDE DEF n, k, f, c
<1>6. received'[e][p] = n /\ device'[p] = k /\ faults' = f
  BY DEF n, k, f
<1> QED
  BY <1>3, <1>5, <1>6 DEF SentOnceAt, c

(* One answer of a provider, which counts unless it is lost.               *)
LEMMA CountSends ==
    ASSUME Assumptions, TypeOK, TypeOK', SentOnce, NEW e \in Events, NEW p \in Phones,
           NEW w \in Workers, Sends(w, e), Sends(w, e)', \A v \in Workers : Sends(v, e)' => v = w,
           UNCHANGED device, NEW r \in dispatch[w].left, SendsTo(w, r)
    PROVE  SentOnceAt(e, p)'
<1> DEFINE n == received[e][p]  k == device[p]  f == faults
           c == Cardinality(TokensLeft(w, p))  b == Cardinality(TokensLeft(w, p)')
<1>1. n \in Nat /\ k \in Nat /\ f \in Nat /\ c \in Nat /\ b \in Nat
      /\ dispatch[w].left \subseteq Recipients
  <2>1. IsBusy(w)
    BY DEF IsBusy, Sends, At
  <2>2. dispatch'[w].left = dispatch[w].left \ {r} /\ dispatch[w].left \subseteq Recipients
    BY <2>1, CountTypes DEF SendsTo
  <2>3. \A s \in dispatch'[w].left : s[1] = p => s[2] <= MaxTokens
    BY <2>2, RecipientParts, Numbers
  <2>4. b \in Nat
    BY <2>3, Numbers, TokensOfBounded DEF TokensLeft
  <2> QED
    BY <2>1, <2>2, <2>4, CountTypes
<1>2. k * f \in Nat /\ k * (f + 1) = k * f + k /\ k * (f + 2) = k * f + k + k
  <2>1. f + 1 \in Nat /\ f + 2 = (f + 1) + 1
    BY <1>1
  <2>2. k * f \in Nat /\ k * (f + 1) = k * f + k /\ k * ((f + 1) + 1) = k * (f + 1) + k
    BY <1>1, <2>1, Products
  <2> QED
    BY <1>1, <2>1, <2>2
<1>3. n + c <= k * (f + 1) /\ (~dispatch[w].sent => n <= k * f)
  BY DEF SentOnce, SentOnceAt
<1>4. r \in Recipients /\ r[1] \in Phones /\ e = dispatch[w].event
  BY <1>1, RecipientParts DEF Sends
<1>5. dispatch'[w].left = dispatch[w].left \ {r}
  BY DEF SendsTo
<1>6. IF p = r[1] THEN b + 1 = c ELSE b = c
  <2> DEFINE left == dispatch[w].left
  <2>1. left \in SUBSET Recipients /\ r \in left
    BY <1>1
  <2>2. TokensLeft(w, p) = TokensOf(p, left) /\ TokensLeft(w, p)' = TokensOf(p, left \ {r})
    BY <1>5 DEF TokensLeft
  <2> HIDE DEF left
  <2>3. /\ Cardinality(TokensOf(r[1], left \ {r})) + 1 = Cardinality(TokensOf(r[1], left))
        /\ p # r[1] => TokensOf(p, left \ {r}) = TokensOf(p, left)
    BY <2>1, TokensOfWithout
  <2> QED
    BY <2>2, <2>3
<1>7. ASSUME Knows(r), Gets(w, r) PROVE received'[e][p] = IF p = r[1] THEN n + 1 ELSE n
  BY <1>4, <1>7 DEF Gets, TypeOK
<1>8. Knows(r) /\ p = r[1] => k >= 1
  BY <1>4, RecipientParts, Numbers DEF Knows
<1>9. received'[e][p] \in Nat /\ faults' \in Nat
  BY Numbers DEF TypeOK
<1> DEFINE m == received'[e][p]  g == faults'
<1>10. \/ m = n /\ g = f /\ dispatch'[w].sent = dispatch[w].sent
       \/ m = (IF p = r[1] THEN n + 1 ELSE n) /\ g = f /\ dispatch'[w].sent
       \/ /\ m = (IF p = r[1] THEN n + 1 ELSE n) /\ g = f + 1
          /\ dispatch'[w].sent = dispatch[w].sent /\ (p = r[1] => k >= 1)
  BY <1>7, <1>8 DEF SendsTo
<1>11. /\ m + b <= k * (g + 1) /\ m <= k * (g + 1)
       /\ ~dispatch'[w].sent => m <= k * g
  <2>1. m \in Nat /\ g \in Nat
    BY <1>9
  <2> HIDE DEF m, g, n, k, f, c, b
  <2>2. CASE m = n /\ g = f /\ dispatch'[w].sent = dispatch[w].sent
    BY <1>1, <1>2, <1>3, <1>6, <2>2
  <2>3. CASE m = (IF p = r[1] THEN n + 1 ELSE n) /\ g = f /\ dispatch'[w].sent
    BY <1>1, <1>2, <1>3, <1>6, <2>3
  <2>4. CASE /\ m = (IF p = r[1] THEN n + 1 ELSE n) /\ g = f + 1
             /\ dispatch'[w].sent = dispatch[w].sent /\ (p = r[1] => k >= 1)
    <3>1. k * (g + 1) = k * f + k + k /\ k * g = k * f + k
      <4>1. g + 1 = f + 2
        BY <1>1, <2>4
      <4> QED
        BY <1>2, <2>4, <4>1
    <3> QED
      BY <1>1, <1>2, <1>3, <1>6, <2>4, <3>1
  <2> QED
    BY <1>10, <2>2, <2>3, <2>4
<1> HIDE DEF n, k, f, c
<1>12. device'[p] = k
  BY DEF k
<1>13. ~(outbox'[e].status \notin Concluded /\ \A v \in Workers : ~Sends(v, e)')
  OBVIOUS
<1> QED
  BY <1>11, <1>12, <1>13 DEF SentOnceAt, b
LEMMA CountStep == ASSUME Assumptions, ~SlowSends, CountInv, [Next]_vars PROVE CountInv'
<1>0. /\ TypeOK /\ SentOnce /\ DispatchInv /\ TokenInv
      /\ TypeOK' /\ DispatchInv' /\ TokenInv'
  BY DispatchStep, TokenStep DEF CountInv, DispatchInv
<1>1. \A p \in Phones : device[p] \in Nat /\ device[p] <= device[p]
  BY <1>0, Numbers DEF TypeOK
<1>2. ASSUME NEW e \in Events, NEW p \in Phones
      PROVE  outbox[e].status \notin Concluded /\ (\A w \in Workers : ~Sends(w, e)) =>
               received[e][p] <= device[p] * faults
  BY <1>0 DEF SentOnce, SentOnceAt
<1>3. ASSUME UNCHANGED <<dispatch, received, faults>>, \A p \in Phones : device[p] <= device'[p],
             \A e \in Events : outbox'[e].status \notin Concluded => outbox[e].status \notin Concluded
      PROVE  SentOnce'
  <2>1. \A w \in Workers, e \in Events : Sends(w, e)' = Sends(w, e)
    BY <1>3 DEF Sends, At
  <2>2. faults <= faults'
    BY <1>0, <1>3, Numbers DEF TypeOK
  <2> QED
    BY <1>0, <1>2, <1>3, <2>1, <2>2, CountFrame DEF SentOnce
<1>4. ASSUME NEW e \in Events, Enqueue(e) \/ Due(e) \/ LockAges(e) PROVE SentOnce'
  <2>1. UNCHANGED <<dispatch, received, faults, device>>
    BY <1>4, RowFrame
  <2>2. \A f \in Events : outbox'[f].status \notin Concluded => outbox[f].status \notin Concluded
    BY <1>0, <1>4, RowEffects DEF OnlyRow, Concluded
  <2> QED
    BY <1>1, <1>3, <2>1, <2>2
<1>5. ASSUME PhoneStep PROVE SentOnce'
  <2>1. UNCHANGED <<outbox, dispatch, received, faults>>
    BY <1>5, PhoneFrame
  <2>2. ASSUME NEW q \in Phones, NewToken(q) \/ Removed(q), NEW p \in Phones
        PROVE  device[p] <= device'[p]
    <3>1. device' = [device EXCEPT ![q] = @ + 1]
            \/ (device' = [device EXCEPT ![q] = MaxTokens + 1] /\ device[q] <= MaxTokens)
      BY <1>1, <2>2, Numbers DEF NewToken, Removed
    <3> QED
      BY <1>0, <1>1, <3>1, Numbers DEF TypeOK
  <2>3. UNCHANGED device => \A p \in Phones : device[p] <= device'[p]
    BY <1>1
  <2>4. \A q \in Phones : Register(q) \/ Revoke(q) \/ RevokeTokens(q) => UNCHANGED device
    BY DEF Register, Revoke, RevokeTokens
  <2>5. \A r \in registering : Registered(r) => UNCHANGED device
    BY DEF Registered
  <2>6. \A p \in Phones : device[p] <= device'[p]
    BY <1>5, <2>2, <2>3, <2>4, <2>5 DEF PhoneStep
  <2> QED
    BY <1>3, <2>1, <2>6
<1>6. UNCHANGED vars => SentOnce'
  BY <1>1, <1>3 DEF vars
<1>7. ASSUME NEW w \in Workers, Start(w) \/ Crash(w) \/ Work(w) PROVE SentOnce'
  <2> SUFFICES ASSUME NEW e \in Events, NEW p \in Phones PROVE SentOnceAt(e, p)'
    BY DEF SentOnce
  <2>1. device' = device /\ OnlyWorker(w) /\ WorkerDoes(w)
    BY <1>0, <1>7, WorkerFrame, OneWorker, WorkerEffects
  <2>2. \A v \in Workers \ {w} : dispatch'[v] = dispatch[v] /\ Sends(v, e)' = Sends(v, e)
    BY <2>1 DEF OnlyWorker, Sends, At
  <2>3. \A v, u \in Workers : Dispatches(v, e) /\ Dispatches(u, e) => u = v
    BY <1>0 DEF DispatchInv, OneDispatcher
  <2>4. \A v \in Workers : Dispatches(v, e) => outbox[e].status \notin Concluded
    BY <1>0 DEF DispatchInv, OneDispatcher, Concluded
  <2>5. \A v \in Workers : Sends(v, e) => Dispatches(v, e)
    BY DEF Sends, Dispatches, At
  <2>6. outbox'[e].status \notin Concluded => outbox[e].status \notin Concluded
    <3>1. [Next]_vars
      BY <1>7 DEF Next
    <3> QED
      BY <1>0, <3>1, ConcludedStep
  <2>7. faults \in Nat /\ faults' \in Nat
    BY <1>0, Numbers DEF TypeOK
  <2>8. \A x, y : Becomes(w, x) => dispatch'[w] = x
    BY <1>0 DEF Becomes, TypeOK
  <2>9. (Becomes(w, Idle) \/ Becomes(w, Down)) => ~Sends(w, e)'
    BY <2>8 DEF Sends, At, Idle, Down
  \* The workers other than w go on as before.
  <2>10. ASSUME ~Sends(w, e)', faults <= faults', received'[e][p] = received[e][p],
                outbox'[e].status \notin Concluded /\ (\A v \in Workers : ~Sends(v, e)') =>
                  received[e][p] <= device[p] * faults'
         PROVE  SentOnceAt(e, p)'
    <3>1. \A v \in Workers : Sends(v, e)' => /\ Sends(v, e)
                                             /\ dispatch'[v].left = dispatch[v].left
                                             /\ dispatch'[v].sent = dispatch[v].sent
      BY <2>2, <2>10
    <3> QED
      BY <1>0, <1>1, <2>1, <2>10, <3>1, CountFrame
  <2>11. ASSUME Start(w) \/ Select(w) \/ FinishBroken(w) \/ Claim(w) PROVE SentOnceAt(e, p)'
    <3>1. UNCHANGED <<received, faults>> /\ ~Sends(w, e) /\ ~At(w, "claimed") /\ ~At(w, "sending")
      BY <2>11 DEF Start, Select, FinishBroken, Claim, At, Sends
    <3>2. ~Sends(w, e)'
      <4>1. ~Send(w)
        BY <3>1 DEF Send
      <4>2. dispatch'[w].step # "sending"
        BY <1>0, <1>7, <3>1, <4>1, TaskEffects DEF IsBusy
      <4> QED
        BY <4>2 DEF Sends, At
    <3>3. (\A v \in Workers : ~Sends(v, e)') => \A v \in Workers : ~Sends(v, e)
      BY <2>2, <3>1
    <3> QED
      BY <1>2, <2>6, <2>7, <2>10, <3>1, <3>2, <3>3
  <2>12. ASSUME Crash(w) PROVE SentOnceAt(e, p)'
    <3>1. received' = received /\ faults' = faults + 1 /\ ~Sends(w, e)'
      BY <2>9, <2>12 DEF Crash
    <3>2. received[e][p] <= device[p] * (faults + 1)
      BY <1>0 DEF SentOnce, SentOnceAt
    <3> QED
      BY <2>7, <2>10, <3>1, <3>2
  <2>13. ASSUME TargetsUnread(w) \/ Conclude(w) PROVE SentOnceAt(e, p)'
    <3>1. UNCHANGED <<received, faults>> /\ ~Sends(w, e)'
      BY <2>9, <2>13 DEF TargetsUnread, Conclude
    <3>2. ASSUME outbox'[e].status \notin Concluded, \A v \in Workers : ~Sends(v, e)'
          PROVE  received[e][p] <= device[p] * faults
      <4>1. CASE Sends(w, e)
        <5>1. ~dispatch[w].sent
          <6>1. Conclude(w) /\ dispatch[w].event = e
            BY <2>13, <4>1 DEF TargetsUnread, Sends, At
          <6> QED
            BY <1>0, <3>2, <6>1, PutBackUnsent
        <5> QED
          BY <1>0, <4>1, <5>1 DEF SentOnce, SentOnceAt
      <4>2. CASE ~Sends(w, e)
        <5>1. \A v \in Workers : ~Sends(v, e)
          BY <2>2, <3>2, <4>2
        <5> QED
          BY <1>2, <2>6, <3>2, <5>1
      <4> QED
        BY <4>1, <4>2
    <3> QED
      BY <2>7, <2>10, <3>1, <3>2
  \* A dispatch that goes on is of this event or of another one.
  <2>14. ASSUME ReadTargets(w) \/ Send(w) \/ Invalidate(w)
         PROVE  /\ dispatch'[w].event = dispatch[w].event /\ dispatch'[w].step = "sending"
                /\ Dispatches(w, dispatch[w].event)
    <3>1. IsBusy(w) /\ Dispatches(w, dispatch[w].event)
      BY <2>14 DEF ReadTargets, Send, Invalidate, At, IsBusy, Dispatches
    <3>2. Send(w) => dispatch'[w].event = dispatch[w].event /\ dispatch'[w].step = "sending"
      BY <1>0, SendEffects DEF SendsTo
    <3>3. ASSUME ReadTargets(w) \/ Invalidate(w)
          PROVE  dispatch'[w].event = dispatch[w].event /\ dispatch'[w].step = "sending"
      <4>1. PICK x : Becomes(w, x) /\ x.step = "sending" /\ x.event = dispatch[w].event
        <5>0. dispatch[w] \in {Idle, Down} \cup Working
          BY <1>0 DEF TypeOK
        <5>1. dispatch[w] \in Working /\ (Invalidate(w) => dispatch[w].step = "sending")
          BY <3>1, <5>0, StepsOf DEF IsBusy, Invalidate, At
        <5>2. CASE ReadTargets(w)
          <6>1. Becomes(w, [dispatch[w] EXCEPT !.step = "sending", !.left = Reachable(dispatch[w].event)])
            BY <5>2 DEF ReadTargets
          <6>2. \A left : LET x == [dispatch[w] EXCEPT !.step = "sending", !.left = left]
                          IN  x.step = "sending" /\ x.event = dispatch[w].event
            BY <5>1 DEF Working
          <6> QED
            BY <6>1, <6>2
        <5>3. CASE Invalidate(w)
          <6>1. PICK r \in dispatch[w].dead : Becomes(w, [dispatch[w] EXCEPT !.dead = @ \ {r}])
            BY <5>3 DEF Invalidate
          <6> QED
            BY <5>1, <5>3, <6>1 DEF Working
        <5> QED
          BY <3>3, <5>2, <5>3
      <4> QED
        BY <2>8, <4>1
    <3> QED
      BY <2>14, <3>1, <3>2, <3>3
  <2>15. ASSUME ReadTargets(w) PROVE SentOnceAt(e, p)'
    <3>1. UNCHANGED <<received, faults>> /\ ~Sends(w, e)
      BY <2>15 DEF ReadTargets, Sends, At
    <3>2. CASE dispatch[w].event = e
      <4>1. Dispatches(w, e) /\ Sends(w, e)'
        BY <2>14, <2>15, <3>2 DEF Sends, At
      <4>2. \A v \in Workers : ~Sends(v, e)
        BY <2>3, <2>5, <3>1, <4>1
      <4>3. \A v \in Workers : Sends(v, e)' => v = w
        BY <2>2, <4>2
      <4> QED
        BY <1>0, <2>1, <2>4, <3>1, <4>1, <4>2, <4>3, CountBegins
    <3>3. CASE dispatch[w].event # e
      <4>1. ~Sends(w, e)'
        BY <2>14, <2>15, <3>3 DEF Sends, At
      <4>2. (\A v \in Workers : ~Sends(v, e)') => \A v \in Workers : ~Sends(v, e)
        BY <2>2, <3>1
      <4> QED
        BY <1>2, <2>6, <2>7, <2>10, <3>1, <4>1, <4>2
    <3> QED
      BY <3>2, <3>3
  <2>16. ASSUME Send(w) PROVE SentOnceAt(e, p)'
    <3>1. PICK r \in dispatch[w].left : SendsTo(w, r)
      BY <1>0, <2>16, SendEffects
    <3>2. CASE dispatch[w].event = e
      <4>1. Dispatches(w, e) /\ Sends(w, e) /\ Sends(w, e)'
        BY <2>14, <2>16, <3>2 DEF Sends, Send, At
      <4>2. \A v \in Workers : Sends(v, e)' => v = w
        BY <2>2, <2>3, <2>5, <4>1
      <4> QED
        BY <1>0, <2>1, <3>1, <4>1, <4>2, CountSends
    <3>3. CASE dispatch[w].event # e
      <4>1. ~Sends(w, e) /\ ~Sends(w, e)'
        BY <2>14, <2>16, <3>3 DEF Sends, At
      <4>2. received'[e][p] = received[e][p] /\ faults <= faults'
        <5>1. UNCHANGED received \/ Gets(w, r)
          BY <3>1 DEF SendsTo
        <5>2. Gets(w, r) => received'[e] = received[e]
          BY <1>0, <3>3 DEF Gets, TypeOK
        <5>3. faults' = faults \/ faults' = faults + 1
          BY <3>1 DEF SendsTo
        <5>4. received'[e][p] = received[e][p]
          BY <5>1, <5>2
        <5>5. faults <= faults'
          BY <2>7, <5>3
        <5> QED
          BY <5>4, <5>5
      <4>3. \A v \in Workers : Sends(v, e)' = Sends(v, e)
        BY <2>2, <4>1 DEF Sends, At
      <4>4. outbox' = outbox
        BY <2>16 DEF Send, rows
      <4>5. ASSUME outbox'[e].status \notin Concluded, \A v \in Workers : ~Sends(v, e)'
            PROVE  received[e][p] <= device[p] * faults'
        <5>1. received[e][p] <= device[p] * faults
          BY <1>2, <4>3, <4>4, <4>5
        <5>2. device[p] * faults <= device[p] * faults'
          BY <1>1, <2>7, <4>2, Products
        <5>3. received[e][p] \in Nat /\ device[p] * faults \in Nat /\ device[p] * faults' \in Nat
          BY <1>0, <1>1, <2>7, CountTypes, Products
        <5> QED
          BY <5>1, <5>2, <5>3
      <4> QED
        BY <2>10, <4>1, <4>2, <4>5
    <3> QED
      BY <3>2, <3>3
  <2>17. ASSUME Invalidate(w) PROVE SentOnceAt(e, p)'
    <3>1. UNCHANGED <<received, faults, outbox>>
      BY <2>17 DEF Invalidate
    <3>2. dispatch'[w].left = dispatch[w].left /\ dispatch'[w].sent = dispatch[w].sent
      <4>1. PICK r \in dispatch[w].dead : Becomes(w, [dispatch[w] EXCEPT !.dead = @ \ {r}])
        BY <2>17 DEF Invalidate
      <4>2. dispatch[w] \in Working
        BY <1>0, <2>17, StepsOf DEF Invalidate, At, TypeOK
      <4> QED
        BY <2>8, <4>1, <4>2 DEF Working
    <3>3. Sends(w, e)' = Sends(w, e)
      BY <2>14, <2>17 DEF Sends, At, Invalidate
    <3>4. \A v \in Workers : Sends(v, e)' = Sends(v, e)
      BY <2>2, <3>3
    <3>5. \A v \in Workers : Sends(v, e)' => /\ Sends(v, e)
                                             /\ dispatch'[v].left = dispatch[v].left
                                             /\ dispatch'[v].sent = dispatch[v].sent
      BY <2>2, <3>2, <3>4
    <3>6. outbox'[e].status \notin Concluded /\ (\A v \in Workers : ~Sends(v, e)') =>
            received[e][p] <= device[p] * faults'
      BY <1>2, <3>1, <3>4
    <3>7. faults <= faults' /\ device[p] <= device'[p] /\ received'[e][p] = received[e][p]
      BY <1>1, <2>1, <2>7, <3>1
    <3> QED
      BY <1>0, <3>5, <3>6, <3>7, CountFrame
  <2> QED
    BY <1>7, <2>11, <2>12, <2>13, <2>15, <2>16, <2>17 DEF Work
<1> QED
  BY <1>0, <1>4, <1>5, <1>6, <1>7, NextSteps DEF CountInv

(* NotSentTwice: a phone gets an event at most once on each token it ever  *)
(* had, for any number of dispatchers, attempts and refusals; each killed  *)
(* dispatcher and each lost answer allows for one more time.  It holds as  *)
(* long as no dispatch outlives its lock (SlowSends is FALSE).             *)
THEOREM NotSentTwiceHolds ==
    ASSUME Assumptions, ~SlowSends
    PROVE  Spec => []NotSentTwice
<1>1. Spec => []CountInv
  BY CountInit, CountStep, PTL DEF Spec
<1>2. CountInv => NotSentTwice
  <2> SUFFICES ASSUME CountInv, NEW e \in Events, NEW p \in Phones
               PROVE  received[e][p] <= device[p] * (1 + faults)
    BY DEF NotSentTwice
  <2>1. received[e][p] <= device[p] * (faults + 1) /\ TypeOK
    BY DEF CountInv, SentOnce, SentOnceAt, DispatchInv
  <2>2. 1 + faults = faults + 1
    BY <2>1, CountTypes
  <2> QED
    BY <2>1, <2>2
<1> QED
  BY <1>1, <1>2, PTL
=============================================================================
