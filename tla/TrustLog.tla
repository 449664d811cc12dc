------------------------------ MODULE TrustLog ------------------------------
(***************************************************************************)
(* trust.jsonl, in which a signing gate keeps what it trusts: its role, the*)
(* other gates and the keys it confirmed (signing/records).  The daemon and *)
(* the commands of operators are processes of their own.  Each keeps what  *)
(* it replayed, with the file locked reads the lines that others appended, *)
(* verifies them, and appends.                                             *)
(*                                                                         *)
(* One package.  The hash of a line is its number, new for every line that *)
(* is encoded.  Builders and recovery keys are recorded the way gates are, *)
(* without a check of their keys, and signed.jsonl is written the same way:*)
(* what it says is SigningGates.                                           *)
(***************************************************************************)
EXTENDS Naturals, FiniteSets, Sequences, SequencesExt

CONSTANTS
    Processes,
    Names, Keys,    \* of other signing gates
    NoKey,
    Certs,
    MaxLines,       \* bound: lines that are encoded, with the first one
    MaxFaults       \* bound: writes that fail and losses of power

KeysAssumption == NoKey \notin Keys /\ MaxLines > 0

VARIABLES
    lines,      \* the file, as far as its lines are complete
    torn,       \* is there a part of another line after them?
    synced,     \* lines that survive a loss of power
    hashes,     \* lines encoded so far
    view,       \* of each process: where it is in the file, and what it replayed
    plan,       \* of each process: what it read for a record it is going to append
    faults,
    acknowledged    \* auxiliary: the lines of operations that succeeded

vars == <<lines, torn, synced, hashes, view, plan, faults, acknowledged>>
fileVars == <<lines, torn, synced, hashes, faults, acknowledged>>

Idle == [at |-> "idle"]
Nothing == [primary |-> FALSE, peers |-> [n \in Names |-> NoKey],
            active |-> [hash |-> 0, cert |-> NoKey, auto |-> FALSE], seen |-> {}]
Unread == [at |-> "open", seq |-> 0, tail |-> 0, trust |-> Nothing]
Down == [Unread EXCEPT !.at = "down"]
Genesis == [seq |-> 0, prev |-> 0, hash |-> 1, rec |-> [type |-> "genesis"]]

Init ==
    /\ lines = <<Genesis>> /\ torn = FALSE /\ synced = 1 /\ hashes = 1
    /\ view = [p \in Processes |-> Down] /\ plan = [p \in Processes |-> Idle]
    /\ faults = 0 /\ acknowledged = {1}

-----------------------------------------------------------------------------
(* Verifying and replaying *)

(* applyTrust: which records fit what was replayed so far, and what they   *)
(* make of it.                                                             *)
Fits(trust, rec) == rec.type = "revoke" => trust.peers[rec.name] # NoKey

Applied(trust, line) ==
    LET rec == line.rec
    IN CASE rec.type = "genesis" -> trust
         [] rec.type = "role" -> [trust EXCEPT !.primary = TRUE]
         [] rec.type = "peer" -> [trust EXCEPT !.peers[rec.name] = rec.key]
         [] rec.type = "revoke" -> [trust EXCEPT !.peers[rec.name] = NoKey]
         [] rec.type = "tenant" ->
                [trust EXCEPT !.active = [hash |-> line.hash, cert |-> rec.cert,
                                          auto |-> rec.auto],
                              !.seen = @ \cup {rec.cert}]

(* verifyLine and apply: anything that does not continue the chain, or     *)
(* does not fit, is the end of the process.                                *)
Verified(v, line) ==
    IF v.at # "open" THEN v
    ELSE IF line.seq = v.seq /\ line.prev = v.tail /\ Fits(v.trust, line.rec)
         THEN [v EXCEPT !.seq = @ + 1, !.tail = line.hash, !.trust = Applied(@, line)]
         ELSE [v EXCEPT !.at = "broken"]

Replayed(v, some) == FoldLeft(Verified, v, some)

(* refresh: the lines after those the process has read.                    *)
Refreshed(v) ==
    IF v.at # "open" THEN v
    ELSE IF torn \/ Len(lines) < v.seq THEN [v EXCEPT !.at = "broken"]
    ELSE Replayed(v, SubSeq(lines, v.seq + 1, Len(lines)))

(* encodeLine, for one record after the other.                             *)
Encoded(v, recs) ==
    [i \in DOMAIN recs |->
        [seq |-> v.seq + i - 1, prev |-> IF i = 1 THEN v.tail ELSE hashes + i - 1,
         hash |-> hashes + i, rec |-> recs[i]]]

HashesOf(some) == {some[i].hash : i \in DOMAIN some}

-----------------------------------------------------------------------------
(* appendRecords, with what the plan makes of the refreshed view v: all    *)
(* the records are tried on a copy, then written at once and synced.       *)
AppendRecords(p, v, recs) ==
    LET new == Encoded(v, recs)
        after == Replayed(v, new)
        fits == v.at = "open" /\ recs # <<>> /\ after.at = "open"
    IN  /\ hashes + Len(recs) <= MaxLines
        /\ plan' = [plan EXCEPT ![p] = Idle]
        /\ \/ /\ fits
              /\ lines' = lines \o new /\ synced' = Len(lines')
              /\ hashes' = hashes + Len(new)
              /\ view' = [view EXCEPT ![p] = after]
              /\ acknowledged' = acknowledged \cup HashesOf(new)
              /\ UNCHANGED <<torn, faults>>
           \/ \* the write or the sync fails, or the process dies in it
              /\ fits /\ faults < MaxFaults /\ faults' = faults + 1
              /\ \E whole \in 0..Len(new) :
                    /\ lines' = lines \o SubSeq(new, 1, whole)
                    /\ torn' \in {FALSE, whole < Len(new)}
              /\ hashes' = hashes + Len(new)
              /\ view' = [view EXCEPT ![p] = [v EXCEPT !.at = "broken"]]
              /\ UNCHANGED <<synced, acknowledged>>
           \/ \* nothing to write, or not to be written
              /\ ~fits
              /\ view' = [view EXCEPT ![p] = v]
              /\ UNCHANGED fileVars

(* Open, which reads the whole file.                                       *)
Open(p) ==
    /\ view[p].at = "down" /\ Refreshed(Unread).at = "open"
    /\ view' = [view EXCEPT ![p] = Refreshed(Unread)]
    /\ UNCHANGED <<fileVars, plan>>

Exit(p) ==
    /\ view[p].at # "down"
    /\ view' = [view EXCEPT ![p] = Down] /\ plan' = [plan EXCEPT ![p] = Idle]
    /\ UNCHANGED fileVars

(* planConfirmation: the daemon reads what is confirmed, and will write    *)
(* later, when it has opened the key.                                      *)
PlanConfirmation(p) ==
    /\ view[p].at = "open" /\ plan[p] = Idle
    /\ LET v == Refreshed(view[p])
       IN /\ view' = [view EXCEPT ![p] = v]
          /\ v.at = "open"
          /\ \E cert \in Certs : plan' = [plan EXCEPT ![p] = [at |-> "confirm", cert |-> cert,
                                                            read |-> v.trust.active.hash]]
    /\ UNCHANGED fileVars

MayConfirm_Any(trust, todo) == todo.cert \notin trust.seen

(* ConfirmAuto compares what is confirmed now with what the plan read.     *)
MayConfirm(trust, todo) ==
    /\ trust.active.hash = todo.read
    /\ todo.cert \notin trust.seen

ConfirmAuto(p) ==
    /\ view[p].at = "open" /\ plan[p].at = "confirm"
    /\ LET v == Refreshed(view[p])
       IN AppendRecords(p, v,
                 IF MayConfirm(v.trust, plan[p])
                 THEN << [type |-> "tenant", cert |-> plan[p].cert, auto |-> TRUE,
                          read |-> plan[p].read] >>
                 ELSE <<>>)

(* signer confirm: the operator decides.                                   *)
Confirm(p) ==
    /\ view[p].at = "open" /\ plan[p] = Idle
    /\ \E cert \in Certs :
          AppendRecords(p, Refreshed(view[p]),
                 << [type |-> "tenant", cert |-> cert, auto |-> FALSE, read |-> 0] >>)

(* signer trust-peer: two names may not have one key.                      *)
MayTrust(trust, name, key) == \A n \in Names \ {name} : trust.peers[n] # key

TrustPeer(p) ==
    /\ view[p].at = "open" /\ plan[p] = Idle
    /\ \E name \in Names, key \in Keys :
          LET v == Refreshed(view[p])
          IN AppendRecords(p, v, IF MayTrust(v.trust, name, key)
                          THEN << [type |-> "peer", name |-> name, key |-> key] >> ELSE <<>>)

RevokePeer(p) ==
    /\ view[p].at = "open" /\ plan[p] = Idle
    /\ \E name \in Names :
          LET v == Refreshed(view[p])
          IN AppendRecords(p, v, IF v.trust.peers[name] # NoKey
                          THEN << [type |-> "revoke", name |-> name] >> ELSE <<>>)

(* signer promote looks at the role, asks the operator ...                 *)
PlanPromotion(p) ==
    /\ view[p].at = "open" /\ plan[p] = Idle
    /\ LET v == Refreshed(view[p])
       IN /\ view' = [view EXCEPT ![p] = v]
          /\ v.at = "open" /\ ~v.trust.primary
          /\ \E key \in Keys \cup {NoKey} :
                plan' = [plan EXCEPT ![p] = [at |-> "promote", previous |-> key]]
    /\ UNCHANGED fileVars

(* ... and revokes the gate that was primary together with the new role.   *)
Superseded(trust, key) ==
    SetToSeq({[type |-> "revoke", name |-> n] : n \in {n \in Names : key # NoKey /\ trust.peers[n] = key}})

PromotionOf(trust, key) == Append(Superseded(trust, key), [type |-> "role", previous |-> key])

Promote(p) ==
    /\ view[p].at = "open" /\ plan[p].at = "promote"
    /\ LET v == Refreshed(view[p])
       IN AppendRecords(p, v, PromotionOf(v.trust, plan[p].previous))

(* Lines that were not synced may be gone, or be there in part.            *)
LosePower ==
    /\ faults < MaxFaults /\ faults' = faults + 1
    /\ \E n \in synced..Len(lines) :
          /\ lines' = SubSeq(lines, 1, n) /\ synced' = n
          /\ torn' \in {FALSE, torn \/ n < Len(lines)}
    /\ view' = [p \in Processes |-> Down] /\ plan' = [p \in Processes |-> Idle]
    /\ UNCHANGED <<hashes, acknowledged>>

(* The operator cuts off what was not written completely.                  *)
Repair ==
    /\ torn /\ torn' = FALSE
    /\ UNCHANGED <<lines, synced, hashes, view, plan, faults, acknowledged>>

Next ==
    \/ \E p \in Processes :
          \/ Open(p) \/ Exit(p) \/ PlanConfirmation(p) \/ ConfirmAuto(p) \/ Confirm(p)
          \/ TrustPeer(p) \/ RevokePeer(p) \/ PlanPromotion(p) \/ Promote(p)
    \/ LosePower \/ Repair

Spec == Init /\ [][Next]_vars

-----------------------------------------------------------------------------
(* Properties *)

TrustType ==
    [primary : BOOLEAN, peers : [Names -> Keys \cup {NoKey}],
     active : [hash : 0..MaxLines, cert : Certs \cup {NoKey}, auto : BOOLEAN], seen : SUBSET Certs]

TypeOK ==
    /\ Len(lines) \in 1..MaxLines /\ torn \in BOOLEAN /\ synced \in 1..Len(lines)
    /\ HashesOf(lines) \subseteq 1..hashes
    /\ hashes \in 1..MaxLines
    /\ view \in [Processes -> [at : {"down", "open", "broken"}, seq : 0..MaxLines,
                               tail : 0..MaxLines, trust : TrustType]]
    /\ \A p \in Processes : plan[p].at \in {"idle", "confirm", "promote"}
    /\ faults \in 0..MaxFaults /\ acknowledged \subseteq 1..hashes

UpTo(n) == Replayed(Unread, SubSeq(lines, 1, n))

(* Whoever wrote last, and however a write ended: the next start replays   *)
(* every complete line that is in the file.                                *)
LogReplays == UpTo(Len(lines)).at = "open"

(* What an operation was told is recorded is in the file.                  *)
AcknowledgedStays == acknowledged \subseteq HashesOf(lines)

(* No process goes by something that is not in the file.                   *)
ViewsAreOfTheFile ==
    \A p \in Processes : view[p].at = "open" => view[p] = UpTo(view[p].seq)

(* A key that is confirmed automatically replaces the confirmation its     *)
(* plan was made from, never one that an operator wrote since, and no      *)
(* certificate comes back that way.                                        *)
AutoConfirmsWhatItRead ==
    \A i \in DOMAIN lines :
        lines[i].rec.type = "tenant" /\ lines[i].rec.auto
            => LET before == UpTo(i - 1).trust
               IN before.active.hash = lines[i].rec.read /\ lines[i].rec.cert \notin before.seen

(* When a gate becomes primary, the key of the one before is no longer     *)
(* trusted under any name; and no two names ever have one key.             *)
PromotionSupersedes ==
    \A i \in DOMAIN lines :
        LET trust == UpTo(i).trust
        IN /\ lines[i].rec.type = "role" =>
                \A n \in Names : trust.peers[n] = NoKey \/ trust.peers[n] # lines[i].rec.previous
           /\ \A n, m \in Names : trust.peers[n] = trust.peers[m] => n = m \/ trust.peers[n] = NoKey
=============================================================================
