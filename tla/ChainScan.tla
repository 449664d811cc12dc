------------------------------ MODULE ChainScan ------------------------------
(***************************************************************************)
(* The indexer of one chain: replicas that take a lease, follow the chain  *)
(* from the cursor of the database in slices, and write the transfers they *)
(* find together with the cursor.  The chain is as the endpoints show it:  *)
(* it grows, and it may lose its last blocks to a reorganisation.  A       *)
(* transfer is a model value that a block contains; a row of it is keyed   *)
(* by transfer and block.  What the modes of native coins do is in         *)
(* ChainBalances, the queue of jobs in ChainScanControl.                   *)
(***************************************************************************)
EXTENDS Naturals, Sequences, FiniteSets

CONSTANTS
    Workers,        \* one worker of this chain in each replica
    Transfers,      \* incoming transfers of watched addresses
    Confirmations,
    Span            \* blocks of a slice
CONSTANTS           \* bounds of the model, and what it admits
    MaxHeight, MaxBlocks,
    MaxDepth,       \* how far a reorganisation goes below the highest head
    Races,          \* "torn": a reorganisation falls between the logs and the tip of a slice;
                    \* "stale": the cursor moves between the read of it and the lease;
                    \* "slow": a round outlasts the lease
    Faults          \* how many rounds may break off

(* The settings are not saved with fewer than one confirmation.            *)
ASSUME WholeNumbers ==
    /\ {Confirmations, Span, MaxHeight, MaxBlocks} \subseteq Nat \ {0}
    /\ {MaxDepth, Faults} \subseteq Nat
ASSUME RacesAssumption == Races \subseteq {"torn", "stale", "slow"}

VARIABLES
    chain,      \* the blocks that the endpoints show
    blocks,     \* how many blocks were ever mined: the hash of the next one
    top,        \* the highest head so far
    cursor,     \* chain_scan_state: scanned_to_block and scanned_to_hash
    lease,      \* chain_scan_state.lease_owner, Free once it is expired
    index,      \* wallet_transfer_index
    pushes,     \* how often a row was put into the outbox
    round,      \* the round of each worker
    faults

chainVars == <<chain, blocks, top>>
vars == <<chain, blocks, top, cursor, lease, index, pushes, round, faults>>

-----------------------------------------------------------------------------
Free == "free"
ASSUME FreeAssumption == Free \notin Workers

Heights == 1..MaxHeight
Cursor == [block : 0..MaxHeight, hash : 0..MaxBlocks]
NoCursor == [block |-> 0, hash |-> 0]
StartBlock == 1

Key == [transfer : Transfers, block : Heights]
Row == [transfer : Transfers, block : Heights, hash : 1..MaxBlocks, status : {"confirmed", "orphaned"}]
KeyOf(row) == [transfer |-> row.transfer, block |-> row.block]

Steps == {"off", "loaded", "begun", "orphaned", "scanning", "read", "tip", "looked", "idle", "rescan"}
Round == [step : Steps, known : Cursor, confirmed : 0..MaxHeight, to : 0..MaxHeight,
          hash : 0..MaxBlocks, rows : SUBSET Row, fresh : SUBSET Key]
NoRound == [step |-> "off", known |-> NoCursor, confirmed |-> 0, to |-> 0, hash |-> 0, rows |-> {}, fresh |-> {}]

HeadBlock == Len(chain)
Hash(n) == chain[n].hash
Found(from, to) ==
    UNION {{[transfer |-> t, block |-> n, hash |-> Hash(n), status |-> "confirmed"] : t \in chain[n].transfers}
             : n \in {m \in from..to : m <= HeadBlock}}

Least(a, b) == IF a < b THEN a ELSE b
Subtract(n, m) == IF n > m THEN n - m ELSE 0

-----------------------------------------------------------------------------
(***************************************************************************)
(* The chain.                                                              *)
(***************************************************************************)
Mined == UNION {chain[n].transfers : n \in 1..HeadBlock}

Mine ==
    /\ HeadBlock < MaxHeight /\ blocks < MaxBlocks
    /\ blocks' = blocks + 1
    /\ \E ts \in SUBSET (Transfers \ Mined) :
         chain' = Append(chain, [hash |-> blocks', transfers |-> ts])
    /\ top' = IF Len(chain') > top THEN Len(chain') ELSE top
    /\ UNCHANGED <<cursor, lease, index, pushes, round, faults>>

(* A reorganisation keeps the first n blocks.                              *)
Fork(n) ==
    /\ n < HeadBlock /\ n + MaxDepth >= top
    /\ blocks < MaxBlocks
    /\ "torn" \in Races \/ \A w \in Workers : round[w].step = "read" => round[w].to <= n
    /\ chain' = SubSeq(chain, 1, n)
    /\ UNCHANGED <<blocks, top, cursor, lease, index, pushes, round, faults>>

-----------------------------------------------------------------------------
(***************************************************************************)
(* The beginning of a round: the state is read (or written, the first time *)
(* this chain is scanned), then the lease is taken, then the head is read. *)
(* The lease is not renewed before the next round.                         *)
(***************************************************************************)
EnsureState(w) ==
    /\ round[w].step = "off"
    /\ cursor' = IF cursor = NoCursor THEN [block |-> StartBlock, hash |-> Hash(StartBlock)] ELSE cursor
    /\ round' = [round EXCEPT ![w] = [NoRound EXCEPT !.step = "loaded", !.known = cursor']]
    /\ UNCHANGED <<chainVars, lease, index, pushes, faults>>

MayLease(w) == lease \in {Free, w}

(* An endpoint that is behind the cursor is passed over; with no other one *)
(* the round ends.                                                         *)
AcquireLease(w) ==
    /\ round[w].step = "loaded"
    /\ lease' = IF MayLease(w) THEN w ELSE lease
    /\ LET known == IF "stale" \in Races THEN round[w].known ELSE cursor IN
       round' = [round EXCEPT ![w] =
                   IF MayLease(w) /\ HeadBlock >= known.block
                   THEN [@ EXCEPT !.step = "begun", !.known = known, !.confirmed = Subtract(HeadBlock, Confirmations)]
                   ELSE NoRound]
    /\ UNCHANGED <<chainVars, cursor, index, pushes, faults>>

-----------------------------------------------------------------------------
(***************************************************************************)
(* The reorganisation check: if the block of the cursor has another hash,  *)
(* the rows above a point Confirmations below it are orphaned, and the     *)
(* cursor goes back there in a second transaction.                         *)
(***************************************************************************)
Back(n) == IF Subtract(n, Confirmations) < StartBlock THEN StartBlock ELSE Subtract(n, Confirmations)

Orphaned(n) == {IF row.block > n THEN [row EXCEPT !.status = "orphaned"] ELSE row : row \in index}

Compare(w) ==
    /\ round[w].step = "begun"
    /\ LET known == round[w].known  back == Back(known.block) IN
       /\ HeadBlock >= known.block
       /\ IF Hash(known.block) = known.hash
          THEN /\ round' = [round EXCEPT ![w].step = "scanning"]
               /\ UNCHANGED index
          ELSE /\ index' = Orphaned(back)
               /\ round' = [round EXCEPT ![w].step = "orphaned", ![w].to = back, ![w].hash = Hash(back)]
    /\ UNCHANGED <<chainVars, cursor, lease, pushes, faults>>

(* The cursor of the database moves with that of the round.                *)
Advance(w) == cursor' = [block |-> round[w].to, hash |-> round[w].hash]

Rewind(w) ==
    /\ round[w].step = "orphaned"
    /\ Advance(w)
    /\ round' = [round EXCEPT ![w].step = "scanning", ![w].known = cursor']
    /\ UNCHANGED <<chainVars, lease, index, pushes, faults>>

-----------------------------------------------------------------------------
(***************************************************************************)
(* A slice: the logs are read, then the header of its last block; the      *)
(* transaction looks which of the rows are new, writes them all, puts the  *)
(* new ones into the outbox and moves the cursor.                          *)
(***************************************************************************)
From(w) == round[w].known.block + 1

To_Before(w) == Least(round[w].known.block + Span, round[w].confirmed - 1)
To(w) == Least(round[w].known.block + Span, round[w].confirmed)

ReadSlice(w) ==
    /\ round[w].step = "scanning"
    /\ round[w].known.block < round[w].confirmed /\ HeadBlock >= To(w)
    /\ round' = [round EXCEPT ![w].step = "read", ![w].to = To(w), ![w].rows = Found(From(w), To(w))]
    /\ UNCHANGED <<chainVars, cursor, lease, index, pushes, faults>>

ReadTip(w) ==
    /\ round[w].step = "read"
    /\ HeadBlock >= round[w].to
    /\ round' = [round EXCEPT ![w].step = "tip", ![w].hash = Hash(round[w].to)]
    /\ UNCHANGED <<chainVars, cursor, lease, index, pushes, faults>>

(* The transaction takes its view of the table with this look.             *)
Fresh(w) == {KeyOf(row) : row \in round[w].rows} \ {KeyOf(row) : row \in index}

Look(w) ==
    /\ round[w].step = "tip"
    /\ round' = [round EXCEPT ![w].step = "looked", ![w].fresh = Fresh(w)]
    /\ UNCHANGED <<chainVars, cursor, lease, index, pushes, faults>>

(* INSERT .. ON DUPLICATE KEY UPDATE status='confirmed', block_hash=...    *)
Upserted_Ignore(rows) == index \cup {row \in rows : KeyOf(row) \notin {KeyOf(r) : r \in index}}
Upserted(rows) == {row \in index : KeyOf(row) \notin {KeyOf(r) : r \in rows}} \cup rows

CommitSlice(w) ==
    /\ round[w].step = "looked"
    /\ index' = Upserted(round[w].rows)
    /\ pushes' = [k \in Key |-> pushes[k] + (IF k \in round[w].fresh THEN 1 ELSE 0)]
    /\ Advance(w)
    /\ round' = [round EXCEPT ![w] = [NoRound EXCEPT !.step = "scanning", !.known = cursor',
                                                          !.confirmed = round[w].confirmed]]
    /\ UNCHANGED <<chainVars, lease, faults>>

-----------------------------------------------------------------------------
(***************************************************************************)
(* Once the round has caught up it works on a job: a rescan reads blocks   *)
(* up to the confirmed one and writes their rows, without a push and       *)
(* without the cursor.                                                     *)
(***************************************************************************)
CaughtUp(w) ==
    /\ round[w].step = "scanning" /\ round[w].known.block >= round[w].confirmed
    /\ round' = [round EXCEPT ![w].step = "idle"]
    /\ UNCHANGED <<chainVars, cursor, lease, index, pushes, faults>>

ReadRescan(w) ==
    /\ round[w].step = "idle"
    /\ \E from, to \in (StartBlock + 1)..round[w].confirmed :
         /\ from <= to
         /\ round' = [round EXCEPT ![w].step = "rescan", ![w].rows = Found(from, to)]
    /\ UNCHANGED <<chainVars, cursor, lease, index, pushes, faults>>

RescanStep(w) ==
    /\ round[w].step = "rescan"
    /\ index' = Upserted(round[w].rows)
    /\ round' = [round EXCEPT ![w] = NoRound]
    /\ UNCHANGED <<chainVars, cursor, lease, pushes, faults>>

Finish(w) ==
    /\ round[w].step = "idle"
    /\ round' = [round EXCEPT ![w] = NoRound]
    /\ UNCHANGED <<chainVars, cursor, lease, index, pushes, faults>>

(* An error ends the round, here because the endpoint does not have the    *)
(* block any more; so does the death of the process.                       *)
Short(w) ==
    \/ round[w].step = "begun" /\ HeadBlock < round[w].known.block
    \/ round[w].step = "scanning" /\ round[w].known.block < round[w].confirmed /\ HeadBlock < To(w)
    \/ round[w].step = "read" /\ HeadBlock < round[w].to

FailShort(w) ==
    /\ Short(w)
    /\ round' = [round EXCEPT ![w] = NoRound]
    /\ UNCHANGED <<chainVars, cursor, lease, index, pushes, faults>>

Fail(w) ==
    /\ round[w].step # "off"
    /\ faults < Faults /\ faults' = faults + 1
    /\ round' = [round EXCEPT ![w] = NoRound]
    /\ UNCHANGED <<chainVars, cursor, lease, index, pushes>>

(* The replica is shut down, and its worker releases the lease.            *)
ReleaseLease(w) ==
    /\ faults < Faults /\ faults' = faults + 1
    /\ lease' = IF lease = w THEN Free ELSE lease
    /\ round' = [round EXCEPT ![w] = NoRound]
    /\ UNCHANGED <<chainVars, cursor, index, pushes>>

Expire ==
    /\ lease # Free
    /\ "slow" \in Races \/ round[lease].step \in {"off", "loaded"}
    /\ lease' = Free
    /\ UNCHANGED <<chainVars, cursor, index, pushes, round, faults>>

-----------------------------------------------------------------------------
Init ==
    /\ blocks = StartBlock /\ top = StartBlock
    /\ chain = <<[hash |-> 1, transfers |-> {}]>>
    /\ cursor = NoCursor /\ lease = Free
    /\ index = {} /\ pushes = [k \in Key |-> 0]
    /\ round = [w \in Workers |-> NoRound]
    /\ faults = 0

Work(w) ==
    \/ EnsureState(w) \/ AcquireLease(w)
    \/ Compare(w) \/ Rewind(w)
    \/ ReadSlice(w) \/ ReadTip(w) \/ Look(w) \/ CommitSlice(w)
    \/ CaughtUp(w) \/ RescanStep(w) \/ Finish(w) \/ FailShort(w)

Next ==
    \/ Mine \/ \E n \in Heights : Fork(n)
    \/ \E w \in Workers : Work(w) \/ ReadRescan(w) \/ Fail(w) \/ ReleaseLease(w)
    \/ Expire

Spec == Init /\ [][Next]_vars

(* Workers go on with their rounds, and a lease nobody renews expires.     *)
Fairness == (\A w \in Workers : WF_vars(Work(w))) /\ WF_vars(Expire)
FairSpec == Spec /\ Fairness

-----------------------------------------------------------------------------
TypeOK ==
    /\ chain \in Seq([hash : 1..MaxBlocks, transfers : SUBSET Transfers]) /\ HeadBlock \in Heights
    /\ blocks \in 1..MaxBlocks /\ top \in Heights
    /\ cursor \in Cursor /\ lease \in Workers \cup {Free}
    /\ index \subseteq Row /\ pushes \in [Key -> Nat]
    /\ round \in [Workers -> Round] /\ faults \in 0..Faults

(* The index lists exactly the transfers of the chain up to the cursor, as *)
(* long as the cursor is a block of this chain: nothing is skipped, and    *)
(* what a reorganisation removed is orphaned, wherever rounds break off,   *)
(* endpoints lose blocks and the lease changes hands.  (Otherwise the next *)
(* round goes back.)                                                       *)
Confirmed(n) == {KeyOf(row) : row \in {r \in index : r.status = "confirmed" /\ r.block <= n}}
OnChain(n) == {KeyOf(row) : row \in Found(StartBlock + 1, n)}

IndexIsTheChain ==
    cursor # NoCursor /\ HeadBlock >= cursor.block /\ Hash(cursor.block) = cursor.hash =>
        Confirmed(cursor.block) = OnChain(cursor.block)

(* A received transfer is announced once, whatever is read again after a   *)
(* failure, a reorganisation or by a rescan.                               *)
NotifiedOnce == \A k \in Key : pushes[k] <= 1

(* The indexer catches up: in the end every confirmed block is indexed,    *)
(* although replicas die with the lease.                                   *)
Indexed == cursor # NoCursor /\ cursor.block >= Subtract(HeadBlock, Confirmations)
CatchesUp == <>[](Indexed \/ HeadBlock < cursor.block)
=============================================================================
