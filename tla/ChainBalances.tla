---------------------------- MODULE ChainBalances ----------------------------
(***************************************************************************)
(* Native coins in the mode "balance": a round compares the balances of    *)
(* the watched addresses with those of the last round.  Where one has      *)
(* grown the blocks in between are searched; what is not found there (a    *)
(* contract paid it), or would need too many blocks, becomes a row without *)
(* a transaction, which a job resolves later.  Every receipt is of one     *)
(* unit, and nothing is spent.  The slices of ChainScan find nothing in    *)
(* this mode and only move the cursor; a worker that has the lease is      *)
(* alone here.                                                             *)
(***************************************************************************)
EXTENDS Naturals, Sequences, FiniteSets, FiniteSetsExt

CONSTANTS
    Receipts, Addresses,
    AddressOf,       \* to whom a receipt goes
    Internal,        \* receipts that no transaction of a block shows
    Confirmations,
    NativeGapCap,
    AttributeChunk
CONSTANTS            \* bounds of the model, and what it admits
    MaxHeight, MaxJobs,
    Faults           \* "crash": a round breaks off after it has written something;
                     \* "fork": blocks that were indexed are replaced;
                     \* "unwatch": an address is not watched for a while

AddressesAssumption == AddressOf \in [Receipts -> Addresses] /\ Internal \subseteq Receipts
NumbersAssumption ==
    {Confirmations, NativeGapCap, MaxHeight, MaxJobs} \subseteq Nat /\ AttributeChunk \in Nat \ {0}

VARIABLES
    chain,      \* the receipts of each confirmed block
    replaced,   \* the blocks up to the cursor that a reorganisation replaced
    cursor,
    watched,    \* wallet_user of the tenants that have the chain switched on
    snapshot,   \* wallet_user.scan_state: balance and block
    since,      \* the block of the first snapshot of an address
    index,      \* rows of transactions
    gaps,       \* rows without a transaction ("unattributed")
    jobs,       \* jobs of the kind "attribute"
    round

chainVars == <<chain, replaced, watched>>
vars == <<chain, replaced, cursor, watched, snapshot, since, index, gaps, jobs, round>>

-----------------------------------------------------------------------------
Height == Len(chain)
Blocks == 1..MaxHeight
NoSnapshot == [balance |-> 0, block |-> 0]
Snapshot == [balance : Nat, block : Blocks]
Row == [receipt : Receipts, block : Blocks, status : {"confirmed", "orphaned"}]
Gap == [address : Addresses, from : Blocks, block : Blocks, amount : Nat, status : {"confirmed", "orphaned"}]
Job == [from : Blocks, to : Blocks, progress : 0..MaxHeight]
NoRound == [step |-> "off"]
Round == [step : {"read", "enqueued", "committed"}, confirmed : Blocks, base : [Addresses -> {NoSnapshot} \cup Snapshot],
          rows : SUBSET Row, gaps : SUBSET Gap, deferred : SUBSET (Blocks \X Blocks)]

ReceivedIn(a, from, to) == {t \in UNION {chain[n] : n \in from..to} : AddressOf[t] = a}
BalanceAt(a, n) == Cardinality(ReceivedIn(a, 1, n))

(* rowsFromBlock of the blocks in from..to, for these addresses.           *)
Located(addresses, from, to) ==
    UNION {{[receipt |-> t, block |-> n, status |-> "confirmed"] :
              t \in {r \in chain[n] \ Internal : AddressOf[r] \in addresses}} : n \in from..to}

-----------------------------------------------------------------------------
(***************************************************************************)
(* The chain, seen from its confirmed part, and the watched addresses.     *)
(***************************************************************************)
Mine ==
    /\ Height < MaxHeight
    /\ \E ts \in SUBSET (Receipts \ UNION {chain[n] : n \in 1..Height}) : chain' = Append(chain, ts)
    /\ UNCHANGED <<replaced, cursor, watched, snapshot, since, index, gaps, jobs, round>>

(* The last block is replaced by one with the same receipts or fewer.      *)
Fork ==
    /\ "fork" \in Faults \/ Height > cursor
    /\ round = NoRound /\ Height > 1 /\ replaced = {}
    /\ \E ts \in SUBSET chain[Height] : chain' = [chain EXCEPT ![Height] = ts]
    /\ replaced' = {Height} \cap 1..cursor
    /\ UNCHANGED <<cursor, watched, snapshot, since, index, gaps, jobs, round>>

Watch(a) ==
    /\ a \in watched => "unwatch" \in Faults
    /\ watched' = IF a \in watched THEN watched \ {a} ELSE watched \cup {a}
    /\ UNCHANGED <<chain, replaced, cursor, snapshot, since, index, gaps, jobs, round>>

-----------------------------------------------------------------------------
(***************************************************************************)
(* A round: rows above the point to which a reorganisation sends the       *)
(* cursor are orphaned; then the cursor reaches the confirmed block, and   *)
(* the balances there are read.                                            *)
(***************************************************************************)
Orphaned(rows) ==
    {IF replaced # {} /\ row.block + Confirmations > cursor THEN [row EXCEPT !.status = "orphaned"] ELSE row : row \in rows}

Increased(n) == {a \in watched : snapshot[a] # NoSnapshot /\ BalanceAt(a, n) > snapshot[a].balance}
Delta(a, n) == BalanceAt(a, n) - snapshot[a].balance

Deferred(n) == {a \in Increased(n) : n - snapshot[a].block > NativeGapCap}
Targets(n) == Increased(n) \ Deferred(n)
ScanFrom(n) == Min({snapshot[a].block + 1 : a \in Targets(n)})
Searched(n) == IF Targets(n) = {} THEN {} ELSE Located(Targets(n), ScanFrom(n), n)

Missing(a, n) ==
    LET found == Cardinality({row \in Searched(n) : AddressOf[row.receipt] = a}) IN
    IF Delta(a, n) > found THEN Delta(a, n) - found ELSE 0

GapRows(n) ==
    {[address |-> a, from |-> snapshot[a].block + 1, block |-> n, amount |-> Missing(a, n), status |-> "confirmed"]
       : a \in {b \in Increased(n) : Missing(b, n) > 0}}

Begin ==
    /\ round = NoRound /\ (Height > cursor \/ replaced # {})
    /\ index' = Orphaned(index) /\ gaps' = Orphaned(gaps) /\ replaced' = {}
    /\ cursor' = Height
    /\ round' = [step |-> "read", confirmed |-> Height,
                 base |-> [a \in Addresses |-> IF a \in watched THEN [balance |-> BalanceAt(a, Height), block |-> Height]
                                               ELSE snapshot[a]],
                 rows |-> Searched(Height), gaps |-> GapRows(Height),
                 deferred |-> {<<snapshot[a].block + 1, Height>> : a \in Deferred(Height)}]
    /\ UNCHANGED <<chain, watched, snapshot, since, jobs>>

(* enqueueAttribute: unless a job covers the blocks already.               *)
EnqueueAttribute ==
    /\ round.step = "read"
    /\ LET new == {d \in round.deferred : ~\E j \in jobs : j.from <= d[1] /\ j.to >= d[2]} IN
       /\ Cardinality(jobs) + Cardinality(new) <= MaxJobs
       /\ jobs' = jobs \cup {[from |-> d[1], to |-> d[2], progress |-> d[1] - 1] : d \in new}
    /\ round' = [round EXCEPT !.step = "enqueued"]
    /\ UNCHANGED <<chainVars, cursor, snapshot, since, index, gaps>>

(* The rows are written, where a row with the same key is replaced; the    *)
(* balances follow in a transaction of their own.                          *)
Written(rows) == {row \in index : ~\E r \in rows : r.receipt = row.receipt /\ r.block = row.block} \cup rows
GapsWritten(rows) == {g \in gaps : ~\E r \in rows : r.address = g.address /\ r.block = g.block} \cup rows

CommitRows ==
    /\ round.step = "enqueued"
    /\ index' = Written(round.rows) /\ gaps' = GapsWritten(round.gaps)
    /\ round' = [round EXCEPT !.step = "committed"]
    /\ UNCHANGED <<chainVars, cursor, snapshot, since, jobs>>

SaveBalances ==
    /\ round.step = "committed"
    /\ snapshot' = round.base
    /\ since' = [a \in Addresses |-> IF snapshot[a] = NoSnapshot THEN snapshot'[a].block ELSE since[a]]
    /\ round' = NoRound
    /\ UNCHANGED <<chainVars, cursor, index, gaps, jobs>>

Crash ==
    /\ round # NoRound
    /\ "crash" \in Faults \/ round.step = "read"
    /\ round' = NoRound
    /\ UNCHANGED <<chainVars, cursor, snapshot, since, index, gaps, jobs>>

-----------------------------------------------------------------------------
(***************************************************************************)
(* A job, when the chain is caught up with: a few blocks are searched, and *)
(* in one transaction the rows are written and every row without a         *)
(* transaction that these blocks concern is reduced by what they add to    *)
(* it.  The progress is written afterwards, or not, if the process dies.   *)
(***************************************************************************)
LocatedSum(rows, g, from, to) ==
    Cardinality({row \in rows : /\ AddressOf[row.receipt] = g.address /\ row.status = "confirmed"
                                /\ row.block \in g.from..g.block /\ row.block \in from..to})

Concerns(g, from, to) == g.status = "confirmed" /\ g.from <= to /\ g.block >= from

(* A row that comes to nothing is deleted.                                 *)
Resolved(rows, from, to) ==
    LET Added(g) == LocatedSum(Written(rows), g, from, to) - LocatedSum(index, g, from, to) IN
    {g \in {IF ~Concerns(h, from, to) THEN h
            ELSE [h EXCEPT !.amount = IF @ > Added(h) THEN @ - Added(h) ELSE 0] : h \in gaps} : g.amount > 0}

AttributeStep(j) ==
    /\ round = NoRound /\ Height <= cursor
    /\ LET from == j.progress + 1  to == Min({j.progress + AttributeChunk, j.to, cursor})
           rows == Located(watched, from, to)
       IN  /\ from <= to
           /\ gaps' = Resolved(rows, from, to)
           /\ index' = Written(rows)
           /\ \/ jobs' = (jobs \ {j}) \cup (IF to < j.to THEN {[j EXCEPT !.progress = to]} ELSE {})
              \/ UNCHANGED jobs
    /\ UNCHANGED <<chainVars, cursor, snapshot, since, round>>

-----------------------------------------------------------------------------
Init ==
    /\ chain = <<{}>> /\ replaced = {} /\ cursor = 1
    /\ watched \in SUBSET Addresses
    /\ snapshot = [a \in Addresses |-> NoSnapshot] /\ since = [a \in Addresses |-> 0]
    /\ index = {} /\ gaps = {} /\ jobs = {}
    /\ round = NoRound

Next ==
    \/ Mine \/ Fork \/ \E a \in Addresses : Watch(a)
    \/ Begin \/ EnqueueAttribute \/ CommitRows \/ SaveBalances \/ Crash
    \/ \E j \in jobs : AttributeStep(j)

Spec == Init /\ [][Next]_vars

-----------------------------------------------------------------------------
TypeOK ==
    /\ chain \in Seq(SUBSET Receipts) /\ Height \in Blocks
    /\ replaced \subseteq Blocks /\ cursor \in Blocks /\ watched \subseteq Addresses
    /\ snapshot \in [Addresses -> {NoSnapshot} \cup Snapshot]
    /\ since \in [Addresses -> 0..MaxHeight]
    /\ index \subseteq Row /\ gaps \subseteq Gap /\ \A g \in gaps : g.amount > 0 /\ g.from <= g.block
    /\ jobs \subseteq Job
    /\ round = NoRound \/ round \in Round

(* The amounts are right: what the rows of an address add up to, with and  *)
(* without a transaction, is what the address received between its first   *)
(* snapshot and the last one; searching blocks again, a job that repeats a *)
(* step and rows written twice change nothing in it.                       *)
Listed(a) ==
    LET Counts(row) == row.status = "confirmed" /\ row.block \in (since[a] + 1)..snapshot[a].block IN
    Cardinality({row \in index : AddressOf[row.receipt] = a /\ Counts(row)})
      + MapThenSumSet(LAMBDA g : g.amount, {h \in gaps : h.address = a /\ Counts(h)})

=============================================================================
