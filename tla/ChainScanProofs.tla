-------------------------- MODULE ChainScanProofs --------------------------
(***************************************************************************)
(* What the index says of the chain, proved of ChainScan for any number of *)
(* replicas, transfers, blocks and confirmations.  The lease lets one      *)
(* worker write at a time; a reorganisation reaches so far below the head  *)
(* that a block of a slice may go while the slice is read, but not the     *)
(* block the slice begins after.                                           *)
(***************************************************************************)
EXTENDS ChainScan, SequenceTheorems, TLAPS

Block == [hash : 1..MaxBlocks, transfers : SUBSET Transfers]

-----------------------------------------------------------------------------
(***************************************************************************)
(* Types.                                                                  *)
(***************************************************************************)
LEMMA Numbers ==
    /\ Confirmations \in Nat /\ Confirmations > 0 /\ Span \in Nat /\ Span > 0
    /\ MaxHeight \in Nat /\ MaxHeight > 0 /\ MaxBlocks \in Nat /\ MaxBlocks > 0
    /\ MaxDepth \in Nat /\ Faults \in Nat
  BY WholeNumbers

LEMMA SubtractType ==
    ASSUME NEW n \in Nat, NEW m \in Nat
    PROVE  Subtract(n, m) \in 0..n /\ (Subtract(n, m) = 0 \/ Subtract(n, m) + m = n)
  BY DEF Subtract

(* The point that a reorganisation takes the cursor back to.               *)
LEMMA BackType ==
    ASSUME NEW n \in Nat
    PROVE  /\ Back(n) \in Nat /\ Back(n) >= 1
           /\ Back(n) = 1 \/ Back(n) + Confirmations = n
           /\ n > 0 => Back(n) <= n
  BY Numbers DEF Back, Subtract, StartBlock

(* The types of the chain and those of the indexer, apart.                 *)
ChainType ==
    /\ chain \in Seq(Block) /\ HeadBlock \in Heights
    /\ blocks \in 1..MaxBlocks /\ top \in Heights

IndexerType ==
    /\ cursor \in Cursor /\ lease \in Workers \cup {Free}
    /\ index \subseteq Row /\ pushes \in [Key -> Nat]
    /\ round \in [Workers -> Round] /\ faults \in 0..Faults

LEMMA TypeParts == TypeOK <=> ChainType /\ IndexerType
  BY DEF TypeOK, ChainType, IndexerType, Block

LEMMA ChainTypes ==
    ASSUME TypeOK
    PROVE  /\ chain \in Seq(Block)
           /\ HeadBlock \in Nat /\ HeadBlock >= 1 /\ HeadBlock <= MaxHeight
           /\ \A b \in 1..HeadBlock : /\ chain[b] \in Block
                                      /\ chain[b].hash \in 1..MaxBlocks
                                      /\ chain[b].transfers \subseteq Transfers
           /\ blocks \in Nat /\ blocks >= 1 /\ blocks <= MaxBlocks
           /\ top \in Nat /\ top <= MaxHeight
<1>1. chain \in Seq(Block) /\ HeadBlock \in Heights /\ top \in Heights /\ blocks \in 1..MaxBlocks
  BY TypeParts DEF ChainType
<1>2. \A b \in 1..HeadBlock : chain[b] \in Block
  BY <1>1, ElementOfSeq DEF HeadBlock
<1> QED
  BY <1>1, <1>2, Numbers DEF Block, Heights

(* What a read of the blocks from .. to returns.                           *)
LEMMA FoundRows ==
    ASSUME TypeOK, NEW from \in Nat, NEW to \in Nat, from > 0
    PROVE  /\ Found(from, to) \subseteq Row
           /\ \A row \in Found(from, to) :
                 /\ row.block \in from..to /\ row.block <= HeadBlock
                 /\ row.transfer \in chain[row.block].transfers
                 /\ row.status = "confirmed" /\ row.hash = Hash(row.block)
           /\ \A b \in from..to : b <= HeadBlock =>
                 \A t \in chain[b].transfers : \E row \in Found(from, to) : row.block = b /\ row.transfer = t
<1>1. ASSUME NEW row \in Found(from, to)
      PROVE  /\ row \in Row /\ row.block \in from..to /\ row.block <= HeadBlock
             /\ row.transfer \in chain[row.block].transfers
             /\ row.status = "confirmed" /\ row.hash = Hash(row.block)
  <2>1. PICK n \in {m \in from..to : m <= HeadBlock} :
               \E t \in chain[n].transfers :
                  row = [transfer |-> t, block |-> n, hash |-> Hash(n), status |-> "confirmed"]
    BY <1>1 DEF Found
  <2>2. n \in 1..HeadBlock /\ n \in Heights
    BY ChainTypes, Numbers DEF Heights
  <2>3. chain[n].transfers \subseteq Transfers /\ Hash(n) \in 1..MaxBlocks
    BY <2>2, ChainTypes DEF Hash
  <2>4. PICK t \in chain[n].transfers :
               row = [transfer |-> t, block |-> n, hash |-> Hash(n), status |-> "confirmed"]
    BY <2>1
  <2> QED
    BY <2>2, <2>3, <2>4 DEF Row
<1>2. ASSUME NEW b \in from..to, b <= HeadBlock, NEW t \in chain[b].transfers
      PROVE  \E row \in Found(from, to) : row.block = b /\ row.transfer = t
  <2> DEFINE row == [transfer |-> t, block |-> b, hash |-> Hash(b), status |-> "confirmed"]
  <2>1. row \in Found(from, to)
    BY <1>2 DEF Found
  <2> QED
    BY <2>1
<1> QED
  BY <1>1, <1>2

(* A block is mined, or the last ones go.                                  *)
LEMMA MineEffect ==
    ASSUME TypeOK, Mine
    PROVE  /\ chain' \in Seq(Block)
           /\ HeadBlock' = HeadBlock + 1 /\ HeadBlock' <= MaxHeight
           /\ \A b \in 1..HeadBlock : chain'[b] = chain[b]
           /\ chain'[HeadBlock + 1].hash = blocks + 1
           /\ blocks' = blocks + 1 /\ blocks' <= MaxBlocks
           /\ top' = IF HeadBlock + 1 > top THEN HeadBlock + 1 ELSE top
<1>1. PICK ts \in SUBSET (Transfers \ Mined) : chain' = Append(chain, [hash |-> blocks', transfers |-> ts])
  BY DEF Mine
<1>2. blocks' = blocks + 1 /\ blocks' \in 1..MaxBlocks
  BY ChainTypes, Numbers DEF Mine
<1>3. [hash |-> blocks', transfers |-> ts] \in Block
  BY <1>1, <1>2 DEF Block
<1>4. /\ chain' \in Seq(Block) /\ Len(chain') = Len(chain) + 1
      /\ \A b \in 1..Len(chain) : chain'[b] = chain[b]
      /\ chain'[Len(chain) + 1] = [hash |-> blocks', transfers |-> ts]
  BY <1>1, <1>3, ChainTypes, AppendProperties
<1> QED
  BY <1>2, <1>4, ChainTypes, Numbers DEF Mine, HeadBlock

LEMMA ForkEffect ==
    ASSUME TypeOK, NEW n \in Heights, Fork(n)
    PROVE  /\ chain' \in Seq(Block)
           /\ HeadBlock' = n /\ n < HeadBlock /\ n \in Nat /\ n >= 1
           /\ \A b \in 1..n : chain'[b] = chain[b]
<1>1. n < Len(chain) /\ n \in Nat /\ n >= 1 /\ Len(chain) \in Nat
  BY ChainTypes, Numbers DEF Fork, HeadBlock, Heights
<1>2. \A i \in 1..n : chain[i] \in Block
  BY <1>1, ChainTypes DEF HeadBlock
<1>3. /\ SubSeq(chain, 1, n) \in Seq(Block)
      /\ Len(SubSeq(chain, 1, n)) = n
      /\ \A i \in 1..n : SubSeq(chain, 1, n)[i] = chain[i]
  <2>1. /\ SubSeq(chain, 1, n) \in Seq(Block)
        /\ Len(SubSeq(chain, 1, n)) = IF 1 <= n THEN n - 1 + 1 ELSE 0
        /\ \A i \in 1 .. n - 1 + 1 : SubSeq(chain, 1, n)[i] = chain[1 + i - 1]
    BY <1>1, <1>2, SubSeqProperties
  <2> QED
    BY <1>1, <2>1
<1> QED
  BY <1>1, <1>3 DEF Fork, HeadBlock

(* A slice has at least one block.                                         *)
SlicesHaveATip == \A w \in Workers : round[w].step = "read" => round[w].to > 0

Types == TypeOK /\ SlicesHaveATip

LEMMA TypesInit == Init => Types
<1> SUFFICES ASSUME Init PROVE Types
  OBVIOUS
<1>1. [hash |-> 1, transfers |-> {}] \in Block
  BY Numbers DEF Block
<1>2. chain \in Seq(Block) /\ HeadBlock = 1
  BY <1>1 DEF Init, HeadBlock
<1>3. ChainType
  BY <1>2, Numbers DEF Init, ChainType, Heights, StartBlock
<1>4. NoRound \in Round /\ NoRound.step = "off"
  BY Numbers DEF NoRound, Round, Steps, NoCursor, Cursor
<1>5. NoCursor \in Cursor
  BY Numbers DEF NoCursor, Cursor
<1>6. pushes \in [Key -> Nat]
  BY DEF Init
<1>7. round \in [Workers -> Round]
  BY <1>4 DEF Init
<1>8. IndexerType
  BY <1>5, <1>6, <1>7, Numbers DEF Init, IndexerType
<1>9. SlicesHaveATip
  BY <1>4 DEF Init, SlicesHaveATip
<1> QED
  BY <1>3, <1>8, <1>9, TypeParts DEF Types

LEMMA ChainTypeStep == TypeOK /\ [Next]_vars => ChainType'
<1> SUFFICES ASSUME TypeOK, [Next]_vars PROVE ChainType'
  OBVIOUS
<1>1. ChainType
  BY TypeParts
<1>2. CASE Mine
  BY <1>2, MineEffect, ChainTypes, Numbers DEF ChainType, Heights
<1>3. ASSUME NEW n \in Heights, Fork(n) PROVE ChainType'
  BY <1>1, <1>3, ForkEffect DEF ChainType, Fork
<1>4. CASE UNCHANGED chainVars
  BY <1>1, <1>4 DEF ChainType, chainVars, HeadBlock
<1>5. Expire \/ UNCHANGED vars => UNCHANGED chainVars
  BY DEF Expire, vars, chainVars
<1>6. ASSUME NEW w \in Workers, Work(w) \/ ReadRescan(w) \/ Fail(w) \/ ReleaseLease(w)
      PROVE  UNCHANGED chainVars
  <2>1. EnsureState(w) \/ AcquireLease(w) \/ Compare(w) \/ Rewind(w) => UNCHANGED chainVars
    BY DEF EnsureState, AcquireLease, Compare, Rewind
  <2>2. ReadSlice(w) \/ ReadTip(w) \/ Look(w) \/ CommitSlice(w) => UNCHANGED chainVars
    BY DEF ReadSlice, ReadTip, Look, CommitSlice
  <2>3. CaughtUp(w) \/ RescanStep(w) \/ Finish(w) \/ FailShort(w) => UNCHANGED chainVars
    BY DEF CaughtUp, RescanStep, Finish, FailShort
  <2>4. ReadRescan(w) \/ Fail(w) \/ ReleaseLease(w) => UNCHANGED chainVars
    BY DEF ReadRescan, Fail, ReleaseLease
  <2> QED
    BY <1>6, <2>1, <2>2, <2>3, <2>4 DEF Work
<1> QED
  BY <1>2, <1>3, <1>4, <1>5, <1>6 DEF Next

LEMMA IndexerTypeStep == Types /\ [Next]_vars => IndexerType'
<1> SUFFICES ASSUME Types, [Next]_vars PROVE IndexerType'
  OBVIOUS
<1> USE Numbers
<1>t. TypeOK /\ SlicesHaveATip /\ IndexerType
  BY TypeParts DEF Types
<1>0. NoRound \in Round
  BY DEF NoRound, Round, Steps, NoCursor, Cursor
<1>1. CASE Mine
  BY <1>1, <1>t DEF Mine, IndexerType
<1>2. ASSUME NEW n \in Heights, Fork(n) PROVE IndexerType'
  BY <1>2, <1>t DEF Fork, IndexerType
<1>3. ASSUME NEW w \in Workers, Work(w) \/ ReadRescan(w) \/ Fail(w) \/ ReleaseLease(w)
      PROVE  IndexerType'
  <2>0. round[w] \in Round
    BY <1>t DEF IndexerType
  <2>1. CASE EnsureState(w)
    <3>1. cursor' \in Cursor
      <4>1. Hash(1) \in 0..MaxBlocks
        BY <1>t, ChainTypes DEF Hash
      <4>2. [block |-> 1, hash |-> Hash(1)] \in Cursor
        BY <4>1 DEF Cursor
      <4>3. cursor' = [block |-> 1, hash |-> Hash(1)] \/ cursor' = cursor
        BY <2>1 DEF EnsureState, StartBlock
      <4> QED
        BY <4>2, <4>3, <1>t DEF IndexerType
    <3>2. [NoRound EXCEPT !.step = "loaded", !.known = cursor'] \in Round
      BY <3>1, <1>0 DEF Round, Steps
    <3> QED
      BY <2>1, <3>1, <3>2, <1>t DEF EnsureState, IndexerType
  <2>2. CASE AcquireLease(w)
    <3>1. ASSUME NEW known \in Cursor
          PROVE  [round[w] EXCEPT !.step = "begun", !.known = known,
                                  !.confirmed = Subtract(HeadBlock, Confirmations)] \in Round
      <4>1. Subtract(HeadBlock, Confirmations) \in 0..MaxHeight
        <5>1. HeadBlock \in Nat /\ HeadBlock <= MaxHeight
          BY <1>t, ChainTypes
        <5>2. Subtract(HeadBlock, Confirmations) \in 0..HeadBlock
          BY <5>1, SubtractType
        <5> QED
          BY <5>1, <5>2
      <4> QED
        BY <2>0, <4>1 DEF Round, Steps
    <3>2. cursor \in Cursor /\ round[w].known \in Cursor
      BY <2>0, <1>t DEF IndexerType, Round
    <3> QED
      BY <2>2, <3>1, <3>2, <1>0, <1>t DEF AcquireLease, IndexerType
  <2>3. CASE Compare(w)
    <3> DEFINE back == Back(round[w].known.block)
    <3>1. round[w].known \in Cursor
      BY <2>0 DEF Round
    <3>2. round[w].known.block \in 0..MaxHeight /\ HeadBlock >= round[w].known.block
      BY <2>3, <3>1 DEF Compare, Cursor
    <3>3. back \in 1..HeadBlock /\ back \in 0..MaxHeight
      <4>1. HeadBlock \in Nat /\ HeadBlock >= 1 /\ HeadBlock <= MaxHeight
        BY <1>t, ChainTypes
      <4>2. /\ back \in Nat /\ back >= 1
            /\ back = 1 \/ back + Confirmations = round[w].known.block
            /\ round[w].known.block > 0 => back <= round[w].known.block
        BY <3>2, BackType
      <4> QED
        BY <3>2, <4>1, <4>2
    <3>4. Hash(back) \in 0..MaxBlocks
      BY <3>3, ChainTypes, <1>t DEF Hash
    <3>5. [round[w] EXCEPT !.step = "scanning"] \in Round
      BY <2>0 DEF Round, Steps
    <3>6. [round[w] EXCEPT !.step = "orphaned", !.to = back, !.hash = Hash(back)] \in Round
      BY <2>0, <3>3, <3>4 DEF Round, Steps
    <3>7. Orphaned(back) \subseteq Row
      BY <1>t DEF Orphaned, IndexerType, Row
    <3>8. index' \subseteq Row
      BY <2>3, <3>7, <1>t DEF Compare, IndexerType
    <3>9. round' \in [Workers -> Round]
      BY <2>3, <3>5, <3>6, <1>t DEF Compare, IndexerType
    <3> QED
      BY <2>3, <3>8, <3>9, <1>t DEF Compare, IndexerType
  <2>4. CASE Rewind(w)
    <3>1. cursor' \in Cursor
      BY <2>4, <2>0 DEF Rewind, Advance, Cursor, Round
    <3>2. [round[w] EXCEPT !.step = "scanning", !.known = cursor'] \in Round
      BY <2>0, <3>1 DEF Round, Steps
    <3> QED
      BY <2>4, <3>1, <3>2, <1>t DEF Rewind, IndexerType
  <2>5. CASE ReadSlice(w)
    <3>1. round[w].known.block \in 0..MaxHeight /\ round[w].confirmed \in 0..MaxHeight
      BY <2>0 DEF Round, Cursor
    <3>2. To(w) \in 0..MaxHeight /\ From(w) \in Nat /\ From(w) > 0
      BY <3>1 DEF To, From, Least
    <3>3. Found(From(w), To(w)) \subseteq Row
      BY <3>2, FoundRows, <1>t
    <3>4. [round[w] EXCEPT !.step = "read", !.to = To(w), !.rows = Found(From(w), To(w))] \in Round
      BY <2>0, <3>2, <3>3 DEF Round, Steps
    <3> QED
      BY <2>5, <3>4, <1>t DEF ReadSlice, IndexerType
  <2>6. CASE ReadTip(w)
    <3>1. round[w].to \in 0..MaxHeight /\ round[w].to > 0
      BY <2>0, <2>6, <1>t DEF Round, SlicesHaveATip, ReadTip
    <3>2. Hash(round[w].to) \in 0..MaxBlocks
      <4>1. round[w].to \in 1..HeadBlock /\ chain[round[w].to] \in Block
        BY <2>6, <3>1, ChainTypes, <1>t DEF ReadTip
      <4> QED
        BY <4>1 DEF Hash, Block
    <3>3. [round[w] EXCEPT !.step = "tip", !.hash = Hash(round[w].to)] \in Round
      BY <2>0, <3>2 DEF Round, Steps
    <3> QED
      BY <2>6, <3>3, <1>t DEF ReadTip, IndexerType
  <2>7. CASE Look(w)
    <3>1. Fresh(w) \subseteq Key
      BY <2>0 DEF Fresh, Round, Row, Key, KeyOf
    <3>2. [round[w] EXCEPT !.step = "looked", !.fresh = Fresh(w)] \in Round
      BY <2>0, <3>1 DEF Round, Steps
    <3> QED
      BY <2>7, <3>2, <1>t DEF Look, IndexerType
  <2>8. CASE CommitSlice(w)
    <3>1. cursor' \in Cursor
      BY <2>8, <2>0 DEF CommitSlice, Advance, Cursor, Round
    <3>2. index' \subseteq Row
      BY <2>8, <2>0, <1>t DEF CommitSlice, Upserted, IndexerType, Round
    <3>3. pushes' \in [Key -> Nat]
      BY <2>8, <1>t DEF CommitSlice, IndexerType
    <3>4. [NoRound EXCEPT !.step = "scanning", !.known = cursor', !.confirmed = round[w].confirmed] \in Round
      BY <1>0, <2>0, <3>1 DEF Round, Steps
    <3> QED
      BY <2>8, <3>1, <3>2, <3>3, <3>4, <1>t DEF CommitSlice, IndexerType
  <2>9. CASE CaughtUp(w)
    <3>1. [round[w] EXCEPT !.step = "idle"] \in Round
      BY <2>0 DEF Round, Steps
    <3> QED
      BY <2>9, <3>1, <1>t DEF CaughtUp, IndexerType
  <2>10. CASE ReadRescan(w)
    <3>1. PICK from, to \in (StartBlock + 1)..round[w].confirmed :
              round' = [round EXCEPT ![w].step = "rescan", ![w].rows = Found(from, to)]
      BY <2>10 DEF ReadRescan
    <3>2. Found(from, to) \subseteq Row
      <4>1. from \in Nat /\ to \in Nat /\ from > 0
        BY <2>0 DEF Round, StartBlock
      <4> QED
        BY <4>1, FoundRows, <1>t
    <3>3. [round[w] EXCEPT !.step = "rescan", !.rows = Found(from, to)] \in Round
      BY <2>0, <3>2 DEF Round, Steps
    <3> QED
      BY <2>10, <3>1, <3>3, <1>t DEF ReadRescan, IndexerType
  <2>11. CASE RescanStep(w)
    <3>1. index' \subseteq Row
      BY <2>11, <2>0, <1>t DEF RescanStep, Upserted, IndexerType, Round
    <3> QED
      BY <2>11, <3>1, <1>0, <1>t DEF RescanStep, IndexerType
  <2>12. CASE Finish(w) \/ FailShort(w) \/ Fail(w) \/ ReleaseLease(w)
    BY <2>12, <1>0, <1>t DEF Finish, FailShort, Fail, ReleaseLease, IndexerType
  <2> QED
    BY <1>3, <2>1, <2>2, <2>3, <2>4, <2>5, <2>6, <2>7, <2>8, <2>9, <2>10, <2>11, <2>12 DEF Work
<1>4. CASE Expire
  BY <1>4, <1>t DEF Expire, IndexerType
<1>5. CASE UNCHANGED vars
  BY <1>5, <1>t DEF vars, IndexerType
<1> QED
  BY <1>1, <1>2, <1>3, <1>4, <1>5 DEF Next

LEMMA TipsStep == Types /\ [Next]_vars => SlicesHaveATip'
<1> SUFFICES ASSUME Types, [Next]_vars, NEW v \in Workers, round'[v].step = "read"
             PROVE  round'[v].to > 0
  BY DEF SlicesHaveATip
<1>0. round \in [Workers -> Round] /\ SlicesHaveATip /\ NoRound.step = "off"
  BY DEF Types, TypeOK, NoRound
<1>1. CASE round'[v] = round[v]
  BY <1>0, <1>1 DEF SlicesHaveATip
<1>2. ASSUME NEW w \in Workers, Work(w) \/ ReadRescan(w) \/ Fail(w) \/ ReleaseLease(w), round'[v] # round[v]
      PROVE  round'[v].to > 0
  <2>1. CASE ReadSlice(w)
    <3>1. round[w].known.block \in Nat /\ round[w].confirmed \in Nat
      BY <1>0 DEF Round, Cursor
    <3>2. To(w) > 0
      BY <2>1, <3>1, Numbers DEF ReadSlice, To, Least
    <3> QED
      BY <2>1, <3>2, <1>0, <1>2 DEF ReadSlice
  <2>2. CASE EnsureState(w)
    BY <2>2, <1>0, <1>2 DEF EnsureState
  <2>3. CASE AcquireLease(w)
    BY <2>3, <1>0, <1>2 DEF AcquireLease
  <2>4. CASE Compare(w)
    <3> DEFINE back == Back(round[w].known.block)
    <3>1. CASE Hash(round[w].known.block) = round[w].known.hash
      <4>1. round' = [round EXCEPT ![w].step = "scanning"]
        BY <2>4, <3>1 DEF Compare
      <4>2. round'[w].step = "scanning" /\ \A x \in Workers : x # w => round'[x] = round[x]
        BY <4>1, <1>0
      <4> QED
        BY <4>2, <1>2
    <3>2. CASE Hash(round[w].known.block) # round[w].known.hash
      <4>1. round' = [round EXCEPT ![w].step = "orphaned", ![w].to = back, ![w].hash = Hash(back)]
        BY <2>4, <3>2 DEF Compare
      <4> HIDE DEF back
      <4>2. round'[w].step = "orphaned" /\ \A x \in Workers : x # w => round'[x] = round[x]
        BY <4>1, <1>0
      <4> QED
        BY <4>2, <1>2
    <3> QED
      BY <3>1, <3>2
  <2>5. CASE Rewind(w)
    BY <2>5, <1>0, <1>2 DEF Rewind
  <2>6. CASE ReadTip(w)
    BY <2>6, <1>0, <1>2 DEF ReadTip
  <2>7. CASE Look(w)
    BY <2>7, <1>0, <1>2 DEF Look
  <2>8. CASE CommitSlice(w)
    BY <2>8, <1>0, <1>2 DEF CommitSlice
  <2>9. CASE CaughtUp(w)
    BY <2>9, <1>0, <1>2 DEF CaughtUp
  <2>10. CASE RescanStep(w)
    BY <2>10, <1>0, <1>2 DEF RescanStep
  <2>11. CASE Finish(w)
    BY <2>11, <1>0, <1>2 DEF Finish
  <2>12. CASE FailShort(w)
    BY <2>12, <1>0, <1>2 DEF FailShort
  <2>13. CASE ReadRescan(w)
    <3>1. \E rows : round' = [round EXCEPT ![w].step = "rescan", ![w].rows = rows]
      BY <2>13 DEF ReadRescan
    <3> QED
      BY <3>1, <1>0, <1>2
  <2>14. CASE Fail(w)
    BY <2>14, <1>0, <1>2 DEF Fail
  <2>15. CASE ReleaseLease(w)
    BY <2>15, <1>0, <1>2 DEF ReleaseLease
  <2> QED
    BY <1>2, <2>1, <2>2, <2>3, <2>4, <2>5, <2>6, <2>7, <2>8, <2>9, <2>10, <2>11, <2>12, <2>13, <2>14, <2>15 DEF Work
<1>3. Mine \/ (\E n \in Heights : Fork(n)) \/ Expire \/ UNCHANGED vars => round' = round
  BY DEF Mine, Fork, Expire, vars
<1> QED
  BY <1>1, <1>2, <1>3 DEF Next

LEMMA TypesStep == Types /\ [Next]_vars => Types'
<1> SUFFICES ASSUME Types, [Next]_vars PROVE Types'
  OBVIOUS
<1>1. ChainType' /\ IndexerType' /\ SlicesHaveATip'
  BY ChainTypeStep, IndexerTypeStep, TipsStep DEF Types
<1>2. TypeOK'
  BY <1>1 DEF TypeOK, ChainType, IndexerType, Block
<1> QED
  BY <1>1, <1>2 DEF Types

LEMMA TypesInvariant == Spec => []Types
  BY TypesInit, TypesStep, PTL DEF Spec

(* TypeOK: whatever the workers interleave, the cursor is of a block, and  *)
(* rounds and rows are of those that a worker read.                        *)
THEOREM TypeCorrect == Spec => []TypeOK
<1>1. Types => TypeOK
  BY DEF Types
<1> QED
  BY <1>1, TypesInvariant, PTL

-----------------------------------------------------------------------------
(***************************************************************************)
(* What one step of a worker does, by what becomes of its round.           *)
(***************************************************************************)
Becomes(w, r) == round'[w] = r

Loads(w) ==
    /\ round[w].step = "off"
    /\ cursor' = IF cursor = NoCursor THEN [block |-> StartBlock, hash |-> Hash(StartBlock)] ELSE cursor
    /\ Becomes(w, [NoRound EXCEPT !.step = "loaded", !.known = cursor'])
    /\ UNCHANGED <<lease, index, pushes>>

Starts(w) ==
    /\ round[w].step = "loaded" /\ lease \in {Free, w} /\ lease' = w
    /\ \E known \in {cursor, round[w].known} :
         /\ "stale" \notin Races => known = cursor
         /\ Becomes(w, [round[w] EXCEPT !.step = "begun", !.known = known,
                                        !.confirmed = Subtract(HeadBlock, Confirmations)])
    /\ UNCHANGED <<cursor, index, pushes>>

Ends(w) ==
    /\ Becomes(w, NoRound)
    /\ lease' = lease \/ lease \in {Free, w}
    /\ UNCHANGED <<cursor, index, pushes>>

IsCurrent(w) ==
    /\ round[w].step = "begun"
    /\ HeadBlock >= round[w].known.block /\ Hash(round[w].known.block) = round[w].known.hash
    /\ Becomes(w, [round[w] EXCEPT !.step = "scanning"])
    /\ UNCHANGED <<cursor, lease, index, pushes>>

Orphans(w) ==
    LET back == Back(round[w].known.block) IN
    /\ round[w].step = "begun"
    /\ HeadBlock >= round[w].known.block /\ Hash(round[w].known.block) # round[w].known.hash
    /\ index' = Orphaned(back)
    /\ Becomes(w, [round[w] EXCEPT !.step = "orphaned", !.to = back, !.hash = Hash(back)])
    /\ UNCHANGED <<cursor, lease, pushes>>

Rewinds(w) ==
    /\ round[w].step = "orphaned" /\ Advance(w)
    /\ Becomes(w, [round[w] EXCEPT !.step = "scanning", !.known = cursor'])
    /\ UNCHANGED <<lease, index, pushes>>

Reads(w) ==
    /\ round[w].step = "scanning"
    /\ round[w].known.block < round[w].confirmed /\ HeadBlock >= To(w)
    /\ Becomes(w, [round[w] EXCEPT !.step = "read", !.to = To(w), !.rows = Found(From(w), To(w))])
    /\ UNCHANGED <<cursor, lease, index, pushes>>

TakesTip(w) ==
    /\ round[w].step = "read" /\ HeadBlock >= round[w].to
    /\ Becomes(w, [round[w] EXCEPT !.step = "tip", !.hash = Hash(round[w].to)])
    /\ UNCHANGED <<cursor, lease, index, pushes>>

Looks(w) ==
    /\ round[w].step = "tip"
    /\ Becomes(w, [round[w] EXCEPT !.step = "looked", !.fresh = Fresh(w)])
    /\ UNCHANGED <<cursor, lease, index, pushes>>

Commits(w) ==
    /\ round[w].step = "looked" /\ Advance(w)
    /\ index' = Upserted(round[w].rows)
    /\ \A k \in Key : pushes'[k] = pushes[k] + (IF k \in round[w].fresh THEN 1 ELSE 0)
    /\ Becomes(w, [NoRound EXCEPT !.step = "scanning", !.known = cursor', !.confirmed = round[w].confirmed])
    /\ UNCHANGED lease

Pauses(w) ==
    /\ round[w].step = "scanning" /\ round[w].known.block >= round[w].confirmed
    /\ Becomes(w, [round[w] EXCEPT !.step = "idle"])
    /\ UNCHANGED <<cursor, lease, index, pushes>>

ReadsAgain(w) ==
    /\ round[w].step = "idle"
    /\ \E from, to \in (StartBlock + 1)..round[w].confirmed :
          Becomes(w, [round[w] EXCEPT !.step = "rescan", !.rows = Found(from, to)])
    /\ UNCHANGED <<cursor, lease, index, pushes>>

Rescans(w) ==
    /\ round[w].step = "rescan"
    /\ index' = Upserted(round[w].rows)
    /\ Becomes(w, NoRound)
    /\ UNCHANGED <<cursor, lease, pushes>>

Effect(w) ==
    \/ Loads(w) \/ Starts(w) \/ Ends(w)
    \/ IsCurrent(w) \/ Orphans(w) \/ Rewinds(w)
    \/ Reads(w) \/ TakesTip(w) \/ Looks(w) \/ Commits(w)
    \/ Pauses(w) \/ ReadsAgain(w) \/ Rescans(w)

OnlyMoves(w) == \A v \in Workers : v # w => round'[v] = round[v]

LEMMA OneRoundMoves ==
    ASSUME IndexerType, NEW w \in Workers, NEW r, round' = [round EXCEPT ![w] = r]
    PROVE  Becomes(w, r) /\ OnlyMoves(w)
  BY DEF IndexerType, Becomes, OnlyMoves

LEMMA WorkerEffect ==
    ASSUME TypeOK, NEW w \in Workers, Work(w) \/ ReadRescan(w) \/ Fail(w) \/ ReleaseLease(w)
    PROVE  Effect(w) /\ OnlyMoves(w) /\ UNCHANGED chainVars
<1>0. IndexerType /\ round[w] \in Round
  BY TypeParts DEF IndexerType
<1>1. CASE EnsureState(w)
  <2>1. round' = [round EXCEPT ![w] = [NoRound EXCEPT !.step = "loaded", !.known = cursor']]
    BY <1>1 DEF EnsureState
  <2>2. Loads(w) /\ OnlyMoves(w)
    BY <1>0, <1>1, <2>1, OneRoundMoves DEF EnsureState, Loads
  <2> QED
    BY <1>1, <2>2 DEF EnsureState, Effect
<1>2. CASE AcquireLease(w)
  <2> DEFINE known == IF "stale" \in Races THEN round[w].known ELSE cursor
             r == [round[w] EXCEPT !.step = "begun", !.known = known,
                                   !.confirmed = Subtract(HeadBlock, Confirmations)]
  <2>1. CASE MayLease(w) /\ HeadBlock >= known.block
    <3>1. round' = [round EXCEPT ![w] = r] /\ lease' = w
      BY <1>2, <2>1 DEF AcquireLease
    <3>2. Becomes(w, r) /\ OnlyMoves(w)
      BY <1>0, <3>1, OneRoundMoves
    <3>3. Starts(w)
      BY <1>2, <2>1, <3>1, <3>2 DEF AcquireLease, Starts, MayLease
    <3> QED
      BY <1>2, <3>2, <3>3 DEF AcquireLease, Effect
  <2>2. CASE ~(MayLease(w) /\ HeadBlock >= known.block)
    <3>1. round' = [round EXCEPT ![w] = NoRound]
      BY <1>2, <2>2 DEF AcquireLease
    <3>2. Becomes(w, NoRound) /\ OnlyMoves(w)
      BY <1>0, <3>1, OneRoundMoves
    <3>3. Ends(w)
      BY <1>2, <3>2 DEF AcquireLease, Ends, MayLease
    <3> QED
      BY <1>2, <3>2, <3>3 DEF AcquireLease, Effect
  <2> QED
    BY <2>1, <2>2
<1>3. CASE Compare(w)
  <2> DEFINE back == Back(round[w].known.block)
  <2>1. CASE Hash(round[w].known.block) = round[w].known.hash
    <3>1. round' = [round EXCEPT ![w] = [round[w] EXCEPT !.step = "scanning"]]
      BY <1>3, <2>1 DEF Compare
    <3>2. Becomes(w, [round[w] EXCEPT !.step = "scanning"]) /\ OnlyMoves(w)
      BY <1>0, <3>1, OneRoundMoves
    <3>3. IsCurrent(w)
      BY <1>3, <2>1, <3>2 DEF Compare, IsCurrent
    <3> QED
      BY <1>3, <3>2, <3>3 DEF Compare, Effect
  <2>2. CASE Hash(round[w].known.block) # round[w].known.hash
    <3>1. round' = [round EXCEPT ![w] = [round[w] EXCEPT !.step = "orphaned", !.to = back, !.hash = Hash(back)]]
      BY <1>0, <1>3, <2>2 DEF Compare, IndexerType
    <3>2. Becomes(w, [round[w] EXCEPT !.step = "orphaned", !.to = back, !.hash = Hash(back)]) /\ OnlyMoves(w)
      BY <1>0, <3>1, OneRoundMoves
    <3>3. Orphans(w)
      BY <1>3, <2>2, <3>2 DEF Compare, Orphans
    <3> QED
      BY <1>3, <3>2, <3>3 DEF Compare, Effect
  <2> QED
    BY <2>1, <2>2
<1>4. CASE Rewind(w)
  <2>1. round' = [round EXCEPT ![w] = [round[w] EXCEPT !.step = "scanning", !.known = cursor']]
    BY <1>0, <1>4 DEF Rewind, IndexerType
  <2>2. Rewinds(w) /\ OnlyMoves(w)
    BY <1>0, <1>4, <2>1, OneRoundMoves DEF Rewind, Rewinds
  <2> QED
    BY <1>4, <2>2 DEF Rewind, Effect
<1>5. CASE ReadSlice(w)
  <2>1. round' = [round EXCEPT ![w] = [round[w] EXCEPT !.step = "read", !.to = To(w),
                                                      !.rows = Found(From(w), To(w))]]
    BY <1>0, <1>5 DEF ReadSlice, IndexerType
  <2>2. Reads(w) /\ OnlyMoves(w)
    BY <1>0, <1>5, <2>1, OneRoundMoves DEF ReadSlice, Reads
  <2> QED
    BY <1>5, <2>2 DEF ReadSlice, Effect
<1>6. CASE ReadTip(w)
  <2>1. round' = [round EXCEPT ![w] = [round[w] EXCEPT !.step = "tip", !.hash = Hash(round[w].to)]]
    BY <1>0, <1>6 DEF ReadTip, IndexerType
  <2>2. TakesTip(w) /\ OnlyMoves(w)
    BY <1>0, <1>6, <2>1, OneRoundMoves DEF ReadTip, TakesTip
  <2> QED
    BY <1>6, <2>2 DEF ReadTip, Effect
<1>7. CASE Look(w)
  <2>1. round' = [round EXCEPT ![w] = [round[w] EXCEPT !.step = "looked", !.fresh = Fresh(w)]]
    BY <1>0, <1>7 DEF Look, IndexerType
  <2>2. Looks(w) /\ OnlyMoves(w)
    BY <1>0, <1>7, <2>1, OneRoundMoves DEF Look, Looks
  <2> QED
    BY <1>7, <2>2 DEF Look, Effect
<1>8. CASE CommitSlice(w)
  <2>1. round' = [round EXCEPT ![w] = [NoRound EXCEPT !.step = "scanning", !.known = cursor',
                                                      !.confirmed = round[w].confirmed]]
    BY <1>8 DEF CommitSlice
  <2>2. Commits(w) /\ OnlyMoves(w)
    BY <1>0, <1>8, <2>1, OneRoundMoves DEF CommitSlice, Commits
  <2> QED
    BY <1>8, <2>2 DEF CommitSlice, Effect
<1>9. CASE CaughtUp(w)
  <2>1. round' = [round EXCEPT ![w] = [round[w] EXCEPT !.step = "idle"]]
    BY <1>9 DEF CaughtUp
  <2>2. Pauses(w) /\ OnlyMoves(w)
    BY <1>0, <1>9, <2>1, OneRoundMoves DEF CaughtUp, Pauses
  <2> QED
    BY <1>9, <2>2 DEF CaughtUp, Effect
<1>10. CASE ReadRescan(w)
  <2>1. PICK from, to \in (StartBlock + 1)..round[w].confirmed :
            round' = [round EXCEPT ![w].step = "rescan", ![w].rows = Found(from, to)]
    BY <1>10 DEF ReadRescan
  <2>2. round' = [round EXCEPT ![w] = [round[w] EXCEPT !.step = "rescan", !.rows = Found(from, to)]]
    BY <1>0, <2>1 DEF IndexerType
  <2>3. Becomes(w, [round[w] EXCEPT !.step = "rescan", !.rows = Found(from, to)]) /\ OnlyMoves(w)
    BY <1>0, <2>2, OneRoundMoves
  <2>4. ReadsAgain(w)
    BY <1>10, <2>3 DEF ReadRescan, ReadsAgain
  <2> QED
    BY <1>10, <2>3, <2>4 DEF ReadRescan, Effect
<1>11. CASE RescanStep(w)
  <2>1. Rescans(w) /\ OnlyMoves(w)
    BY <1>0, <1>11, OneRoundMoves DEF RescanStep, Rescans
  <2> QED
    BY <1>11, <2>1 DEF RescanStep, Effect
<1>12. CASE Finish(w)
  <2>1. Ends(w) /\ OnlyMoves(w)
    BY <1>0, <1>12, OneRoundMoves DEF Finish, Ends
  <2> QED
    BY <1>12, <2>1 DEF Finish, Effect
<1>13. CASE FailShort(w)
  <2>1. Ends(w) /\ OnlyMoves(w)
    BY <1>0, <1>13, OneRoundMoves DEF FailShort, Ends
  <2> QED
    BY <1>13, <2>1 DEF FailShort, Effect
<1>14. CASE Fail(w)
  <2>1. Ends(w) /\ OnlyMoves(w)
    BY <1>0, <1>14, OneRoundMoves DEF Fail, Ends
  <2> QED
    BY <1>14, <2>1 DEF Fail, Effect
<1>15. CASE ReleaseLease(w)
  <2>1. Ends(w) /\ OnlyMoves(w)
    BY <1>0, <1>15, OneRoundMoves DEF ReleaseLease, Ends
  <2> QED
    BY <1>15, <2>1 DEF ReleaseLease, Effect
<1> QED
  BY <1>1, <1>2, <1>3, <1>4, <1>5, <1>6, <1>7, <1>8, <1>9, <1>10, <1>11, <1>12, <1>13, <1>14, <1>15 DEF Work

-----------------------------------------------------------------------------
(***************************************************************************)
(* The lease: as long as no round outlasts it, the worker that holds it is *)
(* the only one at work.                                                   *)
(***************************************************************************)
IsAtWork(w) == round[w].step \notin {"off", "loaded"}

OneAtWork == \A w \in Workers : IsAtWork(w) => lease = w

LEMMA NoRoundIsOff == NoRound.step = "off"
  BY DEF NoRound

(* What the effects say of who is at work.                                 *)
LEMMA WorkMoves ==
    ASSUME NEW w \in Workers, IndexerType, Effect(w)
    PROVE  \/ Starts(w)
           \/ ~IsAtWork(w)' /\ (lease' = lease \/ lease \in {Free, w})
           \/ IsAtWork(w) /\ lease' = lease
<1>1. Loads(w) => ~IsAtWork(w)' /\ lease' = lease
  BY DEF Loads, Becomes, IsAtWork, NoRound
<1>2. Ends(w) => ~IsAtWork(w)' /\ (lease' = lease \/ lease \in {Free, w})
  BY NoRoundIsOff DEF Ends, Becomes, IsAtWork
<1>3. IsCurrent(w) \/ Orphans(w) \/ Rewinds(w) => IsAtWork(w) /\ lease' = lease
  BY DEF IsCurrent, Orphans, Rewinds, IsAtWork
<1>4. Reads(w) \/ TakesTip(w) \/ Looks(w) \/ Commits(w) => IsAtWork(w) /\ lease' = lease
  BY DEF Reads, TakesTip, Looks, Commits, IsAtWork
<1>5. Pauses(w) \/ ReadsAgain(w) \/ Rescans(w) => IsAtWork(w) /\ lease' = lease
  BY DEF Pauses, ReadsAgain, Rescans, IsAtWork
<1> QED
  BY <1>1, <1>2, <1>3, <1>4, <1>5 DEF Effect

LEMMA OneAtWorkStep ==
    ASSUME "slow" \notin Races, TypeOK, OneAtWork, [Next]_vars
    PROVE  OneAtWork'
<1> SUFFICES ASSUME NEW v \in Workers, IsAtWork(v)'
             PROVE  lease' = v
  BY DEF OneAtWork
<1>0. IndexerType
  BY TypeParts
<1>1. ASSUME NEW w \in Workers, Effect(w), OnlyMoves(w)
      PROVE  lease' = v
  <2>1. CASE v = w
    BY <1>0, <1>1, <2>1, WorkMoves DEF Starts, OneAtWork
  <2>2. CASE v # w
    <3>1. IsAtWork(v)
      BY <1>1, <2>2 DEF OnlyMoves, IsAtWork
    <3>2. lease = v
      BY <3>1 DEF OneAtWork
    <3>3. lease \notin {Free, w}
      BY <2>2, <3>2, FreeAssumption
    <3>4. ~IsAtWork(w)
      BY <3>3 DEF OneAtWork
    <3> QED
      BY <1>0, <1>1, <3>2, <3>3, <3>4, WorkMoves DEF Starts
  <2> QED
    BY <2>1, <2>2
<1>2. CASE UNCHANGED <<round, lease>>
  BY <1>2 DEF OneAtWork, IsAtWork
<1>3. CASE Expire
  <2>1. IsAtWork(v)
    BY <1>3 DEF Expire, IsAtWork
  <2>2. lease = v
    BY <2>1 DEF OneAtWork
  <2> QED
    BY <1>3, <2>1, <2>2 DEF Expire, IsAtWork
<1>4. Mine \/ (\E n \in Heights : Fork(n)) \/ UNCHANGED vars => UNCHANGED <<round, lease>>
  BY DEF Mine, Fork, vars
<1> QED
  BY <1>1, <1>2, <1>3, <1>4, WorkerEffect DEF Next

(* One worker at work is alone with the index.                             *)
LEMMA OthersRest ==
    ASSUME OneAtWork, NEW w \in Workers, IsAtWork(w), NEW v \in Workers, v # w
    PROVE  ~IsAtWork(v)
  BY DEF OneAtWork

-----------------------------------------------------------------------------
(***************************************************************************)
(* What is announced.  A row is never deleted from the index, so a key is  *)
(* new to one commit at most.                                              *)
(***************************************************************************)
HasRow(k) == \E row \in index : KeyOf(row) = k

AnnouncedHaveRows == \A k \in Key : pushes[k] <= 1 /\ (pushes[k] > 0 => HasRow(k))

FreshHaveNone ==
    \A w \in Workers : round[w].step = "looked" =>
        \A k \in round[w].fresh : ~HasRow(k) /\ \E row \in round[w].rows : KeyOf(row) = k

LEMMA RowsStay ==
    ASSUME NEW w \in Workers, Effect(w), NEW k, HasRow(k)
    PROVE  HasRow(k)'
<1>1. CASE UNCHANGED index
  BY <1>1 DEF HasRow
<1>2. CASE Orphans(w)
  <2> DEFINE back == Back(round[w].known.block)
             after(row) == IF row.block > back THEN [row EXCEPT !.status = "orphaned"] ELSE row
  <2>1. PICK row \in index : KeyOf(row) = k
    BY DEF HasRow
  <2>2. after(row) \in index'
    BY <1>2 DEF Orphans, Orphaned
  <2>3. KeyOf(after(row)) = k
    BY <2>1 DEF KeyOf
  <2> QED
    BY <2>2, <2>3 DEF HasRow
<1>3. CASE index' = Upserted(round[w].rows)
  BY <1>3 DEF HasRow, Upserted
<1>4. Loads(w) \/ Starts(w) \/ Ends(w) \/ IsCurrent(w) \/ Rewinds(w) => UNCHANGED index
  BY DEF Loads, Starts, Ends, IsCurrent, Rewinds
<1>5. Reads(w) \/ TakesTip(w) \/ Looks(w) \/ Pauses(w) \/ ReadsAgain(w) => UNCHANGED index
  BY DEF Reads, TakesTip, Looks, Pauses, ReadsAgain
<1>6. Commits(w) \/ Rescans(w) => index' = Upserted(round[w].rows)
  BY DEF Commits, Rescans
<1> QED
  BY <1>1, <1>2, <1>3, <1>4, <1>5, <1>6 DEF Effect

(* Who writes to the index is at work.                                     *)
LEMMA WritersWork ==
    ASSUME NEW w \in Workers, Effect(w), ~IsAtWork(w)
    PROVE  UNCHANGED index /\ UNCHANGED pushes
<1>1. Loads(w) \/ Starts(w) \/ Ends(w) => UNCHANGED <<index, pushes>>
  BY DEF Loads, Starts, Ends
<1>2. ~(IsCurrent(w) \/ Orphans(w) \/ Rewinds(w) \/ Reads(w) \/ TakesTip(w))
  BY DEF IsCurrent, Orphans, Rewinds, Reads, TakesTip, IsAtWork
<1>3. ~(Looks(w) \/ Commits(w) \/ Pauses(w) \/ ReadsAgain(w) \/ Rescans(w))
  BY DEF Looks, Commits, Pauses, ReadsAgain, Rescans, IsAtWork
<1> QED
  BY <1>1, <1>2, <1>3 DEF Effect

LEMMA AnnouncedStep ==
    ASSUME "slow" \notin Races, TypeOK, OneAtWork, AnnouncedHaveRows, FreshHaveNone, [Next]_vars
    PROVE  AnnouncedHaveRows' /\ FreshHaveNone'
<1>0. IndexerType
  BY TypeParts
<1>1. ASSUME NEW w \in Workers, Effect(w), OnlyMoves(w)
      PROVE  AnnouncedHaveRows' /\ FreshHaveNone'
  <2>1. AnnouncedHaveRows'
    <3> SUFFICES ASSUME NEW k \in Key PROVE pushes'[k] <= 1 /\ (pushes'[k] > 0 => HasRow(k)')
      BY DEF AnnouncedHaveRows
    <3>0. pushes[k] \in Nat /\ pushes[k] <= 1 /\ (pushes[k] > 0 => HasRow(k))
      BY <1>0 DEF IndexerType, AnnouncedHaveRows
    <3>1. CASE Commits(w)
      <4>1. CASE k \in round[w].fresh
        <5>1. ~HasRow(k) /\ \E row \in round[w].rows : KeyOf(row) = k
          BY <3>1, <4>1 DEF FreshHaveNone, Commits
        <5>2. HasRow(k)'
          BY <3>1, <5>1 DEF Commits, Upserted, HasRow
        <5> QED
          BY <3>0, <3>1, <4>1, <5>1, <5>2 DEF Commits
      <4>2. CASE k \notin round[w].fresh
        <5>1. pushes'[k] = pushes[k]
          BY <3>0, <3>1, <4>2 DEF Commits
        <5> QED
          BY <1>1, <3>0, <5>1, RowsStay
      <4> QED
        BY <4>1, <4>2
    <3>2. CASE ~Commits(w)
      <4>1. Loads(w) \/ Starts(w) \/ Ends(w) \/ IsCurrent(w) \/ Orphans(w) \/ Rewinds(w) => UNCHANGED pushes
        BY DEF Loads, Starts, Ends, IsCurrent, Orphans, Rewinds
      <4>2. Reads(w) \/ TakesTip(w) \/ Looks(w) \/ Pauses(w) \/ ReadsAgain(w) \/ Rescans(w) => UNCHANGED pushes
        BY DEF Reads, TakesTip, Looks, Pauses, ReadsAgain, Rescans
      <4>3. UNCHANGED pushes
        BY <1>1, <3>2, <4>1, <4>2 DEF Effect
      <4> QED
        BY <1>1, <3>0, <4>3, RowsStay
    <3> QED
      BY <3>1, <3>2
  <2>2. FreshHaveNone'
    <3> SUFFICES ASSUME NEW v \in Workers, round'[v].step = "looked", NEW k \in round'[v].fresh
                 PROVE  ~HasRow(k)' /\ \E row \in round'[v].rows : KeyOf(row) = k
      BY DEF FreshHaveNone
    <3>1. CASE v # w
      <4>1. round'[v] = round[v] /\ IsAtWork(v)
        BY <1>1, <3>1 DEF OnlyMoves, IsAtWork
      <4>2. UNCHANGED index
        BY <1>1, <3>1, <4>1, OthersRest, WritersWork
      <4> QED
        BY <4>1, <4>2 DEF FreshHaveNone, HasRow
    <3>2. CASE v = w
      <4>1. Loads(w) \/ Starts(w) \/ Ends(w) \/ IsCurrent(w) => round'[w].step # "looked"
        BY <1>0, NoRoundIsOff DEF Loads, Starts, Ends, IsCurrent, Becomes, NoRound, IndexerType, Round
      <4>2. Orphans(w) \/ Rewinds(w) \/ Reads(w) \/ TakesTip(w) => round'[w].step # "looked"
        BY <1>0 DEF Orphans, Rewinds, Reads, TakesTip, Becomes, IndexerType, Round
      <4>3. Commits(w) \/ Pauses(w) \/ Rescans(w) => round'[w].step # "looked"
        BY <1>0, NoRoundIsOff DEF Commits, Pauses, Rescans, Becomes, NoRound, IndexerType, Round
      <4>4. ReadsAgain(w) => round'[w].step # "looked"
        BY <1>0 DEF ReadsAgain, Becomes, IndexerType, Round
      <4>5. Looks(w)
        BY <1>1, <3>2, <4>1, <4>2, <4>3, <4>4 DEF Effect
      <4>6. round'[w].fresh = Fresh(w) /\ round'[w].rows = round[w].rows /\ UNCHANGED index
        BY <1>0, <4>5 DEF Looks, Becomes, IndexerType, Round
      <4> QED
        BY <3>2, <4>6 DEF Fresh, HasRow
    <3> QED
      BY <3>1, <3>2
  <2> QED
    BY <2>1, <2>2
<1>2. CASE UNCHANGED <<round, index, pushes>>
  BY <1>2 DEF AnnouncedHaveRows, FreshHaveNone, HasRow
<1>3. Mine \/ (\E n \in Heights : Fork(n)) \/ Expire \/ UNCHANGED vars => UNCHANGED <<round, index, pushes>>
  BY DEF Mine, Fork, Expire, vars
<1> QED
  BY <1>1, <1>2, <1>3, WorkerEffect DEF Next

(* NotifiedOnce: a received transfer is announced once, whatever is read   *)
(* again after a failure, a reorganisation, by another replica or by a     *)
(* rescan, unless a round outlasts its lease.                              *)
THEOREM NotifiedOnceHolds == ASSUME "slow" \notin Races PROVE Spec => []NotifiedOnce
<1> DEFINE I == Types /\ OneAtWork /\ AnnouncedHaveRows /\ FreshHaveNone
<1>1. Init => I
  <2> SUFFICES ASSUME Init PROVE I
    OBVIOUS
  <2>1. \A w \in Workers : round[w].step = "off"
    BY NoRoundIsOff DEF Init
  <2>2. \A k \in Key : pushes[k] = 0
    BY DEF Init
  <2> QED
    BY <2>1, <2>2, TypesInit DEF OneAtWork, IsAtWork, AnnouncedHaveRows, FreshHaveNone
<1>2. I /\ [Next]_vars => I'
  BY TypesStep, OneAtWorkStep, AnnouncedStep DEF Types
<1>3. I => NotifiedOnce
  BY DEF NotifiedOnce, AnnouncedHaveRows
<1> QED
  BY <1>1, <1>2, <1>3, PTL DEF Spec

-----------------------------------------------------------------------------
(***************************************************************************)
(* The invariant of the index.                                             *)
(***************************************************************************)
IsOnChain(c) == c.block \in 1..HeadBlock /\ Hash(c.block) = c.hash
RoundCursor(w) == [block |-> round[w].to, hash |-> round[w].hash]

(* The confirmed ones of these rows list the transfers of a block.         *)
Lists(rows, b) ==
    /\ b <= HeadBlock
    /\ \A t \in Transfers :
          t \in chain[b].transfers
            <=> \E row \in rows : row.block = b /\ row.transfer = t /\ row.status = "confirmed"

(* No hash that was recorded is of a block still to come, so what left the *)
(* chain does not come back.                                               *)
HashesAreKnown == cursor.hash <= blocks /\ \A n \in 1..HeadBlock : Hash(n) <= blocks

DepthIsBounded == HeadBlock <= top /\ top <= HeadBlock + MaxDepth

CursorIsConfirmed ==
    \/ cursor = NoCursor /\ index = {}
    \/ cursor.block = 1
    \/ cursor.block > 1 /\ cursor.block + Confirmations <= top

(* The index is right up to the cursor while the cursor is on the chain,   *)
(* and up to where it would be taken back to in any case.                  *)
ListedIsTheChain ==
    \A b \in 2..cursor.block :
        b <= Back(cursor.block) \/ IsOnChain(cursor) => Lists(index, b)

ConfirmedIsBelow == \A row \in index : row.status = "confirmed" => row.block \in 2..cursor.block

IsInSlice(w) == round[w].step \in {"read", "tip", "looked"}
IsAhead(w) == round[w].step = "scanning" /\ round[w].known.block < round[w].confirmed

(* A slice begins after a block that stays, and only its last block may    *)
(* leave the chain before its rows are written.                            *)
SliceIsRight(w) ==
    /\ IsAhead(w) \/ IsInSlice(w) => IsOnChain(cursor)
    /\ IsInSlice(w) =>
          /\ cursor.block < round[w].to /\ round[w].to <= round[w].confirmed
          /\ \A row \in round[w].rows :
                row.status = "confirmed" /\ cursor.block < row.block /\ row.block <= round[w].to
    /\ round[w].step = "read" =>
          /\ round[w].to <= HeadBlock
          /\ \A b \in 2..round[w].to : b > cursor.block => Lists(round[w].rows, b)
    /\ round[w].step \in {"tip", "looked"} =>
          /\ round[w].to < round[w].confirmed => IsOnChain(RoundCursor(w))
          /\ \A b \in 2..round[w].to :
                b > cursor.block /\ (b < round[w].to \/ IsOnChain(RoundCursor(w)))
                  => Lists(round[w].rows, b)

OrphansAreRight(w) ==
    round[w].step = "orphaned" =>
        /\ round[w].to = Back(cursor.block)
        /\ IsOnChain(RoundCursor(w)) /\ ~IsOnChain(cursor)
        /\ \A row \in index : row.status = "confirmed" => row.block <= round[w].to

RescanIsRight(w) ==
    /\ round[w].step = "idle" => round[w].confirmed <= cursor.block
    /\ round[w].step = "rescan" =>
          \A row \in round[w].rows :
              /\ row.status = "confirmed" /\ row.block \in 2..cursor.block
              /\ row.block <= Back(cursor.block) \/ IsOnChain(cursor)
                   => row.block <= HeadBlock /\ row.transfer \in chain[row.block].transfers

WorkIsRight(w) ==
    /\ round[w].known = cursor
    /\ round[w].confirmed = 0 \/ round[w].confirmed + Confirmations <= top
    /\ SliceIsRight(w) /\ OrphansAreRight(w) /\ RescanIsRight(w)

RoundIsRight(w) ==
    /\ round[w].hash <= blocks
    /\ round[w].step # "off" => cursor.block >= 1
    /\ IsAtWork(w) => WorkIsRight(w)

IndexIsRight ==
    /\ HashesAreKnown /\ DepthIsBounded
    /\ CursorIsConfirmed /\ ConfirmedIsBelow /\ ListedIsTheChain

IInv ==
    /\ Types /\ OneAtWork
    /\ IndexIsRight
    /\ \A w \in Workers : RoundIsRight(w)

-----------------------------------------------------------------------------
(***************************************************************************)
(* The chain goes on.                                                      *)
(***************************************************************************)
Same(b) == b <= HeadBlock' /\ chain'[b] = chain[b]

(* Blocks that a reorganisation does not reach stay; and so do all below a *)
(* block that is on the chain again.                                       *)
ChainGoesOn ==
    /\ top' \in Nat /\ top' >= top /\ blocks' \in Nat /\ blocks' >= blocks
    /\ \A b \in 1..HeadBlock : b = 1 \/ b + MaxDepth <= top => Same(b)
    /\ \A c \in Cursor : c.hash <= blocks /\ IsOnChain(c)' =>
          IsOnChain(c) /\ \A b \in 1..c.block : Same(b)
    /\ \A w \in Workers : round[w].step = "read" /\ round[w].to <= HeadBlock =>
          round[w].to <= HeadBlock' /\ \A b \in 1..round[w].to : Same(b)

LEMMA ChainMove ==
    ASSUME Races = {}, TypeOK, HashesAreKnown, DepthIsBounded, Mine \/ \E n \in Heights : Fork(n)
    PROVE  ChainGoesOn /\ HashesAreKnown' /\ DepthIsBounded'
<1>0. /\ HeadBlock \in Nat /\ HeadBlock >= 1 /\ top \in Nat /\ blocks \in Nat /\ MaxDepth \in Nat
      /\ \A b \in 1..HeadBlock : chain[b].hash \in Nat
  BY ChainTypes, Numbers
<1>1. \A w \in Workers : round[w].to \in Nat
  BY TypeParts, Numbers DEF IndexerType, Round
<1>2. \A c \in Cursor : c.block \in Nat /\ c.hash \in Nat
  BY Numbers DEF Cursor
<1>c. cursor \in Cursor
  BY TypeParts DEF IndexerType
<1>3. CASE Mine
  <2>1. /\ HeadBlock' = HeadBlock + 1 /\ blocks' = blocks + 1
        /\ \A b \in 1..HeadBlock : chain'[b] = chain[b]
        /\ chain'[HeadBlock + 1].hash = blocks + 1
        /\ top' = IF HeadBlock + 1 > top THEN HeadBlock + 1 ELSE top
    BY <1>3, MineEffect
  <2>2. cursor' = cursor
    BY <1>3 DEF Mine
  <2>3. top' \in Nat /\ top' >= top /\ blocks' \in Nat /\ blocks' >= blocks
    BY <1>0, <2>1
  <2>4. \A b \in 1..HeadBlock : Same(b)
    BY <1>0, <2>1 DEF Same
  <2>5. ASSUME NEW c \in Cursor, c.hash <= blocks, IsOnChain(c)'
        PROVE  IsOnChain(c) /\ \A b \in 1..c.block : Same(b)
    <3>1. c.block # HeadBlock + 1
      BY <1>0, <1>2, <2>1, <2>5 DEF IsOnChain, Hash
    <3>2. c.block \in 1..HeadBlock
      BY <1>0, <1>2, <2>1, <2>5, <3>1 DEF IsOnChain
    <3> QED
      BY <1>0, <1>2, <2>1, <2>4, <2>5, <3>2 DEF IsOnChain, Hash
  <2>6. ChainGoesOn
    BY <1>0, <1>1, <2>3, <2>4, <2>5, <2>1 DEF ChainGoesOn
  <2>7. HashesAreKnown'
    <3> SUFFICES ASSUME NEW n \in 1..HeadBlock' PROVE chain'[n].hash <= blocks'
      BY <1>0, <1>2, <1>c, <2>1, <2>2 DEF HashesAreKnown, Hash
    <3>1. CASE n = HeadBlock + 1
      BY <1>0, <2>1, <3>1
    <3>2. CASE n \in 1..HeadBlock
      BY <1>0, <2>1, <3>2 DEF HashesAreKnown, Hash
    <3> QED
      BY <1>0, <2>1, <3>1, <3>2
  <2>8. DepthIsBounded'
    BY <1>0, <2>1 DEF DepthIsBounded
  <2> QED
    BY <2>6, <2>7, <2>8
<1>4. ASSUME NEW n \in Heights, Fork(n)
      PROVE  ChainGoesOn /\ HashesAreKnown' /\ DepthIsBounded'
  <2>1. /\ HeadBlock' = n /\ n < HeadBlock /\ n \in Nat /\ n >= 1
        /\ \A b \in 1..n : chain'[b] = chain[b]
    BY <1>4, ForkEffect
  <2>2. /\ n + MaxDepth >= top /\ blocks' = blocks /\ top' = top /\ cursor' = cursor
        /\ \A w \in Workers : round[w].step = "read" => round[w].to <= n
    BY <1>4 DEF Fork
  <2>4. \A b \in 1..n : Same(b)
    BY <2>1 DEF Same
  <2>5. ASSUME NEW c \in Cursor, c.hash <= blocks, IsOnChain(c)'
        PROVE  IsOnChain(c) /\ \A b \in 1..c.block : Same(b)
    <3>1. c.block \in 1..n
      BY <2>1, <2>5 DEF IsOnChain
    <3> QED
      BY <1>0, <1>2, <2>1, <2>4, <2>5, <3>1 DEF IsOnChain, Hash
  <2>6. \A b \in 1..HeadBlock : b = 1 \/ b + MaxDepth <= top => Same(b)
    BY <1>0, <2>1, <2>2, <2>4
  <2>7. \A w \in Workers : round[w].step = "read" /\ round[w].to <= HeadBlock =>
          round[w].to <= HeadBlock' /\ \A b \in 1..round[w].to : Same(b)
    BY <1>0, <1>1, <2>1, <2>2, <2>4
  <2>8. ChainGoesOn
    BY <1>0, <2>2, <2>5, <2>6, <2>7 DEF ChainGoesOn
  <2>9. HashesAreKnown'
    BY <1>0, <2>1, <2>2 DEF HashesAreKnown, Hash
  <2>10. DepthIsBounded'
    BY <1>0, <2>1, <2>2 DEF DepthIsBounded
  <2> QED
    BY <2>8, <2>9, <2>10
<1> QED
  BY <1>3, <1>4

(* What is numeric, for the arithmetic below.                              *)
LEMMA IndexerTypes ==
    ASSUME TypeOK
    PROVE  /\ cursor \in Cursor /\ cursor.block \in Nat /\ cursor.hash \in Nat
           /\ \A w \in Workers :
                 /\ round[w] \in Round /\ RoundCursor(w) \in Cursor
                 /\ round[w].to \in Nat /\ round[w].hash \in Nat /\ round[w].confirmed \in Nat
                 /\ round[w].known \in Cursor /\ round[w].known.block \in Nat
                 /\ round[w].rows \subseteq Row
                 /\ \A row \in round[w].rows : row.block \in Nat /\ row.transfer \in Transfers
           /\ \A row \in index : row.block \in Nat /\ row.transfer \in Transfers /\ row \in Row
<1>1. IndexerType
  BY TypeParts
<1>2. cursor \in Cursor /\ cursor.block \in Nat /\ cursor.hash \in Nat
  BY <1>1, Numbers DEF IndexerType, Cursor
<1>3. \A row \in Row : row.block \in Nat /\ row.transfer \in Transfers
  BY Numbers DEF Row, Heights
<1>4. \A row \in index : row.block \in Nat /\ row.transfer \in Transfers /\ row \in Row
  BY <1>1, <1>3 DEF IndexerType
<1>5. ASSUME NEW w \in Workers
      PROVE  /\ round[w] \in Round /\ RoundCursor(w) \in Cursor
             /\ round[w].to \in Nat /\ round[w].hash \in Nat /\ round[w].confirmed \in Nat
             /\ round[w].known \in Cursor /\ round[w].known.block \in Nat
             /\ round[w].rows \subseteq Row
             /\ \A row \in round[w].rows : row.block \in Nat /\ row.transfer \in Transfers
  <2>1. round[w] \in Round
    BY <1>1 DEF IndexerType
  <2>2. /\ round[w].to \in 0..MaxHeight /\ round[w].hash \in 0..MaxBlocks
        /\ round[w].confirmed \in 0..MaxHeight /\ round[w].known \in Cursor /\ round[w].rows \subseteq Row
    BY <2>1 DEF Round
  <2>3. RoundCursor(w) \in Cursor
    BY <2>2 DEF RoundCursor, Cursor
  <2>4. round[w].known.block \in Nat
    BY <2>2, Numbers DEF Cursor
  <2> QED
    BY <1>3, <2>1, <2>2, <2>3, <2>4, Numbers
<1> QED
  BY <1>2, <1>4, <1>5

(* Rows that list a block list it as long as the block stays.              *)
LEMMA ListsStays ==
    ASSUME NEW rows, NEW b, Lists(rows, b), Same(b)
    PROVE  Lists(rows, b)'
  BY DEF Lists, Same

LEMMA OnChainStays ==
    ASSUME NEW c, IsOnChain(c), Same(c.block), c.block \in Nat, HeadBlock' \in Nat
    PROVE  IsOnChain(c)'
  BY DEF IsOnChain, Same, Hash

LEMMA ChainStep ==
    ASSUME Races = {}, MaxDepth <= Confirmations + 1, IInv, Mine \/ \E n \in Heights : Fork(n), TypeOK'
    PROVE  IndexIsRight' /\ \A w \in Workers : RoundIsRight(w)'
<1>0. /\ TypeOK /\ HashesAreKnown /\ DepthIsBounded /\ CursorIsConfirmed /\ ConfirmedIsBelow
      /\ ListedIsTheChain
  BY DEF IInv, Types, IndexIsRight
<1>1. ChainGoesOn /\ HashesAreKnown' /\ DepthIsBounded'
  BY <1>0, ChainMove
<1>2. UNCHANGED <<cursor, index, round>>
  BY DEF Mine, Fork
<1>3. /\ HeadBlock \in Nat /\ top \in Nat /\ blocks \in Nat /\ HeadBlock' \in Nat
      /\ MaxDepth \in Nat /\ Confirmations \in Nat /\ Confirmations > 0
      /\ top' \in Nat /\ top' >= top /\ blocks' \in Nat /\ blocks' >= blocks
  <2>1. HeadBlock' \in Heights
    BY DEF TypeOK
  <2> QED
    BY <1>0, <1>1, <2>1, ChainTypes, Numbers DEF ChainGoesOn, Heights
<1>4. cursor \in Cursor /\ cursor.block \in Nat /\ cursor.hash <= blocks
  BY <1>0, IndexerTypes DEF HashesAreKnown
<1>5. IsOnChain(cursor)' => IsOnChain(cursor) /\ \A b \in 1..cursor.block : Same(b)
  <2>1. \A c \in Cursor : c.hash <= blocks /\ IsOnChain(c)' =>
            IsOnChain(c) /\ \A b \in 1..c.block : Same(b)
    BY <1>1 DEF ChainGoesOn
  <2>2. IsOnChain(cursor)' => cursor.block \in 1..HeadBlock' /\ chain'[cursor.block].hash = cursor.hash
    BY <1>2 DEF IsOnChain, Hash
  <2>3. PICK c \in Cursor : c = cursor
    BY <1>4
  <2>4. IsOnChain(cursor)' => IsOnChain(c)'
    BY <2>2, <2>3 DEF IsOnChain, Hash
  <2> QED
    BY <1>4, <2>1, <2>3, <2>4

(* A block that the cursor would be taken back to, or below, stays.        *)
<1>6. ASSUME NEW b \in Nat, b >= 1, b <= Back(cursor.block), b <= HeadBlock
      PROVE  Same(b)
  <2>1. b = 1 \/ b + MaxDepth <= top
    <3>1. Back(cursor.block) \in Nat /\ (Back(cursor.block) = 1 \/ Back(cursor.block) + Confirmations = cursor.block)
      BY <1>4, BackType
    <3>2. b = 1 \/ (cursor.block > 1 /\ cursor.block + Confirmations <= top)
      BY <1>0, <1>3, <1>4, <1>6, <3>1 DEF CursorIsConfirmed, NoCursor
    <3> QED
      BY <1>3, <1>4, <1>6, <3>1, <3>2
  <2> QED
    BY <1>1, <1>3, <1>6, <2>1 DEF ChainGoesOn
<1>7. CursorIsConfirmed'
  BY <1>0, <1>2, <1>3, <1>4 DEF CursorIsConfirmed
<1>8. ConfirmedIsBelow'
  BY <1>0, <1>2 DEF ConfirmedIsBelow
<1>9. ListedIsTheChain'
  <2> SUFFICES ASSUME NEW b \in 2..cursor.block, b <= Back(cursor.block) \/ IsOnChain(cursor)'
               PROVE  Lists(index, b)'
    BY <1>2 DEF ListedIsTheChain
  <2>1. Lists(index, b)
    BY <1>0, <1>5 DEF ListedIsTheChain
  <2>2. Same(b)
    BY <1>4, <1>5, <1>6, <2>1 DEF Lists
  <2> QED
    BY <1>2, <2>1, <2>2 DEF Lists, Same
<1>10. ASSUME NEW w \in Workers PROVE RoundIsRight(w)'
  <2>0. RoundIsRight(w)
    BY DEF IInv
  <2>1. CASE ~IsAtWork(w)
    BY <1>2, <1>3, <2>0, <2>1, <1>0, IndexerTypes DEF RoundIsRight, IsAtWork
  <2>2. CASE IsAtWork(w)
    <3> DEFINE r == round[w]
               rc == RoundCursor(w)
    <3>0. /\ r.to \in Nat /\ r.hash \in Nat /\ r.confirmed \in Nat /\ r.known.block \in Nat
          /\ rc \in Cursor /\ rc.block = r.to /\ rc.hash = r.hash /\ rc.hash <= blocks
          /\ WorkIsRight(w) /\ r.known = cursor
          /\ r.confirmed = 0 \/ r.confirmed + Confirmations <= top
      BY <1>0, <2>0, <2>2, IndexerTypes DEF RoundIsRight, WorkIsRight, RoundCursor
    <3>1. RoundCursor(w)' = rc /\ round'[w] = r
      BY <1>2 DEF RoundCursor
    <3>2. IsOnChain(RoundCursor(w))' => IsOnChain(rc) /\ \A b \in 1..r.to : Same(b)
      <4>1. \A c \in Cursor : c.hash <= blocks /\ IsOnChain(c)' =>
                IsOnChain(c) /\ \A b \in 1..c.block : Same(b)
        BY <1>1 DEF ChainGoesOn
      <4>2. PICK c \in Cursor : c = rc
        BY <3>0
      <4>3. IsOnChain(RoundCursor(w))' => IsOnChain(c)'
        BY <3>1, <4>2 DEF IsOnChain, Hash
      <4> QED
        BY <3>0, <4>1, <4>2, <4>3
    (* What is below the confirmed block stays.                            *)
    <3>3. ASSUME NEW b \in Nat, b >= 1, b < r.confirmed, b <= HeadBlock
          PROVE  Same(b)
      <4>1. b + MaxDepth <= top
        BY <1>3, <3>0, <3>3
      <4> QED
        BY <1>1, <1>3, <3>3, <4>1 DEF ChainGoesOn
    <3>4. ASSUME NEW c, IsOnChain(c), Same(c.block) PROVE c.block \in 1..HeadBlock' /\ chain'[c.block].hash = c.hash
      BY <1>3, <3>4 DEF IsOnChain, Same, Hash
    <3>5. SliceIsRight(w)'
      <4>1. IsAhead(w) \/ IsInSlice(w) => IsOnChain(cursor)'
        <5> SUFFICES ASSUME IsAhead(w) \/ IsInSlice(w) PROVE IsOnChain(cursor)'
          OBVIOUS
        <5>1. IsOnChain(cursor) /\ cursor.block < r.confirmed
          BY <1>4, <3>0 DEF WorkIsRight, SliceIsRight, IsAhead
        <5>2. Same(cursor.block)
          BY <1>4, <3>3, <5>1 DEF IsOnChain
        <5> QED
          BY <1>2, <3>4, <5>1, <5>2 DEF IsOnChain, Hash
      <4>2. IsInSlice(w) =>
              /\ cursor.block < r.to /\ r.to <= r.confirmed
              /\ \A row \in r.rows : row.status = "confirmed" /\ cursor.block < row.block /\ row.block <= r.to
        BY <3>0 DEF WorkIsRight, SliceIsRight
      <4>3. r.step = "read" =>
              r.to <= HeadBlock' /\ \A b \in 2..r.to : b > cursor.block => Lists(r.rows, b)'
        <5> SUFFICES ASSUME r.step = "read"
                     PROVE  r.to <= HeadBlock' /\ \A b \in 2..r.to : b > cursor.block => Lists(r.rows, b)'
          OBVIOUS
        <5>1. r.to <= HeadBlock /\ \A b \in 2..r.to : b > cursor.block => Lists(r.rows, b)
          BY <3>0 DEF WorkIsRight, SliceIsRight
        <5>2. r.to <= HeadBlock' /\ \A b \in 1..r.to : Same(b)
          BY <1>1, <5>1 DEF ChainGoesOn
        <5>3. ASSUME NEW b \in 2..r.to, b > cursor.block PROVE Lists(r.rows, b)'
          <6>1. Lists(r.rows, b) /\ Same(b)
            BY <3>0, <5>1, <5>2, <5>3
          <6> QED
            BY <1>2, <6>1 DEF Lists, Same
        <5> QED
          BY <5>2, <5>3
      <4>4. r.step \in {"tip", "looked"} =>
              /\ r.to < r.confirmed => IsOnChain(RoundCursor(w))'
              /\ \A b \in 2..r.to :
                    b > cursor.block /\ (b < r.to \/ IsOnChain(RoundCursor(w))') => Lists(r.rows, b)'
        <5> SUFFICES ASSUME r.step \in {"tip", "looked"}
                     PROVE  /\ r.to < r.confirmed => IsOnChain(RoundCursor(w))'
                            /\ \A b \in 2..r.to :
                                  b > cursor.block /\ (b < r.to \/ IsOnChain(RoundCursor(w))')
                                    => Lists(r.rows, b)'
          OBVIOUS
        <5>1. /\ r.to < r.confirmed => IsOnChain(rc)
              /\ \A b \in 2..r.to : b > cursor.block /\ (b < r.to \/ IsOnChain(rc)) => Lists(r.rows, b)
          BY <3>0 DEF WorkIsRight, SliceIsRight
        <5>2. ASSUME r.to < r.confirmed PROVE IsOnChain(RoundCursor(w))'
          <6>1. IsOnChain(rc) /\ Same(rc.block)
            BY <3>0, <3>3, <5>1, <5>2 DEF IsOnChain
          <6> QED
            BY <3>1, <3>4, <6>1 DEF IsOnChain, Hash
        <5>3. ASSUME NEW b \in 2..r.to, b > cursor.block, b < r.to \/ IsOnChain(RoundCursor(w))'
              PROVE  Lists(r.rows, b)'
          <6>1. Lists(r.rows, b)
            BY <3>2, <5>1, <5>3
          <6>2. Same(b)
            <7>1. CASE IsOnChain(RoundCursor(w))'
              BY <3>0, <3>2, <7>1
            <7>2. CASE b < r.to
              <8>1. b < r.confirmed
                BY <3>0, <4>2, <7>2 DEF IsInSlice
              <8> QED
                BY <3>0, <3>3, <6>1, <8>1 DEF Lists
            <7> QED
              BY <5>3, <7>1, <7>2
          <6> QED
            BY <1>2, <6>1, <6>2 DEF Lists, Same
        <5> QED
          BY <5>2, <5>3
      <4> QED
        BY <1>2, <3>1, <4>1, <4>2, <4>3, <4>4 DEF SliceIsRight, IsAhead, IsInSlice, Lists
    <3>6. OrphansAreRight(w)'
      <4> SUFFICES ASSUME r.step = "orphaned" PROVE OrphansAreRight(w)'
        BY <3>1 DEF OrphansAreRight
      <4>1. /\ r.to = Back(cursor.block) /\ IsOnChain(rc) /\ ~IsOnChain(cursor)
            /\ \A row \in index : row.status = "confirmed" => row.block <= r.to
        BY <3>0 DEF WorkIsRight, OrphansAreRight
      <4>2. Same(rc.block)
        BY <1>6, <3>0, <4>1 DEF IsOnChain
      <4>3. IsOnChain(RoundCursor(w))'
        BY <3>1, <3>4, <4>1, <4>2 DEF IsOnChain, Hash
      <4> QED
        BY <1>2, <1>5, <3>1, <4>1, <4>3 DEF OrphansAreRight
    <3>7. RescanIsRight(w)'
      <4>1. r.step = "idle" => r.confirmed <= cursor.block
        BY <3>0 DEF WorkIsRight, RescanIsRight
      <4>2. ASSUME r.step = "rescan", NEW row \in r.rows
            PROVE  /\ row.status = "confirmed" /\ row.block \in 2..cursor.block
                   /\ row.block <= Back(cursor.block) \/ IsOnChain(cursor)'
                        => row.block <= HeadBlock' /\ row.transfer \in chain'[row.block].transfers
        <5>1. /\ row.status = "confirmed" /\ row.block \in 2..cursor.block
              /\ row.block <= Back(cursor.block) \/ IsOnChain(cursor)
                   => row.block <= HeadBlock /\ row.transfer \in chain[row.block].transfers
          BY <3>0, <4>2 DEF WorkIsRight, RescanIsRight
        <5>2. row.block <= Back(cursor.block) \/ IsOnChain(cursor)' => Same(row.block)
          BY <1>4, <1>5, <1>6, <5>1
        <5> QED
          BY <1>5, <5>1, <5>2 DEF Same
      <4> QED
        BY <1>2, <3>1, <4>1, <4>2 DEF RescanIsRight
    <3>8. WorkIsRight(w)'
      BY <1>2, <1>3, <3>0, <3>1, <3>5, <3>6, <3>7 DEF WorkIsRight
    <3> QED
      BY <1>2, <1>3, <2>0, <3>0, <3>8 DEF RoundIsRight
  <2> QED
    BY <2>1, <2>2
<1> QED
  BY <1>1, <1>7, <1>8, <1>9, <1>10 DEF IndexIsRight

-----------------------------------------------------------------------------
(***************************************************************************)
(* The workers.                                                            *)
(***************************************************************************)
LEMMA SameChain ==
    ASSUME UNCHANGED chainVars
    PROVE  /\ HeadBlock' = HeadBlock /\ blocks' = blocks /\ top' = top /\ chain' = chain
           /\ \A c : IsOnChain(c)' <=> IsOnChain(c)
           /\ \A rows, b : Lists(rows, b)' <=> Lists(rows, b)
  BY DEF chainVars, HeadBlock, IsOnChain, Hash, Lists

(* A step that leaves the index and the cursor alone.                      *)
LEMMA QuietIndex ==
    ASSUME IndexIsRight, UNCHANGED chainVars, UNCHANGED <<cursor, index>>
    PROVE  IndexIsRight'
  BY DEF IndexIsRight, HashesAreKnown, DepthIsBounded, CursorIsConfirmed, ConfirmedIsBelow,
         ListedIsTheChain, Lists, IsOnChain, Hash, HeadBlock, chainVars

LEMMA QuietRound ==
    ASSUME NEW v \in Workers, RoundIsRight(v), UNCHANGED chainVars, UNCHANGED <<cursor, index>>,
           round'[v] = round[v]
    PROVE  RoundIsRight(v)'
<1>1. HeadBlock' = HeadBlock /\ chain' = chain /\ blocks' = blocks /\ top' = top
  BY SameChain
<1>2. SliceIsRight(v)' <=> SliceIsRight(v)
  BY <1>1 DEF SliceIsRight, IsAhead, IsInSlice, IsOnChain, Hash, RoundCursor, Lists
<1>3. OrphansAreRight(v)' <=> OrphansAreRight(v)
  BY <1>1 DEF OrphansAreRight, IsOnChain, Hash, RoundCursor
<1>4. RescanIsRight(v)' <=> RescanIsRight(v)
  BY <1>1 DEF RescanIsRight, IsOnChain, Hash
<1> QED
  BY <1>1, <1>2, <1>3, <1>4 DEF RoundIsRight, WorkIsRight, IsAtWork

(* Who writes is alone: the other rounds have read nothing yet.            *)
LEMMA OthersStay ==
    ASSUME IInv, NEW w \in Workers, IsAtWork(w), OnlyMoves(w), UNCHANGED chainVars, cursor'.block >= 1,
           NEW v \in Workers, v # w
    PROVE  RoundIsRight(v)'
<1>1. round'[v] = round[v] /\ RoundIsRight(v) /\ blocks' = blocks
  BY SameChain DEF OnlyMoves, IInv
<1>2. ~IsAtWork(v)'
  BY <1>1, OthersRest DEF IInv, IsAtWork
<1> QED
  BY <1>1, <1>2 DEF RoundIsRight

LEMMA EndsStep ==
    ASSUME IInv, NEW w \in Workers, Ends(w), UNCHANGED chainVars
    PROVE  RoundIsRight(w)'
<1>1. round'[w].step = "off" /\ round'[w].hash = 0 /\ blocks' \in Nat
  BY SameChain, ChainTypes DEF Ends, Becomes, NoRound, IInv, Types
<1> QED
  BY <1>1 DEF RoundIsRight, IsAtWork

LEMMA StartsStep ==
    ASSUME Races = {}, IInv, NEW w \in Workers, Starts(w), UNCHANGED chainVars
    PROVE  RoundIsRight(w)'
<1>0. TypeOK /\ RoundIsRight(w) /\ round[w] \in Round /\ HeadBlock <= top /\ HeadBlock \in Nat /\ top \in Nat
  BY IndexerTypes, ChainTypes DEF IInv, Types, IndexIsRight, DepthIsBounded
<1>1. /\ round'[w] = [round[w] EXCEPT !.step = "begun", !.known = cursor,
                                     !.confirmed = Subtract(HeadBlock, Confirmations)]
      /\ cursor' = cursor
  BY DEF Starts, Becomes
<1>2. /\ round'[w].step = "begun" /\ round'[w].known = cursor' /\ round'[w].hash = round[w].hash
      /\ round'[w].confirmed = Subtract(HeadBlock, Confirmations)
  BY <1>0, <1>1 DEF Round
<1>3. round'[w].confirmed = 0 \/ round'[w].confirmed + Confirmations <= top'
  <2>1. Subtract(HeadBlock, Confirmations) = 0 \/ Subtract(HeadBlock, Confirmations) + Confirmations = HeadBlock
    BY <1>0, Numbers, SubtractType
  <2> QED
    BY <1>0, <1>2, <2>1, SameChain
<1>4. SliceIsRight(w)' /\ OrphansAreRight(w)' /\ RescanIsRight(w)'
  BY <1>2 DEF SliceIsRight, OrphansAreRight, RescanIsRight, IsAhead, IsInSlice
<1>5. cursor.block >= 1 /\ round[w].hash <= blocks
  BY <1>0 DEF RoundIsRight, Starts
<1> QED
  BY <1>1, <1>2, <1>3, <1>4, <1>5, SameChain DEF RoundIsRight, WorkIsRight

LEMMA LoadsStep ==
    ASSUME IInv, NEW w \in Workers, Loads(w), OnlyMoves(w), UNCHANGED chainVars
    PROVE  IndexIsRight' /\ \A v \in Workers : RoundIsRight(v)'
<1>0. /\ TypeOK /\ IndexIsRight /\ HeadBlock \in Nat /\ HeadBlock >= 1 /\ blocks \in Nat
      /\ cursor.block \in Nat
  BY IndexerTypes, ChainTypes DEF IInv, Types
<1>1. /\ round'[w].step = "loaded" /\ round'[w].hash = 0 /\ blocks' = blocks
  BY SameChain DEF Loads, Becomes, NoRound
<1>2. CASE cursor = NoCursor
  <2>1. index = {} /\ index' = {}
    BY <1>0, <1>2 DEF IndexIsRight, CursorIsConfirmed, Loads, NoCursor
  <2>2. cursor' = [block |-> 1, hash |-> Hash(1)]
    BY <1>2 DEF Loads, StartBlock
  <2>3. cursor'.block = 1 /\ cursor'.hash = Hash(1)
    BY <2>2
  <2>4. IndexIsRight'
    <3>1. HashesAreKnown' /\ DepthIsBounded'
      BY <1>0, <2>3, SameChain DEF IndexIsRight, HashesAreKnown, DepthIsBounded, Hash
    <3>2. CursorIsConfirmed' /\ ConfirmedIsBelow' /\ ListedIsTheChain'
      BY <2>1, <2>3 DEF CursorIsConfirmed, ConfirmedIsBelow, ListedIsTheChain
    <3> QED
      BY <3>1, <3>2 DEF IndexIsRight
  <2>5. ASSUME NEW v \in Workers, v # w PROVE RoundIsRight(v)'
    <3>1. round[v].step = "off" /\ round'[v] = round[v] /\ round[v].hash <= blocks
      BY <1>2, <2>5 DEF IInv, RoundIsRight, NoCursor, OnlyMoves
    <3> QED
      BY <1>1, <3>1 DEF RoundIsRight, IsAtWork
  <2>6. RoundIsRight(w)'
    BY <1>0, <1>1, <2>3 DEF RoundIsRight, IsAtWork
  <2> QED
    BY <2>4, <2>5, <2>6
<1>3. CASE cursor # NoCursor
  <2>1. UNCHANGED <<cursor, index>>
    BY <1>3 DEF Loads
  <2>2. cursor.block >= 1
    BY <1>0, <1>3 DEF IndexIsRight, CursorIsConfirmed
  <2>3. RoundIsRight(w)'
    BY <1>0, <1>1, <2>1, <2>2 DEF RoundIsRight, IsAtWork
  <2>4. \A v \in Workers : v # w => RoundIsRight(v)'
    BY <2>1, QuietRound DEF IInv, OnlyMoves
  <2> QED
    BY <1>0, <2>1, <2>3, <2>4, QuietIndex
<1> QED
  BY <1>2, <1>3

(* What a worker at work knows of its round.                               *)
LEMMA AtWork ==
    ASSUME IInv, NEW w \in Workers, IsAtWork(w)
    PROVE  /\ WorkIsRight(w) /\ round[w].known = cursor /\ round[w].hash <= blocks /\ cursor.block >= 1
           /\ round[w].confirmed = 0 \/ round[w].confirmed + Confirmations <= top
           /\ round[w] \in Round /\ TypeOK /\ IndexIsRight /\ RoundIsRight(w)
<1>1. TypeOK /\ IndexIsRight /\ RoundIsRight(w)
  BY DEF IInv, Types
<1> QED
  BY <1>1, IndexerTypes DEF RoundIsRight, WorkIsRight, IInv, Types, IsAtWork

LEMMA IsCurrentStep ==
    ASSUME IInv, NEW w \in Workers, IsCurrent(w), UNCHANGED chainVars
    PROVE  RoundIsRight(w)'
<1>0. IsAtWork(w) /\ cursor' = cursor /\ round[w].step = "begun"
  BY DEF IsCurrent, IsAtWork
<1>1. round[w] \in Round /\ round'[w] = [round[w] EXCEPT !.step = "scanning"]
  BY <1>0, AtWork DEF IsCurrent, Becomes
<1>2. /\ round'[w].step = "scanning" /\ round'[w].known = round[w].known /\ round'[w].hash = round[w].hash
      /\ round'[w].confirmed = round[w].confirmed
  BY <1>1 DEF Round
<1>3. IsOnChain(cursor)'
  <2>1. cursor.block \in 1..HeadBlock /\ Hash(cursor.block) = cursor.hash
    <3>1. cursor.block \in Nat /\ cursor.block >= 1 /\ HeadBlock \in Nat
      BY <1>0, AtWork, IndexerTypes, ChainTypes
    <3> QED
      BY <1>0, <3>1, AtWork DEF IsCurrent
  <2> QED
    BY <1>0, <2>1, SameChain DEF IsOnChain, Hash
<1>4. SliceIsRight(w)' /\ OrphansAreRight(w)' /\ RescanIsRight(w)'
  BY <1>2, <1>3 DEF SliceIsRight, OrphansAreRight, RescanIsRight, IsInSlice
<1> QED
  BY <1>0, <1>2, <1>4, AtWork, SameChain DEF RoundIsRight, WorkIsRight

LEMMA PausesStep ==
    ASSUME IInv, NEW w \in Workers, Pauses(w), UNCHANGED chainVars
    PROVE  RoundIsRight(w)'
<1>0. IsAtWork(w) /\ cursor' = cursor /\ round[w].known.block >= round[w].confirmed
  BY DEF Pauses, IsAtWork
<1>1. round[w] \in Round /\ round'[w] = [round[w] EXCEPT !.step = "idle"]
  BY <1>0, AtWork DEF Pauses, Becomes
<1>2. /\ round'[w].step = "idle" /\ round'[w].known = round[w].known /\ round'[w].hash = round[w].hash
      /\ round'[w].confirmed = round[w].confirmed
  BY <1>1 DEF Round
<1>3. round'[w].confirmed <= cursor'.block
  BY <1>0, <1>2, AtWork, IndexerTypes
<1>4. SliceIsRight(w)' /\ OrphansAreRight(w)' /\ RescanIsRight(w)'
  BY <1>2, <1>3 DEF SliceIsRight, OrphansAreRight, RescanIsRight, IsInSlice, IsAhead
<1> QED
  BY <1>0, <1>2, <1>4, AtWork, SameChain DEF RoundIsRight, WorkIsRight

(* A read lists the blocks it reads.                                       *)
LEMMA FoundLists ==
    ASSUME TypeOK, NEW from \in Nat, NEW to \in Nat, from > 0, NEW b \in from..to, b <= HeadBlock
    PROVE  Lists(Found(from, to), b)
<1>1. b \in 1..HeadBlock
  OBVIOUS
<1>2. \A t \in chain[b].transfers : t \in Transfers
  BY <1>1, ChainTypes
<1>3. \A row \in Found(from, to) : row.block = b => row.transfer \in chain[b].transfers
  BY FoundRows
<1>4. \A t \in chain[b].transfers :
         \E row \in Found(from, to) : row.block = b /\ row.transfer = t /\ row.status = "confirmed"
  <2>1. \A t \in chain[b].transfers : \E row \in Found(from, to) : row.block = b /\ row.transfer = t
    BY FoundRows
  <2>2. \A row \in Found(from, to) : row.status = "confirmed"
    BY FoundRows
  <2> QED
    BY <2>1, <2>2
<1> QED
  BY <1>3, <1>4 DEF Lists

LEMMA ReadsStep ==
    ASSUME IInv, NEW w \in Workers, Reads(w), UNCHANGED chainVars
    PROVE  RoundIsRight(w)'
<1>0. /\ IsAtWork(w) /\ cursor' = cursor /\ round[w].step = "scanning"
      /\ round[w].known.block < round[w].confirmed /\ HeadBlock >= To(w)
  BY DEF Reads, IsAtWork
<1>1. /\ round[w] \in Round /\ round[w].known = cursor /\ TypeOK /\ WorkIsRight(w)
      /\ cursor.block \in Nat /\ round[w].confirmed \in Nat
  BY <1>0, AtWork, IndexerTypes
<1>2. round'[w] = [round[w] EXCEPT !.step = "read", !.to = To(w), !.rows = Found(From(w), To(w))]
  BY DEF Reads, Becomes
<1>3. /\ round'[w].step = "read" /\ round'[w].known = round[w].known /\ round'[w].hash = round[w].hash
      /\ round'[w].confirmed = round[w].confirmed
      /\ round'[w].to = To(w) /\ round'[w].rows = Found(From(w), To(w))
  BY <1>1, <1>2 DEF Round
<1>4. /\ From(w) = cursor.block + 1 /\ To(w) \in Nat
      /\ cursor.block < To(w) /\ To(w) <= round[w].confirmed
  BY <1>0, <1>1, Numbers DEF From, To, Least
<1>5. IsOnChain(cursor)'
  <2>1. IsOnChain(cursor)
    BY <1>0, <1>1 DEF WorkIsRight, SliceIsRight, IsAhead
  <2> QED
    BY <1>0, <2>1, SameChain DEF IsOnChain, Hash
<1>6. \A row \in Found(From(w), To(w)) :
         row.status = "confirmed" /\ cursor.block < row.block /\ row.block <= To(w)
  <2>1. \A row \in Found(From(w), To(w)) : row.block \in From(w)..To(w) /\ row.status = "confirmed"
    BY <1>1, <1>4, FoundRows
  <2> QED
    BY <1>1, <1>4, <2>1
<1>7. ASSUME NEW b \in 2..To(w), b > cursor.block PROVE Lists(Found(From(w), To(w)), b)
  <2>1. HeadBlock \in Nat
    BY <1>1, ChainTypes
  <2>2. b \in From(w)..To(w) /\ b <= HeadBlock
    BY <1>0, <1>1, <1>4, <1>7, <2>1
  <2> QED
    BY <1>1, <1>4, <2>2, FoundLists
<1>8. SliceIsRight(w)'
  <2>2. ASSUME NEW b \in 2..round'[w].to, b > cursor'.block PROVE Lists(round[w].rows, b)'
    BY <1>0, <1>3, <1>7, <2>2, SameChain DEF Lists
  <2>3. round'[w].to <= HeadBlock'
    BY <1>0, <1>3, SameChain
  <2> QED
    BY <1>0, <1>3, <1>4, <1>5, <1>6, <2>2, <2>3 DEF SliceIsRight, IsAhead, IsInSlice
<1>9. OrphansAreRight(w)' /\ RescanIsRight(w)'
  BY <1>3 DEF OrphansAreRight, RescanIsRight
<1> QED
  BY <1>0, <1>3, <1>8, <1>9, AtWork, SameChain DEF RoundIsRight, WorkIsRight

LEMMA TakesTipStep ==
    ASSUME IInv, NEW w \in Workers, TakesTip(w), UNCHANGED chainVars
    PROVE  RoundIsRight(w)'
<1>0. /\ IsAtWork(w) /\ cursor' = cursor /\ round[w].step = "read" /\ HeadBlock >= round[w].to
  BY DEF TakesTip, IsAtWork
<1>1. /\ round[w] \in Round /\ round[w].known = cursor /\ TypeOK /\ WorkIsRight(w)
      /\ cursor.block \in Nat /\ round[w].to \in Nat /\ HeadBlock \in Nat
  BY <1>0, AtWork, IndexerTypes, ChainTypes
<1>2. round'[w] = [round[w] EXCEPT !.step = "tip", !.hash = Hash(round[w].to)]
  BY DEF TakesTip, Becomes
<1>3. /\ round'[w].step = "tip" /\ round'[w].known = round[w].known /\ round'[w].hash = Hash(round[w].to)
      /\ round'[w].confirmed = round[w].confirmed
      /\ round'[w].to = round[w].to /\ round'[w].rows = round[w].rows
  BY <1>1, <1>2 DEF Round
<1>4. /\ IsOnChain(cursor) /\ cursor.block < round[w].to /\ round[w].to <= round[w].confirmed
      /\ \A row \in round[w].rows :
            row.status = "confirmed" /\ cursor.block < row.block /\ row.block <= round[w].to
      /\ \A b \in 2..round[w].to : b > cursor.block => Lists(round[w].rows, b)
  BY <1>0, <1>1 DEF WorkIsRight, SliceIsRight, IsInSlice
<1>5. round[w].to \in 1..HeadBlock
  BY <1>0, <1>1, <1>4
<1>6. Hash(round[w].to) <= blocks
  BY <1>1, <1>5 DEF IInv, IndexIsRight, HashesAreKnown
<1>7. IsOnChain(RoundCursor(w))' /\ IsOnChain(cursor)'
  BY <1>0, <1>3, <1>4, <1>5, SameChain DEF IsOnChain, RoundCursor, Hash
<1>8. ASSUME NEW b \in 2..round'[w].to, b > cursor'.block PROVE Lists(round[w].rows, b)'
  BY <1>0, <1>3, <1>4, <1>8, SameChain DEF Lists
<1>9. SliceIsRight(w)'
  BY <1>0, <1>3, <1>4, <1>7, <1>8 DEF SliceIsRight, IsAhead, IsInSlice
<1>10. OrphansAreRight(w)' /\ RescanIsRight(w)'
  BY <1>3 DEF OrphansAreRight, RescanIsRight
<1> QED
  BY <1>0, <1>3, <1>6, <1>9, <1>10, AtWork, SameChain DEF RoundIsRight, WorkIsRight

LEMMA LooksStep ==
    ASSUME IInv, NEW w \in Workers, Looks(w), UNCHANGED chainVars
    PROVE  RoundIsRight(w)'
<1>0. IsAtWork(w) /\ cursor' = cursor /\ round[w].step = "tip"
  BY DEF Looks, IsAtWork
<1>1. round[w] \in Round /\ WorkIsRight(w)
  BY <1>0, AtWork
<1>2. round'[w] = [round[w] EXCEPT !.step = "looked", !.fresh = Fresh(w)]
  BY DEF Looks, Becomes
<1>3. /\ round'[w].step = "looked" /\ round'[w].known = round[w].known /\ round'[w].hash = round[w].hash
      /\ round'[w].confirmed = round[w].confirmed
      /\ round'[w].to = round[w].to /\ round'[w].rows = round[w].rows
  BY <1>1, <1>2 DEF Round
<1>4. SliceIsRight(w)'
  BY <1>0, <1>1, <1>3, SameChain
     DEF WorkIsRight, SliceIsRight, IsAhead, IsInSlice, RoundCursor, IsOnChain, Hash, Lists
<1>5. OrphansAreRight(w)' /\ RescanIsRight(w)'
  BY <1>3 DEF OrphansAreRight, RescanIsRight
<1> QED
  BY <1>0, <1>3, <1>4, <1>5, AtWork, SameChain DEF RoundIsRight, WorkIsRight

LEMMA ReadsAgainStep ==
    ASSUME IInv, NEW w \in Workers, ReadsAgain(w), UNCHANGED chainVars
    PROVE  RoundIsRight(w)'
<1>0. IsAtWork(w) /\ cursor' = cursor /\ round[w].step = "idle"
  BY DEF ReadsAgain, IsAtWork
<1>1. /\ round[w] \in Round /\ WorkIsRight(w) /\ TypeOK
      /\ round[w].confirmed \in Nat /\ cursor.block \in Nat
  BY <1>0, AtWork, IndexerTypes
<1>2. PICK from, to \in (StartBlock + 1)..round[w].confirmed :
          round'[w] = [round[w] EXCEPT !.step = "rescan", !.rows = Found(from, to)]
  BY DEF ReadsAgain, Becomes
<1>3. /\ round'[w].step = "rescan" /\ round'[w].known = round[w].known /\ round'[w].hash = round[w].hash
      /\ round'[w].confirmed = round[w].confirmed /\ round'[w].rows = Found(from, to)
  BY <1>1, <1>2 DEF Round
<1>4. from \in Nat /\ to \in Nat /\ from > 1 /\ to <= round[w].confirmed /\ round[w].confirmed <= cursor.block
  BY <1>0, <1>1, <1>2 DEF StartBlock, WorkIsRight, RescanIsRight
<1>5. \A row \in Found(from, to) :
         /\ row.status = "confirmed" /\ row.block \in 2..cursor.block
         /\ row.block <= HeadBlock /\ row.transfer \in chain[row.block].transfers
  <2>1. \A row \in Found(from, to) :
            /\ row.block \in from..to /\ row.block <= HeadBlock
            /\ row.transfer \in chain[row.block].transfers /\ row.status = "confirmed"
    BY <1>1, <1>4, FoundRows
  <2> QED
    BY <1>1, <1>4, <2>1
<1>6. RescanIsRight(w)'
  BY <1>0, <1>3, <1>5, SameChain DEF RescanIsRight
<1>7. OrphansAreRight(w)' /\ SliceIsRight(w)'
  BY <1>3 DEF OrphansAreRight, SliceIsRight, IsAhead, IsInSlice
<1> QED
  BY <1>0, <1>3, <1>6, <1>7, AtWork, SameChain DEF RoundIsRight, WorkIsRight

-----------------------------------------------------------------------------
(***************************************************************************)
(* The writers.                                                            *)
(***************************************************************************)
LEMMA OrphansStep ==
    ASSUME IInv, NEW w \in Workers, Orphans(w), UNCHANGED chainVars
    PROVE  IndexIsRight' /\ RoundIsRight(w)'
<1> DEFINE back == Back(cursor.block)
           after(row) == IF row.block > back THEN [row EXCEPT !.status = "orphaned"] ELSE row
<1>0. IsAtWork(w) /\ cursor' = cursor /\ round[w].step = "begun"
  BY DEF Orphans, IsAtWork
<1>1. /\ round[w] \in Round /\ round[w].known = cursor /\ TypeOK /\ IndexIsRight
      /\ cursor.block \in Nat /\ cursor.block >= 1 /\ HeadBlock \in Nat
  BY <1>0, AtWork, IndexerTypes, ChainTypes
<1>2. /\ index' = {after(row) : row \in index}
      /\ cursor.block <= HeadBlock /\ Hash(cursor.block) # cursor.hash
      /\ round'[w] = [round[w] EXCEPT !.step = "orphaned", !.to = back, !.hash = Hash(back)]
  BY <1>1 DEF Orphans, Becomes, Orphaned
<1>3. /\ round'[w].step = "orphaned" /\ round'[w].known = cursor
      /\ round'[w].confirmed = round[w].confirmed /\ round'[w].to = back /\ round'[w].hash = Hash(back)
  BY <1>1, <1>2 DEF Round
<1>4. back \in 1..HeadBlock /\ back \in Nat /\ back <= cursor.block
  <2>1. back \in Nat /\ back >= 1 /\ back <= cursor.block
    BY <1>1, BackType
  <2> QED
    BY <1>1, <1>2, <2>1
<1>5. ~IsOnChain(cursor) /\ ~IsOnChain(cursor)'
  BY <1>0, <1>2, SameChain DEF IsOnChain, Hash

(* Rows up to the point stay, those above it are confirmed no more.        *)
<1>6. ASSUME NEW row \in index, row.block <= back PROVE row \in index'
  BY <1>2, <1>1, <1>4, <1>6, IndexerTypes
<1>7. ASSUME NEW row \in index', row.status = "confirmed"
      PROVE  row \in index /\ row.block <= back
  <2>1. PICK old \in index : row = after(old)
    BY <1>2
  <2>2. CASE old.block > back
    <3>1. old \in Row /\ row = [old EXCEPT !.status = "orphaned"]
      BY <1>1, <2>1, <2>2, IndexerTypes
    <3>2. row.status = "orphaned"
      BY <3>1 DEF Row
    <3> QED
      BY <1>7, <3>2
  <2>3. CASE ~(old.block > back)
    BY <1>1, <1>4, <2>1, <2>3, IndexerTypes
  <2> QED
    BY <2>2, <2>3
<1>8. ConfirmedIsBelow'
  BY <1>0, <1>1, <1>7 DEF ConfirmedIsBelow, IndexIsRight
<1>9. ListedIsTheChain'
  <2> SUFFICES ASSUME NEW b \in 2..cursor.block, b <= back
               PROVE  Lists(index, b)'
    BY <1>0, <1>5 DEF ListedIsTheChain
  <2>1. Lists(index, b)
    BY <1>1 DEF IndexIsRight, ListedIsTheChain
  <2>2. \A t : (\E row \in index' : row.block = b /\ row.transfer = t /\ row.status = "confirmed")
                 <=> (\E row \in index : row.block = b /\ row.transfer = t /\ row.status = "confirmed")
    BY <1>6, <1>7
  <2> QED
    BY <2>1, <2>2, SameChain DEF Lists
<1>10. IndexIsRight'
  <2>1. HashesAreKnown' /\ DepthIsBounded'
    BY <1>0, <1>1, SameChain DEF IndexIsRight, HashesAreKnown, DepthIsBounded, Hash
  <2>2. CursorIsConfirmed'
    BY <1>0, <1>1, SameChain DEF IndexIsRight, CursorIsConfirmed, NoCursor
  <2> QED
    BY <1>8, <1>9, <2>1, <2>2 DEF IndexIsRight
<1>11. OrphansAreRight(w)'
  <2>1. IsOnChain(RoundCursor(w))'
    BY <1>3, <1>4, SameChain DEF IsOnChain, RoundCursor, Hash
  <2> QED
    BY <1>0, <1>3, <1>5, <1>7, <2>1 DEF OrphansAreRight
<1>12. SliceIsRight(w)' /\ RescanIsRight(w)'
  BY <1>3 DEF SliceIsRight, RescanIsRight, IsAhead, IsInSlice
<1>13. round'[w].hash <= blocks'
  BY <1>1, <1>3, <1>4, SameChain DEF IndexIsRight, HashesAreKnown
<1> QED
  BY <1>0, <1>1, <1>3, <1>10, <1>11, <1>12, <1>13, AtWork, SameChain DEF RoundIsRight, WorkIsRight

LEMMA RewindsStep ==
    ASSUME IInv, NEW w \in Workers, Rewinds(w), UNCHANGED chainVars
    PROVE  IndexIsRight' /\ RoundIsRight(w)' /\ cursor'.block >= 1
<1>0. IsAtWork(w) /\ index' = index /\ round[w].step = "orphaned"
  BY DEF Rewinds, IsAtWork
<1>1. /\ round[w] \in Round /\ round[w].known = cursor /\ TypeOK /\ IndexIsRight /\ WorkIsRight(w)
      /\ cursor.block \in Nat /\ cursor.block >= 1 /\ HeadBlock \in Nat /\ top \in Nat
      /\ round[w].hash <= blocks
  BY <1>0, AtWork, IndexerTypes, ChainTypes
<1>2. /\ cursor' = RoundCursor(w) /\ cursor'.block = round[w].to /\ cursor'.hash = round[w].hash
      /\ round'[w] = [round[w] EXCEPT !.step = "scanning", !.known = cursor']
  BY DEF Rewinds, Becomes, Advance, RoundCursor
<1>3. /\ round'[w].step = "scanning" /\ round'[w].known = cursor' /\ round'[w].hash = round[w].hash
      /\ round'[w].confirmed = round[w].confirmed
  BY <1>1, <1>2 DEF Round
<1>4. /\ cursor'.block = Back(cursor.block) /\ IsOnChain(RoundCursor(w))
      /\ \A row \in index : row.status = "confirmed" => row.block <= round[w].to
  BY <1>0, <1>1, <1>2 DEF WorkIsRight, OrphansAreRight
<1>5. /\ Back(cursor.block) \in Nat /\ Back(cursor.block) >= 1 /\ Back(cursor.block) <= cursor.block
      /\ Back(cursor.block) = 1 \/ Back(cursor.block) + Confirmations = cursor.block
      /\ Confirmations \in Nat
  BY <1>1, BackType, Numbers
<1>6. IsOnChain(cursor)'
  BY <1>2, <1>4, SameChain DEF IsOnChain, Hash
<1>7. CursorIsConfirmed'
  BY <1>1, <1>4, <1>5, SameChain DEF CursorIsConfirmed, IndexIsRight, NoCursor
<1>8. ConfirmedIsBelow'
  BY <1>0, <1>1, <1>2, <1>4, <1>5 DEF ConfirmedIsBelow, IndexIsRight
<1>9. ListedIsTheChain'
  <2> SUFFICES ASSUME NEW b \in 2..cursor'.block PROVE Lists(index, b)'
    BY DEF ListedIsTheChain
  <2>1. b \in 2..cursor.block /\ b <= Back(cursor.block)
    BY <1>1, <1>4, <1>5
  <2>2. Lists(index, b)
    BY <1>1, <2>1 DEF IndexIsRight, ListedIsTheChain
  <2> QED
    BY <1>0, <2>2, SameChain DEF Lists
<1>10. HashesAreKnown' /\ DepthIsBounded'
  BY <1>1, <1>2, SameChain DEF IndexIsRight, HashesAreKnown, DepthIsBounded, Hash
<1>11. SliceIsRight(w)' /\ OrphansAreRight(w)' /\ RescanIsRight(w)'
  BY <1>3, <1>6 DEF SliceIsRight, OrphansAreRight, RescanIsRight, IsInSlice
<1>12. IndexIsRight'
  BY <1>7, <1>8, <1>9, <1>10 DEF IndexIsRight
<1> QED
  BY <1>0, <1>1, <1>3, <1>4, <1>5, <1>11, <1>12, AtWork, SameChain DEF RoundIsRight, WorkIsRight

(* Rows written by their keys: those of other blocks stay, and what was    *)
(* there for a block that is written is written again.                     *)
LEMMA UpsertedRows ==
    ASSUME NEW rows, index' = Upserted(rows)
    PROVE  /\ rows \subseteq index'
           /\ \A row \in index' : row \in index \/ row \in rows
           /\ \A row \in index : row \in index' \/ \E r \in rows : r.transfer = row.transfer /\ r.block = row.block
  BY DEF Upserted, KeyOf

LEMMA CommitsStep ==
    ASSUME IInv, NEW w \in Workers, Commits(w), UNCHANGED chainVars
    PROVE  IndexIsRight' /\ RoundIsRight(w)' /\ cursor'.block >= 1
<1> DEFINE rows == round[w].rows
<1>0. IsAtWork(w) /\ index' = Upserted(rows) /\ round[w].step = "looked"
  BY DEF Commits, IsAtWork
<1>1. /\ round[w] \in Round /\ round[w].known = cursor /\ TypeOK /\ IndexIsRight /\ WorkIsRight(w)
      /\ cursor.block \in Nat /\ cursor.block >= 1 /\ HeadBlock \in Nat /\ top \in Nat
      /\ round[w].hash <= blocks /\ round[w].confirmed \in Nat /\ round[w].to \in Nat
      /\ blocks \in Nat /\ Confirmations \in Nat /\ Confirmations > 0
  BY <1>0, AtWork, IndexerTypes, ChainTypes, Numbers
<1>2. /\ cursor' = RoundCursor(w) /\ cursor'.block = round[w].to /\ cursor'.hash = round[w].hash
      /\ round'[w] = [NoRound EXCEPT !.step = "scanning", !.known = cursor', !.confirmed = round[w].confirmed]
  BY DEF Commits, Becomes, Advance, RoundCursor
<1>3. /\ round'[w].step = "scanning" /\ round'[w].known = cursor' /\ round'[w].hash = 0
      /\ round'[w].confirmed = round[w].confirmed
  BY <1>2 DEF NoRound
<1>4. /\ IsOnChain(cursor) /\ cursor.block < round[w].to /\ round[w].to <= round[w].confirmed
      /\ \A row \in rows : row.status = "confirmed" /\ cursor.block < row.block /\ row.block <= round[w].to
      /\ round[w].to < round[w].confirmed => IsOnChain(RoundCursor(w))
      /\ \A b \in 2..round[w].to :
            b > cursor.block /\ (b < round[w].to \/ IsOnChain(RoundCursor(w))) => Lists(rows, b)
  BY <1>0, <1>1 DEF WorkIsRight, SliceIsRight, IsInSlice
<1>5. IsOnChain(cursor)' <=> IsOnChain(RoundCursor(w))
  BY <1>2, SameChain DEF IsOnChain, Hash
<1>6. CursorIsConfirmed'
  <2>1. round[w].confirmed > 0
    BY <1>1, <1>4
  <2>2. round[w].confirmed + Confirmations <= top
    BY <1>0, <1>1, <2>1, AtWork
  <2> QED
    BY <1>1, <1>2, <1>4, <2>2, SameChain DEF CursorIsConfirmed
<1>7. \A row \in index : row.status = "confirmed" => row.block \in 2..cursor.block
  BY <1>1 DEF ConfirmedIsBelow, IndexIsRight
<1>8. ConfirmedIsBelow'
  <2> SUFFICES ASSUME NEW row \in index', row.status = "confirmed" PROVE row.block \in 2..cursor'.block
    BY DEF ConfirmedIsBelow
  <2>1. row \in index \/ row \in rows
    BY <1>0, UpsertedRows
  <2>2. \A r \in rows : r.block \in Nat
    BY <1>1, IndexerTypes
  <2> QED
    BY <1>1, <1>2, <1>4, <1>7, <2>1, <2>2
<1>9. ListedIsTheChain'
  <2> SUFFICES ASSUME NEW b \in 2..cursor'.block, b <= Back(cursor'.block) \/ IsOnChain(cursor)'
               PROVE  Lists(index, b)'
    BY DEF ListedIsTheChain
  <2>0. b \in Nat /\ b >= 2 /\ b <= round[w].to
    BY <1>1, <1>2
  <2>1. CASE b > cursor.block
    <3>1. b < round[w].to \/ IsOnChain(RoundCursor(w))
      <4>1. Back(cursor'.block) = 1 \/ Back(cursor'.block) + Confirmations = cursor'.block
        BY <1>1, <1>2, BackType
      <4>2. Back(cursor'.block) \in Nat
        BY <1>1, <1>2, BackType
      <4> QED
        BY <1>1, <1>2, <1>5, <2>0, <4>1, <4>2
    <3>2. Lists(rows, b)
      BY <1>4, <2>0, <2>1, <3>1
    <3>3. \A t : (\E row \in index' : row.block = b /\ row.transfer = t /\ row.status = "confirmed")
                   <=> (\E row \in rows : row.block = b /\ row.transfer = t /\ row.status = "confirmed")
      <4>1. \A row \in index' : row.block = b /\ row.status = "confirmed" => row \in rows
        BY <1>0, <1>1, <1>7, <2>0, <2>1, UpsertedRows
      <4>2. \A row \in rows : row \in index'
        BY <1>0, UpsertedRows
      <4> QED
        BY <4>1, <4>2
    <3> QED
      BY <3>2, <3>3, SameChain DEF Lists
  <2>2. CASE b <= cursor.block
    <3>1. Lists(index, b)
      <4>1. b \in 2..cursor.block
        BY <1>1, <2>0, <2>2
      <4> QED
        BY <1>1, <1>4, <4>1 DEF IndexIsRight, ListedIsTheChain
    <3>2. \A row \in rows : row.block # b
      BY <1>1, <1>4, <2>0, <2>2, IndexerTypes
    <3>3. \A t : (\E row \in index' : row.block = b /\ row.transfer = t /\ row.status = "confirmed")
                   <=> (\E row \in index : row.block = b /\ row.transfer = t /\ row.status = "confirmed")
      <4>1. \A row \in index' : row.block = b => row \in index
        BY <1>0, <3>2, UpsertedRows
      <4>2. \A row \in index : row.block = b => row \in index'
        BY <1>0, <3>2, UpsertedRows
      <4> QED
        BY <4>1, <4>2
    <3> QED
      BY <3>1, <3>3, SameChain DEF Lists
  <2> QED
    BY <1>1, <2>0, <2>1, <2>2
<1>10. HashesAreKnown' /\ DepthIsBounded'
  BY <1>1, <1>2, SameChain DEF IndexIsRight, HashesAreKnown, DepthIsBounded, Hash
<1>11. IndexIsRight'
  BY <1>6, <1>8, <1>9, <1>10 DEF IndexIsRight
<1>12. SliceIsRight(w)' /\ OrphansAreRight(w)' /\ RescanIsRight(w)'
  <2>1. IsAhead(w)' => IsOnChain(cursor)'
    BY <1>2, <1>3, <1>4, <1>5 DEF IsAhead
  <2> QED
    BY <1>3, <2>1 DEF SliceIsRight, OrphansAreRight, RescanIsRight, IsInSlice
<1>13. cursor'.block >= 1
  BY <1>1, <1>2, <1>4
<1>14. round'[w].confirmed = 0 \/ round'[w].confirmed + Confirmations <= top'
  BY <1>0, <1>3, AtWork, SameChain
<1> QED
  BY <1>1, <1>3, <1>11, <1>12, <1>13, <1>14, SameChain DEF RoundIsRight, WorkIsRight

LEMMA RescansStep ==
    ASSUME IInv, NEW w \in Workers, Rescans(w), UNCHANGED chainVars
    PROVE  IndexIsRight' /\ RoundIsRight(w)'
<1> DEFINE rows == round[w].rows
<1>0. IsAtWork(w) /\ index' = Upserted(rows) /\ round[w].step = "rescan" /\ cursor' = cursor
  BY DEF Rescans, IsAtWork
<1>1. /\ round[w] \in Round /\ TypeOK /\ IndexIsRight /\ WorkIsRight(w)
      /\ cursor.block \in Nat /\ cursor.block >= 1 /\ blocks \in Nat
  BY <1>0, AtWork, IndexerTypes, ChainTypes
<1>2. \A row \in rows :
         /\ row.status = "confirmed" /\ row.block \in 2..cursor.block
         /\ row.block <= Back(cursor.block) \/ IsOnChain(cursor)
              => row.block <= HeadBlock /\ row.transfer \in chain[row.block].transfers
  BY <1>0, <1>1 DEF WorkIsRight, RescanIsRight
<1>3. /\ rows \subseteq index'
      /\ \A row \in index' : row \in index \/ row \in rows
      /\ \A row \in index : row \in index' \/ \E r \in rows : r.transfer = row.transfer /\ r.block = row.block
  BY <1>0, UpsertedRows
<1>4. ConfirmedIsBelow'
  BY <1>0, <1>1, <1>2, <1>3 DEF ConfirmedIsBelow, IndexIsRight
<1>5. ListedIsTheChain'
  <2> SUFFICES ASSUME NEW b \in 2..cursor.block, b <= Back(cursor.block) \/ IsOnChain(cursor)
               PROVE  Lists(index, b)'
    BY <1>0, SameChain DEF ListedIsTheChain, IsOnChain, Hash
  <2>1. Lists(index, b)
    BY <1>1 DEF IndexIsRight, ListedIsTheChain
  <2>2. ASSUME NEW t \in Transfers
        PROVE  (\E row \in index' : row.block = b /\ row.transfer = t /\ row.status = "confirmed")
                 <=> t \in chain[b].transfers
    <3>1. ASSUME NEW row \in index', row.block = b, row.transfer = t, row.status = "confirmed"
          PROVE  t \in chain[b].transfers
      <4>1. CASE row \in index
        BY <2>1, <3>1, <4>1 DEF Lists
      <4>2. CASE row \in rows
        BY <1>2, <3>1, <4>2
      <4> QED
        BY <1>3, <4>1, <4>2
    <3>2. ASSUME t \in chain[b].transfers
          PROVE  \E row \in index' : row.block = b /\ row.transfer = t /\ row.status = "confirmed"
      <4>1. PICK row \in index : row.block = b /\ row.transfer = t /\ row.status = "confirmed"
        BY <2>1, <3>2 DEF Lists
      <4>2. CASE row \in index'
        BY <4>1, <4>2
      <4>3. CASE \E r \in rows : r.transfer = row.transfer /\ r.block = row.block
        BY <1>2, <1>3, <4>1, <4>3
      <4> QED
        BY <1>3, <4>2, <4>3
    <3> QED
      BY <3>1, <3>2
  <2> QED
    BY <2>1, <2>2, SameChain DEF Lists
<1>6. HashesAreKnown' /\ DepthIsBounded' /\ CursorIsConfirmed'
  BY <1>0, <1>1, SameChain DEF IndexIsRight, HashesAreKnown, DepthIsBounded, Hash, CursorIsConfirmed, NoCursor
<1>7. round'[w].step = "off" /\ round'[w].hash = 0
  BY DEF Rescans, Becomes, NoRound
<1> QED
  BY <1>1, <1>4, <1>5, <1>6, <1>7, SameChain DEF IndexIsRight, RoundIsRight, IsAtWork

-----------------------------------------------------------------------------
LEMMA WorkerStep ==
    ASSUME Races = {}, IInv, NEW w \in Workers, Effect(w), OnlyMoves(w), UNCHANGED chainVars
    PROVE  IndexIsRight' /\ \A v \in Workers : RoundIsRight(v)'
<1>1. CASE Loads(w)
  BY <1>1, LoadsStep
<1>2. ASSUME UNCHANGED <<cursor, index>>, RoundIsRight(w)'
      PROVE  IndexIsRight' /\ \A v \in Workers : RoundIsRight(v)'
  BY <1>2, QuietIndex, QuietRound DEF IInv, OnlyMoves
<1>3. CASE Starts(w) \/ Ends(w) \/ IsCurrent(w) \/ Pauses(w)
  <2>1. UNCHANGED <<cursor, index>>
    BY <1>3 DEF Starts, Ends, IsCurrent, Pauses
  <2> QED
    BY <1>2, <1>3, <2>1, StartsStep, EndsStep, IsCurrentStep, PausesStep
<1>4. CASE Reads(w) \/ TakesTip(w) \/ Looks(w) \/ ReadsAgain(w)
  <2>1. UNCHANGED <<cursor, index>>
    BY <1>4 DEF Reads, TakesTip, Looks, ReadsAgain
  <2> QED
    BY <1>2, <1>4, <2>1, ReadsStep, TakesTipStep, LooksStep, ReadsAgainStep
<1>5. ASSUME IsAtWork(w), cursor'.block >= 1, IndexIsRight', RoundIsRight(w)'
      PROVE  IndexIsRight' /\ \A v \in Workers : RoundIsRight(v)'
  BY <1>5, OthersStay
<1>6. CASE Orphans(w) \/ Rescans(w)
  <2>1. IsAtWork(w) /\ cursor' = cursor
    BY <1>6 DEF Orphans, Rescans, IsAtWork
  <2> QED
    BY <1>5, <1>6, <2>1, AtWork, OrphansStep, RescansStep
<1>7. CASE Rewinds(w) \/ Commits(w)
  <2>1. IsAtWork(w)
    BY <1>7 DEF Rewinds, Commits, IsAtWork
  <2> QED
    BY <1>5, <1>7, <2>1, RewindsStep, CommitsStep
<1> QED
  BY <1>1, <1>3, <1>4, <1>6, <1>7 DEF Effect

LEMMA IInvInit == Init => IInv
<1> SUFFICES ASSUME Init PROVE IInv
  OBVIOUS
<1>1. Types /\ \A w \in Workers : round[w] = NoRound
  BY TypesInit DEF Init
<1>2. NoRound.step = "off" /\ NoRound.hash = 0
  BY DEF NoRound
<1>3. HeadBlock = 1 /\ Hash(1) = 1 /\ blocks = 1 /\ top = 1
  BY DEF Init, HeadBlock, Hash, StartBlock
<1>4. cursor = NoCursor /\ cursor.block = 0 /\ cursor.hash = 0 /\ index = {}
  BY DEF Init, NoCursor
<1>5. IndexIsRight
  BY <1>3, <1>4, Numbers
     DEF IndexIsRight, HashesAreKnown, DepthIsBounded, CursorIsConfirmed, ConfirmedIsBelow, ListedIsTheChain
<1>6. OneAtWork /\ \A w \in Workers : RoundIsRight(w)
  BY <1>1, <1>2, <1>3 DEF OneAtWork, RoundIsRight, IsAtWork
<1> QED
  BY <1>1, <1>5, <1>6 DEF IInv

LEMMA IInvStep ==
    ASSUME Races = {}, MaxDepth <= Confirmations + 1, IInv, [Next]_vars
    PROVE  IInv'
<1>1. Types' /\ OneAtWork' /\ TypeOK /\ TypeOK'
  BY TypesStep, OneAtWorkStep DEF IInv, Types
<1>2. CASE Mine \/ \E n \in Heights : Fork(n)
  BY <1>1, <1>2, ChainStep DEF IInv
<1>3. ASSUME NEW w \in Workers, Work(w) \/ ReadRescan(w) \/ Fail(w) \/ ReleaseLease(w)
      PROVE  IInv'
  BY <1>1, <1>3, WorkerEffect, WorkerStep DEF IInv
<1>4. CASE Expire \/ UNCHANGED vars
  <2>1. UNCHANGED chainVars /\ UNCHANGED <<cursor, index, round>>
    BY <1>4 DEF Expire, vars, chainVars
  <2>2. \A w \in Workers : RoundIsRight(w)'
    BY <2>1, QuietRound DEF IInv
  <2> QED
    BY <1>1, <2>1, <2>2, QuietIndex DEF IInv
<1> QED
  BY <1>2, <1>3, <1>4 DEF Next

(* The invariant, for any number of replicas and any length of a slice:    *)
(* rounds do not outlast their lease, no reorganisation falls between the  *)
(* two reads of a slice, and none replaces more than one block that a      *)
(* round took for confirmed.                                               *)
THEOREM IndexInvariant ==
    ASSUME Races = {}, MaxDepth <= Confirmations + 1
    PROVE  Spec => []IInv
  BY IInvInit, IInvStep, PTL DEF Spec

(* IndexIsTheChain: as long as the cursor is a block of the chain, the     *)
(* index lists exactly the transfers of the chain up to it, whatever       *)
(* rounds break off, blocks go and come, and replicas take over.           *)
THEOREM IndexIsTheChainHolds ==
    ASSUME Races = {}, MaxDepth <= Confirmations + 1
    PROVE  Spec => []IndexIsTheChain
<1>1. ASSUME IInv PROVE IndexIsTheChain
  <2> SUFFICES ASSUME cursor # NoCursor, HeadBlock >= cursor.block, Hash(cursor.block) = cursor.hash
               PROVE  Confirmed(cursor.block) = OnChain(cursor.block)
    BY DEF IndexIsTheChain
  <2>0. TypeOK /\ IndexIsRight
    BY <1>1 DEF IInv, Types
  <2>1. cursor.block \in Nat /\ HeadBlock \in Nat
    BY <2>0, IndexerTypes, ChainTypes
  <2>2. IsOnChain(cursor)
    BY <2>0, <2>1 DEF IndexIsRight, CursorIsConfirmed, IsOnChain
  <2>3. \A b \in 2..cursor.block : Lists(index, b)
    BY <2>0, <2>2 DEF IndexIsRight, ListedIsTheChain
  <2>4. \A row \in Found(2, cursor.block) :
            /\ row.block \in 2..cursor.block /\ row.block <= HeadBlock
            /\ row.transfer \in chain[row.block].transfers
    BY <2>0, <2>1, FoundRows
  <2>5. ASSUME NEW row \in index, row.status = "confirmed", row.block <= cursor.block
        PROVE  KeyOf(row) \in OnChain(cursor.block)
    <3>1. row.block \in 2..cursor.block /\ row.transfer \in Transfers
      BY <2>0, <2>5, IndexerTypes DEF IndexIsRight, ConfirmedIsBelow
    <3>2. row.transfer \in chain[row.block].transfers /\ row.block <= HeadBlock
      BY <2>3, <2>5, <3>1 DEF Lists
    <3>3. PICK found \in Found(2, cursor.block) : found.block = row.block /\ found.transfer = row.transfer
      <4>1. \A b \in 2..cursor.block : b <= HeadBlock =>
               \A t \in chain[b].transfers : \E found \in Found(2, cursor.block) : found.block = b /\ found.transfer = t
        BY <2>0, <2>1, FoundRows
      <4> QED
        BY <3>1, <3>2, <4>1
    <3> QED
      BY <3>3 DEF OnChain, KeyOf, StartBlock
  <2>6. ASSUME NEW found \in Found(2, cursor.block)
        PROVE  KeyOf(found) \in Confirmed(cursor.block)
    <3>1. found.transfer \in Transfers /\ found.block \in 2..cursor.block
      BY <2>0, <2>1, <2>4, ChainTypes
    <3>2. PICK row \in index :
              row.block = found.block /\ row.transfer = found.transfer /\ row.status = "confirmed"
      BY <2>3, <2>4, <3>1 DEF Lists
    <3> QED
      BY <3>1, <3>2 DEF Confirmed, KeyOf
  <2> QED
    BY <2>5, <2>6 DEF Confirmed, OnChain, StartBlock
<1> QED
  BY <1>1, IndexInvariant, PTL
=============================================================================
