-------------------------- MODULE HonestGossipProofs --------------------------
(***************************************************************************)
(* Proofs about the accumulator when peers gossip no forged body           *)
(* (ForgedBodies = {}): the chain links catch-up and keep-up follow, and   *)
(* the acceptors holding a genuine body.  Runs sync_forged_link and        *)
(* forged_evict show that neither holds once a peer forges a body.         *)
(***************************************************************************)
EXTENDS BlockAccumulatorProofs

\* Every body gossiped is the genuine block of the hash it claims.
HonestGossip == ForgedBodies = {}

LEMMA HonestBodies ==
  ASSUME HonestGossip, NEW b \in Bodies
  PROVE  /\ b.hash \in Hashes
         /\ b = Blk(b.hash)
         /\ b.parent = Parent[b.hash]
  BY DEF HonestGossip, Bodies, Blk

-----------------------------------------------------------------------------
(* The chain links.                                                        *)

\* Every link block_children records is a parent -> child link of the chain.
ChildLinksGenuine ==
    \A p \in Hashes : block_children[p] # NoHash => Parent[block_children[p]] = p

CInv == TypeOK /\ ChildLinksGenuine

LEMMA InitCInv == Init => CInv
  BY InitTypeOK DEF Init, CInv, ChildLinksGenuine

LEMMA NextCInv ==
  ASSUME HonestGossip, CInv, [Next]_vars
  PROVE  CInv'
  <1>1. TypeOK'
    BY NextTypeOK DEF CInv
  <1>2. CASE \E b \in Bodies, p \in Peers : RegisterBlock(b, p)
    <2>1. PICK b \in Bodies, p \in Peers : RegisterBlock(b, p)
      BY <1>2
    <2>2. b.hash \in Hashes /\ b.parent = Parent[b.hash]
      BY HonestBodies
    <2>3. block_children' = block_children \/ block_children' = ChildrenWith(b)
      BY <2>1 DEF RegisterBlock
    <2>4. QED
      BY <1>1, <2>2, <2>3, ChainAssumption
         DEF ChildrenWith, CInv, ChildLinksGenuine, TypeOK, ChainAssumption
  <1>3. CASE ~\E b \in Bodies, p \in Peers : RegisterBlock(b, p)
    <2>1. block_children' = block_children
      BY <1>3 DEF Next, vars, SyncInstruction, RegisterFinalitySignature,
                  RegisterUpdatedValidatorMatrix, RegisterLocalTip, HandleStored,
                  LearnEra, Tick
    <2>2. QED
      BY <1>1, <2>1 DEF CInv, ChildLinksGenuine
  <1>4. QED
    BY <1>1, <1>2, <1>3

\* The instruction for a SyncedBlockIdentifier or an ExecutableBlock names
\* no other hash than the recorded child of the starting block.
LEMMA SyncFollowsLinks == ChildLinksGenuine => SyncFollowsChain
  <1> SUFFICES ASSUME ChildLinksGenuine, NEW h \in Hashes
               PROVE  LET catchUp == SyncDecision([kind |-> "SyncedBlockIdentifier", hash |-> h,
                                                   height |-> HeightOf[h]])
                          keepUp == SyncDecision([kind |-> "ExecutableBlock", hash |-> h,
                                                  height |-> HeightOf[h]])
                      IN /\ catchUp.kind = "BlockSync" => Parent[catchUp.hash] = h
                         /\ keepUp.kind = "BlockExec" /\ keepUp.next # NoHash
                              => Parent[keepUp.next] = h
    BY DEF SyncFollowsChain
  <1> DEFINE child == NextSyncable(h)
  <1>1. child # NoHash => Parent[child] = h
    BY DEF NextSyncable, ChildLinksGenuine
  <1>2. LET d == SyncDecision([kind |-> "SyncedBlockIdentifier", hash |-> h, height |-> HeightOf[h]])
        IN  d.kind = "BlockSync" => d.hash = child /\ child # NoHash
    BY DEF SyncDecision, Leap, Sync
  <1>3. LET d == SyncDecision([kind |-> "ExecutableBlock", hash |-> h, height |-> HeightOf[h]])
        IN  d.kind = "BlockExec" /\ d.next # NoHash => d.next = child
    BY DEF SyncDecision, Leap, Exec
  <1>4. QED
    BY <1>1, <1>2, <1>3

\* With honest peers, catch-up (SyncedBlockIdentifier) and keep-up
\* (ExecutableBlock) are only ever steered to a child of the block the node
\* has: register_block records the link of a genuine body.
THEOREM SyncFollowsChainWhenHonest == HonestGossip => (Spec => []SyncFollowsChain)
  <1> SUFFICES ASSUME HonestGossip PROVE Spec => []SyncFollowsChain
    OBVIOUS
  <1>1. Spec => []CInv
    BY InitCInv, NextCInv, PTL DEF Spec
  <1>2. QED
    BY <1>1, SyncFollowsLinks, PTL DEF CInv

-----------------------------------------------------------------------------
(* Acceptors holding a genuine body.                                       *)

\* An acceptor that holds a body has no weights or the weights of the
\* body's era: register_block accepts a body only then, and a refresh
\* attaches the weights of the body's era.
EraConsistent ==
    \A h \in Hashes :
        Tracked(h) /\ block_acceptors[h].block # NoBlock =>
            block_acceptors[h].era \in {NoEra, block_acceptors[h].block.era}

GInv == IInv /\ EraConsistent

\* register_block answers "ok" exactly when the body is genuine and the
\* acceptor has no weights or those of the body's era; it keeps the weights.
LEMMA AcceptBlockEra ==
  ASSUME NEW a \in Acceptors, NEW b \in Bodies
  PROVE  /\ (b = Blk(b.hash) /\ a.era \in {NoEra, b.era}) => AcceptBlock(a, b).out = "ok"
         /\ AcceptBlock(a, b).out = "ok" =>
              /\ AcceptBlock(a, b).acc.era = a.era
              /\ a.era \in {NoEra, b.era}
  BY DEF AcceptBlock, Acceptors

\* register_finality_signature keeps the body and the weights.
LEMMA AcceptSignatureEra ==
  ASSUME NEW a \in Acceptors, NEW s \in Signatures
  PROVE  /\ AcceptSignature(a, s).acc.block = a.block
         /\ AcceptSignature(a, s).acc.era = a.era
  BY DEF AcceptSignature, Acceptors

LEMMA InitGInv == Init => GInv
  BY InitIInv DEF Init, GInv, EraConsistent, Tracked

LEMMA NextEraConsistent ==
  ASSUME GInv, [Next]_vars
  PROVE  EraConsistent'
  <1> USE DEF GInv, IInv
  <1>0. TypeOK'
    BY NextTypeOK
  <1>1. ASSUME NEW sw \in StartingPoints, SyncInstruction(sw) PROVE EraConsistent'
    <2>1. NewAcceptor(NoEra).block = NoBlock
      BY NewAcceptorType
    <2>2. QED
      BY <1>1, <2>1 DEF SyncInstruction, Placeholder, EraConsistent, Tracked
  <1>2. ASSUME NEW b \in Bodies, NEW p \in Peers, RegisterBlock(b, p) PROVE EraConsistent'
    <2> DEFINE acc == GetOrRegister(b.hash, b.era)
               r == AcceptBlock(acc, b)
    <2>1. b \in BodyRecords
      BY BodiesType
    <2>2. \/ acc = block_acceptors[b.hash]
          \/ acc = NoAcceptor
          \/ acc \in Acceptors /\ acc.block = NoBlock
      BY <2>1, GetOrRegisterCases DEF BodyRecords
    <2>3. acc \in Acceptors \cup {NoAcceptor}
      BY <2>1, GetOrRegisterType DEF BodyRecords
    <2>4. acc # NoAcceptor /\ r.out = "ok" =>
            r.acc.block = b /\ r.acc.era \in {NoEra, b.era}
      BY <2>3, AcceptBlockType, AcceptBlockEra
    <2>5. acc # NoAcceptor /\ r.out # "ok" => r.acc = acc
      BY <2>3, AcceptBlockType
    <2>6. QED
      BY <1>2, <2>1, <2>2, <2>4, <2>5
         DEF RegisterBlock, EraConsistent, Tracked, TypeOK, BodyRecords
  <1>3. ASSUME NEW s \in Signatures, NEW p \in Peers, RegisterFinalitySignature(s, p)
        PROVE EraConsistent'
    <2> DEFINE acc == GetOrRegister(s.hash, s.era)
               r == AcceptSignature(acc, s)
    <2>1. s.hash \in Hashes /\ s.era \in Eras
      BY DEF Signatures
    <2>2. \/ acc = block_acceptors[s.hash]
          \/ acc = NoAcceptor
          \/ acc \in Acceptors /\ acc.block = NoBlock
      BY <2>1, GetOrRegisterCases
    <2>3. acc \in Acceptors \cup {NoAcceptor}
      BY <2>1, GetOrRegisterType
    <2>4. acc # NoAcceptor => r.acc.block = acc.block /\ r.acc.era = acc.era
      BY <2>3, AcceptSignatureEra
    <2>5. QED
      BY <1>3, <2>1, <2>2, <2>4 DEF RegisterFinalitySignature, EraConsistent, Tracked, TypeOK
  <1>4. ASSUME RegisterUpdatedValidatorMatrix PROVE EraConsistent'
    <2>1. \A h \in Hashes :
            block_acceptors[h] # NoAcceptor /\ AcceptorEra(block_acceptors[h]) \in validator_eras
              => LET a == block_acceptors[h]
                 IN  /\ Refresh(a, AcceptorEra(a)).block = a.block
                     /\ Refresh(a, AcceptorEra(a)).era = AcceptorEra(a)
      BY DEF Refresh, TypeOK, Acceptors
    <2>2. QED
      BY <1>4, <2>1 DEF RegisterUpdatedValidatorMatrix, EraConsistent, Tracked, AcceptorEra
  <1>5. ASSUME NEW n \in ExecutedHeights, RegisterLocalTip(n) PROVE EraConsistent'
    BY <1>5 DEF RegisterLocalTip, EraConsistent, Tracked
  <1>6. ASSUME NEW u \in effects, HandleStored(u) PROVE EraConsistent'
    BY <1>6 DEF HandleStored, EraConsistent, Tracked
  <1>7. ASSUME NEW e \in Eras, LearnEra(e) PROVE EraConsistent'
    BY <1>7 DEF LearnEra, EraConsistent, Tracked
  <1>8. CASE Tick
    BY <1>8 DEF Tick, EraConsistent, Tracked
  <1>9. CASE UNCHANGED vars
    BY <1>9 DEF vars, EraConsistent, Tracked
  <1>10. QED
    BY <1>1, <1>2, <1>3, <1>4, <1>5, <1>6, <1>7, <1>8, <1>9 DEF Next

LEMMA NextGInv == GInv /\ [Next]_vars => GInv'
  BY NextIInv, NextEraConsistent DEF GInv

\* The step property GenuineAcceptorKept asserts, for one step.
KeptStep ==
    \A h \in Hashes :
        Tracked(h) /\ block_acceptors[h].block = Blk(h) =>
            Tracked(h)' \/ h \in already_handled'

LEMMA NextKept ==
  ASSUME HonestGossip, GInv, [Next]_vars
  PROVE  KeptStep
  <1> USE DEF GInv, IInv
  <1> SUFFICES ASSUME NEW h \in Hashes, Tracked(h), block_acceptors[h].block = Blk(h)
               PROVE  Tracked(h)' \/ h \in already_handled'
    BY DEF KeptStep
  <1>0. block_acceptors[h] \in Acceptors /\ NoAcceptor \notin Acceptors
    BY AcceptorSentinel DEF Tracked, TypeOK
  <1>0a. /\ Blk(h) \in BodyRecords
         /\ Blk(h) # NoBlock
         /\ Blk(h).era \in Eras
    <2>1. Blk(h) \in Bodies
      BY DEF Bodies
    <2>2. QED
      BY <2>1, BodiesType, SentinelAssumption DEF SentinelAssumption, BodyRecords
  <1>1. ASSUME NEW sw \in StartingPoints, SyncInstruction(sw) PROVE Tracked(h)'
    <2>1. NewAcceptor(NoEra) \in Acceptors
      BY NewAcceptorType
    <2>2. QED
      BY <1>0, <1>1, <2>1 DEF SyncInstruction, Placeholder, Tracked, TypeOK
  <1>2. ASSUME NEW b \in Bodies, NEW p \in Peers, RegisterBlock(b, p) PROVE Tracked(h)'
    <2> DEFINE acc == GetOrRegister(b.hash, b.era)
               r == AcceptBlock(acc, b)
    <2>1. b.hash \in Hashes /\ b = Blk(b.hash) /\ b \in BodyRecords
      BY HonestBodies, BodiesType
    <2>2. CASE b.hash # h
      BY <1>2, <2>1, <2>2 DEF RegisterBlock, Tracked, TypeOK
    <2>3. CASE b.hash = h
      <3>0. b = block_acceptors[h].block
        BY <2>1, <2>3
      <3>1. ~Outdated(b)
        BY <1>0a, <2>3, <3>0 DEF Outdated, BlocksAboveTip, Tracked, TypeOK, BodyRecords, NoHeight
      <3>2. acc = NoAcceptor \/ (acc \in Acceptors /\ acc.era \in {NoEra, b.era})
        <4>1. WeightsFor(b.era) \in {NoEra, b.era}
          BY DEF WeightsFor
        <4>2. block_acceptors[h].era \in {NoEra, b.era}
          BY <2>3, <3>0, <1>0, <1>0a DEF EraConsistent, Tracked
        <4>3. NewAcceptor(WeightsFor(b.era)) \in Acceptors
          BY <2>1, <4>1, NewAcceptorType DEF BodyRecords
        <4>4. QED
          BY <2>3, <1>0, <4>1, <4>2, <4>3 DEF GetOrRegister, NewAcceptor
      <3>2a. acc # NoAcceptor => r.out = "ok" /\ r.acc \in Acceptors
        BY <2>1, <3>2, AcceptBlockEra, AcceptBlockType
      <3>3. QED
        BY <1>0, <1>2, <2>3, <3>1, <3>2a DEF RegisterBlock, Tracked, TypeOK
    <2>4. QED
      BY <2>2, <2>3
  <1>3. ASSUME NEW s \in Signatures, NEW p \in Peers, RegisterFinalitySignature(s, p)
        PROVE Tracked(h)'
    <2> DEFINE acc == GetOrRegister(s.hash, s.era)
               r == AcceptSignature(acc, s)
    <2>1. s.hash \in Hashes /\ s.era \in Eras
      BY DEF Signatures
    <2>2. acc \in Acceptors \cup {NoAcceptor}
      BY <2>1, GetOrRegisterType
    <2>3. acc # NoAcceptor => r.acc \in Acceptors
      BY <2>2, AcceptSignatureType
    <2>4. QED
      BY <1>0, <1>3, <2>1, <2>3 DEF RegisterFinalitySignature, Tracked, TypeOK
  <1>4. ASSUME RegisterUpdatedValidatorMatrix PROVE Tracked(h)'
    <2>1. AcceptorEra(block_acceptors[h]) \in Eras
      BY <1>0a DEF AcceptorEra
    <2>2. Refresh(block_acceptors[h], AcceptorEra(block_acceptors[h])) \in Acceptors
      BY <1>0, <2>1, RefreshType
    <2>3. QED
      BY <1>0, <1>4, <2>2 DEF RegisterUpdatedValidatorMatrix, Tracked
  <1>5. ASSUME NEW n \in ExecutedHeights, RegisterLocalTip(n) PROVE Tracked(h)' \/ h \in already_handled'
    BY <1>5 DEF RegisterLocalTip, Tracked
  <1>6. ASSUME NEW u \in effects, HandleStored(u) PROVE Tracked(h)'
    BY <1>6 DEF HandleStored, Tracked
  <1>7. ASSUME NEW e \in Eras, LearnEra(e) PROVE Tracked(h)'
    BY <1>7 DEF LearnEra, Tracked
  <1>8. CASE Tick
    BY <1>8 DEF Tick, Tracked
  <1>9. CASE UNCHANGED vars
    BY <1>9 DEF vars, Tracked
  <1>10. QED
    BY <1>1, <1>2, <1>3, <1>4, <1>5, <1>6, <1>7, <1>8, <1>9 DEF Next

\* With honest peers, an acceptor that holds the genuine body of its hash
\* leaves the map only through register_local_tip, which marks the hash
\* handled: no gossip, refresh or sync request drops it.
THEOREM GenuineKeptWhenHonest == HonestGossip => (Spec => GenuineAcceptorKept)
  <1> SUFFICES ASSUME HonestGossip PROVE Spec => GenuineAcceptorKept
    OBVIOUS
  <1>1. Spec => []GInv
    BY InitGInv, NextGInv, PTL DEF Spec
  <1>2. GInv /\ [Next]_vars => [KeptStep]_vars
    BY NextKept
  <1>3. QED
    BY <1>1, <1>2, PTL DEF Spec, GenuineAcceptorKept, KeptStep

=============================================================================
