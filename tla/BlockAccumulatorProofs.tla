----------------------- MODULE BlockAccumulatorProofs -----------------------
(***************************************************************************)
(* Proofs about the block accumulator, for every value of the constants    *)
(* that satisfies the module's assumptions.                                *)
(***************************************************************************)
EXTENDS BlockAccumulator, TLAPS

-----------------------------------------------------------------------------
(* Lemmas about the acceptor operators.                                    *)

\* Every gossipable body is a body record.
LEMMA BodiesType == Bodies \subseteq BodyRecords
  <1>1. \A h \in Hashes : Blk(h) \in BodyRecords
    BY ChainAssumption DEF Blk, BodyRecords, ChainAssumption
  <1>2. QED
    BY <1>1, ForgedAssumption DEF Bodies, ForgedAssumption

\* A fresh acceptor, with or without weights, holds no body.
LEMMA NewAcceptorType ==
  ASSUME NEW e \in Eras \cup {NoEra}
  PROVE  /\ NewAcceptor(e) \in Acceptors
         /\ NewAcceptor(e).block = NoBlock
  BY DEF NewAcceptor, Acceptors

\* register_block returns an acceptor; it keeps the body it is given only
\* when it answers "ok", and otherwise leaves the acceptor as it was.
LEMMA AcceptBlockType ==
  ASSUME NEW a \in Acceptors, NEW b \in Bodies
  PROVE  /\ AcceptBlock(a, b).acc \in Acceptors
         /\ AcceptBlock(a, b).out \in {"ok", "invalid", "era_mismatch"}
         /\ AcceptBlock(a, b).out = "ok" => AcceptBlock(a, b).acc.block = b
         /\ AcceptBlock(a, b).out # "ok" => AcceptBlock(a, b).acc = a
  BY DEF AcceptBlock, Acceptors

\* register_finality_signature returns an acceptor with the same body.
LEMMA AcceptSignatureType ==
  ASSUME NEW a \in Acceptors, NEW s \in Signatures
  PROVE  /\ AcceptSignature(a, s).acc \in Acceptors
         /\ AcceptSignature(a, s).acc.block = a.block
         /\ AcceptSignature(a, s).out \in
              {"era_mismatch", "invalid", "nothing", "sufficient", "single"}
  BY DEF AcceptSignature, Acceptors

\* refresh returns an acceptor with the same body.
LEMMA RefreshType ==
  ASSUME NEW a \in Acceptors, NEW e \in Eras
  PROVE  /\ Refresh(a, e) \in Acceptors
         /\ Refresh(a, e).block = a.block
  BY DEF Refresh, Acceptors

-----------------------------------------------------------------------------
(* Lemmas about the accumulator's helpers.                                 *)

\* get_or_register_acceptor_mut hands back the existing entry, nothing, or
\* a fresh acceptor.
LEMMA GetOrRegisterCases ==
  ASSUME TypeOK, NEW h \in Hashes, NEW e \in Eras
  PROVE  \/ GetOrRegister(h, e) = block_acceptors[h]
         \/ GetOrRegister(h, e) = NoAcceptor
         \/ /\ GetOrRegister(h, e) \in Acceptors
            /\ GetOrRegister(h, e).block = NoBlock
  <1>1. WeightsFor(e) \in Eras \cup {NoEra}
    BY DEF WeightsFor
  <1>2. QED
    BY <1>1, NewAcceptorType DEF GetOrRegister

LEMMA GetOrRegisterType ==
  ASSUME TypeOK, NEW h \in Hashes, NEW e \in Eras
  PROVE  GetOrRegister(h, e) \in Acceptors \cup {NoAcceptor}
  BY GetOrRegisterCases DEF TypeOK

\* A store unit built from a ShouldStore verdict is a store unit.
LEMMA StoreUnitType ==
  ASSUME NEW a \in Acceptors, NEW s \in Signatures,
         AcceptSignature(a, s).out \in {"sufficient", "single"}
  PROVE  StoreUnit(a, AcceptSignature(a, s), s) \in StoreUnits
  <1>1. AcceptSignature(a, s).acc \in Acceptors
    BY AcceptSignatureType
  <1>2. QED
    BY <1>1 DEF StoreUnit, StoreUnits, Acceptors

-----------------------------------------------------------------------------
(* Type correctness.                                                       *)

LEMMA InitTypeOK == Init => TypeOK
  BY ConfigAssumption DEF Init, TypeOK, NoHeight

LEMMA NextTypeOK == TypeOK /\ [Next]_vars => TypeOK'
  <1> SUFFICES ASSUME TypeOK, [Next]_vars PROVE TypeOK'
    OBVIOUS
  <1>1. ASSUME NEW sw \in StartingPoints, SyncInstruction(sw) PROVE TypeOK'
    <2>1. NewAcceptor(NoEra) \in Acceptors
      BY NewAcceptorType
    <2>2. Progress(SyncDecision(sw)) \in 0..MaxTime
      BY DEF TypeOK, Progress
    <2>3. sw.kind = "ExecutableBlock" => sw.hash \in Hashes
      BY DEF StartingPoints
    <2>4. QED
      BY <1>1, <2>1, <2>2, <2>3 DEF SyncInstruction, Placeholder, TypeOK
  <1>2. ASSUME NEW b \in Bodies, NEW p \in Peers, RegisterBlock(b, p) PROVE TypeOK'
    <2> DEFINE acc == GetOrRegister(b.hash, b.era)
    <2>1. b \in BodyRecords
      BY BodiesType
    <2>2. acc \in Acceptors \cup {NoAcceptor}
      BY <2>1, GetOrRegisterType DEF BodyRecords
    <2>3. acc # NoAcceptor => AcceptBlock(acc, b).acc \in Acceptors
      BY <2>2, AcceptBlockType
    <2>4. ChildrenWith(b) \in [Hashes -> Hashes \cup {NoHash}]
      BY <2>1 DEF ChildrenWith, TypeOK, BodyRecords
    <2>5. QED
      BY <1>2, <2>1, <2>2, <2>3, <2>4 DEF RegisterBlock, TypeOK, BodyRecords
  <1>3. ASSUME NEW s \in Signatures, NEW p \in Peers, RegisterFinalitySignature(s, p)
        PROVE TypeOK'
    <2> DEFINE acc == GetOrRegister(s.hash, s.era)
               r == AcceptSignature(acc, s)
    <2>1. acc \in Acceptors \cup {NoAcceptor}
      BY GetOrRegisterType DEF Signatures
    <2>2. acc # NoAcceptor => r.acc \in Acceptors
      BY <2>1, AcceptSignatureType
    <2>3. acc # NoAcceptor /\ r.out \in {"sufficient", "single"} =>
            StoreUnit(acc, r, s) \in StoreUnits
      BY <2>1, StoreUnitType
    <2>4. s.hash \in Hashes
      BY DEF Signatures
    <2>5. QED
      BY <1>3, <2>1, <2>2, <2>3, <2>4 DEF RegisterFinalitySignature, TypeOK
  <1>4. ASSUME RegisterUpdatedValidatorMatrix PROVE TypeOK'
    <2>1. \A h \in Hashes :
            block_acceptors[h] # NoAcceptor /\ AcceptorEra(block_acceptors[h]) \in validator_eras
              => Refresh(block_acceptors[h], AcceptorEra(block_acceptors[h])) \in Acceptors
      BY RefreshType DEF TypeOK
    <2>2. QED
      BY <1>4, <2>1 DEF RegisterUpdatedValidatorMatrix, TypeOK
  <1>5. ASSUME NEW n \in ExecutedHeights, RegisterLocalTip(n) PROVE TypeOK'
    <2>1. n \in Nat
      BY ConfigAssumption
    <2>2. QED
      BY <1>5, <2>1 DEF RegisterLocalTip, TypeOK
  <1>6. ASSUME NEW u \in effects, HandleStored(u) PROVE TypeOK'
    BY <1>6 DEF HandleStored, TypeOK
  <1>7. ASSUME NEW e \in Eras, LearnEra(e) PROVE TypeOK'
    BY <1>7 DEF LearnEra, TypeOK
  <1>8. CASE Tick
    BY <1>8, ConfigAssumption DEF Tick, TypeOK
  <1>9. CASE UNCHANGED vars
    BY <1>9 DEF vars, TypeOK
  <1>10. QED
    BY <1>1, <1>2, <1>3, <1>4, <1>5, <1>6, <1>7, <1>8, <1>9 DEF Next

\* The accumulator's state always has the types TypeOK gives it.
THEOREM TypeCorrect == Spec => []TypeOK
  BY InitTypeOK, NextTypeOK, PTL DEF Spec

-----------------------------------------------------------------------------
(* No acceptor holds a body below the local tip.                           *)

\* The inductive invariant: the types, and BlocksAboveTip itself.
IInv == TypeOK /\ BlocksAboveTip

\* A step that leaves the tip alone and gives every hash no acceptor, an
\* acceptor without body, or the body it already had keeps BlocksAboveTip.
LEMMA KeepBodies ==
  ASSUME IInv, TypeOK', local_tip' = local_tip,
         \A h \in Hashes : \/ block_acceptors'[h] = NoAcceptor
                           \/ block_acceptors'[h].block = NoBlock
                           \/ /\ block_acceptors[h] # NoAcceptor
                              /\ block_acceptors'[h].block = block_acceptors[h].block
  PROVE  BlocksAboveTip'
  BY SentinelAssumption DEF IInv, BlocksAboveTip, Tracked

LEMMA InitIInv == Init => IInv
  BY InitTypeOK DEF Init, IInv, BlocksAboveTip, Tracked

LEMMA NextIInv == IInv /\ [Next]_vars => IInv'
  <1> SUFFICES ASSUME IInv, [Next]_vars PROVE IInv'
    OBVIOUS
  <1>0. TypeOK'
    BY NextTypeOK DEF IInv
  <1> USE <1>0
  <1>1. ASSUME NEW sw \in StartingPoints, SyncInstruction(sw) PROVE BlocksAboveTip'
    <2>1. NewAcceptor(NoEra).block = NoBlock
      BY NewAcceptorType
    <2>2. QED
      BY <1>1, <2>1, KeepBodies DEF SyncInstruction, Placeholder, IInv, TypeOK
  <1>2. ASSUME NEW b \in Bodies, NEW p \in Peers, RegisterBlock(b, p) PROVE BlocksAboveTip'
    <2> DEFINE acc == GetOrRegister(b.hash, b.era)
               r == AcceptBlock(acc, b)
    <2>1. b \in BodyRecords
      BY BodiesType
    <2>2. \/ acc = block_acceptors[b.hash]
          \/ acc = NoAcceptor
          \/ acc \in Acceptors /\ acc.block = NoBlock
      BY <2>1, GetOrRegisterCases DEF IInv, BodyRecords
    <2>3. acc \in Acceptors \cup {NoAcceptor}
      BY <2>1, GetOrRegisterType DEF IInv, BodyRecords
    <2>4. CASE Outdated(b)
      BY <1>2, <2>1, <2>4, KeepBodies DEF RegisterBlock, IInv, TypeOK, BodyRecords
    <2>5. CASE ~Outdated(b) /\ acc # NoAcceptor /\ r.out = "ok"
      <3>1. r.acc.block = b
        BY <2>3, <2>5, AcceptBlockType
      <3>2. block_acceptors' = [block_acceptors EXCEPT ![b.hash] = r.acc]
        BY <1>2, <2>5 DEF RegisterBlock
      <3>3. local_tip = NoHeight \/ b.height >= local_tip
        BY <2>1, <2>5 DEF Outdated, BodyRecords, NoHeight, IInv, TypeOK
      <3>4. local_tip' = local_tip
        BY <1>2 DEF RegisterBlock
      <3>5. QED
        BY <2>1, <3>1, <3>2, <3>3, <3>4
           DEF IInv, TypeOK, BlocksAboveTip, Tracked, BodyRecords
    <2>6. CASE ~Outdated(b) /\ acc # NoAcceptor /\ r.out # "ok"
      <3>1. block_acceptors' = [block_acceptors EXCEPT ![b.hash] = acc]
            \/ block_acceptors' = [block_acceptors EXCEPT ![b.hash] = NoAcceptor]
        BY <1>2, <2>6 DEF RegisterBlock
      <3>2. QED
        BY <1>2, <2>1, <2>2, <3>1, KeepBodies DEF RegisterBlock, IInv, TypeOK, BodyRecords
    <2>7. CASE ~Outdated(b) /\ acc = NoAcceptor
      BY <1>2, <2>7, KeepBodies DEF RegisterBlock, IInv, TypeOK
    <2>8. QED
      BY <2>4, <2>5, <2>6, <2>7
  <1>3. ASSUME NEW s \in Signatures, NEW p \in Peers, RegisterFinalitySignature(s, p)
        PROVE BlocksAboveTip'
    <2> DEFINE acc == GetOrRegister(s.hash, s.era)
               r == AcceptSignature(acc, s)
    <2>1. s.hash \in Hashes /\ s.era \in Eras
      BY DEF Signatures
    <2>2. \/ acc = block_acceptors[s.hash]
          \/ acc = NoAcceptor
          \/ acc \in Acceptors /\ acc.block = NoBlock
      BY <2>1, GetOrRegisterCases DEF IInv
    <2>3. acc \in Acceptors \cup {NoAcceptor}
      BY <2>1, GetOrRegisterType DEF IInv
    <2>4. acc # NoAcceptor => r.acc.block = acc.block
      BY <2>3, AcceptSignatureType
    <2>5. QED
      BY <1>3, <2>1, <2>2, <2>4, KeepBodies DEF RegisterFinalitySignature, IInv, TypeOK
  <1>4. ASSUME RegisterUpdatedValidatorMatrix PROVE BlocksAboveTip'
    <2>1. \A h \in Hashes :
            block_acceptors[h] # NoAcceptor /\ AcceptorEra(block_acceptors[h]) \in validator_eras
              => Refresh(block_acceptors[h], AcceptorEra(block_acceptors[h])).block
                   = block_acceptors[h].block
      BY RefreshType DEF IInv, TypeOK
    <2>2. QED
      BY <1>4, <2>1, KeepBodies DEF RegisterUpdatedValidatorMatrix, IInv, TypeOK
  <1>5. ASSUME NEW n \in ExecutedHeights, RegisterLocalTip(n) PROVE BlocksAboveTip'
    <2>1. n \in Nat
      BY ConfigAssumption
    <2>2. \A h \in Hashes : block_acceptors[h] \in Acceptors /\ block_acceptors[h].block # NoBlock
            => block_acceptors[h].block.height \in Nat
      BY BodiesType DEF Acceptors, BodyRecords
    <2>3. QED
      BY <1>5, <2>1, <2>2
         DEF RegisterLocalTip, IInv, TypeOK, BlocksAboveTip, Tracked, AcceptorHeight, NoHeight
  <1>6. ASSUME NEW u \in effects, HandleStored(u) PROVE BlocksAboveTip'
    BY <1>6 DEF HandleStored, IInv, BlocksAboveTip, Tracked
  <1>7. ASSUME NEW e \in Eras, LearnEra(e) PROVE BlocksAboveTip'
    BY <1>7 DEF LearnEra, IInv, BlocksAboveTip, Tracked
  <1>8. CASE Tick
    BY <1>8 DEF Tick, IInv, BlocksAboveTip, Tracked
  <1>9. CASE UNCHANGED vars
    BY <1>9 DEF vars, IInv, BlocksAboveTip, Tracked
  <1>10. QED
    BY <1>1, <1>2, <1>3, <1>4, <1>5, <1>6, <1>7, <1>8, <1>9 DEF Next, IInv

\* register_block and register_local_tip together keep every body an
\* acceptor holds at or above the local tip, in every behaviour.
THEOREM BlocksStayAboveTip == Spec => []BlocksAboveTip
  <1>1. Spec => []IInv
    BY InitIInv, NextIInv, PTL DEF Spec
  <1>2. QED
    BY <1>1, PTL DEF IInv

=============================================================================
