---------------------------- MODULE LifecycleProofs ----------------------------
(***************************************************************************)
(* Proofs about the acceptor lifecycle: with the placeholder created only *)
(* for a new hash, no hash is both tracked and already handled; and with  *)
(* that placeholder and the acceptor created when missing, the           *)
(* accumulator implements the abstract lifecycle of AcceptorLifecycle     *)
(* under the refinement mapping of BlockAccumulatorLifecycle.             *)
(***************************************************************************)
EXTENDS FinalityProofs, WeightSums, BlockAccumulatorLifecycle

\* sync_instruction registers its placeholder only for a hash that is
\* neither tracked nor already handled (spec section 3).
GuardedPlaceholder == PlaceholderArm = "vacant"

\* The accumulator with both repairs: the placeholder guard, and
\* get_or_register_acceptor_mut creating the missing entry (Entry::Vacant).
FixedAccumulator == GuardedPlaceholder /\ EntryArm = "Vacant"

-----------------------------------------------------------------------------
(* No hash is both tracked and already handled.                            *)

DInv == TypeOK /\ Disjointness

\* get_or_register_acceptor_mut hands back nothing for a handled hash.
LEMMA GetOrRegisterHandled ==
  ASSUME TypeOK, Disjointness, NEW h \in already_handled, NEW e
  PROVE  GetOrRegister(h, e) = NoAcceptor
  BY DEF GetOrRegister, EntryHit, Disjointness, Tracked

LEMMA InitDInv == Init => DInv
  BY InitTypeOK DEF Init, DInv, Disjointness

LEMMA NextDisjointness ==
  ASSUME GuardedPlaceholder, DInv, [Next]_vars
  PROVE  Disjointness'
  <1> USE DEF DInv
  <1>0. TypeOK'
    BY NextTypeOK
  <1>1. ASSUME NEW sw \in StartingPoints, SyncInstruction(sw) PROVE Disjointness'
    <2>1. NewAcceptor(NoEra) \in Acceptors
      BY NewAcceptorType
    <2>2. QED
      BY <1>1, <2>1, AcceptorSentinel
         DEF SyncInstruction, Placeholder, GuardedPlaceholder, Disjointness, Tracked, TypeOK
  <1>2. ASSUME NEW b \in Bodies, NEW p \in Peers, RegisterBlock(b, p) PROVE Disjointness'
    <2>1. b.hash \in Hashes
      BY BodiesType DEF BodyRecords
    <2>2. b.hash \in already_handled => GetOrRegister(b.hash, b.era) = NoAcceptor
      BY GetOrRegisterHandled
    <2>3. QED
      BY <1>2, <2>1, <2>2 DEF RegisterBlock, Disjointness, Tracked, TypeOK
  <1>3. ASSUME NEW s \in Signatures, NEW p \in Peers, RegisterFinalitySignature(s, p)
        PROVE Disjointness'
    <2>1. s.hash \in Hashes
      BY DEF Signatures
    <2>2. s.hash \in already_handled => GetOrRegister(s.hash, s.era) = NoAcceptor
      BY GetOrRegisterHandled
    <2>3. QED
      BY <1>3, <2>1, <2>2 DEF RegisterFinalitySignature, Disjointness, Tracked, TypeOK
  <1>4. ASSUME RegisterUpdatedValidatorMatrix PROVE Disjointness'
    <2>1. \A h \in Hashes : block_acceptors'[h] = NoAcceptor => block_acceptors[h] = NoAcceptor
      BY <1>4, RefreshType, AcceptorSentinel, ChainAssumption
         DEF RegisterUpdatedValidatorMatrix, TypeOK, AcceptorEra, Acceptors
    <2>2. QED
      BY <1>4, <2>1 DEF RegisterUpdatedValidatorMatrix, Disjointness, Tracked, TypeOK
  <1>5. ASSUME NEW n \in ExecutedHeights, RegisterLocalTip(n) PROVE Disjointness'
    BY <1>5 DEF RegisterLocalTip, Disjointness, Tracked, TypeOK
  <1>6. ASSUME NEW u \in effects, HandleStored(u) PROVE Disjointness'
    BY <1>6 DEF HandleStored, Disjointness, Tracked
  <1>7. ASSUME NEW e \in Eras, LearnEra(e) PROVE Disjointness'
    BY <1>7 DEF LearnEra, Disjointness, Tracked
  <1>8. CASE Tick
    BY <1>8 DEF Tick, Disjointness, Tracked
  <1>9. CASE UNCHANGED vars
    BY <1>9 DEF vars, Disjointness, Tracked
  <1>10. QED
    BY <1>1, <1>2, <1>3, <1>4, <1>5, <1>6, <1>7, <1>8, <1>9 DEF Next

\* With sync_instruction's placeholder guarded, no gossip, sync request or
\* refresh revives a hash register_local_tip marked handled: the run
\* placeholder_revives shows the unguarded insert at line 177 does.
THEOREM DisjointWhenGuarded == GuardedPlaceholder => (Spec => []Disjointness)
  <1> SUFFICES ASSUME GuardedPlaceholder PROVE Spec => []Disjointness
    OBVIOUS
  <1>1. DInv /\ [Next]_vars => DInv'
    BY NextTypeOK, NextDisjointness DEF DInv
  <1>2. Spec => []DInv
    BY InitDInv, <1>1, PTL DEF Spec
  <1>3. QED
    BY <1>2, PTL DEF DInv

-----------------------------------------------------------------------------
(* What an acceptor step keeps.                                            *)

\* An acceptor that stays in the map keeps sufficient finality and its body.
LiveKept(a, b) ==
    /\ HasSufficientFinality(a) => HasSufficientFinality(b)
    /\ a.block # NoBlock => b.block # NoBlock

\* The validators whose signatures SignedWeight counts.
Signers(a) == {t.signer : t \in {u \in a.sigs : u.era = a.era}}

\* Such a step is a move of the lifecycle (or none).
LEMMA LiveKeptStep ==
  ASSUME NEW a, NEW b, LiveKept(a, b)
  PROVE  Lifecycle!Step(AcceptorPhase(a), AcceptorPhase(b))
  BY DEF LiveKept, AcceptorPhase, Lifecycle!Step, Lifecycle!Moves, Lifecycle!Live

LEMMA SignersType ==
  ASSUME NEW a \in Acceptors
  PROVE  Signers(a) \in SUBSET Validators
  BY DEF Signers, Acceptors, Signatures

\* With the weights of one era, more signers weigh at least as much, and
\* signers of weight zero add nothing.
LEMMA SignedWeightMono ==
  ASSUME NEW a \in Acceptors, NEW b \in Acceptors, a.era = b.era, a.era # NoEra,
         Signers(a) \subseteq Signers(b)
  PROVE  /\ SignedWeight(a) <= SignedWeight(b)
         /\ (\A x \in Signers(b) \ Signers(a) : Weight[a.era][x] = 0)
              => SignedWeight(a) = SignedWeight(b)
  <1>1. a.era \in Eras /\ Weight[a.era] \in [Validators -> Nat] /\ IsFiniteSet(Validators)
    BY WeightAssumption DEF Acceptors, WeightAssumption
  <1>2. Signers(a) \in SUBSET Validators /\ Signers(b) \in SUBSET Validators
    BY SignersType
  <1>3. SignedWeight(a) = SumFunctionOnSet(Weight[a.era], Signers(a))
        /\ SignedWeight(b) = SumFunctionOnSet(Weight[a.era], Signers(b))
    BY DEF SignedWeight, Signers
  <1>4. QED
    BY <1>1, <1>2, <1>3, SumMono

\* The same weights and more signers keep sufficient finality.
LEMMA SufficientMono ==
  ASSUME NEW a \in Acceptors, NEW b \in Acceptors, a.era = b.era,
         Signers(a) \subseteq Signers(b), HasSufficientFinality(a)
  PROVE  HasSufficientFinality(b)
  <1>1. a.era # NoEra /\ a.era \in Eras
    BY DEF HasSufficientFinality, Acceptors
  <1>2. SignedWeight(a) <= SignedWeight(b)
    BY <1>1, SignedWeightMono
  <1>3. SignedWeight(a) \in Nat /\ SignedWeight(b) \in Nat /\ TotalWeight(a.era) \in Nat
    <2>1. Weight[a.era] \in [Validators -> Nat] /\ IsFiniteSet(Validators)
      BY <1>1, WeightAssumption DEF WeightAssumption
    <2>2. QED
      BY <2>1, SignersType, SumType DEF SignedWeight, TotalWeight, Signers
  <1>4. QED
    BY <1>1, <1>2, <1>3 DEF HasSufficientFinality

\* register_finality_signature keeps the body, the weights and every
\* signature, so it keeps sufficient finality.
LEMMA AcceptSignatureKept ==
  ASSUME NEW a \in Acceptors, NEW s \in Signatures
  PROVE  LiveKept(a, AcceptSignature(a, s).acc)
  <1> DEFINE r == AcceptSignature(a, s)
  <1>1. r.acc \in Acceptors /\ r.acc.block = a.block
    BY AcceptSignatureType
  <1>2. r.acc.era = a.era /\ a.sigs \subseteq r.acc.sigs
    <2>1. r.acc = a \/ r.acc = [a EXCEPT !.sigs = a.sigs \cup {s}]
      BY AcceptSignatureCases
    <2>2. QED
      BY <2>1 DEF Acceptors
  <1>3. Signers(a) \subseteq Signers(r.acc)
    BY <1>2 DEF Signers
  <1>4. QED
    BY <1>1, <1>2, <1>3, SufficientMono DEF LiveKept

\* register_block, when it accepts a body, keeps the acceptor's weights
\* and the signatures of their era, so it keeps sufficient finality.
LEMMA AcceptBlockKept ==
  ASSUME NEW a \in Acceptors, NEW b \in Bodies, AcceptBlock(a, b).out = "ok"
  PROVE  LiveKept(a, AcceptBlock(a, b).acc)
  <1> DEFINE r == AcceptBlock(a, b)
  <1>1. /\ r.acc \in Acceptors
        /\ r.acc = [a EXCEPT !.block = b, !.sigs = {t \in a.sigs : t.era = b.era}]
        /\ a.era \in {NoEra, b.era}
    BY AcceptBlockType DEF AcceptBlock
  <1>2. b # NoBlock
    BY BodiesType, SentinelAssumption DEF SentinelAssumption
  <1>3. r.acc.block = b /\ r.acc.era = a.era /\ r.acc.sigs = {t \in a.sigs : t.era = b.era}
    BY <1>1 DEF Acceptors
  <1>4. ASSUME HasSufficientFinality(a) PROVE Signers(a) = Signers(r.acc)
    <2>1. a.era = b.era
      BY <1>1, <1>4 DEF HasSufficientFinality
    <2>2. QED
      BY <1>3, <2>1 DEF Signers
  <1>5. QED
    BY <1>1, <1>2, <1>3, <1>4, SufficientMono DEF LiveKept

\* refresh of a genuine acceptor with its own era attaches the weights
\* it already counts with, and drops only signatures of other eras and of
\* signers without weight: it keeps sufficient finality and the body.
LEMMA RefreshKept ==
  ASSUME NEW a \in Acceptors, NEW h \in Hashes, GenuineAt(a, h), AcceptorEra(a) \in Eras
  PROVE  LiveKept(a, Refresh(a, AcceptorEra(a)))
  <1> DEFINE e == AcceptorEra(a)
             c == Refresh(a, e)
  <1>1. c \in Acceptors /\ c.block = a.block
    BY RefreshType
  <1>2. ASSUME HasSufficientFinality(a) PROVE HasSufficientFinality(c)
    <2>1. a.era # NoEra /\ a.era \in Eras
      BY <1>2 DEF HasSufficientFinality, Acceptors
    <2>2. e = a.era
      BY <2>1 DEF GenuineAt, AcceptorEra, Blk
    <2>3. c.era = a.era /\ c.sigs = {t \in a.sigs : t.era = e /\ Weight[e][t.signer] > 0}
      BY <2>2 DEF Refresh, Acceptors
    <2>4. Signers(c) \subseteq Signers(a)
      BY <2>2, <2>3 DEF Signers
    <2>5. \A x \in Signers(a) \ Signers(c) : Weight[a.era][x] = 0
      <3>1. Weight[a.era] \in [Validators -> Nat]
        BY <2>1, WeightAssumption DEF WeightAssumption
      <3>2. QED
        BY <2>2, <2>3, <3>1 DEF Signers, Acceptors, Signatures
    <2>6. SignedWeight(c) = SignedWeight(a)
      BY <1>1, <2>1, <2>3, <2>4, <2>5, SignedWeightMono
    <2>7. QED
      BY <1>2, <2>3, <2>6 DEF HasSufficientFinality
  <1>3. QED
    BY <1>1, <1>2 DEF LiveKept

-----------------------------------------------------------------------------
(* The refinement of the abstract lifecycle.                               *)

\* The invariant the refinement rests on: types, disjointness, and genuine
\* acceptors (a refresh keeps finality only of an acceptor whose body and
\* weights belong to one era).
RInv == FInv /\ Disjointness

LEMMA InitRInv == Init => RInv
  BY InitFInv, InitDInv DEF RInv, DInv

LEMMA NextRInv ==
  ASSUME GuardedPlaceholder, RInv, [Next]_vars
  PROVE  RInv'
  BY NextFInv, NextDisjointness DEF RInv, DInv, FInv

\* With Entry::Vacant, get_or_register_acceptor_mut hands back the acceptor
\* a tracked hash already has.
LEMMA GetOrRegisterTracked ==
  ASSUME EntryArm = "Vacant", NEW h, Tracked(h), NEW e
  PROVE  GetOrRegister(h, e) = block_acceptors[h]
  BY DEF GetOrRegister, EntryHit

\* A step that keeps the handled set and the tip, and keeps finality and
\* the body of every acceptor it neither creates nor discards, is an
\* Update of the lifecycle.
LEMMA UpdateMaps ==
  ASSUME Disjointness, Disjointness',
         already_handled' = already_handled, local_tip' = local_tip,
         \A h \in Hashes : Tracked(h) /\ Tracked(h)' =>
                             LiveKept(block_acceptors[h], block_acceptors'[h])
  PROVE  Lifecycle!Update
  <1> SUFFICES ASSUME NEW h \in Hashes PROVE Lifecycle!Step(PhaseOf(h), PhaseOf(h)')
    BY DEF Lifecycle!Update
  <1>1. \A a : AcceptorPhase(a) \in Lifecycle!Live
    BY DEF AcceptorPhase, Lifecycle!Live
  <1>2. CASE Tracked(h) /\ Tracked(h)'
    <2>1. PhaseOf(h) = AcceptorPhase(block_acceptors[h])
          /\ PhaseOf(h)' = AcceptorPhase(block_acceptors'[h])
      BY <1>2 DEF PhaseOf
    <2>2. QED
      BY <1>2, <2>1, LiveKeptStep
  <1>3. CASE Tracked(h) /\ ~Tracked(h)'
    <2>1. PhaseOf(h) \in Lifecycle!Live /\ PhaseOf(h)' = "Absent"
      BY <1>1, <1>3 DEF PhaseOf, Disjointness
    <2>2. QED
      BY <2>1 DEF Lifecycle!Step
  <1>4. CASE ~Tracked(h) /\ Tracked(h)'
    <2>1. PhaseOf(h)' \in Lifecycle!Live /\ PhaseOf(h) = "Absent"
      BY <1>1, <1>4 DEF PhaseOf, Disjointness
    <2>2. QED
      BY <2>1 DEF Lifecycle!Step
  <1>5. CASE ~Tracked(h) /\ ~Tracked(h)'
    BY <1>5 DEF PhaseOf, Lifecycle!Step
  <1>6. QED
    BY <1>2, <1>3, <1>4, <1>5

\* register_local_tip is a Retire: the tip does not decrease, and the
\* acceptors it evicts become Handled while every other hash keeps its phase.
LEMMA LocalTipRetires ==
  ASSUME TypeOK, NEW n \in ExecutedHeights, RegisterLocalTip(n)
  PROVE  Lifecycle!Retire
  <1> DEFINE E == {k \in Hashes : Tracked(k) /\
                     IF AcceptorHeight(block_acceptors[k]) = NoHeight
                     THEN 0 < n ELSE AcceptorHeight(block_acceptors[k]) < n}
  <1>1. /\ block_acceptors' = [k \in Hashes |-> IF k \in E THEN NoAcceptor ELSE block_acceptors[k]]
        /\ already_handled' = already_handled \cup E
        /\ local_tip' = IF local_tip = NoHeight \/ local_tip < n THEN n ELSE local_tip
    BY DEF RegisterLocalTip
  <1>2. local_tip' >= local_tip
    BY <1>1, ConfigAssumption DEF ConfigAssumption, TypeOK, NoHeight
  <1>3. ASSUME NEW h \in Hashes
        PROVE  PhaseOf(h)' = PhaseOf(h) \/ (PhaseOf(h) \in Lifecycle!Live /\ PhaseOf(h)' = "Handled")
    <2>1. CASE h \in E
      <3>1. PhaseOf(h) \in Lifecycle!Live
        BY <2>1 DEF PhaseOf, AcceptorPhase, Lifecycle!Live
      <3>2. PhaseOf(h)' = "Handled"
        BY <1>1, <2>1, AcceptorSentinel DEF PhaseOf, Tracked
      <3>3. QED
        BY <3>1, <3>2
    <2>2. CASE h \notin E
      BY <1>1, <2>2 DEF PhaseOf, Tracked
    <2>3. QED
      BY <2>1, <2>2
  <1>4. QED
    BY <1>2, <1>3 DEF Lifecycle!Retire


\* Every step of the repaired accumulator is a step of the lifecycle.
LEMMA NextRefines ==
  ASSUME FixedAccumulator, RInv, RInv', [Next]_vars
  PROVE  Lifecycle!LifecycleNext
  <1> USE DEF RInv, FInv
  \* What every step but register_local_tip has to show.
  <1>0. ASSUME already_handled' = already_handled, local_tip' = local_tip,
               \A h \in Hashes : Tracked(h) /\ Tracked(h)' =>
                                   LiveKept(block_acceptors[h], block_acceptors'[h])
        PROVE  Lifecycle!LifecycleNext
    BY <1>0, UpdateMaps DEF Lifecycle!LifecycleNext
  <1>a. \A a : LiveKept(a, a)
    BY DEF LiveKept
  <1>1. ASSUME NEW sw \in StartingPoints, SyncInstruction(sw) PROVE Lifecycle!LifecycleNext
    <2>1. \A h \in Hashes : Tracked(h) => block_acceptors'[h] = block_acceptors[h]
      BY <1>1 DEF SyncInstruction, Placeholder, FixedAccumulator, GuardedPlaceholder,
                  Tracked, TypeOK
    <2>2. QED
      BY <1>0, <1>1, <1>a, <2>1 DEF SyncInstruction
  <1>2. ASSUME NEW b \in Bodies, NEW p \in Peers, RegisterBlock(b, p) PROVE Lifecycle!LifecycleNext
    <2>1. b.hash \in Hashes
      BY BodiesType DEF BodyRecords
    <2>2. \A h \in Hashes \ {b.hash} : block_acceptors'[h] = block_acceptors[h]
      BY <1>2 DEF RegisterBlock, TypeOK
    <2>3. ASSUME Tracked(b.hash), Tracked(b.hash)'
          PROVE  LiveKept(block_acceptors[b.hash], block_acceptors'[b.hash])
      <3> DEFINE a == block_acceptors[b.hash]
      <3>1. GetOrRegister(b.hash, b.era) = a /\ a \in Acceptors
        BY <2>1, <2>3, GetOrRegisterTracked DEF FixedAccumulator, Tracked, TypeOK
      <3>2. \/ block_acceptors'[b.hash] = a
            \/ AcceptBlock(a, b).out = "ok" /\ block_acceptors'[b.hash] = AcceptBlock(a, b).acc
        BY <1>2, <2>1, <2>3, <3>1 DEF RegisterBlock, Tracked, TypeOK
      <3>3. QED
        BY <3>1, <3>2, <1>a, AcceptBlockKept
    <2>4. QED
      BY <1>0, <1>2, <1>a, <2>2, <2>3 DEF RegisterBlock
  <1>3. ASSUME NEW s \in Signatures, NEW p \in Peers, RegisterFinalitySignature(s, p)
        PROVE Lifecycle!LifecycleNext
    <2>1. s.hash \in Hashes
      BY DEF Signatures
    <2>2. \A h \in Hashes \ {s.hash} : block_acceptors'[h] = block_acceptors[h]
      BY <1>3 DEF RegisterFinalitySignature, TypeOK
    <2>3. ASSUME Tracked(s.hash), Tracked(s.hash)'
          PROVE  LiveKept(block_acceptors[s.hash], block_acceptors'[s.hash])
      <3> DEFINE a == block_acceptors[s.hash]
      <3>1. GetOrRegister(s.hash, s.era) = a /\ a \in Acceptors
        BY <2>1, <2>3, GetOrRegisterTracked DEF FixedAccumulator, Tracked, TypeOK
      <3>2. block_acceptors'[s.hash] = AcceptSignature(a, s).acc
        BY <1>3, <2>1, <2>3, <3>1 DEF RegisterFinalitySignature, Tracked, TypeOK
      <3>3. QED
        BY <3>1, <3>2, AcceptSignatureKept
    <2>4. QED
      BY <1>0, <1>3, <1>a, <2>2, <2>3 DEF RegisterFinalitySignature
  <1>4. ASSUME RegisterUpdatedValidatorMatrix PROVE Lifecycle!LifecycleNext
    <2>1. ASSUME NEW h \in Hashes, Tracked(h)
          PROVE  LiveKept(block_acceptors[h], block_acceptors'[h])
      <3> DEFINE a == block_acceptors[h]
      <3>1. a \in Acceptors /\ GenuineAt(a, h)
        BY <2>1 DEF AcceptorsGenuine, Tracked, TypeOK
      <3>2. CASE AcceptorEra(a) \in validator_eras
        <4>1. block_acceptors'[h] = Refresh(a, AcceptorEra(a)) /\ AcceptorEra(a) \in Eras
          BY <1>4, <2>1, <3>2 DEF RegisterUpdatedValidatorMatrix, Tracked, TypeOK
        <4>2. QED
          BY <3>1, <4>1, RefreshKept
      <3>3. CASE AcceptorEra(a) \notin validator_eras
        BY <1>4, <1>a, <2>1, <3>3 DEF RegisterUpdatedValidatorMatrix
      <3>4. QED
        BY <3>2, <3>3
    <2>2. QED
      BY <1>0, <1>4, <2>1 DEF RegisterUpdatedValidatorMatrix
  <1>5. ASSUME NEW n \in ExecutedHeights, RegisterLocalTip(n) PROVE Lifecycle!LifecycleNext
    BY <1>5, LocalTipRetires DEF Lifecycle!LifecycleNext
  <1>6. ASSUME NEW u \in effects, HandleStored(u) PROVE Lifecycle!LifecycleNext
    BY <1>0, <1>6, <1>a DEF HandleStored
  <1>7. ASSUME NEW e \in Eras, LearnEra(e) PROVE Lifecycle!LifecycleNext
    BY <1>0, <1>7, <1>a DEF LearnEra
  <1>8. CASE Tick
    BY <1>0, <1>8, <1>a DEF Tick
  <1>9. CASE UNCHANGED vars
    BY <1>0, <1>9, <1>a DEF vars
  <1>10. QED
    BY <1>1, <1>2, <1>3, <1>4, <1>5, <1>6, <1>7, <1>8, <1>9 DEF Next

\* With the placeholder guarded and the missing acceptor created (Entry::
\* Vacant), every behaviour of the accumulator is one of the abstract
\* lifecycle: no gossip, sync request or refresh takes an acceptor out of
\* Sufficient, loses a known body while the acceptor lives, or revives a
\* handled hash, and register_local_tip never lowers the tip.  The run
\* lifecycle_refinement checks LifecycleRefined for the same arms.
THEOREM LifecycleRefinedWhenFixed == FixedAccumulator => (Spec => LifecycleRefined)
  <1> SUFFICES ASSUME FixedAccumulator PROVE Spec => LifecycleRefined
    OBVIOUS
  <1>1. Init => Lifecycle!LifecycleInit
    BY DEF Init, Lifecycle!LifecycleInit, PhaseOf, Tracked
  <1>2. RInv /\ [Next]_vars => RInv'
    BY NextRInv DEF FixedAccumulator
  <1>3. RInv /\ RInv' /\ [Next]_vars
          => [Lifecycle!LifecycleNext]_<<[h \in Hashes |-> PhaseOf(h)], local_tip>>
    BY NextRefines
  <1>4. QED
    BY InitRInv, <1>1, <1>2, <1>3, PTL DEF Spec, LifecycleRefined, Lifecycle!LifecycleSpec


=============================================================================
