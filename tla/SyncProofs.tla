------------------------------ MODULE SyncProofs ------------------------------
(***************************************************************************)
(* Proof that sync_instruction answers what spec section 4.3 defines      *)
(* (SyncMatchesSpec) in every reachable state, for every chain, weights,  *)
(* threshold, dead-air interval and forged bodies.  Both decisions read   *)
(* the same highest usable height; what makes them agree is that this     *)
(* height is a natural (or none), and that saturating subtraction and the *)
(* spec's max(0, H - s) coincide on naturals.  The height is the CHOOSE   *)
(* of a maximum, which exists because the accumulator tracks finitely    *)
(* many hashes in every reachable state: each handler creates at most    *)
(* one acceptor.                                                          *)
(***************************************************************************)
EXTENDS BlockAccumulatorProofs, WeightSums

\* The hashes the map holds an acceptor for (the keys of block_acceptors).
TrackedSet == {h \in Hashes : Tracked(h)}

\* The BTreeMap block_acceptors has finitely many entries.
TrackedFinite == IsFiniteSet(TrackedSet)

SInv == TypeOK /\ TrackedFinite

-----------------------------------------------------------------------------
(* A finite non-empty set of naturals has a greatest element.             *)

\* A natural-valued function on a finite set is bounded: by its sum.
LEMMA FunBounded ==
  ASSUME NEW S, IsFiniteSet(S), NEW g \in [S -> Nat]
  PROVE  \E n \in Nat : \A x \in S : g[x] <= n
  <1>1. SumFunctionOnSet(g, S) \in Nat
    BY SumType
  <1>2. ASSUME NEW x \in S PROVE g[x] <= SumFunctionOnSet(g, S)
    <2>1. {x} \in SUBSET S
      OBVIOUS
    <2>2. SumFunctionOnSet(g, {x}) = g[x]
      BY SumSingleton
    <2>3. SumFunctionOnSet(g, {x}) <= SumFunctionOnSet(g, S)
      BY <2>1, SumMono
    <2>4. QED
      BY <2>2, <2>3
  <1>3. QED
    BY <1>1, <1>2

\* A non-empty set of naturals with an upper bound has a greatest element:
\* its least upper bound.
LEMMA BoundedNatMax ==
  ASSUME NEW T \in SUBSET Nat, T # {}, NEW n \in Nat, \A x \in T : x <= n
  PROVE  \E m \in T : \A x \in T : x <= m
  <1> DEFINE Ub == {k \in Nat : \A x \in T : x <= k}
  <1>1. Ub # {}
    OBVIOUS
  <1>2. PICK u \in Ub : \A k \in Ub : u <= k
    BY <1>1, LeastNat
  <1>3. u \in T
    <2> SUFFICES ASSUME u \notin T PROVE FALSE
      OBVIOUS
    <2>1. PICK y \in T : TRUE
      OBVIOUS
    <2>2. u \in Nat \ {0}
      BY <1>2, <2>1
    <2>3. u - 1 \in Ub
      BY <1>2, <2>2
    <2>4. QED
      BY <1>2, <2>2, <2>3
  <1>4. QED
    BY <1>2, <1>3

-----------------------------------------------------------------------------
(* The map stays finite.                                                   *)

LEMMA InitSInv == Init => SInv
  <1> SUFFICES ASSUME Init PROVE SInv
    OBVIOUS
  <1>1. TrackedSet = {}
    BY DEF Init, TrackedSet, Tracked
  <1>2. QED
    BY <1>1, InitTypeOK, FS_EmptySet DEF SInv, TrackedFinite

\* Every handler creates at most one acceptor: the one of the hash it
\* was given (get_or_register_acceptor_mut, or sync_instruction's
\* placeholder); refresh and register_local_tip only keep or remove.
LEMMA TrackedGrowsByOne ==
  ASSUME TypeOK, [Next]_vars
  PROVE  \E x : TrackedSet' \subseteq TrackedSet \cup {x}
  <1> USE DEF TrackedSet, Tracked, TypeOK
  <1>1. ASSUME NEW sw \in StartingPoints, SyncInstruction(sw)
        PROVE  TrackedSet' \subseteq TrackedSet \cup {sw.hash}
    BY <1>1 DEF SyncInstruction, Placeholder
  <1>2. ASSUME NEW b \in Bodies, NEW p \in Peers, RegisterBlock(b, p)
        PROVE  TrackedSet' \subseteq TrackedSet \cup {b.hash}
    BY <1>2 DEF RegisterBlock
  <1>3. ASSUME NEW s \in Signatures, NEW p \in Peers, RegisterFinalitySignature(s, p)
        PROVE  TrackedSet' \subseteq TrackedSet \cup {s.hash}
    BY <1>3 DEF RegisterFinalitySignature
  <1>4. ASSUME RegisterUpdatedValidatorMatrix PROVE TrackedSet' \subseteq TrackedSet
    BY <1>4 DEF RegisterUpdatedValidatorMatrix
  <1>5. ASSUME NEW n \in ExecutedHeights, RegisterLocalTip(n) PROVE TrackedSet' \subseteq TrackedSet
    BY <1>5 DEF RegisterLocalTip
  <1>6. ASSUME block_acceptors' = block_acceptors PROVE TrackedSet' \subseteq TrackedSet
    BY <1>6
  <1>7. QED
    BY <1>1, <1>2, <1>3, <1>4, <1>5, <1>6
       DEF Next, HandleStored, LearnEra, Tick, vars

LEMMA NextSInv == SInv /\ [Next]_vars => SInv'
  <1> SUFFICES ASSUME SInv, [Next]_vars PROVE SInv'
    OBVIOUS
  <1>1. TypeOK'
    BY NextTypeOK DEF SInv
  <1>2. PICK x : TrackedSet' \subseteq TrackedSet \cup {x}
    BY TrackedGrowsByOne DEF SInv
  <1>3. IsFiniteSet(TrackedSet \cup {x})
    BY FS_AddElement DEF SInv, TrackedFinite
  <1>4. QED
    BY <1>1, <1>2, <1>3, FS_Subset DEF SInv, TrackedFinite

-----------------------------------------------------------------------------
(* The highest usable height is a height.                                  *)

LEMMA HighestUsableType ==
  ASSUME SInv
  PROVE  HighestUsable \in Nat \cup {NoHeight}
  <1> DEFINE U == {k \in Hashes : Usable(k)}
             hs == {block_acceptors[h].block.height : h \in U}
  <1>1. \A h \in U : block_acceptors[h].block.height \in Nat
    BY BodiesType DEF Usable, Tracked, SInv, TypeOK, Acceptors, BodyRecords
  <1>2. CASE hs = {}
    BY <1>2 DEF HighestUsable
  <1>3. CASE hs # {}
    <2> DEFINE g == [h \in U |-> block_acceptors[h].block.height]
    <2>1. IsFiniteSet(U)
      BY FS_Subset DEF SInv, TrackedFinite, TrackedSet, Usable
    <2>2. g \in [U -> Nat]
      BY <1>1
    <2>3. PICK n \in Nat : \A h \in U : g[h] <= n
      BY <2>1, <2>2, FunBounded
    <2>4. hs \subseteq Nat /\ \A x \in hs : x <= n
      BY <1>1, <2>3
    <2>5. \E m \in hs : \A x \in hs : x <= m
      BY <1>3, <2>4, BoundedNatMax
    <2>6. HighestUsable \in hs
      BY <1>3, <2>5 DEF HighestUsable
    <2>7. QED
      BY <2>4, <2>6
  <1>4. QED
    BY <1>2, <1>3

-----------------------------------------------------------------------------
(* The code's decision is the spec's.                                      *)

\* should_sync's saturating distance is the spec's max(0, H - s).
LEMMA ShouldSyncAgrees ==
  ASSUME NEW st \in Nat \cup {NoHeight}, NEW H \in Nat \cup {NoHeight}
  PROVE  ShouldSync(st, H) <=> SpecShouldSync(st, H)
  BY ConfigAssumption DEF ConfigAssumption, ShouldSync, SpecShouldSync, SatSub, NoHeight

\* The keep-up window: H - threshold <= height, in saturating u64 and in
\* integer arithmetic, for a height below H.
LEMMA KeepUpAgrees ==
  ASSUME NEW ht \in Nat, NEW H \in Nat, ht < H
  PROVE  SatSub(H, Threshold) <= ht <=> H - Threshold <= ht
  BY ConfigAssumption DEF ConfigAssumption, SatSub

LEMMA DecisionMatchesSpec ==
  ASSUME TypeOK, HighestUsable \in Nat \cup {NoHeight},
         NEW sw \in {[kind |-> "Nothing"]} \cup
                    [kind: {"ExecutableBlock", "BlockIdentifier", "SyncedBlockIdentifier"},
                     hash: Hashes, height: Nat] \cup
                    [kind: {"Hash"}, hash: Hashes]
  PROVE  SyncDecision(sw) = SpecInstruction(sw)
  <1>1. CASE sw = [kind |-> "Nothing"]
    BY <1>1 DEF SyncDecision, SpecInstruction
  <1>2. CASE sw.kind = "ExecutableBlock"
    <2>1. sw.height \in Nat
      BY <1>2
    <2>2. (HighestUsable = NoHeight \/ sw.height >= HighestUsable) <=> (HighestUsable = NoHeight \/ sw.height > HighestUsable \/ sw.height = HighestUsable)
      BY <2>1 DEF NoHeight
    <2>3. ~(HighestUsable = NoHeight \/ sw.height >= HighestUsable) => (SatSub(HighestUsable, Threshold) <= sw.height <=> HighestUsable - Threshold <= sw.height)
      BY <2>1, KeepUpAgrees DEF NoHeight
    <2> DEFINE c == NextSyncable(sw.hash)
    <2> HIDE DEF c
    <2>4. SyncDecision(sw) = IF HighestUsable = NoHeight \/ sw.height >= HighestUsable THEN Exec(NoHash)
                             ELSE IF SatSub(HighestUsable, Threshold) <= sw.height THEN Exec(c)
                             ELSE Leap
      BY <1>2, Zenon DEF SyncDecision, c
    <2>5. SpecInstruction(sw) = IF HighestUsable = NoHeight \/ sw.height > HighestUsable \/ sw.height = HighestUsable THEN Exec(NoHash)
                                ELSE IF HighestUsable - Threshold <= sw.height THEN Exec(c)
                                ELSE Leap
      BY <1>2, Zenon DEF SpecInstruction, c
    <2>6. QED
      BY <2>2, <2>3, <2>4, <2>5
  <1>3. CASE sw.kind = "Hash"
    <2>1. Tracked(sw.hash) => AcceptorHeight(block_acceptors[sw.hash]) \in Nat \cup {NoHeight}
      BY <1>3, BodiesType DEF TypeOK, Tracked, AcceptorHeight, Acceptors, BodyRecords
    <2>2. Tracked(sw.hash) =>
            (ShouldSync(AcceptorHeight(block_acceptors[sw.hash]), HighestUsable)
               <=> SpecShouldSync(AcceptorHeight(block_acceptors[sw.hash]), HighestUsable))
      BY <2>1, ShouldSyncAgrees
    <2> DEFINE a == block_acceptors[sw.hash]
    <2>3. SyncDecision(sw) = IF Tracked(sw.hash) /\ ShouldSync(AcceptorHeight(a), HighestUsable)
                             THEN Sync(sw.hash, TRUE) ELSE Leap
      BY <1>3, Zenon DEF SyncDecision
    <2>4. SpecInstruction(sw) = IF Tracked(sw.hash) /\ SpecShouldSync(AcceptorHeight(a), HighestUsable)
                                THEN Sync(sw.hash, TRUE) ELSE Leap
      BY <1>3, Zenon DEF SpecInstruction
    <2>5. CASE Tracked(sw.hash) /\ ShouldSync(AcceptorHeight(a), HighestUsable)
      BY <2>2, <2>3, <2>4, <2>5
    <2>6. CASE ~(Tracked(sw.hash) /\ ShouldSync(AcceptorHeight(a), HighestUsable))
      BY <2>2, <2>3, <2>4, <2>6
    <2>7. QED
      BY <2>5, <2>6
  <1>4. CASE sw.kind = "BlockIdentifier"
    <2>0. sw.height \in Nat
      BY <1>4
    <2>1. ShouldSync(sw.height, HighestUsable) <=> SpecShouldSync(sw.height, HighestUsable)
      BY <2>0, ShouldSyncAgrees
    <2>2. SyncDecision(sw) = IF ShouldSync(sw.height, HighestUsable) THEN Sync(sw.hash, FALSE) ELSE Leap
      BY <1>4, Zenon DEF SyncDecision
    <2>3. SpecInstruction(sw) = IF SpecShouldSync(sw.height, HighestUsable) THEN Sync(sw.hash, FALSE) ELSE Leap
      BY <1>4, Zenon DEF SpecInstruction
    <2>4. CASE ShouldSync(sw.height, HighestUsable)
      BY <2>1, <2>2, <2>3, <2>4
    <2>5. CASE ~ShouldSync(sw.height, HighestUsable)
      BY <2>1, <2>2, <2>3, <2>5
    <2>6. QED
      BY <2>4, <2>5
  <1>6. CASE sw.kind = "SyncedBlockIdentifier"
    <2>0. sw.height \in Nat
      BY <1>6
    <2>1. ShouldSync(sw.height, HighestUsable) <=> SpecShouldSync(sw.height, HighestUsable)
      BY <2>0, ShouldSyncAgrees
    <2> DEFINE c == NextSyncable(sw.hash)
               rest == IF c # NoHash THEN Sync(c, FALSE)
                       ELSE IF now - last_progress < DeadAir THEN [kind |-> "CaughtUp"]
                       ELSE Leap
    <2> HIDE DEF c, rest
    <2>2. SyncDecision(sw) = IF ~ShouldSync(sw.height, HighestUsable) THEN Leap ELSE rest
      BY <1>6, Zenon DEF SyncDecision, c, rest
    <2>3. SpecInstruction(sw) = IF ~SpecShouldSync(sw.height, HighestUsable) THEN Leap ELSE rest
      BY <1>6, Zenon DEF SpecInstruction, c, rest
    <2>4. CASE ShouldSync(sw.height, HighestUsable)
      BY <2>1, <2>2, <2>3, <2>4
    <2>5. CASE ~ShouldSync(sw.height, HighestUsable)
      BY <2>1, <2>2, <2>3, <2>5
    <2>6. QED
      BY <2>4, <2>5
  <1>5. QED
    BY <1>1, <1>2, <1>3, <1>4, <1>6

-----------------------------------------------------------------------------
(* The theorem.                                                            *)

LEMMA CheckHeightsNat == CheckHeights \subseteq Nat
  BY DEF CheckHeights

LEMMA SInvMatches == SInv => SyncMatchesSpec
  <1> SUFFICES ASSUME SInv,
                      NEW sw \in {[kind |-> "Nothing"]} \cup
                         [kind: {"ExecutableBlock", "BlockIdentifier", "SyncedBlockIdentifier"},
                          hash: Hashes, height: CheckHeights] \cup
                         [kind: {"Hash"}, hash: Hashes]
               PROVE  SyncDecision(sw) = SpecInstruction(sw)
    BY DEF SyncMatchesSpec
  <1>1. sw \in {[kind |-> "Nothing"]} \cup
               [kind: {"ExecutableBlock", "BlockIdentifier", "SyncedBlockIdentifier"},
                hash: Hashes, height: Nat] \cup
               [kind: {"Hash"}, hash: Hashes]
    BY CheckHeightsNat
  <1>2. HighestUsable \in Nat \cup {NoHeight}
    BY HighestUsableType
  <1>3. QED
    BY <1>1, <1>2, DecisionMatchesSpec DEF SInv

\* sync_instruction answers, in every reachable state and for every
\* starting point, the instruction spec section 4.3 defines: the
\* saturating subtraction of lines 188 and 255 and the keep-up window
\* agree with the spec's integer arithmetic at every threshold, and the
\* highest usable height they read always exists.  This holds for every
\* chain, weights, threshold and dead-air interval, with forged bodies,
\* and for both Entry and placeholder arms; the run sync_honest checks it
\* on honest gossip.
THEOREM SyncMatchesSpecHolds == Spec => []SyncMatchesSpec
  <1>1. Spec => []SInv
    BY InitSInv, NextSInv, PTL DEF Spec
  <1>2. QED
    BY <1>1, SInvMatches, PTL

=============================================================================
