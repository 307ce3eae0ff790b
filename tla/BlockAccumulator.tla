-------------------------- MODULE BlockAccumulator --------------------------
(***************************************************************************)
(* The block accumulator of src/node/src/components/block_accumulator.rs: *)
(* a registry of one BlockAcceptor per block hash, the parent -> child     *)
(* link index, the set of already handled hashes, the local tip, and the   *)
(* sync decision taken from them.                                          *)
(*                                                                         *)
(* Events are handled one at a time (one action each).  The asynchronous   *)
(* storage effects a handler schedules are kept in `effects` until their   *)
(* Stored event is handled.  Peers, the validator matrix and the clock are *)
(* the environment: gossip carries any body of Bodies and any signature,   *)
(* the matrix learns eras, and time advances.                              *)
(***************************************************************************)
EXTENDS BlockAcceptor

CONSTANTS
    Peers,              \* senders of gossip
    Threshold,          \* Config::attempt_execution_threshold
    DeadAir,            \* Config::dead_air_interval, in clock ticks
    MaxTime,            \* bound on the clock (modelling artifact)
    InitLocalTip,       \* the local_tip passed to BlockAccumulator::new, NoHeight for None
    InitEras,           \* eras whose weights the validator matrix holds at start
    ExecutedHeights,    \* heights the node may report as executed (ExecutedBlock)
    EntryArm,           \* the Entry variant get_or_register_acceptor_mut matches on
    PlaceholderArm      \* how sync_instruction registers its placeholder acceptor

ASSUME ConfigAssumption ==
    /\ Threshold \in Nat
    /\ DeadAir \in Nat
    /\ MaxTime \in Nat
    /\ InitLocalTip \in Nat \cup {NoHeight}
    /\ InitEras \subseteq Eras
    /\ ExecutedHeights \subseteq Nat
    /\ EntryArm \in {"Occupied", "Vacant"}
    /\ PlaceholderArm \in {"insert", "vacant"}

VARIABLES
    block_acceptors,    \* BTreeMap<BlockHash, BlockAcceptor>, NoAcceptor where absent
    block_children,     \* BTreeMap<BlockHash, BlockHash>, NoHash where absent
    already_handled,    \* HashSet<BlockHash>
    local_tip,          \* Option<u64>, NoHeight for None
    last_progress,      \* Timestamp of the last BlockSync instruction
    now,                \* the clock
    validator_eras,     \* eras whose weights the ValidatorMatrix holds
    effects,            \* scheduled storage effects whose Stored event is pending
    disconnected        \* peers announced for disconnection

vars == <<block_acceptors, block_children, already_handled, local_tip,
          last_progress, now, validator_eras, effects, disconnected>>

\* What a storage effect persists: a block with all its signatures
\* (block # NoBlock), or a single signature (block = NoBlock).
StoreUnits == [block: Bodies \cup {NoBlock}, sigs: SUBSET Signatures]

\* The sync instructions (SyncInstruction) and their starting points (StartingWith).
Instructions ==
    [kind: {"Leap", "CaughtUp"}] \cup
    [kind: {"BlockExec"}, next: Hashes \cup {NoHash}] \cup
    [kind: {"BlockSync"}, hash: Hashes, fetch: BOOLEAN]
StartingPoints ==
    {[kind |-> "Nothing"]} \cup
    {[kind |-> k, hash |-> h] : k \in {"Hash"}, h \in Hashes} \cup
    {[kind |-> k, hash |-> h, height |-> HeightOf[h]] :
        k \in {"ExecutableBlock", "BlockIdentifier", "SyncedBlockIdentifier"}, h \in Hashes}

TypeOK ==
    /\ block_acceptors \in [Hashes -> Acceptors \cup {NoAcceptor}]
    /\ block_children \in [Hashes -> Hashes \cup {NoHash}]
    /\ already_handled \subseteq Hashes
    /\ local_tip \in Nat \cup {NoHeight}
    /\ last_progress \in 0..MaxTime
    /\ now \in 0..MaxTime
    /\ validator_eras \subseteq Eras
    /\ effects \subseteq StoreUnits
    /\ disconnected \subseteq Peers

Init ==
    /\ block_acceptors = [h \in Hashes |-> NoAcceptor]
    /\ block_children = [h \in Hashes |-> NoHash]
    /\ already_handled = {}
    /\ local_tip = InitLocalTip
    /\ last_progress = 0
    /\ now = 0
    /\ validator_eras = InitEras
    /\ effects = {}
    /\ disconnected = {}

-----------------------------------------------------------------------------
(* Helpers of BlockAccumulator.                                            *)

Tracked(h) == block_acceptors[h] # NoAcceptor

\* ValidatorMatrix::validator_weights: the era if its weights are known.
WeightsFor(e) == IF e \in validator_eras THEN e ELSE NoEra

\* get_or_register_acceptor_mut: the acceptor it hands back (already
\* inserted in the map when fresh), NoAcceptor for None.  The code tests
\* `if let Entry::Occupied(..)`: it replaces an existing acceptor by a
\* fresh one and never creates a missing one.  EntryArm = "Vacant" gives
\* the behaviour the spec describes (create when missing).
\* Mutation (GossipReachesFinality): only an existing entry is replaced.
GetOrRegisterOccupied(h, e) ==
    IF ~Tracked(h) THEN block_acceptors[h]
    ELSE IF h \in already_handled THEN NoAcceptor
    ELSE NewAcceptor(WeightsFor(e))

EntryHit(h) == IF EntryArm = "Occupied" THEN Tracked(h) ELSE ~Tracked(h)
\* Mutation (Disjointness): the already_handled check is dropped.
GetOrRegisterAnyHash(h, e) ==
    IF ~EntryHit(h) THEN block_acceptors[h] ELSE NewAcceptor(WeightsFor(e))

GetOrRegister(h, e) ==
    IF ~EntryHit(h) THEN block_acceptors[h]
    ELSE IF h \in already_handled THEN NoAcceptor
    ELSE NewAcceptor(WeightsFor(e))

\* highest_usable_block_height: the greatest height of a tracked, not
\* already handled acceptor with sufficient finality and a known body.
Usable(h) ==
    /\ Tracked(h)
    /\ h \notin already_handled
    /\ HasSufficientFinality(block_acceptors[h])
    /\ block_acceptors[h].block # NoBlock
HighestUsable ==
    LET hs == {block_acceptors[h].block.height : h \in {k \in Hashes : Usable(k)}}
    IN IF hs = {} THEN NoHeight ELSE CHOOSE m \in hs : \A x \in hs : x <= m

\* u64::saturating_sub.
SatSub(a, b) == IF a > b THEN a - b ELSE 0

\* Mutation (SyncMatchesSpec): a distance of exactly Threshold is refused.
ShouldSyncStrict(start, high) ==
    /\ start # NoHeight
    /\ high # NoHeight
    /\ SatSub(high, start) = 0 \/ SatSub(high, start) < Threshold

\* should_sync: both heights known, and the starting height at most
\* Threshold below the highest usable one.
ShouldSync(start, high) ==
    /\ start # NoHeight
    /\ high # NoHeight
    /\ SatSub(high, start) <= Threshold

\* next_syncable_block_hash: the recorded child of p, if it is tracked and
\* has sufficient finality.
NextSyncable(p) ==
    LET c == block_children[p]
    IN IF c # NoHash /\ Tracked(c) /\ HasSufficientFinality(block_acceptors[c])
       THEN c ELSE NoHash

Leap == [kind |-> "Leap"]
Exec(c) == [kind |-> "BlockExec", next |-> c]
Sync(h, fetch) == [kind |-> "BlockSync", hash |-> h, fetch |-> fetch]

\* sync_instruction: the instruction returned for starting point sw.
SyncDecision(sw) ==
    LET H == HighestUsable
        child == NextSyncable(sw.hash)
    IN CASE sw.kind = "Nothing" -> Leap
         [] sw.kind = "ExecutableBlock" ->
              IF H = NoHeight \/ sw.height >= H THEN Exec(NoHash)
              ELSE IF SatSub(H, Threshold) <= sw.height THEN Exec(child)
              ELSE Leap
         [] sw.kind = "Hash" ->
              IF Tracked(sw.hash) /\ ShouldSync(AcceptorHeight(block_acceptors[sw.hash]), H)
              THEN Sync(sw.hash, TRUE) ELSE Leap
         [] sw.kind = "BlockIdentifier" ->
              IF ShouldSync(sw.height, H) THEN Sync(sw.hash, FALSE) ELSE Leap
         [] sw.kind = "SyncedBlockIdentifier" ->
              IF ~ShouldSync(sw.height, H) THEN Leap
              ELSE IF child # NoHash THEN Sync(child, FALSE)
              ELSE IF now - last_progress < DeadAir THEN [kind |-> "CaughtUp"]
              ELSE Leap

-----------------------------------------------------------------------------
(* Actions: one per event handler or public method.                        *)

\* sync_instruction: besides the returned instruction, an executable block
\* above the highest usable height gets an empty placeholder acceptor, and
\* a BlockSync instruction records progress.
\* Mutation (TypeOK): progress records the dead-air deadline instead of
\* the current time.
ProgressAtDeadline(ins) == IF ins.kind = "BlockSync" THEN now + DeadAir ELSE last_progress

\* `self.last_progress = Timestamp::now()` on each BlockSync instruction.
Progress(ins) == IF ins.kind = "BlockSync" THEN now ELSE last_progress

\* Mutation (LifecycleRefined): the placeholder is inserted whatever the
\* map holds for the hash.
PlaceholderUnguarded(h) == [block_acceptors EXCEPT ![h] = NewAcceptor(NoEra)]

\* `self.block_acceptors.insert(block_hash, BlockAcceptor::new(..))`: the
\* code's `insert` replaces whatever acceptor the hash has, and ignores
\* already_handled.  PlaceholderArm = "vacant" gives the lazy creation of
\* spec section 3: only for a hash neither tracked nor already handled.
Placeholder(h) ==
    IF PlaceholderArm = "insert" \/ (~Tracked(h) /\ h \notin already_handled)
    THEN [block_acceptors EXCEPT ![h] = NewAcceptor(NoEra)]
    ELSE block_acceptors

SyncInstruction(sw) ==
    /\ block_acceptors' =
         IF sw.kind = "ExecutableBlock" /\ HighestUsable # NoHeight /\ sw.height > HighestUsable
         THEN Placeholder(sw.hash)
         ELSE block_acceptors
    /\ last_progress' = Progress(SyncDecision(sw))
    /\ UNCHANGED <<block_children, already_handled, local_tip, now,
                   validator_eras, effects, disconnected>>

\* register_block (Event::ReceivedBlock).  A body below the local tip is
\* dropped together with any acceptor of its hash.  Otherwise the parent
\* link is recorded before the acceptor sees the body; a refused body
\* disconnects the sender, an era mismatch discards the acceptor.
\* Mutation (BlocksAboveTip): a body one below the tip counts as current.
OutdatedOffByOne(b) == local_tip # NoHeight /\ b.height + 1 < local_tip

\* Mutation (GenuineAcceptorKept): a body at the local tip counts as outdated.
OutdatedAtTip(b) == local_tip # NoHeight /\ b.height <= local_tip

\* The body is below the local tip.
Outdated(b) == local_tip # NoHeight /\ b.height < local_tip

\* Mutation (SyncFollowsChain): the link is recorded child -> parent.
ChildrenReversed(b) ==
    IF b.parent # NoHash THEN [block_children EXCEPT ![b.hash] = b.parent] ELSE block_children

\* `self.block_children.insert(*parent_hash, *block_hash)` for a body with a parent.
ChildrenWith(b) ==
    IF b.parent # NoHash THEN [block_children EXCEPT ![b.parent] = b.hash] ELSE block_children

RegisterBlock(b, p) ==
    LET acc == GetOrRegister(b.hash, b.era)
        r == AcceptBlock(acc, b)
    IN
    \/ /\ Outdated(b)
       /\ block_acceptors' = [block_acceptors EXCEPT ![b.hash] = NoAcceptor]
       /\ UNCHANGED <<block_children, disconnected>>
    \/ /\ ~Outdated(b)
       /\ block_children' = ChildrenWith(b)
       /\ \/ /\ acc = NoAcceptor
             /\ UNCHANGED <<block_acceptors, disconnected>>
          \/ /\ acc # NoAcceptor
             /\ r.out = "ok"
             /\ block_acceptors' = [block_acceptors EXCEPT ![b.hash] = r.acc]
             /\ UNCHANGED disconnected
          \/ /\ acc # NoAcceptor
             /\ r.out = "invalid"
             /\ block_acceptors' = [block_acceptors EXCEPT ![b.hash] = acc]
             /\ disconnected' = disconnected \cup {p}
          \/ /\ acc # NoAcceptor
             /\ r.out = "era_mismatch"
             /\ block_acceptors' = [block_acceptors EXCEPT ![b.hash] = NoAcceptor]
             /\ UNCHANGED disconnected
    /\ UNCHANGED <<already_handled, local_tip, last_progress, now, validator_eras, effects>>

\* register_finality_signature (Event::ReceivedFinalitySignature).  A
\* sufficiently signed block schedules storage of the block with all its
\* signatures, a single signature schedules storage of that signature;
\* invalid gossip disconnects the sender; an era mismatch keeps the
\* acceptor as it was.
\* The unit a ShouldStore verdict schedules for storage: the block with
\* all the acceptor's signatures, or the one signature.
StoreUnit(acc, r, s) ==
    IF r.out = "sufficient" THEN [block |-> r.acc.block, sigs |-> r.acc.sigs]
    ELSE [block |-> NoBlock, sigs |-> {s}]

RegisterFinalitySignature(s, p) ==
    LET acc == GetOrRegister(s.hash, s.era)
        r == AcceptSignature(acc, s)
    IN
    /\ \/ /\ acc = NoAcceptor
          /\ UNCHANGED <<block_acceptors, effects, disconnected>>
       \/ /\ acc # NoAcceptor
          /\ block_acceptors' = [block_acceptors EXCEPT ![s.hash] = r.acc]
          /\ \/ /\ r.out \in {"sufficient", "single"}
                /\ effects' = effects \cup {StoreUnit(acc, r, s)}
                /\ UNCHANGED disconnected
             \/ /\ r.out \in {"nothing", "era_mismatch"}
                /\ UNCHANGED <<effects, disconnected>>
             \/ /\ r.out = "invalid"
                /\ disconnected' = disconnected \cup {p}
                /\ UNCHANGED effects
    /\ UNCHANGED <<block_children, already_handled, local_tip, last_progress, now, validator_eras>>

\* register_updated_validator_matrix: every acceptor whose era is known and
\* whose era weights the matrix holds is refreshed with them.
RegisterUpdatedValidatorMatrix ==
    /\ block_acceptors' =
         [h \in Hashes |->
            LET a == block_acceptors[h] IN
            IF a # NoAcceptor /\ AcceptorEra(a) \in validator_eras
            THEN Refresh(a, AcceptorEra(a)) ELSE a]
    /\ UNCHANGED <<block_children, already_handled, local_tip, last_progress, now,
                   validator_eras, effects, disconnected>>

\* register_local_tip (Event::ExecutedBlock): acceptors below the height,
\* an unknown height counting as 0, are dropped and marked handled; the
\* local tip becomes the maximum of its old value and the height.
RegisterLocalTip(height) ==
    LET evicted == {h \in Hashes : Tracked(h) /\
                      IF AcceptorHeight(block_acceptors[h]) = NoHeight
                      THEN 0 < height
                      ELSE AcceptorHeight(block_acceptors[h]) < height}
    IN
    /\ block_acceptors' = [h \in Hashes |->
                             IF h \in evicted THEN NoAcceptor ELSE block_acceptors[h]]
    /\ already_handled' = already_handled \cup evicted
    /\ local_tip' = IF local_tip = NoHeight \/ local_tip < height THEN height ELSE local_tip
    /\ UNCHANGED <<block_children, last_progress, now, validator_eras, effects, disconnected>>

\* handle_stored (Event::Stored): a scheduled storage effect completes; the
\* handler only announces, whatever became of the acceptor meanwhile.
HandleStored(u) ==
    /\ u \in effects
    /\ effects' = effects \ {u}
    /\ UNCHANGED <<block_acceptors, block_children, already_handled, local_tip,
                   last_progress, now, validator_eras, disconnected>>

\* Environment: the validator matrix learns the weights of an era.
LearnEra(e) ==
    /\ e \notin validator_eras
    /\ validator_eras' = validator_eras \cup {e}
    /\ UNCHANGED <<block_acceptors, block_children, already_handled, local_tip,
                   last_progress, now, effects, disconnected>>

\* Environment: the clock advances.
Tick ==
    /\ now < MaxTime
    /\ now' = now + 1
    /\ UNCHANGED <<block_acceptors, block_children, already_handled, local_tip,
                   last_progress, validator_eras, effects, disconnected>>

Next ==
    \/ \E sw \in StartingPoints : SyncInstruction(sw)
    \/ \E b \in Bodies, p \in Peers : RegisterBlock(b, p)
    \/ \E s \in Signatures, p \in Peers : RegisterFinalitySignature(s, p)
    \/ RegisterUpdatedValidatorMatrix
    \/ \E n \in ExecutedHeights : RegisterLocalTip(n)
    \/ \E u \in effects : HandleStored(u)
    \/ \E e \in Eras : LearnEra(e)
    \/ Tick

Spec == Init /\ [][Next]_vars

\* Peers keep re-gossiping the genuine blocks and signatures (spec section 7:
\* a retry only happens by re-gossip).  Nothing is assumed of refreshes
\* (Event::UpdatedValidatorMatrix is a no-op, lines 561-564) nor of the
\* code's own scheduling: it handles what it is given.
FairSpec ==
    /\ Spec
    /\ \A h \in Hashes : WF_vars(\E p \in Peers : RegisterBlock(Blk(h), p))
    /\ \A s \in {t \in Signatures : t.era = EraOf[t.hash]} :
          WF_vars(\E p \in Peers : RegisterFinalitySignature(s, p))

-----------------------------------------------------------------------------
(* Properties.                                                             *)

\* The height of the highest genuine block.
MaxChainHeight == CHOOSE m \in {HeightOf[h] : h \in Hashes} : \A h \in Hashes : HeightOf[h] <= m

\* Spec section 3: no hash is both tracked by an acceptor and already
\* handled.  Broken if sync_instruction's placeholder insertion or a
\* registration revives a hash register_local_tip retired.
Disjointness == \A h \in already_handled : ~Tracked(h)

\* Every body an acceptor holds is at or above the local tip: register_block
\* refuses bodies below the tip and register_local_tip evicts acceptors
\* whose body fell below it, whatever order gossip and execution come in.
BlocksAboveTip ==
    \A h \in Hashes :
        Tracked(h) /\ block_acceptors[h].block # NoBlock =>
            local_tip = NoHeight \/ block_acceptors[h].block.height >= local_tip

\* Spec section 7: a retry happens only by re-gossip.  A finality signature
\* an acceptor already holds, gossiped again, is ignored ("nothing"): it is
\* neither scheduled for storage a second time nor taken for invalid gossip
\* that disconnects the honest peer re-sending it -- whatever bodies,
\* refreshes and wrong-era signatures the acceptor has seen since it took
\* the signature.
DuplicateSignatureIgnored ==
    \A h \in Hashes : Tracked(h) =>
        \A s \in block_acceptors[h].sigs :
            AcceptSignature(block_acceptors[h], s) = [acc |-> block_acceptors[h], out |-> "nothing"]

\* The block catch-up (SyncedBlockIdentifier) and keep-up (ExecutableBlock)
\* are steered to next, through block_children, is a child of the block the
\* node already has.
SyncFollowsChain ==
    \A h \in Hashes :
        LET catchUp == SyncDecision([kind |-> "SyncedBlockIdentifier", hash |-> h,
                                     height |-> HeightOf[h]])
            keepUp == SyncDecision([kind |-> "ExecutableBlock", hash |-> h,
                                    height |-> HeightOf[h]])
        IN /\ catchUp.kind = "BlockSync" => Parent[catchUp.hash] = h
           /\ keepUp.kind = "BlockExec" /\ keepUp.next # NoHash => Parent[keepUp.next] = h

\* register_block drops the acceptor of an outdated body's hash (line 305)
\* before anything checks that the body is the block of that hash.  An
\* acceptor holding the genuine body of its hash may leave the map only by
\* register_local_tip retiring it into already_handled.
GenuineAcceptorKept ==
    [][\A h \in Hashes :
          Tracked(h) /\ block_acceptors[h].block = Blk(h) =>
              Tracked(h)' \/ h \in already_handled']_vars

\* Spec section 4.3, read literally: should_sync with diff = max(0, H - s)
\* and "diff == 0 or diff <= threshold"; keep-up for
\* "H - threshold <= height < H" in integer arithmetic; CaughtUp while
\* the time since last_progress is under the dead-air interval.
SpecShouldSync(s, H) ==
    LET diff == IF H - s > 0 THEN H - s ELSE 0
    IN s # NoHeight /\ H # NoHeight /\ (diff = 0 \/ diff <= Threshold)
SpecInstruction(sw) ==
    LET H == HighestUsable
        child == NextSyncable(sw.hash)
    IN CASE sw.kind = "Nothing" -> Leap
         [] sw.kind = "ExecutableBlock" ->
              IF H = NoHeight \/ sw.height > H \/ sw.height = H THEN Exec(NoHash)
              ELSE IF H - Threshold <= sw.height THEN Exec(child)
              ELSE Leap
         [] sw.kind = "Hash" ->
              IF Tracked(sw.hash) /\ SpecShouldSync(AcceptorHeight(block_acceptors[sw.hash]), H)
              THEN Sync(sw.hash, TRUE) ELSE Leap
         [] sw.kind = "BlockIdentifier" ->
              IF SpecShouldSync(sw.height, H) THEN Sync(sw.hash, FALSE) ELSE Leap
         [] OTHER ->
              IF ~SpecShouldSync(sw.height, H) THEN Leap
              ELSE IF child # NoHash THEN Sync(child, FALSE)
              ELSE IF now - last_progress < DeadAir THEN [kind |-> "CaughtUp"]
              ELSE Leap

\* Starting heights for the boundary check: every height from 0 to one
\* above the highest genuine block, so that distances below, at and above
\* the threshold, and heights above H, all occur.
CheckHeights == 0..(MaxChainHeight + 1)

\* The instruction sync_instruction returns (saturating u64 arithmetic at
\* lines 188 and 255, the dead-air test at line 235) is the one spec
\* section 4.3 defines, for every starting point, in every reachable state.
SyncMatchesSpec ==
    \A sw \in {[kind |-> "Nothing"]} \cup
              [kind: {"ExecutableBlock", "BlockIdentifier", "SyncedBlockIdentifier"},
               hash: Hashes, height: CheckHeights] \cup
              [kind: {"Hash"}, hash: Hashes] :
        SyncDecision(sw) = SpecInstruction(sw)

\* Spec sections 4.1 and 8 ("Quorum triggers storage"): when peers keep
\* gossiping the genuine blocks and their signatures, some block eventually
\* has a body and sufficient finality, i.e. highest_usable_block_height
\* eventually has a value for the sync decision to steer by.
GossipReachesFinality == <>(\E h \in Hashes : Usable(h))

\* Spec sections 1 and 4.1: the engine tolerates malicious peers, and an
\* acceptor discarded on an era mismatch of its body "will be recreated
\* from scratch on next sighting".  So when peers keep re-gossiping every
\* genuine block and its signatures, every block eventually has its body
\* and sufficient finality, unless execution has retired it -- whatever a
\* faulty peer gossips in between.  At stake: the acceptor that
\* register_finality_signature creates with the weights of the era a
\* signature claims (line 362), and the asymmetry between discarding it
\* on a body's era mismatch (line 332) and keeping it on a signature's.
EveryBlockUsable == \A h \in Hashes : <>(Usable(h) \/ h \in already_handled)

\* Spec sections 2 and 3: a block that has its body and sufficient finality
\* is folded into storage -- register_finality_signature schedules the store
\* of the block with its signatures -- whichever of the body and the
\* deciding signature arrived last.
FinalBlockStored ==
    \A h \in Hashes : Usable(h) ~> \E u \in effects : u.block = Blk(h)

=============================================================================
