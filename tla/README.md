# Formal model of the block accumulator

This directory holds TLA+ models of `src/node/src/components/block_accumulator.rs`, the
casper-node component that collects gossiped blocks and finality signatures. It also
holds TLC configurations that check the models, an abstract specification of the acceptor
lifecycle that the accumulator is shown to refine, and TLAPS proofs of eight properties, including that refinement.

## 1. The system (inventory)

The accumulator has three jobs:

- it gathers gossiped block bodies and finality signatures from untrusted peers;
- it decides when a block has "sufficient finality" and asks storage to store it;
- it answers the node's synchroniser: "what should I do next?"

Its parts:

| Part | Code | State | Operations that change state |
|---|---|---|---|
| Registration | `register_block`, `register_finality_signature`, `get_or_register_acceptor_mut` | `block_acceptors`, `block_children` | a body or a signature arrives from a peer |
| Eviction | `register_local_tip` | `already_handled`, `local_tip` | a block is executed (`Event::ExecutedBlock`) |
| Refresh | `register_updated_validator_matrix` | the acceptors | the validator matrix learns the weights of an era |
| Sync decision | `sync_instruction`, `should_sync`, `next_syncable_block_hash`, `highest_usable_block_height` | `last_progress`, plus a placeholder acceptor | the synchroniser asks for an instruction |
| Dispatch | `handle_event`, `handle_stored` | none of its own | each event goes to one handler; `Stored` only announces |
| Block acceptor | `block_acceptor.rs`, which is **not in this repository** | body, weights era, signatures | the accumulator calls it |
| Validator matrix, storage, network | outside the repository | not applicable | only reached through calls and effects |
| Queries | `block`, `get_peers` | none | read-only |

How the parts interact:

- Every gossip message goes through `get_or_register_acceptor_mut`, which yields the acceptor of the hash.
- The acceptor's verdict decides what happens next: keep the acceptor, remove it, disconnect the peer, or schedule a `StoreBlock` effect.
- `register_local_tip` retires acceptors below the executed height and marks them handled.
- `sync_instruction` reads the usable acceptors (a known body and sufficient finality) and the `block_children` links.

Behaviours that are hard to test and that the model explores:

- any interleaving of bodies and signatures, arriving in either order, duplicated, or claiming a wrong era;
- forged bodies;
- execution events racing gossip;
- sync requests between any two of these;
- refreshes that arrive before or after the weights are known.

## 2. Modules

- **`BlockAcceptor.tla`** models the acceptor. It has no variables; each acceptor method is an operator on an acceptor record.
  - The constants describe the genuine chain: `Parent`, `HeightOf`, `EraOf`, the weights `Weight[e][v]`, and the bodies a faulty peer can forge (`ForgedBodies`).
  - Because the acceptor's source is not in this repository, every operator here is taken from spec §4.2 and from how the accumulator uses its results. These operators are marked `spec_modelled` in PROJECT.json.
  - `AcceptBlock` returns invalid, era_mismatch or ok.
  - `AcceptSignature` returns era_mismatch, invalid, nothing, sufficient or single, and checks them in that order.
  - Sufficient finality means signed weight × 3 > total weight (strictly more than a third).
- **`BlockAccumulator.tla`** (EXTENDS BlockAcceptor) models the accumulator. The variables are the struct fields (`block_acceptors`, `block_children`, `already_handled`, `local_tip`, `last_progress`) plus environment state:
  - `now`, an abstract clock;
  - `validator_eras`, the eras the matrix currently holds weights for;
  - `effects`, the pending `StoreBlock` requests;
  - `disconnected`, the peers reported for disconnection.

  There is one action per handler. Each action models the whole handler in its code order:
  - `RegisterBlock`: the outdated check, which removes the acceptor; then the `block_children` link; then the acceptor verdict and its branches.
  - `RegisterFinalitySignature`
  - `RegisterUpdatedValidatorMatrix`
  - `RegisterLocalTip`
  - `SyncInstruction`: the instruction, the placeholder insert and the `last_progress` update.
  - `HandleStored`

  Two actions are the environment, `LearnEra` and `Tick`. `SyncDecision` is the instruction as a pure operator of the state, so properties can ask what the synchroniser would be told.
- **`MCBlockAccumulator.tla`** is the TLC instance:
  - hashes: `h1` (height 1, era 1) and its child `h2` (height 2, era 2);
  - validators: `v1` and `v2`, with weights chosen so that v2 alone is a quorum in era 1 and v1 alone in era 2;
  - one peer;
  - forged bodies: two under `h2`'s hash, one with a self-parent link and one with height 0;
  - gossiped signatures: the genuine ones plus one claiming the wrong era.
- **`AcceptorLifecycle.tla`** is the abstract specification: what spec §3 and §4.2 promise about each hash, with the data left out.
  - Each hash is in a phase: `Absent`, `Empty`, `Accumulating`, `BodyKnown`, `Sufficient` or `Handled`.
  - An acceptor is created only for an `Absent` hash and may be discarded at any time.
  - While it lives, it moves only forward (`Moves`), and nothing leaves `Sufficient`.
  - `Handled` is entered only in an execution step (`Retire`) and is never left.
  - The tip never decreases.
- **`BlockAccumulatorLifecycle.tla`** is the refinement mapping. It EXTENDS BlockAccumulator and `INSTANCE`s the lifecycle `WITH phase <- [h |-> PhaseOf(h)]` and `tip <- local_tip`.
  - `PhaseOf(h)` is the phase of the acceptor the map holds for `h`, read through `has_sufficient_finality`, the body and the signatures.
  - A hash with no acceptor maps to `Handled` or `Absent`.
  - `LifecycleRefined` is the abstract specification, checked as a PROPERTY.
- **`BlockAccumulatorProofs.tla`**, **`HonestGossipProofs.tla`**, **`FinalityProofs.tla`**, **`WeightSums.tla`**, **`LifecycleProofs.tla`** and **`SyncProofs.tla`** hold the TLAPS proofs (section 4).

Early returns are written as `IF ... ELSE IF ...` chains, never as a `CASE` with overlapping guards. In TLA+ such a `CASE` does not pick the first true arm: it picks any true arm. TLC happens to take the first one, so the runs are the same either way. A prover, however, cannot use the order. `AcceptBlock`, `AcceptSignature`, `GetOrRegister` and `AcceptorPhase` were once `CASE`s with overlapping guards. As `CASE`s they did not say what the code's order of checks says.

### The `EntryArm` constant

Line 487 reads `if let Entry::Occupied(mut entry) = ...`. The body of that branch is written to create a missing acceptor. As written, the function does two things:

- for a hash it already tracks, it replaces the acceptor with a fresh one;
- for a new hash, it returns `None`, so nothing is ever accepted.

The constant `EntryArm` selects the arm:

- `"Occupied"` is the code as written. It is used by the run `entry_occupied`.
- `"Vacant"` is the evident intent and the behaviour spec §4.1 describes. The other runs use it, so that the rest of the code is exercised at all.

### The `PlaceholderArm` constant

Lines 177-178 register the placeholder acceptor of `sync_instruction` with `BTreeMap::insert`. That call replaces whatever the map holds for the hash, and it ignores `already_handled`.

- `"insert"` is the code as written. Every run except `lifecycle_refinement` uses it.
- `"vacant"` creates the placeholder only for a hash that is neither tracked nor handled. This is the lazy creation of spec §3. It is used only by `lifecycle_refinement`, to show that this one change makes the accumulator implement the lifecycle.

## 3. Runs

Every run uses the instance above: 2 hashes, 2 validators, 2 eras, 1 peer, `MaxTime = 2`, `Threshold = 1`, `DeadAir = 1`. These bounds are enough for the cases the properties are about:

- a child block and its parent;
- a quorum that needs one or two signers;
- a signature in the wrong era;
- forged bodies above and below the tip;
- executed heights 1 and 2, which evict either block;
- a clock that can pass the dead-air window.

Symmetry is not used, because the constants distinguish every model value.

| Run | Expect | Property | What it shows |
|---|---|---|---|
| `accumulator_safety` | pass (~570k states) | `TypeOK`, `BlocksAboveTip`, `DuplicateSignatureIgnored` | With forged bodies and wrong-era signatures in any order, no acceptor holds a body below the tip. A signature an acceptor already holds, gossiped again, is answered `Nothing` (line 396): it is not stored twice and its sender is not disconnected. |
| `sync_honest` | pass (~190k states) | `SyncFollowsChain`, `SyncMatchesSpec`, `GenuineAcceptorKept` | With honest bodies, catch-up and keep-up go to a child of the node's block. The instruction equals the spec §4.3 definition for every starting height from 0 to one above the chain: distance 0, at the threshold, past it, and above H. An acceptor with a genuine body leaves the map only by retirement. |
| `lifecycle_refinement` | pass (~400k states) | `Disjointness`, `LifecycleRefined` | With forged bodies, wrong-era signatures and execution at heights 1 and 2, the accumulator implements the acceptor lifecycle, given the `"vacant"` placeholder. |
| `liveness_vacant` | pass | `GossipReachesFinality` | Under fair re-gossip, some block becomes usable. |
| `entry_occupied` | violation | `GossipReachesFinality` | The line-487 bug: nothing is ever accepted. |
| `placeholder_revives` | violation | `Disjointness` | The placeholder insert at line 177 revives a retired hash. |
| `sync_forged_link` | violation | `SyncFollowsChain` | The child link at line 310 is recorded before validation, so a forged body steers catch-up. |
| `placeholder_wipe` | violation | `LifecycleRefined` | Line 177 as written, with no execution. Bodies of h1 and h2 arrive and h1 reaches quorum. `ExecutableBlock(h2, 2)` then replaces h2's acceptor with an empty one, losing its body and signatures. |
| `forged_evict` | violation | `GenuineAcceptorKept` | h2's genuine body is held and the tip reaches 1. A forged body claiming h2 at height 0 then makes line 305 drop h2's acceptor, before anything has checked the body. |
| `store_order` | violation | `FinalBlockStored` | A block whose quorum is completed by its body (line 321) or by a refresh (line 422) is never stored. |
| `wrong_era_starves` | violation | `EveryBlockUsable` | The matrix holds both eras, and every genuine body and signature is re-gossiped fairly. A faulty signature of h2 claiming era 1 creates h2's acceptor with era-1 weights (line 362). The genuine era-2 signatures are refused while it lives. The genuine body's era mismatch discards it (line 332), and the faulty signature recreates it. h2 never becomes usable. |

Each property of a passing run has a mutant: a plausible bug in the modelled code that TLC catches.

| Mutant | Caught by |
|---|---|
| `last_progress` set one tick late | `TypeOK` |
| off-by-one in the outdated check | `BlocksAboveTip` |
| the child link reversed | `SyncFollowsChain` |
| the `Occupied` arm | `GossipReachesFinality` |
| `should_sync` refusing a distance equal to the threshold | `SyncMatchesSpec` |
| the outdated check counting a body at the tip as outdated | `GenuineAcceptorKept` |
| the placeholder inserted without its guard | `LifecycleRefined` |
| `get_or_register_acceptor_mut` without the `already_handled` check | `Disjointness` |
| `refresh` keeping the signatures of signers without weight in the era (in the reconstructed acceptor; the accumulator's only part is refreshing with the acceptor's own era, lines 420-422) | `DuplicateSignatureIgnored` |

**Fairness.** `FairSpec` assumes two things:

- peers keep re-gossiping every genuine body;
- peers keep re-gossiping every genuine-era signature.

Spec §7 says a retry happens only by re-gossip. Nothing is assumed of the accumulator itself: each handler runs to completion when called. Nothing is assumed of refreshes: nothing under `src/` calls `register_updated_validator_matrix`, and the `UpdatedValidatorMatrix` handler (lines 561-564) is commented out.

The fairness is weak. The faulty signature of `wrong_era_starves` is under no fairness and is sent at will. In the counterexample, each genuine signature of h2 is enabled only between a body and the next faulty signature, never continuously. So weak fairness does not force it. Strong fairness of re-gossip would break the cycle; the code offers no such guarantee.

Two cross-checks were run outside the project, on modified copies:
- With the faulty signature left out of the gossiped set and `sync_instruction` left out of `Next`, `EveryBlockUsable` holds, so the faulty signature alone causes the violation.
- With the faulty signature left out but `sync_instruction` kept, the property still fails for a second reason. The placeholder of line 178 creates h2's acceptor without weights. Nothing attaches them later, and with the `Vacant` arm every registration keeps that acceptor. This is listed as a hazard.

## 4. Proofs (TLAPS)

`BlockAccumulatorProofs.tla` proves two theorems, for every value of the constants that satisfies the named ASSUMEs:

- `ChainAssumption`: a child is one above its parent.
- `WeightAssumption`: natural weights and finitely many validators.
- `SentinelAssumption`, `ForgedAssumption`, `AcceptorSentinel`.
- `ConfigAssumption`.

The theorems:

- **`TypeCorrect`**: `Spec => []TypeOK`. Lemmas show that every acceptor operator returns an acceptor: `NewAcceptorType`, `AcceptBlockType`, `AcceptSignatureType`, `RefreshType`, `GetOrRegisterType`, `StoreUnitType`. `NextTypeOK` then has one step per action.
- **`BlocksStayAboveTip`**: `Spec => []BlocksAboveTip`.
  - `BlocksAboveTip` is not inductive alone: the step needs the types of the acceptors and of the tip. So the proof uses `IInv == TypeOK /\ BlocksAboveTip`, which TLC checks in `accumulator_safety`.
  - The lemma `KeepBodies` covers every action that keeps the tip and either keeps each acceptor's body or clears it.
  - `RegisterBlock` needs the non-outdated guard.
  - `RegisterLocalTip` needs the eviction filter. That filter is exactly what keeps a body at or above the new tip.

`HonestGossipProofs.tla` proves two more theorems. Each has the hypothesis `HonestGossip == ForgedBodies = {}`, because the runs `sync_forged_link` and `forged_evict` show that neither theorem holds once a peer forges a body.

- **`SyncFollowsChainWhenHonest`**: `HonestGossip => (Spec => []SyncFollowsChain)`.
  - The inductive invariant is `TypeOK /\ ChildLinksGenuine`: every link in `block_children` is a parent-to-child link of the chain.
  - Only `RegisterBlock` writes a link, and with honest gossip it writes the parent link of a genuine body.
  - The lemma `SyncFollowsLinks` then shows that `SyncDecision` for a `SyncedBlockIdentifier` or an `ExecutableBlock` can name no other hash than the recorded child. This holds whatever the highest usable height is.
- **`GenuineKeptWhenHonest`**: `HonestGossip => (Spec => GenuineAcceptorKept)`, an action property.
  - The proof uses `GInv == TypeOK /\ BlocksAboveTip /\ EraConsistent`. `EraConsistent` says an acceptor with a body has no weights, or the weights of the body's era.
  - `BlocksAboveTip` rules out the outdated branch for a genuine body that is held.
  - `EraConsistent` makes `register_block` of that body answer "ok" instead of "era_mismatch".
  - `NextKept` shows, one action at a time, that the hash stays tracked or is retired.
  - The proof covers both values of `EntryArm` and of `PlaceholderArm`.

The strengthening conjuncts `ChildLinksGenuine` and `EraConsistent` were checked as TLC invariants on the `sync_honest` instance before they were proved.

`FinalityProofs.tla` proves the invariant `FInv == TypeOK /\ AcceptorsGenuine`, on which the refinement proof rests. TLC checked `AcceptorsGenuine` as an invariant of the `accumulator_safety` and `lifecycle_refinement` instances before it was proved.
  - `AcceptorsGenuine` says that every tracked acceptor holds only signatures of its own hash, through `GenuineAt`.
  - It also says that once the acceptor has a body, that body is the genuine block of the hash, its weights are none or the block's era, and every signature is of the block's era.

`FinalityProofs.tla` also proves **`DuplicatesIgnored`**: `Spec => []DuplicateSignatureIgnored`, for all constants and all four arm combinations.
  - `register_finality_signature` answers `Nothing` to a held signature only if that signature passes the two checks before the duplicate test: its era is the acceptor's era, and its signer has weight in the attached era. `SigsConsistent` states both for every held signature.
  - The inductive invariant is `UInv == TypeOK /\ AcceptorsConsistent`, which TLC checked as an invariant of the `accumulator_safety` instance before it was proved. It says that every tracked acceptor is `SigsConsistent`.
  - A fresh acceptor holds no signatures (`NewConsistent`). `AcceptSignature` adds a signature only past both checks (`AcceptSignatureConsistent`). `AcceptBlock` keeps only the signatures of the body's era, which becomes the acceptor's era (`AcceptBlockConsistent`).
  - `Refresh` with the acceptor's own era keeps only signatures of that era whose signer has weight in it (`RefreshConsistent`). That weight filter is what the mutant removes.

`SyncProofs.tla` proves **`SyncMatchesSpecHolds`**: `Spec => []SyncMatchesSpec`, for all constants, both arms and forged bodies.
  - Both instructions read the same `HighestUsable`, so the proof needs only its type: `NoHeight` or a natural (`HighestUsableType`). That needs the `CHOOSE` of a maximum to have a witness.
  - The maximum exists because the tracked hashes form a finite set. This is proved as an invariant (`TrackedFinite`), since each step adds at most one tracked hash (`TrackedGrowsByOne`); it is not assumed of `Hashes`.
  - The heights of a finite set are bounded by their sum (`FunBounded`, from `SumMono` and `SumSingleton`). A bounded non-empty set of naturals has a greatest element (`BoundedNatMax`, from `LeastNat`).
  - `DecisionMatchesSpec` then compares the two instructions one starting-point kind at a time, for every natural height. `ShouldSyncAgrees` covers saturating subtraction against `max(0, H - s)`, and `KeepUpAgrees` covers `saturating_sub(H, threshold) <= h` against `H - threshold <= h`.

`WeightSums.tla` proves facts about `SumFunctionOnSet` over subsets of a finite universe:
  - the unfolding equation (`SumDef`);
  - that the sum is a natural (`SumType`);
  - that adding an element adds its weight (`SumAddOne`);
  - that a superset weighs at least as much, and exactly as much when the added elements weigh zero (`SumMono`).

The provers cannot instantiate an induction rule that takes an operator as a parameter. So each induction here is done by a least counterexample instead:
  - take the set of cardinalities of counterexamples, a set of naturals;
  - take its least element (`LeastNat`, from `WFMin` and `NatLessThanWellFounded`);
  - derive a contradiction from it.

`LifecycleProofs.tla` proves two theorems.

- **`DisjointWhenGuarded`**: `GuardedPlaceholder => (Spec => []Disjointness)`.
  - It holds for either `EntryArm`.
  - The hypothesis is needed: the run `placeholder_revives` shows that the placeholder insert at line 177 breaks `Disjointness`.
  - The inductive invariant is `TypeOK /\ Disjointness`. A registration of a handled hash gets no acceptor (`GetOrRegisterHandled`). A refresh never removes an acceptor.
- **`LifecycleRefinedWhenFixed`**: `FixedAccumulator => (Spec => LifecycleRefined)`, with `FixedAccumulator` meaning the guarded placeholder and `Entry::Vacant`. This is the same pair of arms the run `lifecycle_refinement` uses.
  - The invariant is `RInv == FInv /\ Disjointness`.
  - Every step except `RegisterLocalTip` maps to `Update` (`UpdateMaps`). To show this, each acceptor that is neither created nor discarded must keep sufficient finality and its body (`LiveKept`), and `LiveKeptStep` shows that this is a lifecycle move.
  - `register_finality_signature` only adds signatures, with the same weights. `SufficientMono` rests on `SumMono`.
  - `register_block`, when it answers "ok", keeps the weights and the signatures of their era (`AcceptBlockKept`).
  - A refresh of a genuine acceptor attaches the weights it already counts with. It removes only signers of weight zero, so the signed weight is unchanged (`RefreshKept`). This step needs `AcceptorsGenuine`.
  - Disjointness makes a discarded acceptor `Absent` rather than `Handled`, and a created one come from `Absent`.
  - `RegisterLocalTip` maps to `Retire` (`LocalTipRetires`).

The following stay with TLC only:

- the liveness properties (`GossipReachesFinality`), since TLAPS does not handle fairness or ENABLED;
- the violated properties of the violation runs, which are counterexamples, not theorems.

## 5. Not modelled

- `get_peers` and `block` are read-only.
- The announcements `handle_stored` emits carry no accumulator state.
- `Event::UpdatedValidatorMatrix` is a no-op in `handle_event` (lines 561-564). The refresh itself, `register_updated_validator_matrix`, is `pub(crate)` with no caller under `src/`. It is modelled as its own action, which may happen at any time or never.
- Peer lists inside acceptors are not modelled.
- The real `Timestamp` is replaced by an abstract bounded clock.
- Unbounded acceptor growth cannot be seen with a fixed set of hashes. `TrackedGrowsByOne` proves only that each event creates at most one acceptor.

## 6. Plan for later sittings

Done so far:

- the line-305 hazard (`GenuineAcceptorKept`, `forged_evict`);
- the wrong-era starvation of line 362 (`EveryBlockUsable`, `wrong_era_starves`);
- the threshold and dead-air boundaries (`SyncMatchesSpec`);
- the abstract lifecycle and its refinement;
- proofs of `SyncFollowsChain` and `GenuineAcceptorKept` under honest gossip;
- proofs of `Disjointness` under the guarded placeholder, and of the refinement `LifecycleRefined` under both fixes;
- proofs of `SyncMatchesSpec` and `DuplicateSignatureIgnored` for all constants.

Left:

1. Add three hashes with a fork, to exercise the single-child overwrite in `block_children` (spec §9). Add a property that a syncable finalized child is found whenever one exists.
2. Add a composition with the synchroniser: `ExecutedBlock` followed by `sync_instruction(ExecutableBlock)`, which is the order in which the line-177 bugs bite in a running node.
