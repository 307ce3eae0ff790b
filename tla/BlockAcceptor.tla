--------------------------- MODULE BlockAcceptor ---------------------------
(***************************************************************************)
(* The per-block-hash acceptor used by the block accumulator.              *)
(*                                                                         *)
(* Its source (block_accumulator/block_acceptor.rs) is not part of this    *)
(* repository excerpt: every operator below is reconstructed from the      *)
(* contract of spec section 4.2 and from the way block_accumulator.rs      *)
(* calls it.  The module has no variables: an acceptor is a record, and    *)
(* each acceptor method is an operator from an acceptor (and an input) to  *)
(* the new acceptor and the verdict the method returns.                    *)
(*                                                                         *)
(* The module also declares the constants that describe the chain the      *)
(* node observes: the genuine blocks, their eras and heights, and the      *)
(* per-era validator weights held by the validator matrix.                 *)
(***************************************************************************)
EXTENDS Integers, FiniteSets, Functions

CONSTANTS
    Hashes,        \* block hashes the node may hear of
    Validators,    \* validator public keys (signers of finality signatures)
    Eras,          \* era ids
    Parent,        \* Parent[h]: parent hash of the genuine block h, or NoHash
    HeightOf,      \* HeightOf[h]: height of the genuine block h
    EraOf,         \* EraOf[h]: era of the genuine block h
    Weight,        \* Weight[e][v]: weight of v in era e, 0 if v is not a validator of e
    ForgedBodies,  \* bodies a faulty peer gossips: a claimed hash with other contents
    NoHash,        \* absent hash (Option<BlockHash>::None)
    NoEra,         \* absent era (no validator weights attached)
    NoBlock,       \* absent block body (Option<Block>::None)
    NoAcceptor     \* absent map entry

\* A block body as the accumulator reads it: the hash it claims, and the
\* parent, height and era of its header.
BodyRecords == [hash: Hashes, parent: Hashes \cup {NoHash}, height: Nat, era: Eras]

\* The genuine body of the block with hash h.
Blk(h) == [hash |-> h, parent |-> Parent[h], height |-> HeightOf[h], era |-> EraOf[h]]

\* Every body a peer can gossip: the genuine ones and the forged ones.
Bodies == {Blk(h) : h \in Hashes} \cup ForgedBodies

\* A finality signature: its signer, the block hash and era it signs.
Signatures == [signer: Validators, hash: Hashes, era: Eras]

ChainAssumption ==
    /\ Parent \in [Hashes -> Hashes \cup {NoHash}]
    /\ HeightOf \in [Hashes -> Nat]
    /\ EraOf \in [Hashes -> Eras]
    /\ \A h \in Hashes : Parent[h] # NoHash => HeightOf[h] = HeightOf[Parent[h]] + 1

WeightAssumption ==
    /\ Weight \in [Eras -> [Validators -> Nat]]
    /\ IsFiniteSet(Validators)

SentinelAssumption ==
    /\ NoHash \notin Hashes
    /\ NoEra \notin Eras
    /\ NoBlock \notin BodyRecords

\* A forged body claims a hash whose genuine block has other contents.
ForgedAssumption ==
    /\ ForgedBodies \subseteq BodyRecords
    /\ \A b \in ForgedBodies : b # Blk(b.hash)

ASSUME ChainAssumption
ASSUME WeightAssumption
ASSUME SentinelAssumption
ASSUME ForgedAssumption

(***************************************************************************)
(* Acceptor state (spec section 3, "Block Acceptor"): the block body once  *)
(* known, the era of the validator weights once attached, and the          *)
(* collected finality signatures.  The peers that vouched for the block    *)
(* are left out: they are only read by the get_peers query.                *)
(***************************************************************************)
Acceptors == [block: Bodies \cup {NoBlock}, era: Eras \cup {NoEra}, sigs: SUBSET Signatures]

ASSUME AcceptorSentinel == NoAcceptor \notin Acceptors

\* BlockAcceptor::new and BlockAcceptor::new_with_validator_weights.
NewAcceptor(weightsEra) == [block |-> NoBlock, era |-> weightsEra, sigs |-> {}]

\* BlockAcceptor::block_height: the height once the body is known, else -1.
NoHeight == -1
AcceptorHeight(a) == IF a.block = NoBlock THEN NoHeight ELSE a.block.height

\* BlockAcceptor::era_id: the era of the body, else of the attached weights.
AcceptorEra(a) == IF a.block # NoBlock THEN a.block.era ELSE a.era

\* Total weight of era e, and the weight of the signatures of a held in the
\* era of its weights.
TotalWeight(e) == SumFunctionOnSet(Weight[e], Validators)
SignedWeight(a) ==
    SumFunctionOnSet(Weight[a.era], {s.signer : s \in {t \in a.sigs : t.era = a.era}})

\* BlockAcceptor::has_sufficient_finality: the weights are known and the
\* signed weight is strictly more than a third of the era's total weight.
HasSufficientFinality(a) == a.era # NoEra /\ 3 * SignedWeight(a) > TotalWeight(a.era)

\* BlockAcceptor::register_block: a body whose contents are not those of
\* the hash it claims is refused (BlockHashMismatch, or InvalidGossip: the
\* accumulator disconnects the sender on both); a body whose era differs
\* from attached weights is EraMismatch.  Otherwise the body is kept and
\* signatures of any other era are purged.
AcceptBlock(a, b) ==
    IF b # Blk(b.hash) THEN [acc |-> a, out |-> "invalid"]
    ELSE IF a.era # NoEra /\ a.era # b.era THEN [acc |-> a, out |-> "era_mismatch"]
    ELSE [acc |-> [a EXCEPT !.block = b, !.sigs = {s \in a.sigs : s.era = b.era}],
          out |-> "ok"]

\* BlockAcceptor::register_finality_signature with its ShouldStore
\* verdict: a signature of another era than the one known is EraMismatch
\* (and not kept); a signer without weight in the attached era is
\* InvalidGossip; a duplicate is Nothing; a new signature that makes a
\* block with known body sufficiently signed for the first time is
\* SufficientlySignedBlock; any other new signature is SingleSignature.
AcceptSignature(a, s) ==
    LET b == [a EXCEPT !.sigs = a.sigs \cup {s}]
        complete(x) == x.block # NoBlock /\ HasSufficientFinality(x)
    IN IF AcceptorEra(a) # NoEra /\ s.era # AcceptorEra(a) THEN [acc |-> a, out |-> "era_mismatch"]
       ELSE IF a.era # NoEra /\ Weight[a.era][s.signer] = 0 THEN [acc |-> a, out |-> "invalid"]
       ELSE IF s \in a.sigs THEN [acc |-> a, out |-> "nothing"]
       ELSE [acc |-> b, out |-> IF complete(b) /\ ~complete(a) THEN "sufficient" ELSE "single"]

\* Mutation (DuplicateSignatureIgnored): the signatures of signers without
\* weight in e are kept.
RefreshKeepsUnweighted(a, e) == [a EXCEPT !.era = e, !.sigs = {s \in a.sigs : s.era = e}]

\* BlockAcceptor::refresh: attach the weights of era e and drop the
\* signatures of other eras or of signers without weight in e.
Refresh(a, e) ==
    [a EXCEPT !.era = e,
              !.sigs = {s \in a.sigs : s.era = e /\ Weight[e][s.signer] > 0}]

=============================================================================
