---------------------------- MODULE FinalityProofs ----------------------------
(***************************************************************************)
(* Invariants of what an acceptor holds, for every chain, weights, forged  *)
(* bodies and both Entry and placeholder arms: an acceptor registered     *)
(* under a hash holds only that hash's signatures and, once it has a body, *)
(* the genuine block and only signatures of its era (AcceptorsGenuine,     *)
(* which the refinement proof of LifecycleProofs rests on); and a finality *)
(* signature an acceptor already holds is ignored when gossiped again      *)
(* (DuplicateSignatureIgnored).                                            *)
(***************************************************************************)
EXTENDS BlockAccumulatorProofs

\* What an acceptor registered under hash h holds: signatures of h only,
\* and once it has a body, the genuine block of h, no weights or the
\* weights of h's era, and only signatures of h's era.
GenuineAt(a, h) ==
    /\ \A t \in a.sigs : t.hash = h
    /\ a.block # NoBlock =>
         /\ a.block = Blk(h)
         /\ a.era \in {NoEra, EraOf[h]}
         /\ \A t \in a.sigs : t.era = EraOf[h]

AcceptorsGenuine == \A h \in Hashes : Tracked(h) => GenuineAt(block_acceptors[h], h)

\* The types, and what every tracked acceptor holds.
FInv == TypeOK /\ AcceptorsGenuine

-----------------------------------------------------------------------------
(* Lemmas about the acceptor operators.                                    *)

LEMMA EraOfType == \A h \in Hashes : EraOf[h] \in Eras /\ EraOf[h] # NoEra
  BY ChainAssumption, SentinelAssumption DEF ChainAssumption, SentinelAssumption

\* A fresh acceptor holds nothing.
LEMMA NewGenuine ==
  ASSUME NEW e, NEW h
  PROVE  GenuineAt(NewAcceptor(e), h)
  BY DEF NewAcceptor, GenuineAt

\* register_block keeps an acceptor genuine: it accepts only the genuine
\* body, only when the weights are none or the body's, and purges the
\* signatures of other eras.
LEMMA AcceptBlockGenuine ==
  ASSUME NEW a \in Acceptors, NEW b \in Bodies, NEW h \in Hashes, b.hash = h,
         GenuineAt(a, h)
  PROVE  GenuineAt(AcceptBlock(a, b).acc, h)
  <1>1. CASE AcceptBlock(a, b).out = "ok"
    <2>1. /\ b = Blk(h)
          /\ a.era \in {NoEra, b.era}
          /\ AcceptBlock(a, b).acc = [a EXCEPT !.block = b,
                                               !.sigs = {s \in a.sigs : s.era = b.era}]
      BY <1>1 DEF AcceptBlock
    <2>2. b.era = EraOf[h]
      BY <2>1 DEF Blk
    <2>3. QED
      BY <2>1, <2>2 DEF GenuineAt, Acceptors
  <1>2. CASE AcceptBlock(a, b).out # "ok"
    BY <1>2, AcceptBlockType
  <1>3. QED
    BY <1>1, <1>2

\* register_finality_signature either leaves the acceptor as it was, or
\* adds the signature, which then matches the acceptor's era if it has
\* one; only the latter answers "sufficient", and then the acceptor with
\* the signature has its body and sufficient finality.
LEMMA AcceptSignatureCases ==
  ASSUME NEW a \in Acceptors, NEW s \in Signatures
  PROVE  LET r == AcceptSignature(a, s)
             b == [a EXCEPT !.sigs = a.sigs \cup {s}]
         IN  \/ r.acc = a /\ r.out # "sufficient"
             \/ /\ r.acc = b
                /\ AcceptorEra(a) = NoEra \/ s.era = AcceptorEra(a)
                /\ r.out = "sufficient" => b.block # NoBlock /\ HasSufficientFinality(b)
  BY DEF AcceptSignature, Acceptors

\* register_finality_signature keeps an acceptor of h genuine when the
\* signature is for h: once the body is known, a signature of another era
\* is an era mismatch and is not kept.
LEMMA AcceptSignatureGenuine ==
  ASSUME NEW a \in Acceptors, NEW s \in Signatures, NEW h \in Hashes, s.hash = h,
         GenuineAt(a, h)
  PROVE  GenuineAt(AcceptSignature(a, s).acc, h)
  <1>1. a.block # NoBlock => AcceptorEra(a) = EraOf[h]
    BY DEF GenuineAt, AcceptorEra, Blk
  <1>2. EraOf[h] # NoEra
    BY EraOfType
  <1>3. \/ AcceptSignature(a, s).acc = a
        \/ /\ AcceptSignature(a, s).acc = [a EXCEPT !.sigs = a.sigs \cup {s}]
           /\ AcceptorEra(a) = NoEra \/ s.era = AcceptorEra(a)
    BY AcceptSignatureCases
  <1>4. QED
    BY <1>1, <1>2, <1>3 DEF GenuineAt, Acceptors

\* refresh with the acceptor's own era keeps it genuine: it attaches the
\* weights of the body's era and keeps a subset of the signatures.
LEMMA RefreshGenuine ==
  ASSUME NEW a \in Acceptors, NEW h \in Hashes, GenuineAt(a, h)
  PROVE  GenuineAt(Refresh(a, AcceptorEra(a)), h)
  <1>1. a.block # NoBlock => AcceptorEra(a) = EraOf[h]
    BY DEF GenuineAt, AcceptorEra, Blk
  <1>2. QED
    BY <1>1 DEF GenuineAt, Refresh, Acceptors

-----------------------------------------------------------------------------
(* The invariant.                                                          *)

LEMMA InitFInv == Init => FInv
  BY InitTypeOK DEF Init, FInv, AcceptorsGenuine, Tracked

\* get_or_register_acceptor_mut hands back a genuine acceptor of h, or none.
LEMMA GetOrRegisterGenuine ==
  ASSUME TypeOK, AcceptorsGenuine, NEW h \in Hashes, NEW e \in Eras
  PROVE  GetOrRegister(h, e) = NoAcceptor \/ GenuineAt(GetOrRegister(h, e), h)
  BY GetOrRegisterCases, NewGenuine DEF GetOrRegister, AcceptorsGenuine, Tracked

LEMMA NextAcceptorsGenuine ==
  ASSUME FInv, [Next]_vars
  PROVE  AcceptorsGenuine'
  <1> USE DEF FInv
  <1>1. ASSUME NEW sw \in StartingPoints, SyncInstruction(sw) PROVE AcceptorsGenuine'
    BY <1>1, NewGenuine DEF SyncInstruction, Placeholder, AcceptorsGenuine, Tracked, TypeOK
  <1>2. ASSUME NEW b \in Bodies, NEW p \in Peers, RegisterBlock(b, p) PROVE AcceptorsGenuine'
    <2> DEFINE acc == GetOrRegister(b.hash, b.era)
    <2>1. b \in BodyRecords
      BY BodiesType
    <2>2. acc \in Acceptors \cup {NoAcceptor}
      BY <2>1, GetOrRegisterType DEF BodyRecords
    <2>3. acc # NoAcceptor => GenuineAt(acc, b.hash) /\ GenuineAt(AcceptBlock(acc, b).acc, b.hash)
      BY <2>1, <2>2, GetOrRegisterGenuine, AcceptBlockGenuine DEF BodyRecords
    <2>4. QED
      BY <1>2, <2>1, <2>3 DEF RegisterBlock, AcceptorsGenuine, Tracked, TypeOK, BodyRecords
  <1>3. ASSUME NEW s \in Signatures, NEW p \in Peers, RegisterFinalitySignature(s, p)
        PROVE AcceptorsGenuine'
    <2> DEFINE acc == GetOrRegister(s.hash, s.era)
    <2>1. s.hash \in Hashes /\ s.era \in Eras
      BY DEF Signatures
    <2>2. acc \in Acceptors \cup {NoAcceptor}
      BY <2>1, GetOrRegisterType
    <2>3. acc # NoAcceptor => GenuineAt(AcceptSignature(acc, s).acc, s.hash)
      BY <2>1, <2>2, GetOrRegisterGenuine, AcceptSignatureGenuine
    <2>4. QED
      BY <1>3, <2>1, <2>3 DEF RegisterFinalitySignature, AcceptorsGenuine, Tracked, TypeOK
  <1>4. ASSUME RegisterUpdatedValidatorMatrix PROVE AcceptorsGenuine'
    <2>1. \A h \in Hashes : Tracked(h) =>
            GenuineAt(Refresh(block_acceptors[h], AcceptorEra(block_acceptors[h])), h)
      BY RefreshGenuine DEF AcceptorsGenuine, Tracked, TypeOK
    <2>2. QED
      BY <1>4, <2>1 DEF RegisterUpdatedValidatorMatrix, AcceptorsGenuine, Tracked
  <1>5. ASSUME NEW n \in ExecutedHeights, RegisterLocalTip(n) PROVE AcceptorsGenuine'
    BY <1>5 DEF RegisterLocalTip, AcceptorsGenuine, Tracked
  <1>6. ASSUME NEW u \in effects, HandleStored(u) PROVE AcceptorsGenuine'
    BY <1>6 DEF HandleStored, AcceptorsGenuine, Tracked
  <1>7. ASSUME NEW e \in Eras, LearnEra(e) PROVE AcceptorsGenuine'
    BY <1>7 DEF LearnEra, AcceptorsGenuine, Tracked
  <1>8. CASE Tick
    BY <1>8 DEF Tick, AcceptorsGenuine, Tracked
  <1>9. CASE UNCHANGED vars
    BY <1>9 DEF vars, AcceptorsGenuine, Tracked
  <1>10. QED
    BY <1>1, <1>2, <1>3, <1>4, <1>5, <1>6, <1>7, <1>8, <1>9 DEF Next

LEMMA NextFInv == FInv /\ [Next]_vars => FInv'
  BY NextTypeOK, NextAcceptorsGenuine DEF FInv

-----------------------------------------------------------------------------
(* A re-gossiped finality signature is ignored.                            *)

\* What makes register_finality_signature answer "nothing" for every
\* signature an acceptor holds: each matches the acceptor's era once it
\* has one, and has weight in the era of the attached weights.
SigsConsistent(a) ==
    \A t \in a.sigs :
        /\ AcceptorEra(a) # NoEra => t.era = AcceptorEra(a)
        /\ a.era # NoEra => Weight[a.era][t.signer] # 0

AcceptorsConsistent == \A h \in Hashes : Tracked(h) => SigsConsistent(block_acceptors[h])

\* The inductive invariant DuplicateSignatureIgnored needs.
UInv == TypeOK /\ AcceptorsConsistent

\* An acceptor whose signatures are consistent ignores each of them.
LEMMA ConsistentIgnores ==
  ASSUME NEW a \in Acceptors, SigsConsistent(a), NEW s \in a.sigs
  PROVE  AcceptSignature(a, s) = [acc |-> a, out |-> "nothing"]
  BY DEF AcceptSignature, SigsConsistent

LEMMA NewConsistent ==
  ASSUME NEW e
  PROVE  SigsConsistent(NewAcceptor(e))
  BY DEF NewAcceptor, SigsConsistent

\* register_block keeps the weights and only the signatures of the era of
\* the body it takes, which is then the acceptor's era.
LEMMA AcceptBlockConsistent ==
  ASSUME NEW a \in Acceptors, NEW b \in Bodies, SigsConsistent(a)
  PROVE  SigsConsistent(AcceptBlock(a, b).acc)
  <1>1. b \in BodyRecords /\ b # NoBlock
    BY BodiesType, SentinelAssumption DEF SentinelAssumption
  <1>2. CASE AcceptBlock(a, b).out = "ok"
    <2>1. AcceptBlock(a, b).acc = [a EXCEPT !.block = b, !.sigs = {t \in a.sigs : t.era = b.era}]
      BY <1>2 DEF AcceptBlock
    <2>2. QED
      BY <1>1, <2>1 DEF SigsConsistent, AcceptorEra, Acceptors
  <1>3. CASE AcceptBlock(a, b).out # "ok"
    BY <1>3, AcceptBlockType
  <1>4. QED
    BY <1>2, <1>3

\* register_finality_signature adds a signature only past both checks,
\* and keeps the body and the weights.
LEMMA AcceptSignatureConsistent ==
  ASSUME NEW a \in Acceptors, NEW s \in Signatures, SigsConsistent(a)
  PROVE  SigsConsistent(AcceptSignature(a, s).acc)
  <1>1. CASE AcceptSignature(a, s).acc = a
    BY <1>1
  <1>2. CASE /\ AcceptSignature(a, s).acc = [a EXCEPT !.sigs = a.sigs \cup {s}]
             /\ ~(AcceptorEra(a) # NoEra /\ s.era # AcceptorEra(a))
             /\ ~(a.era # NoEra /\ Weight[a.era][s.signer] = 0)
    BY <1>2 DEF SigsConsistent, AcceptorEra, Acceptors
  <1>3. QED
    BY <1>1, <1>2 DEF AcceptSignature

\* refresh with the acceptor's own era attaches that era's weights and
\* keeps only the signatures of that era with weight in it.
LEMMA RefreshConsistent ==
  ASSUME NEW a \in Acceptors, AcceptorEra(a) \in Eras
  PROVE  SigsConsistent(Refresh(a, AcceptorEra(a)))
  <1>1. a.block # NoBlock => a.block.era = AcceptorEra(a)
    BY DEF AcceptorEra
  <1>2. QED
    BY <1>1 DEF Refresh, SigsConsistent, AcceptorEra, Acceptors

\* get_or_register_acceptor_mut hands back a consistent acceptor or nothing.
LEMMA GetOrRegisterConsistent ==
  ASSUME UInv, NEW h \in Hashes, NEW e \in Eras
  PROVE  GetOrRegister(h, e) # NoAcceptor =>
           /\ GetOrRegister(h, e) \in Acceptors
           /\ SigsConsistent(GetOrRegister(h, e))
  <1>1. SigsConsistent(NewAcceptor(WeightsFor(e)))
    BY NewConsistent
  <1>2. QED
    BY <1>1, GetOrRegisterType
       DEF GetOrRegister, UInv, AcceptorsConsistent, Tracked


LEMMA InitUInv == Init => UInv
  BY InitTypeOK DEF Init, UInv, AcceptorsConsistent, Tracked

LEMMA NextAcceptorsConsistent ==
  ASSUME UInv, [Next]_vars
  PROVE  AcceptorsConsistent'
  <1> USE DEF UInv
  <1>1. ASSUME NEW sw \in StartingPoints, SyncInstruction(sw) PROVE AcceptorsConsistent'
    <2>1. SigsConsistent(NewAcceptor(NoEra))
      BY NewConsistent
    <2>2. QED
      BY <1>1, <2>1 DEF SyncInstruction, Placeholder, AcceptorsConsistent, Tracked
  <1>2. ASSUME NEW b \in Bodies, NEW p \in Peers, RegisterBlock(b, p) PROVE AcceptorsConsistent'
    <2> DEFINE acc == GetOrRegister(b.hash, b.era)
    <2>1. b \in BodyRecords
      BY BodiesType
    <2>2. acc # NoAcceptor => acc \in Acceptors /\ SigsConsistent(acc)
      BY <2>1, GetOrRegisterConsistent DEF BodyRecords
    <2>3. acc # NoAcceptor => SigsConsistent(AcceptBlock(acc, b).acc)
      BY <2>2, AcceptBlockConsistent
    <2>4. QED
      BY <1>2, <2>1, <2>2, <2>3
         DEF RegisterBlock, AcceptorsConsistent, Tracked, TypeOK, BodyRecords
  <1>3. ASSUME NEW s \in Signatures, NEW p \in Peers, RegisterFinalitySignature(s, p)
        PROVE AcceptorsConsistent'
    <2> DEFINE acc == GetOrRegister(s.hash, s.era)
    <2>1. s.hash \in Hashes /\ s.era \in Eras
      BY DEF Signatures
    <2>2. acc # NoAcceptor => acc \in Acceptors /\ SigsConsistent(acc)
      BY <2>1, GetOrRegisterConsistent
    <2>3. acc # NoAcceptor => SigsConsistent(AcceptSignature(acc, s).acc)
      BY <2>2, AcceptSignatureConsistent
    <2>4. QED
      BY <1>3, <2>1, <2>3 DEF RegisterFinalitySignature, AcceptorsConsistent, Tracked, TypeOK
  <1>4. ASSUME RegisterUpdatedValidatorMatrix PROVE AcceptorsConsistent'
    <2>1. \A h \in Hashes :
            block_acceptors[h] # NoAcceptor /\ AcceptorEra(block_acceptors[h]) \in validator_eras
              => SigsConsistent(Refresh(block_acceptors[h], AcceptorEra(block_acceptors[h])))
      BY RefreshConsistent DEF TypeOK
    <2>2. QED
      BY <1>4, <2>1 DEF RegisterUpdatedValidatorMatrix, AcceptorsConsistent, Tracked
  <1>5. ASSUME NEW n \in ExecutedHeights, RegisterLocalTip(n) PROVE AcceptorsConsistent'
    BY <1>5 DEF RegisterLocalTip, AcceptorsConsistent, Tracked
  <1>6. ASSUME NEW u \in effects, HandleStored(u) PROVE AcceptorsConsistent'
    BY <1>6 DEF HandleStored, AcceptorsConsistent, Tracked
  <1>7. ASSUME NEW e \in Eras, LearnEra(e) PROVE AcceptorsConsistent'
    BY <1>7 DEF LearnEra, AcceptorsConsistent, Tracked
  <1>8. CASE Tick
    BY <1>8 DEF Tick, AcceptorsConsistent, Tracked
  <1>9. CASE UNCHANGED vars
    BY <1>9 DEF vars, AcceptorsConsistent, Tracked
  <1>10. QED
    BY <1>1, <1>2, <1>3, <1>4, <1>5, <1>6, <1>7, <1>8, <1>9 DEF Next

LEMMA NextUInv == UInv /\ [Next]_vars => UInv'
  BY NextTypeOK, NextAcceptorsConsistent DEF UInv

LEMMA UInvIgnores == UInv => DuplicateSignatureIgnored
  BY ConsistentIgnores DEF UInv, AcceptorsConsistent, DuplicateSignatureIgnored, TypeOK, Tracked

\* Whatever bodies, refreshes, evictions and wrong-era or unweighted
\* signatures arrive in between, register_finality_signature answers
\* "nothing" to a re-gossiped signature an acceptor already holds: it
\* neither stores it twice nor disconnects the peer re-sending it.
THEOREM DuplicatesIgnored == Spec => []DuplicateSignatureIgnored
  <1>1. Spec => []UInv
    BY InitUInv, NextUInv, PTL DEF Spec
  <1>2. QED
    BY <1>1, UInvIgnores, PTL

=============================================================================
