---------------------- MODULE BlockAccumulatorLifecycle ----------------------
(***************************************************************************)
(* The accumulator seen through the acceptor lifecycle of spec sections 3 *)
(* and 4.2: each hash is mapped to the phase its acceptor is in, or to     *)
(* Handled / Absent when the map has no acceptor for it, and the local    *)
(* tip to the abstract tip.                                                *)
(***************************************************************************)
EXTENDS BlockAccumulator

\* The phase of spec section 4.2 an acceptor is in.
AcceptorPhase(a) ==
    IF HasSufficientFinality(a) THEN "Sufficient"
    ELSE IF a.block # NoBlock THEN "BodyKnown"
    ELSE IF a.sigs # {} THEN "Accumulating"
    ELSE "Empty"

\* The phase of hash h: its acceptor's, else Handled or Absent.
PhaseOf(h) ==
    IF Tracked(h) THEN AcceptorPhase(block_acceptors[h])
    ELSE IF h \in already_handled THEN "Handled" ELSE "Absent"

Lifecycle == INSTANCE AcceptorLifecycle
                 WITH phase <- [h \in Hashes |-> PhaseOf(h)],
                      tip <- local_tip,
                      InitTip <- InitLocalTip

\* Every behaviour of the accumulator is one of the lifecycle: no step
\* (sync_instruction's placeholder at line 177, a refresh, a purge on the
\* body's era, a re-registration) takes an acceptor out of Sufficient or
\* loses a known body without discarding the acceptor, revives a handled
\* hash, or lowers the local tip.
LifecycleRefined == Lifecycle!LifecycleSpec

=============================================================================
