------------------------- MODULE AcceptorLifecycle -------------------------
(***************************************************************************)
(* What the accumulator promises about each block hash, abstracted from   *)
(* its data: spec section 3 (acceptors are created lazily for a hash that *)
(* is neither known nor already handled, destroyed when discarded or       *)
(* superseded by the local tip, and a handled hash is never registered    *)
(* again; the local tip never decreases) and the acceptor state machine   *)
(* of section 4.2 (Empty -> BodyKnown / SignaturesAccumulating ->         *)
(* Sufficient, Sufficient being terminal while the acceptor lives).       *)
(***************************************************************************)
EXTENDS Integers

CONSTANTS
    Hashes,     \* block hashes
    InitTip     \* the initial local tip (an integer; -1 for none)

VARIABLES
    phase,      \* phase[h]: where hash h is in its lifecycle
    tip         \* the local tip

Live == {"Empty", "Accumulating", "BodyKnown", "Sufficient"}
Phases == Live \cup {"Absent", "Handled"}

\* The moves of an acceptor that stays in the registry: signatures and the
\* body accumulate, a refresh or the body's era may purge the signatures of
\* an acceptor without body, and nothing leaves Sufficient.
Moves ==
    {<<"Empty", "Accumulating">>, <<"Empty", "BodyKnown">>, <<"Empty", "Sufficient">>,
     <<"Accumulating", "Empty">>, <<"Accumulating", "BodyKnown">>,
     <<"Accumulating", "Sufficient">>, <<"BodyKnown", "Sufficient">>}

\* One hash in a gossip, sync or refresh step: it keeps its phase, moves,
\* is created when absent, or is discarded (and may be recreated later).
Step(p, q) ==
    \/ p = q
    \/ <<p, q>> \in Moves
    \/ p = "Absent" /\ q \in Live
    \/ p \in Live /\ q = "Absent"

LifecycleTypeOK == phase \in [Hashes -> Phases] /\ tip \in Int

LifecycleInit == phase = [h \in Hashes |-> "Absent"] /\ tip = InitTip

\* Gossip, sync requests and refreshes leave the tip alone.
Update ==
    /\ \A h \in Hashes : Step(phase[h], phase'[h])
    /\ tip' = tip

\* Execution: the tip does not decrease, and live acceptors may retire
\* for good.
Retire ==
    /\ tip' >= tip
    /\ \A h \in Hashes : phase'[h] = phase[h] \/ (phase[h] \in Live /\ phase'[h] = "Handled")

LifecycleNext == Update \/ Retire

LifecycleSpec == LifecycleInit /\ [][LifecycleNext]_<<phase, tip>>

=============================================================================
