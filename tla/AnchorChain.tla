----------------------------- MODULE AnchorChain ----------------------------
(***************************************************************************)
(* One anchor chain as next_anchor_target sees it: every anchor is mined   *)
(* some time after its parent, at the target its history demands           *)
(* (_validate_anchor_dependencies refuses any other).                      *)
(***************************************************************************)
EXTENDS AnchorDAA

CONSTANTS Intervals,      \* times between an anchor and its parent, in milliseconds
          MaxAnchors      \* bound on the length of the chain

ASSUME ChainAssumption == /\ Intervals \subseteq Nat \ {0}
                          /\ MaxAnchors \in Nat

VARIABLE history          \* the AnchorRecords of the chain, oldest first

ChainInit == history = <<[ts |-> 0, target |-> ANCHOR_INITIAL_TARGET]>>

mine_anchor(interval) ==
  /\ Len(history) < MaxAnchors
  /\ history' = Append(history, [ts     |-> Last(history).ts + interval,
                                 target |-> next_anchor_target(history)])

ChainNext == \E interval \in Intervals : mine_anchor(interval)

ChainSpec == ChainInit /\ [][ChainNext]_history
-----------------------------------------------------------------------------
Targets == ANCHOR_MIN_TARGET..ANCHOR_MAX_TARGET

\* Every target of the chain is one int_to_target can encode, so the division
\* of anchor_work_weight and the movement limits of the next adjustment are defined.
ChainTypeOK == /\ history # << >>
               /\ history \in Seq([ts : Nat, target : Targets])

\* However late or early anchors come, and although the ratio, the movement
\* limits and the bounds are each rounded or clamped on their own, one anchor
\* never moves the target by more than the adjustment factor.
MovementBounded ==
  [][LET previous == Last(history).target
         next     == Last(history').target
     IN  /\ next <= previous * WTEMA_MAX_ADJUSTMENT_FACTOR
         /\ next * WTEMA_MAX_ADJUSTMENT_FACTOR >= previous]_history

\* The intervals the next target is computed from.
Window == LET records == normalize_history(history)
          IN  {records[i + 1].ts - records[i].ts : i \in 1..(Len(records) - 1)}

=============================================================================
