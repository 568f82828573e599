------------------------------ MODULE Finality ------------------------------
(***************************************************************************)
(* The finality tiers of consensus/finality.py, as get_finality of         *)
(* node/node.py reports them: from the blue depth of a fruit below a tip,  *)
(* and from the depth of the anchor that covered it below the best anchor. *)
(***************************************************************************)
EXTENDS BlockDAG

CONSTANTS FAST_BLUE_DEPTH, ECONOMIC_BLUE_DEPTH, SETTLEMENT_BLUE_DEPTH,
          ANCHOR_SECURED_DEPTH, SETTLEMENT_ANCHOR_DEPTH,
          Heights     \* anchor heights

\* The constants of the code are ordered like this.
ASSUME FinalityOrder ==
  /\ {FAST_BLUE_DEPTH, ECONOMIC_BLUE_DEPTH, SETTLEMENT_BLUE_DEPTH,
      ANCHOR_SECURED_DEPTH, SETTLEMENT_ANCHOR_DEPTH} \cup Heights \subseteq Nat
  /\ FAST_BLUE_DEPTH <= ECONOMIC_BLUE_DEPTH /\ ECONOMIC_BLUE_DEPTH <= SETTLEMENT_BLUE_DEPTH
  /\ ANCHOR_SECURED_DEPTH <= SETTLEMENT_ANCHOR_DEPTH

\* The tiers, from none to the strongest.
Rank == [None |-> 0, Seen |-> 1, Fast |-> 2, Economic |-> 3, AnchorSecured |-> 4, Settlement |-> 5]

\* A fruit no anchor covers yet.
Uncovered == -1

\* Inclusive depth below the best anchor, which is never below the covering one.
anchor_depth(covering, tip_height) ==
  IF covering = Uncovered THEN 0 ELSE tip_height - covering + 1

\* The tiers the depths reach.
satisfied_finality_tiers(blue, anchored, seen) ==
  IF ~seen THEN {"None"}
  ELSE {"Seen"} \cup (IF blue >= FAST_BLUE_DEPTH THEN {"Fast"} ELSE {})
                \cup (IF blue >= ECONOMIC_BLUE_DEPTH THEN {"Economic"} ELSE {})
                \cup (IF anchored >= ANCHOR_SECURED_DEPTH THEN {"AnchorSecured"} ELSE {})
                \cup (IF blue >= SETTLEMENT_BLUE_DEPTH /\ anchored >= SETTLEMENT_ANCHOR_DEPTH
                      THEN {"Settlement"} ELSE {})

\* The strongest tier, by the order of the conditions in the code.
finality_tier_from_depths(blue, anchored, seen) ==
  IF ~seen THEN "None"
  ELSE IF blue >= SETTLEMENT_BLUE_DEPTH /\ anchored >= SETTLEMENT_ANCHOR_DEPTH THEN "Settlement"
  ELSE IF anchored >= ANCHOR_SECURED_DEPTH THEN "AnchorSecured"
  ELSE IF blue >= ECONOMIC_BLUE_DEPTH THEN "Economic"
  ELSE IF blue >= FAST_BLUE_DEPTH THEN "Fast"
  ELSE "Seen"

\* _finality_result.
finality_result(blue, anchored, seen) ==
  [tier |-> finality_tier_from_depths(blue, anchored, seen),
   satisfied |-> satisfied_finality_tiers(blue, anchored, seen)]

\* get_finality, from the best tip of the DAG: a fruit the node has not stored is
\* not seen, and one that is not in its DAG has no depth yet.
get_finality(meta, f, has_fruit, best_tip, covering, tip_height) ==
  IF ~has_fruit THEN finality_result(0, 0, FALSE)
  ELSE IF f \notin DOMAIN meta THEN finality_result(0, 0, TRUE)
  ELSE finality_result(blue_depth(meta, f, best_tip), anchor_depth(covering, tip_height), TRUE)

-----------------------------------------------------------------------------
\* What a later answer keeps of an earlier one: the tiers satisfied, and with them
\* the tier reported, which is the strongest.
Keeps(later, earlier) ==
  /\ later.tier \in later.satisfied
  /\ \A t \in later.satisfied : Rank[t] <= Rank[later.tier]
  /\ earlier.satisfied \subseteq later.satisfied
  /\ Rank[earlier.tier] <= Rank[later.tier]

\* The best tip of a larger view carries on from the one of the smaller view: it
\* is the same fruit, or one that selected it.
Extends(meta, tip, next) == next = tip \/ meta[next].selected_parent = tip

\* get_finality measures from the best tip of all fruits, which may jump to a
\* competing branch when a fruit arrives.  A fruit that selected the best tip is
\* the new best tip.  A payment then loses a tier only when the best tip left its
\* branch and the new one does not have the payment's fruit among its blues: in
\* every other case the tiers it satisfied stay satisfied, the tier reported does
\* not fall, and it is the strongest of those satisfied.  What rests on anchors
\* alone is kept even then, as long as the anchors only go on from the best one.
TierFallsOnlyByReorg ==
  [][\A k \in Ks :
     \A meta \in {ghostdag_metadata(blocks, k)}, after \in {ghostdag_metadata(blocks', k)} :
     meta # << >> /\ after # << >> =>
     \A tip \in {best_fruit_tip(blocks, meta)}, next \in {best_fruit_tip(blocks', after)} :
       /\ \A new \in DOMAIN blocks' \ DOMAIN blocks :
            after[new].selected_parent = tip => next = new
       /\ \A f \in DOMAIN blocks', covering \in Heights \cup {Uncovered}, h \in Heights :
            covering <= h =>
            \A before \in {get_finality(meta, f, TRUE, tip, covering, h)}, g \in {h, h + 1} :
            \A covered \in {covering, IF covering = Uncovered THEN g ELSE covering} :
            \A now \in {get_finality(after, f, TRUE, next, covered, g)} :
              /\ Extends(after, tip, next) \/ f \in after[next].blues => Keeps(now, before)
              /\ {"Seen", "AnchorSecured"} \cap before.satisfied \subseteq now.satisfied
    ]_blocks
=============================================================================
