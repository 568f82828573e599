----------------------------- MODULE AnchorDAA ------------------------------
(***************************************************************************)
(* consensus/anchor_daa.py: the WTEMA target of the next anchor, computed  *)
(* from a bounded suffix of its parent chain, and the work weight of a     *)
(* target.  A history is a sequence of records [ts, target], oldest first; *)
(* targets are the integers the code decodes from 32 little-endian bytes.  *)
(***************************************************************************)
EXTENDS Integers, SequencesExt

CONSTANTS ANCHOR_INITIAL_TARGET, ANCHOR_MIN_TARGET, ANCHOR_MAX_TARGET,
          FRUIT_TARGET,                  \* the permanent fruit target
          ANCHOR_INTERVAL_MS,            \* scheduled time between anchors
          WTEMA_WINDOW_ANCHORS,          \* intervals averaged
          WTEMA_ALPHA_NUM, WTEMA_ALPHA_DEN,
          WTEMA_MAX_ADJUSTMENT_FACTOR,
          FIXED_POINT_SCALE,
          U64_MAX

ASSUME DAAAssumption ==
  /\ {ANCHOR_INITIAL_TARGET, ANCHOR_MIN_TARGET, ANCHOR_MAX_TARGET, FRUIT_TARGET,
      ANCHOR_INTERVAL_MS, WTEMA_WINDOW_ANCHORS, WTEMA_ALPHA_NUM, WTEMA_ALPHA_DEN,
      WTEMA_MAX_ADJUSTMENT_FACTOR, FIXED_POINT_SCALE, U64_MAX} \subseteq Nat \ {0}
  /\ ANCHOR_MIN_TARGET <= ANCHOR_INITIAL_TARGET
  /\ ANCHOR_INITIAL_TARGET <= ANCHOR_MAX_TARGET
  /\ WTEMA_ALPHA_NUM < WTEMA_ALPHA_DEN

\* min(max(value, low), high), for low <= high.
clamp(value, low, high) ==
  IF value \in low..high THEN value ELSE IF value < low THEN low ELSE high

ceil_div(n, d) == (n + d - 1) \div d

clamp_interval(interval_ms) ==
  clamp(interval_ms, ANCHOR_INTERVAL_MS \div WTEMA_MAX_ADJUSTMENT_FACTOR,
                     ANCHOR_INTERVAL_MS * WTEMA_MAX_ADJUSTMENT_FACTOR)

\* The last WTEMA_WINDOW_ANCHORS + 1 records, all that the target depends on.
normalize_history(history) ==
  SubSeq(history, IF Len(history) > WTEMA_WINDOW_ANCHORS
                    THEN Len(history) - WTEMA_WINDOW_ANCHORS ELSE 1, Len(history))

recent_intervals(records) ==
  [i \in 1..(Len(records) - 1) |-> clamp_interval(records[i + 1].ts - records[i].ts)]

wtema_ratio_fp(intervals) ==
  LET Step(ratio, interval_ms) ==
        LET sample == (interval_ms * FIXED_POINT_SCALE) \div ANCHOR_INTERVAL_MS
        IN  ((WTEMA_ALPHA_DEN - WTEMA_ALPHA_NUM) * ratio + WTEMA_ALPHA_NUM * sample)
              \div WTEMA_ALPHA_DEN
  IN  FoldLeft(Step, FIXED_POINT_SCALE, intervals)

\* Faulty: the movement is not limited.
adjust_without_movement_limit(previous, ratio_fp) ==
  clamp((previous * ratio_fp) \div FIXED_POINT_SCALE, ANCHOR_MIN_TARGET, ANCHOR_MAX_TARGET)

\* A target moved by a ratio: at most the adjustment factor, and within bounds.
adjust_target(previous, ratio_fp) ==
  LET scaled == (previous * ratio_fp) \div FIXED_POINT_SCALE
      moved  == clamp(IF scaled >= 1 THEN scaled ELSE 1,
                      ceil_div(previous, WTEMA_MAX_ADJUSTMENT_FACTOR),
                      previous * WTEMA_MAX_ADJUSTMENT_FACTOR)
  IN  clamp(moved, ANCHOR_MIN_TARGET, ANCHOR_MAX_TARGET)

next_anchor_target(history) ==
  LET records == normalize_history(history)
  IN  IF history = << >> THEN ANCHOR_INITIAL_TARGET
      ELSE IF Len(records) = 1 THEN Last(records).target
      ELSE adjust_target(Last(records).target,
                         wtema_ratio_fp(recent_intervals(records)))

anchor_work_weight(target) ==
  LET weight == FRUIT_TARGET \div target
  IN  IF weight \in 0..U64_MAX THEN weight ELSE U64_MAX
=============================================================================
