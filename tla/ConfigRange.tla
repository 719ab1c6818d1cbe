------------------------------ MODULE ConfigRange ------------------------------
(***************************************************************************)
(* The expansion of a driver's (min, max, step) range into the discrete    *)
(* values that RATES? and DEPTHS? advertise and set_rate accepts           *)
(* (parse_gvariant_uint64_list, case "(ttt)"): a loop whose counter        *)
(* saturates at the largest 64-bit number, and which gives up when the     *)
(* list grows past Limit.                                                  *)
(***************************************************************************)
EXTENDS Naturals, Sequences

CONSTANTS
  MaxU64,  \* the largest u64: 2^64 - 1, smaller in a model
  Limit    \* 1000, smaller in a model

ASSUME RangeAssumption == MaxU64 \in Nat /\ Limit \in Nat

VARIABLES
  at,
  min, max, step,  \* the range, as the driver gives it
  val, values

range     == <<min, max, step>>
rangeVars == <<at, range, val, values>>

U64 == 0 .. MaxU64

RangeInit ==
  /\ at = "check" /\ min \in U64 /\ max \in U64 /\ step \in U64
  /\ val = min /\ values = <<>>

\* "step == 0 || min > max".
Invalid == step = 0 \/ min > max

CheckInvalid ==
  /\ at = "check" /\ Invalid /\ at' = "done" /\ values' = <<min>>
  /\ UNCHANGED <<range, val>>

Check == /\ at = "check" /\ ~Invalid /\ at' = "loop" /\ UNCHANGED <<range, val, values>>

\* Variant: the counter wraps.
WrappingAdd(a, b) == (a + b) % (MaxU64 + 1)

\* u64::saturating_add.
SaturatingAdd(a, b) == IF a + b > MaxU64 THEN MaxU64 ELSE a + b

InRange == val <= max

Full(seq) == Len(seq) > Limit

Expand ==
  /\ at = "loop" /\ InRange
  /\ values' = Append(values, val) /\ val' = SaturatingAdd(val, step)
  /\ at' = IF Full(values') THEN "done" ELSE "loop"
  /\ UNCHANGED range

ExpandEnds == at = "loop" /\ ~InRange /\ at' = "done" /\ UNCHANGED <<range, val, values>>

RangeNext == CheckInvalid \/ Check \/ Expand \/ ExpandEnds

RangeSpec == RangeInit /\ [][RangeNext]_rangeVars

-----------------------------------------------------------------------------
RangeTypeOK ==
  /\ at \in {"check", "loop", "done"}
  /\ min \in U64 /\ max \in U64 /\ step \in U64
  /\ val \in U64 /\ values \in Seq(U64) /\ Len(values) <= Limit + 1

\* What a range stands for: min, min + step, ..., capped at the largest number,
\* which the counter does not get past.
IsRange(seq) ==
  \A i \in 1 .. Len(seq) :
    seq[i] = IF min + (i - 1) * step > MaxU64 THEN MaxU64 ELSE min + (i - 1) * step

\* The advertised values are those of the range: the loop begins with min, goes
\* on by step, ends at max, and misses none unless the list was cut at the
\* limit, which it exceeds by one value at most.  (A range that reaches the
\* largest number repeats it up to there.)
Expansion ==
  /\ Len(values) <= Limit + 1
  /\ (at = "done" /\ ~Invalid) =>
    /\ IsRange(values) /\ values # <<>> /\ values[Len(values)] <= max
    /\ Len(values) <= Limit => values[Len(values)] + step > max
=============================================================================
