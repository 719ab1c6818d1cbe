-------------------------- MODULE DeviceConfigProofs --------------------------
(***************************************************************************)
(* Theorems of DeviceConfig, for any driver: any set of rates, depths and  *)
(* widths, any bandwidth; and, last, of ConfigRange.                       *)
(***************************************************************************)
EXTENDS DeviceConfig, ConfigRange, SequenceTheorems, TLAPS

\* Before the device serves, nothing is captured; before the rates are listed,
\* none is advertised, no command is executed, and no rate was read back.
Starting ==
  /\ pc # "serving" => capture = "idle"
  /\ pc \in {"open", "width", "session", "pattern", "rates"} =>
       sample_rates = {} /\ op = "none" /\ ~read

\* A capture that no change of the rate overlapped runs at the driver's rate.
CaptureRate == capture # "idle" /\ ~raced => capture_rate = driver_rate

\* Between the change of the rate and its read-back the stored rate is unread.
Unread == op = "rateGet" => ~read

\* TypeOK in three parts: the configuration, the flags and the last header.
ConfigOK ==
  /\ pc \in {"open", "width", "session", "pattern", "rates", "depths", "rate", "depth",
             "serving", "failed"}
  /\ driver_rate \in Rates /\ driver_depth \in Depths /\ driver_width \in Widths
  /\ sample_rates \subseteq Rates /\ sample_depths \subseteq Depths
  /\ sample_rate \in Rates \cup {0} /\ sample_depth \in Depths \cup {0}
  /\ op \in Ops /\ req \in Rates \cup Depths \cup {0} /\ result \in {"ok", "error"}
  /\ before \in Rates \cup {0}
  /\ capture \in {"idle", "running", "done"}
  /\ capture_rate \in Rates \cup {0} /\ capture_width \in Widths \cup {0}
  /\ op # "none" => pc \in {"rate", "depth", "serving"}
  /\ op \in {"rateSet", "rateGet"} => req \in sample_rates /\ before \in Rates

FlagsOK == raced \in BOOLEAN /\ read \in BOOLEAN

HeaderOK ==
  header \in [label : Nat, rate : Nat, channels : Nat, width : Nat, raced : BOOLEAN,
             read : BOOLEAN] \cup {Unknown}

LEMMA Parts == TypeOK <=> ConfigOK /\ FlagsOK /\ HeaderOK
BY DEF TypeOK, ConfigOK, FlagsOK, HeaderOK

\* The flags stay Booleans.
LEMMA FlagsKept == FlagsOK /\ [Next]_vars => FlagsOK'
<1> SUFFICES ASSUME FlagsOK, [Next]_vars PROVE FlagsOK'
  OBVIOUS
<1> USE DEF FlagsOK, data
<1>1. CASE OpenDevice \/ OpenSession \/ OpenFails \/ SetWidth \/ SetPattern \/ ListFails
  BY <1>1 DEF OpenDevice, OpenSession, OpenFails, SetWidth, SetPattern, ListFails
<1>2. CASE ListRates \/ ListDepths \/ DepthSet
  BY <1>2 DEF ListRates, ListDepths, DepthSet
<1>3. ASSUME NEW r \in Rates, RateCommand(r) PROVE FlagsOK'
  BY <1>3 DEF RateCommand
<1>4. CASE RateSet
  BY <1>4 DEF RateSet
<1>5. CASE RateGet
  BY <1>5 DEF RateGet
<1>6. ASSUME NEW d \in Depths, DepthCommand(d) PROVE FlagsOK'
  BY <1>6 DEF DepthCommand
<1>7. CASE SessionStart
  BY <1>7 DEF SessionStart, DataOnly
<1>8. CASE SessionEnd \/ Discard \/ SendWaveform
  BY <1>8 DEF SessionEnd, Discard, SendWaveform, DataOnly
<1>9. CASE UNCHANGED vars
  BY <1>9 DEF vars
<1>. QED
  BY <1>1, <1>2, <1>3, <1>4, <1>5, <1>6, <1>7, <1>8, <1>9 DEF Next

\* A DEPTH command in progress carries the depth it was called with.
DepthAsked == op = "depthSet" => req \in Depths

\* The configuration keeps to its type.
LEMMA ConfigKept == ConfigOK /\ Starting /\ DepthAsked /\ [Next]_vars => ConfigOK' /\ DepthAsked'
<1> SUFFICES ASSUME ConfigOK, Starting, DepthAsked, [Next]_vars PROVE ConfigOK' /\ DepthAsked'
  OBVIOUS
<1> USE DEF ConfigOK, Ops, DepthAsked
<1>1. CASE OpenDevice \/ OpenSession \/ OpenFails \/ SetPattern \/ ListFails
  BY <1>1 DEF OpenDevice, OpenSession, OpenFails, SetPattern, ListFails, Start, driver, lists,
     active, command, data, Starting
<1>2. CASE SetWidth
  BY <1>2 DEF SetWidth, Start, lists, active, command, data, Starting
<1>3. CASE ListRates
  BY <1>3 DEF ListRates, Start, driver, active, command, data, Supported, Starting
<1>4. CASE ListDepths
  BY <1>4 DEF ListDepths, Start, driver, active, command, data
<1>5. ASSUME NEW r \in Rates, RateCommand(r) PROVE ConfigOK' /\ DepthAsked'
  BY <1>5 DEF RateCommand, CallRate, Return, Returned, driver, lists, active, data
<1>6. CASE RateSet
  BY <1>6 DEF RateSet, Return, Returned, lists, active, Supported
<1>7. CASE RateGet
  BY <1>7 DEF RateGet, Return, Returned, driver, lists, data
<1>8. ASSUME NEW d \in Depths, DepthCommand(d) PROVE ConfigOK' /\ DepthAsked'
  BY <1>8 DEF DepthCommand, driver, lists, active, data
<1>9. CASE DepthSet
  BY <1>9 DEF DepthSet, Return, Returned, lists, data
<1>10. CASE SessionStart
  BY <1>10 DEF SessionStart, DataOnly, driver, lists, active, command
<1>11. CASE SessionEnd
  BY <1>11 DEF SessionEnd, DataOnly, driver, lists, active, command
<1>12. CASE Discard
  BY <1>12 DEF Discard, DataOnly, driver, lists, active, command
<1>13. CASE SendWaveform
  BY <1>13 DEF SendWaveform, DataOnly, driver, lists, active, command
<1>14. CASE UNCHANGED vars
  BY <1>14 DEF vars, driver, lists, active, command, data
<1>. QED
  BY <1>1, <1>2, <1>3, <1>4, <1>5, <1>6, <1>7, <1>8, <1>9, <1>10, <1>11, <1>12, <1>13,
     <1>14
  DEF Next

\* Only SendWaveform writes a header.
LEMMA HeaderStays == [Next]_vars => header' = header \/ SendWaveform
BY DEF Next, OpenDevice, OpenSession, OpenFails, SetPattern, ListFails, SetWidth, ListRates,
   ListDepths, RateCommand, RateSet, RateGet, DepthCommand, DepthSet, SessionStart,
   SessionEnd, Discard, vars, data

\* The header keeps to its type.
LEMMA HeaderKept == ConfigOK /\ FlagsOK /\ HeaderOK /\ [Next]_vars => HeaderOK'
<1>1. ASSUME ConfigOK, FlagsOK, SendWaveform PROVE HeaderOK'
  BY <1>1, RatesAssumption, WidthAssumption
  DEF SendWaveform, Header, ConfigOK, FlagsOK, HeaderOK
<1>2. ASSUME HeaderOK, header' = header PROVE HeaderOK'
  BY <1>2 DEF HeaderOK
<1>. QED
  BY <1>1, <1>2, HeaderStays

Labels == RateRead /\ CaptureRate /\ Unread

Inv ==
  /\ ConfigOK /\ FlagsOK /\ HeaderOK /\ DepthAsked
  /\ Starting /\ Labels /\ AdvertisedSupported /\ LabelHonest

\* The start has nothing captured, advertised or asked for too early.
LEMMA StartingKept == Inv /\ [Next]_vars => Starting' /\ AdvertisedSupported'
<1> SUFFICES ASSUME ConfigOK, Starting, AdvertisedSupported, [Next]_vars
             PROVE  Starting' /\ AdvertisedSupported'
  BY DEF Inv
<1> USE DEF Starting, AdvertisedSupported
<1>1. CASE OpenDevice \/ OpenSession \/ OpenFails \/ SetPattern \/ ListFails
  BY <1>1 DEF OpenDevice, OpenSession, OpenFails, SetPattern, ListFails, Start, driver, lists,
     active, command, data
<1>2. CASE SetWidth
  BY <1>2 DEF SetWidth, Start, lists, active, command, data
<1>3. CASE ListRates
  BY <1>3 DEF ListRates, Start, driver, active, command, data
<1>4. CASE ListDepths
  BY <1>4 DEF ListDepths, Start, driver, active, command, data
<1>5. ASSUME NEW r \in Rates, RateCommand(r) PROVE Starting' /\ AdvertisedSupported'
  BY <1>5 DEF RateCommand, CallRate, Return, Returned, driver, lists, active, data
<1>6. CASE RateSet
  BY <1>6 DEF RateSet, Return, Returned, lists, active, ConfigOK
<1>7. CASE RateGet
  BY <1>7 DEF RateGet, Return, Returned, driver, lists, data, ConfigOK
<1>8. ASSUME NEW d \in Depths, DepthCommand(d) PROVE Starting' /\ AdvertisedSupported'
  BY <1>8 DEF DepthCommand, driver, lists, active, data
<1>9. CASE DepthSet
  BY <1>9 DEF DepthSet, Return, Returned, lists, data, ConfigOK
<1>10. CASE SessionStart
  BY <1>10 DEF SessionStart, DataOnly, driver, lists, active, command
<1>11. CASE SessionEnd
  BY <1>11 DEF SessionEnd, DataOnly, driver, lists, active, command
<1>12. CASE Discard
  BY <1>12 DEF Discard, DataOnly, driver, lists, active, command
<1>13. CASE SendWaveform
  BY <1>13 DEF SendWaveform, DataOnly, driver, lists, active, command
<1>14. CASE UNCHANGED vars
  BY <1>14 DEF vars, driver, lists, active, command, data
<1>. QED
  BY <1>1, <1>2, <1>3, <1>4, <1>5, <1>6, <1>7, <1>8, <1>9, <1>10, <1>11, <1>12, <1>13,
     <1>14
  DEF Next

\* The stored rate, the driver's and the capture's stay related.
LEMMA LabelsKept == Inv /\ [Next]_vars => Labels'
<1> SUFFICES ASSUME ConfigOK, Starting, RateRead, CaptureRate, Unread, [Next]_vars
             PROVE  Labels'
  BY DEF Inv, Labels
<1> USE DEF Labels, RateRead, CaptureRate, Unread
<1>1. CASE OpenDevice \/ OpenSession \/ OpenFails \/ SetPattern \/ ListFails
  BY <1>1 DEF OpenDevice, OpenSession, OpenFails, SetPattern, ListFails, driver, active,
     command, data
<1>2. CASE SetWidth
  BY <1>2 DEF SetWidth, Start, active, command, data, Starting
<1>3. CASE ListRates
  BY <1>3 DEF ListRates, driver, active, command, data
<1>4. CASE ListDepths
  BY <1>4 DEF ListDepths, driver, active, command, data
<1>5. ASSUME NEW r \in Rates, RateCommand(r) PROVE Labels'
  BY <1>5 DEF RateCommand, CallRate, Return, driver, active, data
<1>6. CASE RateSet
  <2>1. CASE Return("error") /\ UNCHANGED <<driver_rate, raced, read>>
    BY <1>6, <2>1 DEF RateSet, Return, active
  <2>2. CASE ~read' /\ raced' = (capture # "idle")
    <3>1. capture' # "idle" => raced'
      BY <1>6, <2>2 DEF RateSet
    <3>. QED
      BY <2>2, <3>1
  <2>. QED
    BY <1>6, <2>1, <2>2 DEF RateSet
<1>7. CASE RateGet
  BY <1>7 DEF RateGet, Return, driver, data
<1>8. ASSUME NEW d \in Depths, DepthCommand(d) PROVE Labels'
  BY <1>8 DEF DepthCommand, driver, active, data
<1>9. CASE DepthSet
  BY <1>9 DEF DepthSet, Return, data
<1>10. CASE SessionStart
  BY <1>10 DEF SessionStart, DataOnly, driver, active, command
<1>11. CASE SessionEnd
  BY <1>11 DEF SessionEnd, DataOnly, driver, active, command
<1>12. CASE Discard
  BY <1>12 DEF Discard, DataOnly, driver, active, command
<1>13. CASE SendWaveform
  BY <1>13 DEF SendWaveform, DataOnly, driver, active, command
<1>14. CASE UNCHANGED vars
  BY <1>14 DEF vars, driver, active, command, data
<1>. QED
  BY <1>1, <1>2, <1>3, <1>4, <1>5, <1>6, <1>7, <1>8, <1>9, <1>10, <1>11, <1>12, <1>13,
     <1>14
  DEF Next

\* A header is labelled with the capture's rate when it is written.
LEMMA LabelKept == Inv /\ [Next]_vars => LabelHonest'
<1>1. ASSUME Inv, SendWaveform PROVE LabelHonest'
  BY <1>1 DEF SendWaveform, Header, Inv, Labels, RateRead, CaptureRate, LabelHonest
<1>2. ASSUME Inv, header' = header PROVE LabelHonest'
  BY <1>2 DEF Inv, LabelHonest
<1>. QED
  BY <1>1, <1>2, HeaderStays

\* The invariant holds in every behaviour.
LEMMA Invariant == Spec => []Inv
<1>1. Init => Inv
  BY DEF Init, Inv, ConfigOK, FlagsOK, HeaderOK, DepthAsked, Ops, Starting, Labels, RateRead,
         CaptureRate, Unread, LabelHonest, AdvertisedSupported
<1>2. Inv /\ [Next]_vars => Inv'
  BY ConfigKept, FlagsKept, HeaderKept, StartingKept, LabelsKept, LabelKept DEF Inv
<1>. QED
  BY <1>1, <1>2, PTL DEF Spec

\* While commands change the configuration under captures, every variable keeps
\* to its type, and a command in progress has an advertised rate.
THEOREM ConfigTyped == Spec => []TypeOK
<1>1. Inv => TypeOK
  BY Parts DEF Inv
<1>. QED
  BY <1>1, Invariant, PTL

\* send_waveform labels a waveform with the rate it was captured at, unless a
\* RATE command overlapped the capture or could not read the rate back.
THEOREM LabelsHonest == Spec => []LabelHonest
BY Invariant, PTL DEF Inv

\* What RATES? advertises the driver supports at the width it captures with.
THEOREM RatesSupported == Spec => []AdvertisedSupported
BY Invariant, PTL DEF Inv

-----------------------------------------------------------------------------
(***************************************************************************)
(* The lists of rates and depths, where the driver gives a range: the loop *)
(* of ConfigRange, for any range, any width of the counter and any limit.  *)
(***************************************************************************)
\* The i-th value of the range, counted from 0.
Nth(i) == IF min + i * step > MaxU64 THEN MaxU64 ELSE min + i * step

\* The counter is the value that comes next, and one step past the last.
Counted ==
  /\ val = Nth(Len(values)) /\ IsRange(values)
  /\ values # <<>> => /\ values[Len(values)] <= max
                      /\ val = SaturatingAdd(values[Len(values)], step)

ListTyped ==
  /\ at \in {"check", "loop", "done"} /\ min \in Nat /\ max \in 0 .. MaxU64 /\ step \in Nat
  /\ val \in Nat /\ values \in Seq(Nat)

ListInv ==
  /\ at = "check" => values = <<>> /\ val = min /\ min <= MaxU64
  /\ at = "loop" => ~Invalid /\ Len(values) <= Limit
  /\ at # "check" /\ ~Invalid => Counted
  /\ at = "done" => /\ Len(values) <= Limit + 1
                    /\ ~Invalid => values # <<>> /\ (Len(values) <= Limit => val > max)

LEMMA NthNext ==
  ASSUME min \in Nat, step \in Nat, NEW i \in Nat
  PROVE  Nth(i + 1) = SaturatingAdd(Nth(i), step)
<1>1. (i + 1) * step = i * step + step /\ i * step \in Nat
  OBVIOUS
<1>2. min + (i + 1) * step = (min + i * step) + step
  BY <1>1
<1>3. QED  BY <1>1, <1>2, RangeAssumption DEF Nth, SaturatingAdd

LEMMA ListInit == RangeInit => ListTyped /\ ListInv
<1> SUFFICES ASSUME RangeInit PROVE ListTyped /\ ListInv
  OBVIOUS
<1>1. values \in Seq(Nat)
  BY EmptySeq, Zenon DEF RangeInit
<1>2. QED  BY <1>1 DEF RangeInit, U64, ListTyped, ListInv

LEMMA ListStep ==
  ASSUME ListTyped, ListInv, [RangeNext]_rangeVars
  PROVE  ListTyped' /\ ListInv'
<1>1. CASE UNCHANGED rangeVars
  BY <1>1 DEF rangeVars, range, ListTyped, ListInv, Counted, Nth, IsRange,
              Invalid, SaturatingAdd
<1>2. CASE CheckInvalid
  <2>1. /\ at' = "done" /\ values' = <<min>> /\ UNCHANGED <<min, max, step, val>>
        /\ Invalid
    BY <1>2 DEF CheckInvalid, range
  <2>2. ListTyped' /\ Len(values') = 1
    BY <2>1 DEF ListTyped
  <2>3. Invalid'
    BY <2>1 DEF Invalid
  <2>4. QED  BY <2>1, <2>2, <2>3, RangeAssumption DEF ListInv
<1>3. CASE Check
  <2>1. /\ at' = "loop" /\ UNCHANGED <<min, max, step, val, values>>
        /\ ~Invalid /\ values = <<>> /\ val = min /\ min <= MaxU64
    BY <1>3 DEF Check, range, ListInv
  <2>2. Len(values) = 0 /\ min + 0 * step = min
    BY <2>1 DEF ListTyped
  <2>3. val = Nth(Len(values)) /\ IsRange(values)
    BY <2>1, <2>2, RangeAssumption DEF Nth, IsRange, ListTyped
  <2>4. Counted' /\ ~Invalid'
    BY <2>1, <2>3 DEF Counted, Nth, IsRange, Invalid
  <2>5. QED  BY <2>1, <2>2, <2>4, RangeAssumption DEF ListTyped, ListInv
<1>4. CASE Expand
  <2>1. /\ at = "loop" /\ val <= max /\ values' = Append(values, val)
        /\ val' = SaturatingAdd(val, step) /\ UNCHANGED <<min, max, step>>
        /\ at' = IF Len(values') > Limit THEN "done" ELSE "loop"
    BY <1>4 DEF Expand, InRange, Full, range
  <2>2. /\ values' \in Seq(Nat) /\ Len(values') = Len(values) + 1 /\ values'[Len(values')] = val
        /\ \A i \in 1 .. Len(values) : values'[i] = values[i]
        /\ Len(values) \in Nat
    BY <2>1, AppendProperties, LenProperties DEF ListTyped
  <2>3. Counted /\ ~Invalid /\ Len(values) <= Limit
    BY <2>1 DEF ListInv
  <2>4. IsRange(values')
    <3> SUFFICES ASSUME NEW i \in 1 .. Len(values')
                 PROVE  values'[i] = Nth(i - 1)
      BY DEF IsRange, Nth
    <3>1. CASE i \in 1 .. Len(values)
      BY <2>2, <2>3, <3>1 DEF Counted, IsRange, Nth
    <3>2. CASE i = Len(values')
      <4>1. i - 1 = Len(values)
        BY <2>2, <3>2
      <4>2. QED  BY <2>2, <2>3, <3>2, <4>1 DEF Counted
    <3>3. QED  BY <2>2, <3>1, <3>2
  <2>5. val' = Nth(Len(values) + 1)
    BY <2>1, <2>2, <2>3, NthNext DEF Counted, ListTyped
  <2>6. Counted'
    <3>1. IsRange(values)'
      BY <2>1, <2>4 DEF IsRange
    <3>2. val' = Nth(Len(values))'
      BY <2>1, <2>2, <2>5 DEF Nth
    <3>3. (values # <<>> => /\ values[Len(values)] <= max
                            /\ val = SaturatingAdd(values[Len(values)], step))'
      BY <2>1, <2>2 DEF SaturatingAdd
    <3>4. QED  BY <3>1, <3>2, <3>3 DEF Counted
  <2>7. ListTyped'
    BY <2>1, <2>2, RangeAssumption DEF ListTyped, SaturatingAdd
  <2>8. ~Invalid' /\ values' # <<>>
    BY <2>1, <2>2, <2>3 DEF Invalid
  <2>9. QED  BY <2>1, <2>2, <2>3, <2>6, <2>7, <2>8, RangeAssumption DEF ListInv, ListTyped
<1>5. CASE ExpandEnds
  <2>1. /\ at = "loop" /\ at' = "done" /\ val > max /\ UNCHANGED <<min, max, step, val, values>>
    BY <1>5 DEF ExpandEnds, InRange, range, ListTyped
  <2>2. Counted /\ ~Invalid /\ Len(values) <= Limit
    BY <2>1 DEF ListInv
  \* An empty values would mean that min is past max.
  <2>3. values # <<>>
    <3>1. SUFFICES ASSUME values = <<>> PROVE FALSE
      OBVIOUS
    <3>2. Len(values) = 0 /\ min + 0 * step = min
      BY <3>1 DEF ListTyped
    <3>3. val = Nth(0)
      BY <2>2, <3>2 DEF Counted
    <3>4. val <= min
      BY <3>2, <3>3 DEF Nth, ListTyped
    <3>5. QED  BY <2>1, <2>2, <3>4 DEF Invalid, ListTyped
  <2>4. Counted' /\ ~Invalid'
    BY <2>1, <2>2 DEF Counted, Nth, IsRange, Invalid, SaturatingAdd
  <2>5. Len(values) \in Nat
    BY LenProperties DEF ListTyped
  <2>6. QED  BY <2>1, <2>2, <2>3, <2>4, <2>5, RangeAssumption DEF ListTyped, ListInv
<1>6. QED  BY <1>1, <1>2, <1>3, <1>4, <1>5 DEF RangeNext

LEMMA ListExpanded == ListTyped /\ ListInv => Expansion
<1> SUFFICES ASSUME ListTyped, ListInv PROVE Expansion
  OBVIOUS
<1>1. Len(values) \in Nat /\ (values = <<>> => Len(values) = 0)
  BY LenProperties DEF ListTyped
<1>2. Len(values) <= Limit + 1
  BY <1>1, RangeAssumption DEF ListInv, ListTyped
<1>3. ASSUME at = "done", ~Invalid
      PROVE  /\ IsRange(values) /\ values # <<>> /\ values[Len(values)] <= max
             /\ Len(values) <= Limit => values[Len(values)] + step > max
  <2>1. Counted /\ values # <<>> /\ (Len(values) <= Limit => val > max)
    BY <1>3 DEF ListInv
  <2>2. values[Len(values)] \in Nat
    BY <2>1, ElementOfSeq, <1>1, LenProperties DEF ListTyped
  <2>3. val <= values[Len(values)] + step
    BY <2>1, <2>2 DEF Counted, SaturatingAdd, ListTyped
  <2>4. QED  BY <2>1, <2>2, <2>3 DEF Counted, ListTyped
<1>4. QED  BY <1>2, <1>3 DEF Expansion

\* parse_gvariant_uint64_list: for any range a driver gives, the list begins with
\* min, goes on by step, ends at max and misses no value, unless it was cut at
\* the limit, which it exceeds by one value at most.
THEOREM RangeExpanded == RangeSpec => []Expansion
<1>1. RangeInit => ListTyped /\ ListInv
  BY ListInit
<1>2. ListTyped /\ ListInv /\ [RangeNext]_rangeVars => (ListTyped /\ ListInv)'
  BY ListStep
<1>3. ListTyped /\ ListInv => Expansion
  BY ListExpanded
<1>4. QED  BY <1>1, <1>2, <1>3, PTL DEF RangeSpec
=============================================================================
