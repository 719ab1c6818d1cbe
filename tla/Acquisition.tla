----------------------------- MODULE Acquisition -----------------------------
(***************************************************************************)
(* One acquire() after another, with the samples in it: what the datafeed  *)
(* callback collects, the mark that FORCE leaves, the software scan for an *)
(* edge (find_trigger_digital, find_trigger_analog) with the state it      *)
(* carries from capture to capture, the crop that anchors the trigger, and *)
(* the buffer that run_data_thread delivers.                               *)
(*                                                                         *)
(* A digital bit and an analog byte differ in how a sample is compared: a  *)
(* sample is a value, and a key has the level from which it is "above"     *)
(* (1 for a bit).  Time is counted in samples; a packet of the driver      *)
(* holds whole samples.  Commands come between captures here: what they do *)
(* to a capture in progress is BridgeServer's subject.                     *)
(***************************************************************************)
EXTENDS Integers, Sequences

CONSTANTS
  MaxValue,    \* samples are 0 .. MaxValue: 255, smaller in a model
  Present,     \* sources that are part of a sample
  Absent,      \* sources that parse but lie behind the capture width
  Unparsed,    \* source names that are no D or A channel
  Hardware,    \* the driver may report a trigger of its own
  Pretrigger,  \* samples kept in front of the trigger
  MaxLen,      \* bound: samples in a capture
  None         \* no source, no key, no state, no sample

ASSUME BoundAssumption == /\ MaxValue \in Nat /\ Pretrigger \in Nat /\ MaxLen \in Nat
                          /\ Hardware \in BOOLEAN

Sides  == {"above", "below"}
Sample == 0 .. MaxValue
Keys   == [source : Present \cup Absent \cup Unparsed, dir : {"rising", "falling", "any"},
           level : Sample]
Scannable == {k \in Keys : k.source \notin Unparsed}
ASSUME NoneAssumption  == None \notin Sides /\ None \notin Int
ASSUME KeysAssumption == None \notin Keys /\ None \notin [key : Keys, side : Sides]

VARIABLES
  pc,
  logic_data,          \* the samples of the capture
  triggered, trigger_sample,
  trigger_config,      \* a key, or None
  force_trigger,       \* a FORCE is pending
  last_trigger_state,  \* a key and the side its signal ended on, or None
  key, prev_state,     \* the key and the state this scan began with
  prev, i, found,      \* the loop of find_trigger_*
  \* history
  captured, hit,       \* samples and trigger before the crop
  mark,                \* the last sample of the capture that persisted the state
  gap                  \* a capture with samples went by without a scan since

config  == <<trigger_config, force_trigger>>
result  == <<logic_data, triggered, trigger_sample>>
scan    == <<key, prev_state, prev, i, found>>
history == <<captured, hit, mark, gap>>
vars    == <<pc, result, config, last_trigger_state, scan, history>>

\* On which side of the level a sample of value v is.
Side(k, v) == IF v >= k.level THEN "above" ELSE "below"

\* A change to this side is an edge in the direction asked for.
Matches(k, side) == k.dir = "any" \/ (k.dir = "rising" <=> side = "above")

BuffersOK ==
  /\ logic_data \in Seq(Sample) /\ captured \in Seq(Sample)
  /\ triggered \in BOOLEAN /\ trigger_sample \in Nat /\ hit \in Nat

ControlOK ==
  /\ pc \in {"idle", "run", "force", "scan", "loop", "persist", "crop", "send"}
  /\ force_trigger \in BOOLEAN /\ gap \in BOOLEAN

ScanOK ==
  /\ trigger_config \in Keys \cup {None} /\ key \in Keys \cup {None}
  /\ last_trigger_state \in [key : Keys, side : Sides] \cup {None}
  /\ {prev_state, prev} \subseteq Sides \cup {None}
  /\ i \in Nat /\ found \in Nat \cup {None} /\ mark \in Sample \cup {None}

TypeOK == BuffersOK /\ ControlOK /\ ScanOK

Init ==
  /\ pc = "idle" /\ logic_data = <<>> /\ triggered = FALSE /\ trigger_sample = 0
  /\ trigger_config = None /\ force_trigger = FALSE /\ last_trigger_state = None
  /\ key = None /\ prev_state = None /\ prev = None /\ i = 0 /\ found = None
  /\ captured = <<>> /\ hit = 0 /\ mark = None /\ gap = FALSE

-----------------------------------------------------------------------------
(* Between captures. *)

SetTrigger(k) ==
  /\ pc = "idle" /\ trigger_config' = k
  /\ UNCHANGED <<pc, result, force_trigger, last_trigger_state, scan, history>>

\* START, SINGLE and a new connection lower the force flag, FORCE raises it.
ResetState(force) ==
  /\ pc = "idle" /\ force_trigger' = force /\ last_trigger_state' = None
  /\ mark' = None /\ gap' = FALSE
  /\ UNCHANGED <<pc, result, trigger_config, scan, captured, hit>>

-----------------------------------------------------------------------------
(* The capture. *)

Begin ==
  /\ pc = "idle" /\ pc' = "run"
  /\ logic_data' = <<>> /\ triggered' = FALSE /\ trigger_sample' = 0
  /\ UNCHANGED <<config, last_trigger_state, scan, history>>

LogicPacket(v) ==
  /\ pc = "run" /\ Len(logic_data) < MaxLen
  /\ logic_data' = Append(logic_data, v)
  /\ UNCHANGED <<pc, triggered, trigger_sample, config, last_trigger_state, scan,
                 history>>

TriggerPacket ==
  /\ Hardware /\ pc = "run" /\ triggered' = TRUE /\ trigger_sample' = Len(logic_data)
  /\ UNCHANGED <<pc, logic_data, config, last_trigger_state, scan, history>>

RunEnds ==
  /\ pc = "run" /\ pc' = "force"
  /\ UNCHANGED <<result, config, last_trigger_state, scan, history>>

\* A session that fails is not looked at; a FORCE is over with it.
RunFails ==
  /\ pc = "run" /\ pc' = "idle" /\ force_trigger' = FALSE
  /\ logic_data' = <<>> /\ triggered' = FALSE /\ trigger_sample' = 0
  /\ UNCHANGED <<trigger_config, last_trigger_state, scan, history>>

\* FORCE triggers at the first sample, whatever the hardware reported.
MarkForced ==
  /\ pc = "force"
  /\ LET forced == force_trigger /\ logic_data # <<>>
     IN  /\ triggered' = (triggered \/ forced)
         /\ trigger_sample' = IF forced THEN 0 ELSE trigger_sample
  /\ pc' = IF ~triggered' /\ logic_data # <<>> THEN "scan" ELSE "crop"
  /\ gap' = (gap \/ (pc' = "crop" /\ logic_data # <<>> /\ mark # None))
  /\ captured' = logic_data /\ hit' = trigger_sample'
  /\ UNCHANGED <<logic_data, config, last_trigger_state, scan, mark>>

-----------------------------------------------------------------------------
(* The scan. *)

\* No source, or one that does not parse: the capture is not looked at.
NotScanned ==
  /\ pc = "scan" /\ pc' = "crop" /\ trigger_config \notin Scannable
  /\ gap' = (mark # None)
  /\ UNCHANGED <<result, config, last_trigger_state, scan, captured, hit, mark>>

\* Variant: the state is used whatever key it belongs to.
AnyPersisted(k) ==
  IF last_trigger_state # None THEN last_trigger_state.side ELSE None

\* The persisted state, if it belongs to this key.
Persisted(k) ==
  IF last_trigger_state # None /\ last_trigger_state.key = k
    THEN last_trigger_state.side ELSE None

\* The loop starts at sample 0 with a state and at 1 without one.
ScanBegin ==
  /\ pc = "scan" /\ trigger_config \in Scannable
  /\ key' = trigger_config /\ prev_state' = Persisted(trigger_config) /\ found' = None
  /\ IF \/ trigger_config.source \in Absent
        \/ prev_state' = None /\ Len(logic_data) < 2
       THEN pc' = "persist" /\ prev' = prev_state' /\ i' = 0
       ELSE /\ pc' = "loop"
            /\ prev' = IF prev_state' = None THEN Side(trigger_config, logic_data[1])
                                             ELSE prev_state'
            /\ i' = IF prev_state' = None THEN 1 ELSE 0
  /\ UNCHANGED <<result, config, last_trigger_state, history>>

\* Variant: an edge in the wrong direction does not move the baseline.
KeepBaseline ==
  /\ pc = "loop" /\ i < Len(logic_data)
  /\ LET curr == Side(key, logic_data[i + 1])
     IN  IF curr # prev /\ Matches(key, curr)
           THEN pc' = "persist" /\ found' = i /\ UNCHANGED <<prev, i>>
           ELSE i' = i + 1 /\ UNCHANGED <<pc, found, prev>>
  /\ UNCHANGED <<result, config, last_trigger_state, key, prev_state, history>>

LoopStep ==
  /\ pc = "loop" /\ i < Len(logic_data)
  /\ LET curr == Side(key, logic_data[i + 1])
     IN  IF curr # prev /\ Matches(key, curr)
           THEN pc' = "persist" /\ found' = i /\ UNCHANGED <<prev, i>>
           ELSE prev' = curr /\ i' = i + 1 /\ UNCHANGED <<pc, found>>
  /\ UNCHANGED <<result, config, last_trigger_state, key, prev_state, history>>

LoopEnd ==
  /\ pc = "loop" /\ i = Len(logic_data) /\ pc' = "persist"
  /\ UNCHANGED <<result, config, last_trigger_state, scan, history>>

\* Variant: the end state is the state at the edge that was found.
StateAtEdge ==
  IF key.source \in Absent THEN prev_state
  ELSE Side(key, logic_data[IF found = None THEN Len(logic_data) ELSE found + 1])

\* The state of the last sample, found or not; of a source that is not in the
\* samples, the state that was given.
EndState ==
  IF key.source \in Absent THEN prev_state ELSE Side(key, logic_data[Len(logic_data)])

Persist ==
  /\ pc = "persist" /\ pc' = "crop"
  /\ last_trigger_state' = IF EndState = None THEN last_trigger_state
                                              ELSE [key |-> key, side |-> EndState]
  /\ mark' = IF EndState = None THEN mark ELSE logic_data[Len(logic_data)]
  /\ gap'  = (gap /\ EndState = None)
  /\ triggered' = (found # None)
  /\ trigger_sample' = IF found = None THEN trigger_sample ELSE found
  /\ hit' = trigger_sample'
  /\ key' = None /\ prev_state' = None /\ prev' = None /\ i' = 0 /\ found' = None
  /\ UNCHANGED <<logic_data, config, captured>>

-----------------------------------------------------------------------------
(* The crop and the delivery. *)

Smaller(a, b) == IF a < b THEN a ELSE b

\* Variant: the samples in front of the trigger are dropped, all of them.
CropAll(pre) == trigger_sample

\* Samples to drop at the front, when pre of those before the trigger stay.
Dropped(pre) == trigger_sample - pre

Crop ==
  /\ pc = "crop" /\ pc' = "send"
  /\ LET pre == Smaller(Pretrigger, trigger_sample)
         cut == Dropped(pre)
     IN  IF triggered
           THEN /\ logic_data' = IF cut <= Len(logic_data)
                                   THEN SubSeq(logic_data, cut + 1, Len(logic_data))
                                   ELSE logic_data
                /\ trigger_sample' = pre
           ELSE UNCHANGED <<logic_data, trigger_sample>>
  /\ UNCHANGED <<triggered, config, last_trigger_state, scan, history>>

\* The result goes out of scope, and clear_force_trigger ends a FORCE.
Send ==
  /\ pc = "send" /\ pc' = "idle"
  /\ logic_data' = <<>> /\ triggered' = FALSE /\ trigger_sample' = 0
  /\ captured' = <<>> /\ hit' = 0
  /\ force_trigger' = FALSE
  /\ UNCHANGED <<trigger_config, last_trigger_state, scan, mark, gap>>

Next ==
  \/ \E k \in Keys : SetTrigger(k)
  \/ \E force \in BOOLEAN : ResetState(force)
  \/ Begin
  \/ \E v \in Sample : LogicPacket(v)
  \/ TriggerPacket \/ RunEnds \/ RunFails \/ MarkForced
  \/ NotScanned \/ ScanBegin \/ LoopStep \/ LoopEnd \/ Persist
  \/ Crop \/ Send

Spec == Init /\ [][Next]_vars

-----------------------------------------------------------------------------
(* Properties *)

\* The side of the signal before sample j, as far as this scan knows.
Before(j) == IF j = 0 THEN prev_state ELSE Side(key, logic_data[j])

EdgeAt(j) == /\ Before(j) # None
             /\ Side(key, logic_data[j + 1]) # Before(j)
             /\ Matches(key, Side(key, logic_data[j + 1]))

\* find_trigger_digital and find_trigger_analog return the first sample that
\* differs from its predecessor in the direction asked for, and nothing only
\* if there is none; the predecessor of sample 0 is the persisted state.
FirstEdge ==
  pc = "persist" =>
    IF found = None
      THEN key.source \in Absent \/ \A j \in 0 .. Len(logic_data) - 1 : ~EdgeAt(j)
      ELSE /\ found < Len(logic_data) /\ EdgeAt(found)
           /\ \A j \in 0 .. found - 1 : ~EdgeAt(j)

\* The state a scan starts from is that of the last sample scanned under the
\* same key, whatever was found in that capture: an edge in the gap between
\* two scanned captures is found at sample 0 and no edge is found twice.
Continuity ==
  /\ last_trigger_state # None =>
       mark # None /\ last_trigger_state.side = Side(last_trigger_state.key, mark)
  /\ prev_state # None => mark # None /\ prev_state = Side(key, mark)

\* What is delivered is the end of what was captured, from at most Pretrigger
\* samples before the trigger on, and trigger_sample is still the sample that
\* triggered.
CropAnchors ==
  pc = "send" =>
    IF triggered
      THEN /\ trigger_sample = Smaller(Pretrigger, hit)
           /\ hit <= Len(captured)
           /\ logic_data = SubSeq(captured, hit - trigger_sample + 1, Len(captured))
      ELSE logic_data = captured

\* run_data_thread answers a capture whose trigger packet came behind its last
\* sample as one without samples only if no pretrigger is kept (--pretrigger 0);
\* no other trigger, nor the lack of one, loses a capture that has samples.
\* BridgeServer's HaveData takes this for granted.
DeliversSamples ==
  pc = "send" =>
    (logic_data = <<>> <=>
       captured = <<>> \/ (triggered /\ hit = Len(captured) /\ Pretrigger = 0))

\* trigger.rs: prev_state is the "state at the end of the previous
\* acquisition".  A capture that was not scanned (hardware trigger, a source
\* that does not parse) is skipped, and its state not forgotten.
PreviousAcquisition == prev_state # None => ~gap
=============================================================================
