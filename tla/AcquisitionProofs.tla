-------------------------- MODULE AcquisitionProofs --------------------------
(***************************************************************************)
(* Proofs about Acquisition, for buffers of any length, any samples, keys  *)
(* and pretrigger: the scan returns the first edge, it starts from the end *)
(* of the capture scanned last, and the crop keeps the trigger in place.   *)
(***************************************************************************)
EXTENDS Acquisition, SequenceTheorems, TLAPS

\* The locals of a scan exist only while it runs.
Scope ==
  IF pc \in {"loop", "persist"}
    THEN key \in Scannable /\ logic_data # <<>>
    ELSE /\ key = None /\ prev_state = None /\ found = None
         /\ pc = "scan" => logic_data # <<>>

\* What the loop of find_trigger_* knows at the top of an iteration.
LoopInv ==
  pc = "loop" =>
    /\ key.source \notin Absent /\ found = None
    /\ i <= Len(logic_data) /\ (prev_state = None => i >= 1)
    /\ prev = Before(i) /\ \A j \in 0 .. i - 1 : ~EdgeAt(j)

\* Keys behind the capture width never have a state.
PresentStates ==
  /\ last_trigger_state # None => last_trigger_state.key.source \notin Absent
  /\ prev_state # None => key.source \notin Absent

\* The trigger lies in the samples, and the history follows them.
Placed ==
  /\ pc \in {"run", "force"} => trigger_sample <= Len(logic_data)
  /\ pc \in {"scan", "loop", "persist", "crop"} =>
       /\ captured = logic_data /\ hit = trigger_sample /\ hit <= Len(captured)
       /\ pc # "crop" => ~triggered

ScanInv == Scope /\ LoopInv /\ FirstEdge
StateInv == PresentStates /\ Continuity
CropInv == Placed /\ CropAnchors
Inv == TypeOK /\ ScanInv /\ StateInv /\ CropInv

\* An empty buffer is a buffer.
LEMMA EmptyType == <<>> \in Seq(Sample)
OBVIOUS

\* What is left of a buffer after the crop is a buffer.
LEMMA SuffixType ==
  ASSUME NEW s \in Seq(Sample), NEW n \in Nat, n <= Len(s)
  PROVE  SubSeq(s, n + 1, Len(s)) \in Seq(Sample)
<1>1. \A j \in n + 1 .. Len(s) : s[j] \in Sample
  OBVIOUS
<1>. QED
  BY <1>1, SubSeqProperties

\* The buffers keep to their types.
LEMMA BuffersKept ==
  Inv /\ [Next]_vars => BuffersOK'
<1> SUFFICES ASSUME Inv, [Next]_vars PROVE BuffersOK'
  OBVIOUS
<1> USE DEF BuffersOK, TypeOK, Inv
<1>1. ASSUME NEW k \in Keys, SetTrigger(k) PROVE BuffersOK'
  BY <1>1 DEF SetTrigger, config, result, scan, history
<1>2. ASSUME NEW force \in BOOLEAN, ResetState(force) PROVE BuffersOK'
  BY <1>2 DEF ResetState, config, result, scan, history
<1>3. CASE Begin
  <2>1. logic_data' = <<>> /\ (captured' = captured \/ captured' = <<>>)
    BY <1>3, Zenon DEF Begin, history
  <2>2. logic_data' \in Seq(Sample) /\ captured' \in Seq(Sample)
    BY <2>1, EmptyType, Zenon
  <2>3. triggered' \in BOOLEAN /\ trigger_sample' \in Nat /\ hit' \in Nat
    BY <1>3 DEF Begin, history
  <2>. QED
    BY <2>2, <2>3, Zenon
<1>4. ASSUME NEW v \in Sample, LogicPacket(v) PROVE BuffersOK'
  BY <1>4 DEF LogicPacket, config, result, scan, history
<1>5. CASE TriggerPacket
  BY <1>5 DEF TriggerPacket, config, result, scan, history
<1>6. CASE RunEnds
  BY <1>6 DEF RunEnds, config, result, scan, history
<1>7. CASE RunFails
  <2>1. logic_data' = <<>> /\ (captured' = captured \/ captured' = <<>>)
    BY <1>7, Zenon DEF RunFails, history
  <2>2. logic_data' \in Seq(Sample) /\ captured' \in Seq(Sample)
    BY <2>1, EmptyType, Zenon
  <2>3. triggered' \in BOOLEAN /\ trigger_sample' \in Nat /\ hit' \in Nat
    BY <1>7 DEF RunFails, history
  <2>. QED
    BY <2>2, <2>3, Zenon
<1>8. CASE MarkForced
  BY <1>8 DEF MarkForced, config, result, scan, history
<1>9. CASE NotScanned
  BY <1>9 DEF NotScanned, config, result, scan, history
<1>10. CASE ScanBegin
  BY <1>10 DEF ScanBegin, config, result, scan, history
<1>11. CASE LoopStep
  BY <1>11 DEF LoopStep, config, result, scan, history
<1>12. CASE LoopEnd
  BY <1>12 DEF LoopEnd, config, result, scan, history
<1>13. CASE Persist
  BY <1>13 DEF Persist, ScanOK
<1>14. CASE Crop
  <2>1. CASE ~triggered
    BY <1>14, <2>1 DEF Crop, history
  <2>2. CASE triggered
    <3> DEFINE pre == Smaller(Pretrigger, trigger_sample)
    <3>1. /\ trigger_sample' = pre
          /\ logic_data' = IF Dropped(pre) <= Len(logic_data)
                             THEN SubSeq(logic_data, Dropped(pre) + 1, Len(logic_data))
                             ELSE logic_data
      BY <1>14, <2>2, Zenon DEF Crop
    <3>2. pre \in 0 .. trigger_sample
      BY BoundAssumption DEF Smaller
    <3> HIDE DEF pre
    <3>3. Dropped(pre) \in Nat
      BY <3>2 DEF Dropped
    <3>4. logic_data' \in Seq(Sample)
      BY <3>1, <3>3, SuffixType
    <3>. QED
      BY <1>14, <3>1, <3>2, <3>4 DEF Crop, history
  <2>. QED
    BY <2>1, <2>2
<1>15. CASE Send
  <2>1. logic_data' = <<>> /\ (captured' = captured \/ captured' = <<>>)
    BY <1>15, Zenon DEF Send, history
  <2>2. logic_data' \in Seq(Sample) /\ captured' \in Seq(Sample)
    BY <2>1, EmptyType, Zenon
  <2>3. triggered' \in BOOLEAN /\ trigger_sample' \in Nat /\ hit' \in Nat
    BY <1>15 DEF Send, history
  <2>. QED
    BY <2>2, <2>3, Zenon
<1>16. CASE UNCHANGED vars
  BY <1>16 DEF vars, config, result, scan, history
<1>. QED
  BY <1>1, <1>2, <1>3, <1>4, <1>5, <1>6, <1>7, <1>8, <1>9, <1>10, <1>11, <1>12, <1>13,
     <1>14, <1>15, <1>16
  DEF Next

\* The control of the data thread keeps to its type.
LEMMA ControlKept ==
  ControlOK /\ [Next]_vars => ControlOK'
<1> SUFFICES ASSUME ControlOK, [Next]_vars PROVE ControlOK'
  OBVIOUS
<1> USE DEF ControlOK
<1>1. ASSUME NEW k \in Keys, SetTrigger(k) PROVE ControlOK'
  BY <1>1 DEF SetTrigger, config, result, scan, history
<1>2. ASSUME NEW force \in BOOLEAN, ResetState(force) PROVE ControlOK'
  BY <1>2 DEF ResetState, config, result, scan, history
<1>3. CASE Begin
  BY <1>3 DEF Begin, config, result, scan, history
<1>4. ASSUME NEW v \in Sample, LogicPacket(v) PROVE ControlOK'
  BY <1>4 DEF LogicPacket, config, result, scan, history
<1>5. CASE TriggerPacket
  BY <1>5 DEF TriggerPacket, config, result, scan, history
<1>6. CASE RunEnds
  BY <1>6 DEF RunEnds, config, result, scan, history
<1>7. CASE RunFails
  BY <1>7 DEF RunFails, config, result, scan, history
<1>8. CASE MarkForced
  BY <1>8 DEF MarkForced, config, result, scan, history
<1>9. CASE NotScanned
  BY <1>9 DEF NotScanned, config, result, scan, history
<1>10. CASE ScanBegin
  BY <1>10 DEF ScanBegin, config, result, scan, history
<1>11. CASE LoopStep
  BY <1>11 DEF LoopStep, config, result, scan, history
<1>12. CASE LoopEnd
  BY <1>12 DEF LoopEnd, config, result, scan, history
<1>13. CASE Persist
  BY <1>13 DEF Persist, config, result, scan, history
<1>14. CASE Crop
  BY <1>14 DEF Crop, config, result, scan, history
<1>15. CASE Send
  BY <1>15 DEF Send, config, result, scan, history
<1>16. CASE UNCHANGED vars
  BY <1>16 DEF vars, config, result, scan, history
<1>. QED
  BY <1>1, <1>2, <1>3, <1>4, <1>5, <1>6, <1>7, <1>8, <1>9, <1>10, <1>11, <1>12, <1>13,
     <1>14, <1>15, <1>16
  DEF Next

\* The scan and the state it persists keep to their types.
LEMMA ScanTypes ==
  Inv /\ [Next]_vars => ScanOK'
<1> SUFFICES ASSUME Inv, [Next]_vars PROVE ScanOK'
  OBVIOUS
<1> USE DEF ScanOK, TypeOK, Inv
<1>1. ASSUME NEW k \in Keys, SetTrigger(k) PROVE ScanOK'
  BY <1>1 DEF SetTrigger, config, result, scan, history
<1>2. ASSUME NEW force \in BOOLEAN, ResetState(force) PROVE ScanOK'
  BY <1>2 DEF ResetState, config, result, scan, history
<1>3. CASE Begin
  BY <1>3 DEF Begin, config, result, scan, history
<1>4. ASSUME NEW v \in Sample, LogicPacket(v) PROVE ScanOK'
  BY <1>4 DEF LogicPacket, config, result, scan, history
<1>5. CASE TriggerPacket
  BY <1>5 DEF TriggerPacket, config, result, scan, history
<1>6. CASE RunEnds
  BY <1>6 DEF RunEnds, config, result, scan, history
<1>7. CASE RunFails
  BY <1>7 DEF RunFails, config, result, scan, history
<1>8. CASE MarkForced
  BY <1>8 DEF MarkForced, config, result, scan, history
<1>9. CASE NotScanned
  BY <1>9 DEF NotScanned, config, result, scan, history
<1>10. CASE ScanBegin
  BY <1>10 DEF ScanBegin, config, result, scan, history, Side, Sides, Persisted, Scannable
<1>11. CASE LoopStep
  BY <1>11 DEF LoopStep, config, result, scan, history, Side, Sides
<1>12. CASE LoopEnd
  BY <1>12 DEF LoopEnd, config, result, scan, history
<1>13. CASE Persist
  BY <1>13 DEF Persist, config, result, scan, history, EndState, Side, Sides, Scope,
         ScanInv, Scannable, BuffersOK
<1>14. CASE Crop
  BY <1>14 DEF Crop, config, result, scan, history
<1>15. CASE Send
  BY <1>15 DEF Send, config, result, scan, history
<1>16. CASE UNCHANGED vars
  BY <1>16 DEF vars, config, result, scan, history
<1>. QED
  BY <1>1, <1>2, <1>3, <1>4, <1>5, <1>6, <1>7, <1>8, <1>9, <1>10, <1>11, <1>12, <1>13,
     <1>14, <1>15, <1>16
  DEF Next

\* The locals of a scan come and go with it.
LEMMA ScopeKept ==
  Inv /\ [Next]_vars => Scope'
<1> SUFFICES ASSUME Inv, [Next]_vars PROVE Scope'
  OBVIOUS
<1> USE DEF Scope, ScanInv, TypeOK, ControlOK, Inv
<1>1. ASSUME NEW k \in Keys, SetTrigger(k) PROVE Scope'
  BY <1>1 DEF SetTrigger, config, result, scan, history
<1>2. ASSUME NEW force \in BOOLEAN, ResetState(force) PROVE Scope'
  BY <1>2 DEF ResetState, config, result, scan, history
<1>3. CASE Begin
  BY <1>3 DEF Begin, config, result, scan, history
<1>4. ASSUME NEW v \in Sample, LogicPacket(v) PROVE Scope'
  BY <1>4 DEF LogicPacket, config, result, scan, history
<1>5. CASE TriggerPacket
  BY <1>5 DEF TriggerPacket, config, result, scan, history
<1>6. CASE RunEnds
  BY <1>6 DEF RunEnds, config, result, scan, history
<1>7. CASE RunFails
  BY <1>7 DEF RunFails, config, result, scan, history
<1>8. CASE MarkForced
  BY <1>8 DEF MarkForced, config, result, scan, history
<1>9. CASE NotScanned
  BY <1>9 DEF NotScanned, config, result, scan, history
<1>10. CASE ScanBegin
  BY <1>10 DEF ScanBegin, config, result, scan, history, Scannable
<1>11. CASE LoopStep
  BY <1>11 DEF LoopStep, config, result, scan, history
<1>12. CASE LoopEnd
  BY <1>12 DEF LoopEnd, config, result, scan, history
<1>13. CASE Persist
  BY <1>13 DEF Persist, config, result, scan, history
<1>14. CASE Crop
  BY <1>14 DEF Crop, config, result, scan, history
<1>15. CASE Send
  BY <1>15 DEF Send, config, result, scan, history
<1>16. CASE UNCHANGED vars
  BY <1>16 DEF vars, config, result, scan, history
<1>. QED
  BY <1>1, <1>2, <1>3, <1>4, <1>5, <1>6, <1>7, <1>8, <1>9, <1>10, <1>11, <1>12, <1>13,
     <1>14, <1>15, <1>16
  DEF Next

\* The loop keeps to what it knows.
LEMMA LoopKept ==
  Inv /\ [Next]_vars => LoopInv'
<1> SUFFICES ASSUME Inv, [Next]_vars PROVE LoopInv'
  OBVIOUS
<1> USE DEF LoopInv, TypeOK, BuffersOK, ScanOK, Inv, ScanInv
<1>1. ASSUME NEW k \in Keys, SetTrigger(k) PROVE LoopInv'
  BY <1>1 DEF SetTrigger, config, result, scan, history
<1>2. ASSUME NEW force \in BOOLEAN, ResetState(force) PROVE LoopInv'
  BY <1>2 DEF ResetState, config, result, scan, history
<1>3. CASE Begin
  BY <1>3 DEF Begin, config, result, scan, history
<1>4. ASSUME NEW v \in Sample, LogicPacket(v) PROVE LoopInv'
  BY <1>4 DEF LogicPacket, config, result, scan, history
<1>5. CASE TriggerPacket
  BY <1>5 DEF TriggerPacket, config, result, scan, history
<1>6. CASE RunEnds
  BY <1>6 DEF RunEnds, config, result, scan, history
<1>7. CASE RunFails
  BY <1>7 DEF RunFails, config, result, scan, history
<1>8. CASE MarkForced
  BY <1>8 DEF MarkForced, config, result, scan, history
<1>9. CASE NotScanned
  BY <1>9 DEF NotScanned, config, result, scan, history
<1>10. CASE ScanBegin
  <2>1. CASE pc' = "loop"
    <3>1. /\ key' = trigger_config /\ logic_data' = logic_data /\ found' = None
          /\ trigger_config.source \notin Absent
          /\ prev' = IF prev_state' = None THEN Side(trigger_config, logic_data[1])
                                           ELSE prev_state'
          /\ i' = IF prev_state' = None THEN 1 ELSE 0
          /\ ~(prev_state' = None /\ Len(logic_data) < 2)
      BY <1>10, <2>1 DEF ScanBegin, result
    <3>2. prev' = Before(i)'
      BY <3>1 DEF Before
    <3>3. \A j \in 0 .. i' - 1 : ~EdgeAt(j)'
      BY <3>1 DEF Before, EdgeAt
    <3>. QED
      BY <3>1, <3>2, <3>3
  <2>. QED
    BY <2>1
<1>11. CASE LoopStep
  <2>1. /\ pc = "loop" /\ i < Len(logic_data) /\ key' = key /\ prev_state' = prev_state
        /\ logic_data' = logic_data
    BY <1>11 DEF LoopStep, result
  <2>2. \A j \in Nat : Before(j)' = Before(j) /\ EdgeAt(j)' = EdgeAt(j)
    BY <2>1 DEF Before, EdgeAt
  <2>3. prev = Before(i) /\ prev # None
    BY <2>1, NoneAssumption DEF Before, Side, Sides, ScanOK
  <2> DEFINE curr == Side(key, logic_data[i + 1])
  <2>4. CASE pc' = "loop"
    <3>1. /\ curr = prev \/ ~Matches(key, curr)
          /\ prev' = curr /\ i' = i + 1 /\ found' = None
      BY <1>11, <2>1, <2>4 DEF LoopStep
    <3>2. ~EdgeAt(i)
      BY <2>3, <3>1 DEF EdgeAt
    <3>3. prev' = Before(i + 1)
      BY <3>1 DEF Before
    <3>. QED
      BY <2>1, <2>2, <3>1, <3>2, <3>3
  <2>. QED
    BY <2>4
<1>12. CASE LoopEnd
  BY <1>12 DEF LoopEnd, config, result, scan, history
<1>13. CASE Persist
  BY <1>13 DEF Persist, config, result, scan, history
<1>14. CASE Crop
  BY <1>14 DEF Crop, config, result, scan, history
<1>15. CASE Send
  BY <1>15 DEF Send, config, result, scan, history
<1>16. CASE UNCHANGED vars
  BY <1>16 DEF vars, config, result, scan, history, Before, EdgeAt
<1>. QED
  BY <1>1, <1>2, <1>3, <1>4, <1>5, <1>6, <1>7, <1>8, <1>9, <1>10, <1>11, <1>12, <1>13,
     <1>14, <1>15, <1>16
  DEF Next

\* What the loop returns is the first edge.
LEMMA FirstEdgeKept ==
  Inv /\ [Next]_vars => FirstEdge'
<1> SUFFICES ASSUME Inv, [Next]_vars PROVE FirstEdge'
  OBVIOUS
<1> USE DEF FirstEdge, TypeOK, BuffersOK, ScanOK, Inv, ScanInv
<1>1. ASSUME NEW k \in Keys, SetTrigger(k) PROVE FirstEdge'
  BY <1>1 DEF SetTrigger, config, result, scan, history
<1>2. ASSUME NEW force \in BOOLEAN, ResetState(force) PROVE FirstEdge'
  BY <1>2 DEF ResetState, config, result, scan, history
<1>3. CASE Begin
  BY <1>3 DEF Begin, config, result, scan, history
<1>4. ASSUME NEW v \in Sample, LogicPacket(v) PROVE FirstEdge'
  BY <1>4 DEF LogicPacket, config, result, scan, history
<1>5. CASE TriggerPacket
  BY <1>5 DEF TriggerPacket, config, result, scan, history
<1>6. CASE RunEnds
  BY <1>6 DEF RunEnds, config, result, scan, history
<1>7. CASE RunFails
  BY <1>7 DEF RunFails, config, result, scan, history
<1>8. CASE MarkForced
  BY <1>8 DEF MarkForced, config, result, scan, history
<1>9. CASE NotScanned
  BY <1>9 DEF NotScanned, config, result, scan, history
<1>10. CASE ScanBegin
  <2>1. CASE pc' = "persist"
    <3>1. /\ key' = trigger_config /\ logic_data' = logic_data /\ found' = None
          /\ \/ trigger_config.source \in Absent
             \/ prev_state' = None /\ Len(logic_data) < 2
      BY <1>10, <2>1 DEF ScanBegin, result
    <3>. QED
      BY <3>1 DEF Before, EdgeAt
  <2>. QED
    BY <2>1
<1>11. CASE LoopStep
  <2>1. /\ pc = "loop" /\ i < Len(logic_data) /\ key' = key /\ prev_state' = prev_state
        /\ logic_data' = logic_data
    BY <1>11 DEF LoopStep, result
  <2>2. \A j \in Nat : Before(j)' = Before(j) /\ EdgeAt(j)' = EdgeAt(j)
    BY <2>1 DEF LoopInv, Before, EdgeAt
  <2>3. prev = Before(i) /\ prev # None /\ \A j \in 0 .. i - 1 : ~EdgeAt(j)
    BY <2>1, NoneAssumption DEF LoopInv, Before, Side, Sides, ScanOK
  <2> DEFINE curr == Side(key, logic_data[i + 1])
  <2>4. CASE pc' = "persist"
    <3>1. curr # prev /\ Matches(key, curr) /\ found' = i
      BY <1>11, <2>1, <2>4 DEF LoopStep
    <3>2. EdgeAt(i)
      BY <2>3, <3>1 DEF EdgeAt
    <3>. QED
      BY <2>1, <2>2, <2>3, <3>1, <3>2, NoneAssumption
  <2>. QED
    BY <2>4
<1>12. CASE LoopEnd
  <2>1. /\ logic_data' = logic_data /\ key' = key /\ prev_state' = prev_state
        /\ found' = None /\ i = Len(logic_data)
    BY <1>12 DEF LoopEnd, LoopInv, scan, result
  <2>2. \A j \in 0 .. i - 1 : ~EdgeAt(j)
    BY <1>12 DEF LoopEnd, LoopInv
  <2>. QED
    BY <2>1, <2>2 DEF Before, EdgeAt
<1>13. CASE Persist
  BY <1>13 DEF Persist, config, result, scan, history
<1>14. CASE Crop
  BY <1>14 DEF Crop, config, result, scan, history
<1>15. CASE Send
  BY <1>15 DEF Send, config, result, scan, history
<1>16. CASE UNCHANGED vars
  BY <1>16 DEF vars, config, result, scan, history, Before, EdgeAt
<1>. QED
  BY <1>1, <1>2, <1>3, <1>4, <1>5, <1>6, <1>7, <1>8, <1>9, <1>10, <1>11, <1>12, <1>13,
     <1>14, <1>15, <1>16
  DEF Next

\* The state stays that of the sample that was scanned last.
LEMMA StateKept ==
  Inv /\ [Next]_vars => StateInv'
<1> SUFFICES ASSUME Inv, [Next]_vars PROVE StateInv'
  OBVIOUS
<1> USE DEF StateInv, PresentStates, Continuity, Inv
<1>1. ASSUME NEW k \in Keys, SetTrigger(k) PROVE StateInv'
  BY <1>1 DEF SetTrigger, config, result, scan, history
<1>2. ASSUME NEW force \in BOOLEAN, ResetState(force) PROVE StateInv'
  BY <1>2 DEF ResetState, config, result, scan, history, Scope, ScanInv
<1>3. CASE Begin
  BY <1>3 DEF Begin, config, result, scan, history
<1>4. ASSUME NEW v \in Sample, LogicPacket(v) PROVE StateInv'
  BY <1>4 DEF LogicPacket, config, result, scan, history
<1>5. CASE TriggerPacket
  BY <1>5 DEF TriggerPacket, config, result, scan, history
<1>6. CASE RunEnds
  BY <1>6 DEF RunEnds, config, result, scan, history
<1>7. CASE RunFails
  BY <1>7 DEF RunFails, config, result, scan, history
<1>8. CASE MarkForced
  BY <1>8 DEF MarkForced, config, result, scan, history
<1>9. CASE NotScanned
  BY <1>9 DEF NotScanned, config, result, scan, history
<1>10. CASE ScanBegin
  BY <1>10 DEF ScanBegin, config, result, scan, history, Persisted, TypeOK, ScanOK, Scope,
         ScanInv, Scannable
<1>11. CASE LoopStep
  BY <1>11 DEF LoopStep, config, result, scan, history
<1>12. CASE LoopEnd
  BY <1>12 DEF LoopEnd, config, result, scan, history
<1>13. CASE Persist
  <2>1. prev_state' = None
    BY <1>13 DEF Persist
  <2>2. CASE EndState = None
    BY <1>13, <2>1, <2>2 DEF Persist
  <2>3. CASE EndState # None
    <3>1. key.source \notin Absent /\ EndState = Side(key, logic_data[Len(logic_data)])
      BY <2>3 DEF EndState
    <3>2. logic_data[Len(logic_data)] \in Sample
      BY <1>13 DEF Persist, Scope, ScanInv, TypeOK, BuffersOK
    <3>3. logic_data[Len(logic_data)] # None
      BY <3>2, NoneAssumption, BoundAssumption DEF Sample
    <3>4. /\ last_trigger_state' = [key |-> key, side |-> EndState]
          /\ mark' = logic_data[Len(logic_data)]
      BY <1>13, <2>3 DEF Persist
    <3>. QED
      BY <2>1, <3>1, <3>3, <3>4
  <2>. QED
    BY <2>2, <2>3
<1>14. CASE Crop
  BY <1>14 DEF Crop, config, result, scan, history
<1>15. CASE Send
  BY <1>15 DEF Send, config, result, scan, history
<1>16. CASE UNCHANGED vars
  BY <1>16 DEF vars, config, result, scan, history
<1>. QED
  BY <1>1, <1>2, <1>3, <1>4, <1>5, <1>6, <1>7, <1>8, <1>9, <1>10, <1>11, <1>12, <1>13,
     <1>14, <1>15, <1>16
  DEF Next

\* The trigger stays within the samples.
LEMMA PlacedKept ==
  Inv /\ [Next]_vars => Placed'
<1> SUFFICES ASSUME Inv, [Next]_vars PROVE Placed'
  OBVIOUS
<1> USE DEF Placed, CropInv, TypeOK, BuffersOK, Inv
<1>1. ASSUME NEW k \in Keys, SetTrigger(k) PROVE Placed'
  BY <1>1 DEF SetTrigger, config, result, scan, history
<1>2. ASSUME NEW force \in BOOLEAN, ResetState(force) PROVE Placed'
  BY <1>2 DEF ResetState, config, result, scan, history
<1>3. CASE Begin
  BY <1>3 DEF Begin, config, result, scan, history
<1>4. ASSUME NEW v \in Sample, LogicPacket(v) PROVE Placed'
  BY <1>4 DEF LogicPacket, config, result, scan, history
<1>5. CASE TriggerPacket
  BY <1>5 DEF TriggerPacket, config, result, scan, history
<1>6. CASE RunEnds
  BY <1>6 DEF RunEnds, config, result, scan, history
<1>7. CASE RunFails
  BY <1>7 DEF RunFails, config, result, scan, history
<1>8. CASE MarkForced
  BY <1>8 DEF MarkForced, config, result, scan, history
<1>9. CASE NotScanned
  BY <1>9 DEF NotScanned, config, result, scan, history
<1>10. CASE ScanBegin
  BY <1>10 DEF ScanBegin, config, result, scan, history
<1>11. CASE LoopStep
  BY <1>11 DEF LoopStep, config, result, scan, history
<1>12. CASE LoopEnd
  BY <1>12 DEF LoopEnd, config, result, scan, history
<1>13. CASE Persist
  BY <1>13 DEF Persist, config, result, scan, history, FirstEdge, ScanInv, ScanOK
<1>14. CASE Crop
  BY <1>14 DEF Crop, config, result, scan, history
<1>15. CASE Send
  BY <1>15 DEF Send, config, result, scan, history
<1>16. CASE UNCHANGED vars
  BY <1>16 DEF vars, config, result, scan, history
<1>. QED
  BY <1>1, <1>2, <1>3, <1>4, <1>5, <1>6, <1>7, <1>8, <1>9, <1>10, <1>11, <1>12, <1>13,
     <1>14, <1>15, <1>16
  DEF Next

\* What is sent is the end of what was captured.
LEMMA CropKept ==
  Inv /\ [Next]_vars => CropAnchors'
<1> SUFFICES ASSUME Inv, [Next]_vars PROVE CropAnchors'
  OBVIOUS
<1> USE DEF CropAnchors, CropInv, Placed, TypeOK, BuffersOK, Inv
<1>1. ASSUME NEW k \in Keys, SetTrigger(k) PROVE CropAnchors'
  BY <1>1 DEF SetTrigger, config, result, scan, history
<1>2. ASSUME NEW force \in BOOLEAN, ResetState(force) PROVE CropAnchors'
  BY <1>2 DEF ResetState, config, result, scan, history
<1>3. CASE Begin
  BY <1>3 DEF Begin, config, result, scan, history
<1>4. ASSUME NEW v \in Sample, LogicPacket(v) PROVE CropAnchors'
  BY <1>4 DEF LogicPacket, config, result, scan, history
<1>5. CASE TriggerPacket
  BY <1>5 DEF TriggerPacket, config, result, scan, history
<1>6. CASE RunEnds
  BY <1>6 DEF RunEnds, config, result, scan, history
<1>7. CASE RunFails
  BY <1>7 DEF RunFails, config, result, scan, history
<1>8. CASE MarkForced
  BY <1>8 DEF MarkForced, config, result, scan, history
<1>9. CASE NotScanned
  BY <1>9 DEF NotScanned, config, result, scan, history
<1>10. CASE ScanBegin
  BY <1>10 DEF ScanBegin, config, result, scan, history
<1>11. CASE LoopStep
  BY <1>11 DEF LoopStep, config, result, scan, history
<1>12. CASE LoopEnd
  BY <1>12 DEF LoopEnd, config, result, scan, history
<1>13. CASE Persist
  BY <1>13 DEF Persist, config, result, scan, history
<1>14. CASE Crop
  <2> DEFINE pre == Smaller(Pretrigger, trigger_sample)
  <2>1. captured = logic_data /\ hit = trigger_sample /\ hit <= Len(captured)
    BY <1>14 DEF Crop
  <2>2. captured' = captured /\ hit' = hit /\ triggered' = triggered /\ pc' = "send"
    BY <1>14 DEF Crop, history
  <2>3. CASE ~triggered
    BY <1>14, <2>1, <2>2, <2>3 DEF Crop
  <2>4. CASE triggered
    <3>1. /\ trigger_sample' = pre
          /\ logic_data' = IF Dropped(pre) <= Len(logic_data)
                             THEN SubSeq(logic_data, Dropped(pre) + 1, Len(logic_data))
                             ELSE logic_data
      BY <1>14, <2>4, Zenon DEF Crop
    <3>2. pre \in 0 .. trigger_sample
      BY BoundAssumption DEF Smaller
    <3>3. pre = Smaller(Pretrigger, hit)
      BY <2>1
    <3> HIDE DEF pre
    <3>4. Dropped(pre) = hit - pre /\ Dropped(pre) <= Len(logic_data)
      BY <2>1, <3>2 DEF Dropped
    <3>5. logic_data' = SubSeq(captured, hit - pre + 1, Len(captured))
      BY <2>1, <3>1, <3>4
    <3>. QED
      BY <2>1, <2>2, <2>4, <3>1, <3>3, <3>5
  <2>. QED
    BY <2>3, <2>4
<1>15. CASE Send
  BY <1>15 DEF Send, config, result, scan, history
<1>16. CASE UNCHANGED vars
  BY <1>16 DEF vars, config, result, scan, history
<1>. QED
  BY <1>1, <1>2, <1>3, <1>4, <1>5, <1>6, <1>7, <1>8, <1>9, <1>10, <1>11, <1>12, <1>13,
     <1>14, <1>15, <1>16
  DEF Next

\* The invariant holds in every behaviour.
LEMMA Invariant == Spec => []Inv
<1>1. Init => Inv
  <2>1. Init => TypeOK
    <3>1. Init => logic_data \in Seq(Sample) /\ captured \in Seq(Sample)
      BY EmptyType, Zenon DEF Init
    <3>2. 0 \in Nat
      OBVIOUS
    <3>3. Init => triggered \in BOOLEAN /\ trigger_sample \in Nat /\ hit \in Nat
      BY <3>2, Zenon DEF Init
    <3>4. Init => ControlOK
      BY Zenon DEF Init, ControlOK
    <3>5. Init => ScanOK
      BY <3>2, Zenon DEF Init, ScanOK
    <3>. QED
      BY <3>1, <3>3, <3>4, <3>5 DEF TypeOK, BuffersOK
  <2>2. Init => ScanInv /\ StateInv /\ CropInv
    BY NoneAssumption DEF Init, ScanInv, StateInv, CropInv, Scope, LoopInv, FirstEdge,
           PresentStates, Continuity, Placed, CropAnchors
  <2>. QED
    BY <2>1, <2>2 DEF Inv
<1>2. Inv /\ [Next]_vars => Inv'
  <2> SUFFICES ASSUME Inv, [Next]_vars PROVE Inv'
    OBVIOUS
  <2>1. TypeOK'
    BY BuffersKept, ControlKept, ScanTypes DEF Inv, TypeOK
  <2>2. ScanInv' /\ StateInv' /\ CropInv'
    BY ScopeKept, LoopKept, FirstEdgeKept, StateKept, PlacedKept, CropKept
    DEF ScanInv, CropInv
  <2>. QED
    BY <2>1, <2>2 DEF Inv
<1>. QED
  BY <1>1, <1>2, PTL DEF Spec

\* Every variable of the acquisition keeps to its type.
THEOREM AcquisitionTyped == Spec => []TypeOK
BY Invariant, PTL DEF Inv

\* The scan returns the first edge in the direction asked for, or no sample
\* if there is none, whatever the buffer and the state it starts from.
THEOREM ScanFindsFirstEdge == Spec => []FirstEdge
BY Invariant, PTL DEF Inv, ScanInv

\* A scan starts from the end of the capture that was scanned last under its
\* key.
THEOREM ScanContinues == Spec => []Continuity
BY Invariant, PTL DEF Inv, StateInv

\* The crop keeps the sample that triggered, and drops samples only in front.
THEOREM CropKeepsTrigger == Spec => []CropAnchors
BY Invariant, PTL DEF Inv, CropInv

\* The answer to a 'K' has no samples only if the capture had none, or if its
\* trigger packet came last and no pretrigger is kept.
THEOREM EmptyIsNoLoss == Spec => []DeliversSamples
<1>1. Inv => DeliversSamples
  <2> SUFFICES ASSUME Inv, pc = "send"
               PROVE  logic_data = <<>> <=>
                        captured = <<>> \/ (triggered /\ hit = Len(captured) /\ Pretrigger = 0)
    BY DEF DeliversSamples
  <2> USE DEF Inv, CropInv, CropAnchors, TypeOK, BuffersOK
  <2>1. captured \in Seq(Sample) /\ hit \in Nat
    OBVIOUS
  <2>2. CASE ~triggered
    BY <2>2
  <2>3. CASE triggered
    <3> DEFINE pre == Smaller(Pretrigger, hit)
    <3>1. hit <= Len(captured) /\ logic_data = SubSeq(captured, hit - pre + 1, Len(captured))
      BY <2>3
    <3>2. pre \in 0 .. hit /\ (pre = 0 <=> Pretrigger = 0 \/ hit = 0)
      BY <2>1, BoundAssumption DEF Smaller
    <3> HIDE DEF pre
    <3>3. Len(logic_data) = Len(captured) - hit + pre
      BY <2>1, <3>1, <3>2
    <3>4. logic_data = <<>> <=> Len(logic_data) = 0
      OBVIOUS
    <3>5. Len(captured) \in Nat /\ (captured = <<>> <=> Len(captured) = 0)
      BY <2>1
    <3>6. logic_data = <<>> <=> hit = Len(captured) /\ pre = 0
      BY <2>1, <3>1, <3>2, <3>3, <3>4, <3>5
    <3>. QED
      BY <2>1, <2>3, <3>1, <3>2, <3>5, <3>6
  <2>. QED
    BY <2>2, <2>3
<1>. QED
  BY <1>1, Invariant, PTL
=============================================================================
