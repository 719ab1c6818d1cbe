-------------------------- MODULE BridgeServerProofs --------------------------
(***************************************************************************)
(* Proofs about BridgeServer and the modules that extend it, for every     *)
(* value of their constants: type correctness; the ownership of the        *)
(* libsigrok session; that every 'K' is answered by exactly one header, and*)
(* the headers of a connection are numbered without a gap; that the server *)
(* implements RequestReply; the life of a capture; what the two threads of *)
(* a session may do to each other's commands (BridgeHistory); of TwinLan,  *)
(* that a pair is one client's; and of LabelledSession, that a waveform is *)
(* labelled with the rate of its capture.                                  *)
(***************************************************************************)
EXTENDS BridgeHistory, TwinLan, LabelledSession, SequenceTheorems, TLAPS

\* The sequence number stays a number below SeqMod.
LEMMA NextSeqType ==
  ASSUME NEW n \in 0 .. SeqMod - 1
  PROVE  NextSeq(n) \in 0 .. SeqMod - 1
BY BoundAssumption DEF NextSeq

\* Appending a header keeps the headers of the connection typed, and in place.
LEMMA AppendHeader ==
  ASSUME out \in Seq(Headers), NEW h \in Headers
  PROVE  /\ Append(out, h) \in Seq(Headers)
         /\ Len(Append(out, h)) = Len(out) + 1
         /\ Append(out, h)[Len(out) + 1] = h
         /\ \A i \in 1 .. Len(out) : Append(out, h)[i] = out[i]
OBVIOUS

\* The decision to send a waveform is a Boolean.
LEMMA SendRealType == BooleansOK => SendReal \in BOOLEAN
BY Zenon DEF BooleansOK, SendReal, HaveData, SkipCheck, Triggered

Typed == TypeOK /\ inbox <= sent

\* The flags and the locals of the threads stay Booleans.
LEMMA BooleansKept ==
  BooleansOK /\ [Next]_vars => BooleansOK'
<1> SUFFICES ASSUME BooleansOK, [Next]_vars PROVE BooleansOK'
  OBVIOUS
<1> USE DEF BooleansOK
<1>1. CASE Connect
  BY <1>1, Zenon DEF Connect, ResetForNewConnection, capture, locals
<1>2. ASSUME NEW c \in Arming, StartRunning(c) PROVE BooleansOK'
  BY <1>2, Zenon DEF StartRunning, ReadCommand, capture, ScpiOnly, locals, sockets
<1>3. ASSUME NEW c \in Arming, StartOneShot(c) PROVE BooleansOK'
  BY <1>3, Zenon DEF StartOneShot, At, Goto, capture, ScpiOnly, locals, sockets
<1>4. ASSUME NEW c \in Arming, StartForce(c) PROVE BooleansOK'
  BY <1>4, Zenon DEF StartForce, At, Goto, capture, ScpiOnly, locals, sockets
<1>5. ASSUME NEW c \in Arming, StartArmed(c) PROVE BooleansOK'
  BY <1>5, Zenon DEF StartArmed, At, Goto, capture, ScpiOnly, locals, sockets
<1>6. ASSUME NEW c \in Arming, StartReset(c) PROVE BooleansOK'
  BY <1>6, Zenon DEF StartReset, At, Idle, Goto, flags, capture, ScpiOnly, locals, sockets
<1>7. ASSUME NEW k \in Keys, SetTrigger(k) PROVE BooleansOK'
  BY <1>7, Zenon DEF SetTrigger, flags, capture, locals, sockets
<1>8. CASE ForceFlag
  BY <1>8, Zenon DEF ForceFlag, ReadCommand, capture, ScpiOnly, locals, sockets
<1>9. CASE ForceArmed
  BY <1>9, Zenon DEF ForceArmed, At, Goto, capture, ScpiOnly, locals, sockets
<1>10. CASE ForceLoad
  BY <1>10, Zenon DEF ForceLoad, At, Goto, flags, capture, ScpiOnly, locals, sockets
<1>11. CASE ForceRunning
  BY <1>11, Zenon DEF ForceRunning, At, Goto, capture, ScpiOnly, locals, sockets
<1>12. CASE ForceOneShot
  BY <1>12, Zenon DEF ForceOneShot, At, Goto, capture, ScpiOnly, locals, sockets
<1>13. CASE ForceReset
  BY <1>13, Zenon DEF ForceReset, At, Idle, Goto, flags, capture, ScpiOnly, locals,
       sockets
<1>14. CASE StopRunning
  BY <1>14, Zenon DEF StopRunning, ReadCommand, capture, ScpiOnly, locals, sockets
<1>15. CASE StopArmed
  BY <1>15, Zenon DEF StopArmed, At, Goto, capture, ScpiOnly, locals, sockets
<1>16. CASE StopCapture
  BY <1>16, Zenon DEF StopCapture, At, Idle, Goto, StopSession, flags, ScpiOnly, locals,
       sockets
<1>17. CASE ReadEof
  BY <1>17, Zenon DEF ReadEof, Goto, flags, capture, ScpiOnly, locals, sockets
<1>18. CASE ReadError
  BY <1>18, Zenon DEF ReadError, Goto, flags, capture, ScpiOnly, locals, sockets
<1>19. CASE CloseStop
  BY <1>19, Zenon DEF CloseStop, At, Goto, StopSession, flags, ScpiOnly, locals, sockets
<1>20. CASE Join
  BY <1>20, Zenon DEF Join, Goto, flags, trigger, capture, locals
<1>21. CASE ReadReady
  BY <1>21, Zenon DEF ReadReady, DataStep, scpi, capture, locals, DeviceKept, flags
<1>22. CASE ReadFailed
  BY <1>22, Zenon DEF ReadFailed, DataStep, scpi, capture, locals, sockets, DeviceKept,
       flags
<1>23. CASE CheckShutdown
  BY <1>23 DEF CheckShutdown, DataStep, scpi, capture, locals, sockets,
       DeviceKept, flags, TakeSeqnum
<1>24. CASE GateRunning
  BY <1>24, Zenon DEF GateRunning, DataStep, scpi, capture, locals, sockets, DeviceKept,
       flags
<1>25. CASE GateArmed
  BY <1>25, Zenon DEF GateArmed, DataStep, scpi, capture, locals, sockets, DeviceKept,
       flags
<1>26. CASE NotReady
  BY <1>26, Zenon DEF NotReady, DataStep, scpi, SendHeader, DeviceKept, flags
<1>27. CASE GetConfig
  BY <1>27, Zenon DEF GetConfig, DataStep, scpi, capture, sockets, DeviceKept, flags
<1>28. CASE LoadForce
  BY <1>28, Zenon DEF LoadForce, DataStep, scpi, capture, sockets, DeviceKept, flags
<1>29. CASE SessionStart
  BY <1>29, Zenon DEF SessionStart, DataStep, scpi, locals, sockets, DeviceKept, flags
<1>30. CASE MarkForced
  BY <1>30, Zenon DEF MarkForced, DataStep, scpi, locals, sockets, DeviceKept, flags
<1>31. CASE ScanConfig
  BY <1>31, Zenon DEF ScanConfig, DataStep, scpi, capture, sockets, DeviceKept, flags
<1>32. CASE ScanPrev
  BY <1>32, Zenon DEF ScanPrev, DataStep, scpi, capture, sockets, DeviceKept, flags
<1>33. CASE ScanEdge
  BY <1>33, Zenon DEF ScanEdge, DataStep, scpi, ScanDone, flags, sockets
<1>34. CASE ScanOutOfRange
  BY <1>34, Zenon DEF ScanOutOfRange, DataStep, scpi, ScanDone, flags, sockets, capture
<1>35. CASE Reply
  BY <1>35, Zenon DEF Reply, DataStep, scpi, AfterReply, SkipCheck, Triggered,
       SendHeader, DeviceKept, flags, SendReal, HaveData
<1>36. CASE ReplyFailed
  BY <1>36, Zenon DEF ReplyFailed, DataStep, scpi, SendReal, HaveData, SkipCheck,
       Triggered, sockets, DeviceKept, flags
<1>37. CASE LoadOneShot
  BY <1>37, Zenon DEF LoadOneShot, DataStep, scpi, AfterComplete, capture, locals,
       sockets, DeviceKept, flags
<1>38. CASE StoreRunning
  BY <1>38, Zenon DEF StoreRunning, DataStep, scpi, capture, locals, sockets
<1>39. CASE StoreArmed
  BY <1>39, Zenon DEF StoreArmed, DataStep, scpi, AfterComplete, capture, locals, sockets
<1>40. CASE ClearForce
  BY <1>40, Zenon DEF ClearForce, DataStep, scpi, capture, sockets
<1>41. CASE SessionEnd
  BY <1>41, Zenon DEF SessionEnd, DataStep, scpi, locals, sockets, DeviceKept, flags
<1>42. CASE LogicPacket
  BY <1>42, Zenon DEF LogicPacket, sockets, EnvironmentOnly, flags, trigger, locals
<1>43. CASE TriggerPacket
  BY <1>43, Zenon DEF TriggerPacket, sockets, EnvironmentOnly, flags, trigger, locals
<1>44. CASE ClientReady
  BY <1>44, Zenon DEF ClientReady, capture, EnvironmentOnly, flags, trigger, locals
<1>45. CASE ClientCloseCmd
  BY <1>45, Zenon DEF ClientCloseCmd, capture, EnvironmentOnly, flags, trigger, locals
<1>46. CASE ClientCloseData
  BY <1>46, Zenon DEF ClientCloseData, capture, EnvironmentOnly, flags, trigger, locals
<1>47. CASE UNCHANGED vars
  BY <1>47, Zenon DEF vars, flags, trigger, capture, scpi, locals, sockets
<1>. QED
  BY <1>1, <1>2, <1>3, <1>4, <1>5, <1>6, <1>7, <1>8, <1>9, <1>10, <1>11,
       <1>12, <1>13, <1>14, <1>15, <1>16, <1>17, <1>18, <1>19, <1>20, <1>21, <1>22, <1>23,
       <1>24, <1>25, <1>26, <1>27, <1>28, <1>29, <1>30, <1>31, <1>32, <1>33, <1>34, <1>35,
       <1>36, <1>37, <1>38, <1>39, <1>40, <1>41, <1>42, <1>43, <1>44, <1>45, <1>46, <1>47
    DEF Next, Scpi, Start, ForceTrigger, Stop, DataProgress, Environment

\* Where both threads and the session can be.
LEMMA ControlKept ==
  ControlOK /\ [Next]_vars => ControlOK'
<1> SUFFICES ASSUME ControlOK, [Next]_vars PROVE ControlOK'
  OBVIOUS
<1> USE DEF ControlOK, Answering, Completing, Commands, Arming, TrigKinds
<1>1. CASE Connect
  BY <1>1 DEF Connect, ResetForNewConnection, capture, locals
<1>2. ASSUME NEW c \in Arming, StartRunning(c) PROVE ControlOK'
  BY <1>2 DEF StartRunning, ReadCommand, capture, ScpiOnly, locals, sockets
<1>3. ASSUME NEW c \in Arming, StartOneShot(c) PROVE ControlOK'
  BY <1>3 DEF StartOneShot, At, Goto, capture, ScpiOnly, locals, sockets
<1>4. ASSUME NEW c \in Arming, StartForce(c) PROVE ControlOK'
  BY <1>4 DEF StartForce, At, Goto, capture, ScpiOnly, locals, sockets
<1>5. ASSUME NEW c \in Arming, StartArmed(c) PROVE ControlOK'
  BY <1>5 DEF StartArmed, At, Goto, capture, ScpiOnly, locals, sockets
<1>6. ASSUME NEW c \in Arming, StartReset(c) PROVE ControlOK'
  BY <1>6 DEF StartReset, At, Idle, Goto, flags, capture, ScpiOnly, locals, sockets
<1>7. ASSUME NEW k \in Keys, SetTrigger(k) PROVE ControlOK'
  BY <1>7 DEF SetTrigger, flags, capture, locals, sockets
<1>8. CASE ForceFlag
  BY <1>8 DEF ForceFlag, ReadCommand, capture, ScpiOnly, locals, sockets
<1>9. CASE ForceArmed
  BY <1>9 DEF ForceArmed, At, Goto, capture, ScpiOnly, locals, sockets
<1>10. CASE ForceLoad
  BY <1>10 DEF ForceLoad, At, Goto, flags, capture, ScpiOnly, locals, sockets
<1>11. CASE ForceRunning
  BY <1>11 DEF ForceRunning, At, Goto, capture, ScpiOnly, locals, sockets
<1>12. CASE ForceOneShot
  BY <1>12 DEF ForceOneShot, At, Goto, capture, ScpiOnly, locals, sockets
<1>13. CASE ForceReset
  BY <1>13 DEF ForceReset, At, Idle, Goto, flags, capture, ScpiOnly, locals, sockets
<1>14. CASE StopRunning
  BY <1>14 DEF StopRunning, ReadCommand, capture, ScpiOnly, locals, sockets
<1>15. CASE StopArmed
  BY <1>15 DEF StopArmed, At, Goto, capture, ScpiOnly, locals, sockets
<1>16. CASE StopCapture
  BY <1>16 DEF StopCapture, At, Idle, Goto, StopSession, flags, ScpiOnly, locals, sockets
<1>17. CASE ReadEof
  BY <1>17 DEF ReadEof, Goto, flags, capture, ScpiOnly, locals, sockets
<1>18. CASE ReadError
  BY <1>18 DEF ReadError, Goto, flags, capture, ScpiOnly, locals, sockets
<1>19. CASE CloseStop
  BY <1>19 DEF CloseStop, At, Goto, StopSession, flags, ScpiOnly, locals, sockets
<1>20. CASE Join
  BY <1>20 DEF Join, Goto, flags, trigger, capture, locals
<1>21. CASE ReadReady
  BY <1>21 DEF ReadReady, DataStep, scpi, capture, locals, DeviceKept, flags
<1>22. CASE ReadFailed
  BY <1>22 DEF ReadFailed, DataStep, scpi, capture, locals, sockets, DeviceKept, flags
<1>23. CASE CheckShutdown
  BY <1>23 DEF CheckShutdown, DataStep, scpi, capture, locals, sockets, DeviceKept,
       flags, TakeSeqnum
<1>24. CASE GateRunning
  BY <1>24 DEF GateRunning, DataStep, scpi, capture, locals, sockets, DeviceKept, flags
<1>25. CASE GateArmed
  BY <1>25 DEF GateArmed, DataStep, scpi, capture, locals, sockets, DeviceKept, flags
<1>26. CASE NotReady
  BY <1>26 DEF NotReady, DataStep, scpi, SendHeader, DeviceKept, flags
<1>27. CASE GetConfig
  BY <1>27 DEF GetConfig, DataStep, scpi, capture, sockets, DeviceKept, flags
<1>28. CASE LoadForce
  BY <1>28 DEF LoadForce, DataStep, scpi, capture, sockets, DeviceKept, flags
<1>29. CASE SessionStart
  BY <1>29 DEF SessionStart, DataStep, scpi, locals, sockets, DeviceKept, flags
<1>30. CASE MarkForced
  BY <1>30 DEF MarkForced, DataStep, scpi, locals, sockets, DeviceKept, flags
<1>31. CASE ScanConfig
  BY <1>31 DEF ScanConfig, DataStep, scpi, capture, sockets, DeviceKept, flags
<1>32. CASE ScanPrev
  BY <1>32 DEF ScanPrev, DataStep, scpi, capture, sockets, DeviceKept, flags
<1>33. CASE ScanEdge
  BY <1>33 DEF ScanEdge, DataStep, scpi, ScanDone, flags, sockets
<1>34. CASE ScanOutOfRange
  BY <1>34 DEF ScanOutOfRange, DataStep, scpi, ScanDone, flags, sockets, capture
<1>35. CASE Reply
  BY <1>35 DEF Reply, DataStep, scpi, AfterReply, SkipCheck, Triggered, SendHeader,
       DeviceKept, flags, SendReal, HaveData
<1>36. CASE ReplyFailed
  BY <1>36 DEF ReplyFailed, DataStep, scpi, SendReal, HaveData, SkipCheck, Triggered,
       sockets, DeviceKept, flags
<1>37. CASE LoadOneShot
  BY <1>37 DEF LoadOneShot, DataStep, scpi, AfterComplete, capture, locals, sockets,
       DeviceKept, flags
<1>38. CASE StoreRunning
  BY <1>38 DEF StoreRunning, DataStep, scpi, capture, locals, sockets
<1>39. CASE StoreArmed
  BY <1>39 DEF StoreArmed, DataStep, scpi, AfterComplete, capture, locals, sockets
<1>40. CASE ClearForce
  BY <1>40 DEF ClearForce, DataStep, scpi, capture, sockets
<1>41. CASE SessionEnd
  BY <1>41 DEF SessionEnd, DataStep, scpi, locals, sockets, DeviceKept, flags
<1>42. CASE LogicPacket
  BY <1>42 DEF LogicPacket, sockets, EnvironmentOnly, flags, trigger, locals
<1>43. CASE TriggerPacket
  BY <1>43 DEF TriggerPacket, sockets, EnvironmentOnly, flags, trigger, locals
<1>44. CASE ClientReady
  BY <1>44 DEF ClientReady, capture, EnvironmentOnly, flags, trigger, locals
<1>45. CASE ClientCloseCmd
  BY <1>45 DEF ClientCloseCmd, capture, EnvironmentOnly, flags, trigger, locals
<1>46. CASE ClientCloseData
  BY <1>46 DEF ClientCloseData, capture, EnvironmentOnly, flags, trigger, locals
<1>47. CASE UNCHANGED vars
  BY <1>47 DEF vars, flags, trigger, capture, scpi, locals, sockets
<1>. QED
  BY <1>1, <1>2, <1>3, <1>4, <1>5, <1>6, <1>7, <1>8, <1>9, <1>10, <1>11,
       <1>12, <1>13, <1>14, <1>15, <1>16, <1>17, <1>18, <1>19, <1>20, <1>21, <1>22, <1>23,
       <1>24, <1>25, <1>26, <1>27, <1>28, <1>29, <1>30, <1>31, <1>32, <1>33, <1>34, <1>35,
       <1>36, <1>37, <1>38, <1>39, <1>40, <1>41, <1>42, <1>43, <1>44, <1>45, <1>46, <1>47
    DEF Next, Scpi, Start, ForceTrigger, Stop, DataProgress, Environment

\* The values both threads work with.
LEMMA DataKept ==
  Typed /\ [Next]_vars => DataOK' /\ inbox' <= sent'
<1> SUFFICES ASSUME Typed, [Next]_vars PROVE DataOK' /\ inbox' <= sent'
  OBVIOUS
<1> USE BoundAssumption, KeysAssumption DEF Typed, TypeOK, DataOK
<1>1. CASE Connect
  BY <1>1 DEF Connect, ResetForNewConnection, capture, locals
<1>2. ASSUME NEW c \in Arming, StartRunning(c) PROVE DataOK' /\ inbox' <= sent'
  BY <1>2 DEF StartRunning, ReadCommand, capture, ScpiOnly, locals, sockets
<1>3. ASSUME NEW c \in Arming, StartOneShot(c) PROVE DataOK' /\ inbox' <= sent'
  BY <1>3 DEF StartOneShot, At, Goto, capture, ScpiOnly, locals, sockets
<1>4. ASSUME NEW c \in Arming, StartForce(c) PROVE DataOK' /\ inbox' <= sent'
  BY <1>4 DEF StartForce, At, Goto, capture, ScpiOnly, locals, sockets
<1>5. ASSUME NEW c \in Arming, StartArmed(c) PROVE DataOK' /\ inbox' <= sent'
  BY <1>5 DEF StartArmed, At, Goto, capture, ScpiOnly, locals, sockets
<1>6. ASSUME NEW c \in Arming, StartReset(c) PROVE DataOK' /\ inbox' <= sent'
  BY <1>6 DEF StartReset, At, Idle, Goto, flags, capture, ScpiOnly, locals, sockets
<1>7. ASSUME NEW k \in Keys, SetTrigger(k) PROVE DataOK' /\ inbox' <= sent'
  BY <1>7 DEF SetTrigger, flags, capture, locals, sockets
<1>8. CASE ForceFlag
  BY <1>8 DEF ForceFlag, ReadCommand, capture, ScpiOnly, locals, sockets
<1>9. CASE ForceArmed
  BY <1>9 DEF ForceArmed, At, Goto, capture, ScpiOnly, locals, sockets
<1>10. CASE ForceLoad
  BY <1>10 DEF ForceLoad, At, Goto, flags, capture, ScpiOnly, locals, sockets
<1>11. CASE ForceRunning
  BY <1>11 DEF ForceRunning, At, Goto, capture, ScpiOnly, locals, sockets
<1>12. CASE ForceOneShot
  BY <1>12 DEF ForceOneShot, At, Goto, capture, ScpiOnly, locals, sockets
<1>13. CASE ForceReset
  BY <1>13 DEF ForceReset, At, Idle, Goto, flags, capture, ScpiOnly, locals, sockets
<1>14. CASE StopRunning
  BY <1>14 DEF StopRunning, ReadCommand, capture, ScpiOnly, locals, sockets
<1>15. CASE StopArmed
  BY <1>15 DEF StopArmed, At, Goto, capture, ScpiOnly, locals, sockets
<1>16. CASE StopCapture
  BY <1>16 DEF StopCapture, At, Idle, Goto, StopSession, flags, ScpiOnly, locals, sockets
<1>17. CASE ReadEof
  BY <1>17 DEF ReadEof, Goto, flags, capture, ScpiOnly, locals, sockets
<1>18. CASE ReadError
  BY <1>18 DEF ReadError, Goto, flags, capture, ScpiOnly, locals, sockets
<1>19. CASE CloseStop
  BY <1>19 DEF CloseStop, At, Goto, StopSession, flags, ScpiOnly, locals, sockets
<1>20. CASE Join
  BY <1>20 DEF Join, Goto, flags, trigger, capture, locals
<1>21. CASE ReadReady
  BY <1>21 DEF ReadReady, DataStep, scpi, capture, locals, DeviceKept, flags
<1>22. CASE ReadFailed
  BY <1>22 DEF ReadFailed, DataStep, scpi, capture, locals, sockets, DeviceKept, flags
<1>23. CASE CheckShutdown
  BY <1>23, NextSeqType DEF CheckShutdown, DataStep, scpi, capture, locals, sockets,
       DeviceKept, flags, TakeSeqnum
<1>24. CASE GateRunning
  BY <1>24 DEF GateRunning, DataStep, scpi, capture, locals, sockets, DeviceKept, flags
<1>25. CASE GateArmed
  BY <1>25 DEF GateArmed, DataStep, scpi, capture, locals, sockets, DeviceKept, flags
<1>26. CASE NotReady
  BY <1>26, AppendHeader DEF NotReady, DataStep, scpi, SendHeader, DeviceKept, flags,
       Headers
<1>27. CASE GetConfig
  BY <1>27 DEF GetConfig, DataStep, scpi, capture, sockets, DeviceKept, flags
<1>28. CASE LoadForce
  BY <1>28 DEF LoadForce, DataStep, scpi, capture, sockets, DeviceKept, flags
<1>29. CASE SessionStart
  BY <1>29 DEF SessionStart, DataStep, scpi, locals, sockets, DeviceKept, flags
<1>30. CASE MarkForced
  BY <1>30 DEF MarkForced, DataStep, scpi, locals, sockets, DeviceKept, flags
<1>31. CASE ScanConfig
  BY <1>31 DEF ScanConfig, DataStep, scpi, capture, sockets, DeviceKept, flags
<1>32. CASE ScanPrev
  BY <1>32 DEF ScanPrev, DataStep, scpi, capture, sockets, DeviceKept, flags
<1>33. CASE ScanEdge
  BY <1>33 DEF ScanEdge, DataStep, scpi, ScanDone, flags, sockets
<1>34. CASE ScanOutOfRange
  BY <1>34 DEF ScanOutOfRange, DataStep, scpi, ScanDone, flags, sockets, capture
<1>35. CASE Reply
  BY <1>35, AppendHeader, SendRealType DEF Reply, DataStep, scpi, AfterReply, SkipCheck,
       Triggered, SendHeader, DeviceKept, flags, Headers
<1>36. CASE ReplyFailed
  BY <1>36 DEF ReplyFailed, DataStep, scpi, SkipCheck, Triggered, sockets, DeviceKept,
       flags
<1>37. CASE LoadOneShot
  BY <1>37 DEF LoadOneShot, DataStep, scpi, AfterComplete, capture, locals, sockets,
       DeviceKept, flags
<1>38. CASE StoreRunning
  BY <1>38 DEF StoreRunning, DataStep, scpi, capture, locals, sockets
<1>39. CASE StoreArmed
  BY <1>39 DEF StoreArmed, DataStep, scpi, AfterComplete, capture, locals, sockets
<1>40. CASE ClearForce
  BY <1>40 DEF ClearForce, DataStep, scpi, capture, sockets
<1>41. CASE SessionEnd
  BY <1>41 DEF SessionEnd, DataStep, scpi, locals, sockets, DeviceKept, flags
<1>42. CASE LogicPacket
  BY <1>42 DEF LogicPacket, sockets, EnvironmentOnly, flags, trigger, locals
<1>43. CASE TriggerPacket
  BY <1>43 DEF TriggerPacket, sockets, EnvironmentOnly, flags, trigger, locals
<1>44. CASE ClientReady
  BY <1>44 DEF ClientReady, capture, EnvironmentOnly, flags, trigger, locals
<1>45. CASE ClientCloseCmd
  BY <1>45 DEF ClientCloseCmd, capture, EnvironmentOnly, flags, trigger, locals
<1>46. CASE ClientCloseData
  BY <1>46 DEF ClientCloseData, capture, EnvironmentOnly, flags, trigger, locals
<1>47. CASE UNCHANGED vars
  BY <1>47 DEF vars, flags, trigger, capture, scpi, locals, sockets
<1>. QED
  BY <1>1, <1>2, <1>3, <1>4, <1>5, <1>6, <1>7, <1>8, <1>9, <1>10, <1>11,
       <1>12, <1>13, <1>14, <1>15, <1>16, <1>17, <1>18, <1>19, <1>20, <1>21, <1>22, <1>23,
       <1>24, <1>25, <1>26, <1>27, <1>28, <1>29, <1>30, <1>31, <1>32, <1>33, <1>34, <1>35,
       <1>36, <1>37, <1>38, <1>39, <1>40, <1>41, <1>42, <1>43, <1>44, <1>45, <1>46, <1>47
    DEF Next, Scpi, Start, ForceTrigger, Stop, DataProgress, Environment

\* Every variable keeps to its type, and no byte is read before it is sent.
THEOREM TypeInvariant == Spec => []Typed
<1>1. Init => Typed
  <2>1. Init => BooleansOK
    BY Zenon DEF Init, BooleansOK
  <2>2. Init => ControlOK
    BY DEF Init, ControlOK, TrigKinds
  <2>3. Init => DataOK /\ inbox <= sent
    BY BoundAssumption DEF Init, DataOK
  <2>. QED
    BY <2>1, <2>2, <2>3 DEF Typed, TypeOK
<1>2. Typed /\ [Next]_vars => Typed'
  BY BooleansKept, ControlKept, DataKept DEF Typed, TypeOK
<1>. QED
  BY <1>1, <1>2, PTL DEF Spec

\* Type correctness alone.
THEOREM TypeCorrect == Spec => []TypeOK
BY TypeInvariant, PTL DEF Typed

-----------------------------------------------------------------------------
(***************************************************************************)
(* The session belongs to the data thread.                                 *)
(***************************************************************************)

\* No step starts a second session, or ends a connection around a live thread.
LEMMA OwnedKept ==
  CaptureOwned /\ [Next]_vars => CaptureOwned'
<1> SUFFICES ASSUME CaptureOwned, [Next]_vars PROVE CaptureOwned'
  OBVIOUS
<1> USE DEF CaptureOwned, Arming
<1>1. CASE Connect
  BY <1>1 DEF Connect, ResetForNewConnection, capture, locals
<1>2. ASSUME NEW c \in Arming, StartRunning(c) PROVE CaptureOwned'
  BY <1>2 DEF StartRunning, ReadCommand, capture, ScpiOnly, locals, sockets
<1>3. ASSUME NEW c \in Arming, StartOneShot(c) PROVE CaptureOwned'
  BY <1>3 DEF StartOneShot, At, Goto, capture, ScpiOnly, locals, sockets
<1>4. ASSUME NEW c \in Arming, StartForce(c) PROVE CaptureOwned'
  BY <1>4 DEF StartForce, At, Goto, capture, ScpiOnly, locals, sockets
<1>5. ASSUME NEW c \in Arming, StartArmed(c) PROVE CaptureOwned'
  BY <1>5 DEF StartArmed, At, Goto, capture, ScpiOnly, locals, sockets
<1>6. ASSUME NEW c \in Arming, StartReset(c) PROVE CaptureOwned'
  BY <1>6 DEF StartReset, At, Idle, Goto, flags, capture, ScpiOnly, locals, sockets
<1>7. ASSUME NEW k \in Keys, SetTrigger(k) PROVE CaptureOwned'
  BY <1>7 DEF SetTrigger, flags, capture, locals, sockets
<1>8. CASE ForceFlag
  BY <1>8 DEF ForceFlag, ReadCommand, capture, ScpiOnly, locals, sockets
<1>9. CASE ForceArmed
  BY <1>9 DEF ForceArmed, At, Goto, capture, ScpiOnly, locals, sockets
<1>10. CASE ForceLoad
  BY <1>10 DEF ForceLoad, At, Goto, flags, capture, ScpiOnly, locals, sockets
<1>11. CASE ForceRunning
  BY <1>11 DEF ForceRunning, At, Goto, capture, ScpiOnly, locals, sockets
<1>12. CASE ForceOneShot
  BY <1>12 DEF ForceOneShot, At, Goto, capture, ScpiOnly, locals, sockets
<1>13. CASE ForceReset
  BY <1>13 DEF ForceReset, At, Idle, Goto, flags, capture, ScpiOnly, locals, sockets
<1>14. CASE StopRunning
  BY <1>14 DEF StopRunning, ReadCommand, capture, ScpiOnly, locals, sockets
<1>15. CASE StopArmed
  BY <1>15 DEF StopArmed, At, Goto, capture, ScpiOnly, locals, sockets
<1>16. CASE StopCapture
  BY <1>16 DEF StopCapture, At, Idle, Goto, StopSession, flags, ScpiOnly, locals, sockets
<1>17. CASE ReadEof
  BY <1>17 DEF ReadEof, Goto, flags, capture, ScpiOnly, locals, sockets
<1>18. CASE ReadError
  BY <1>18 DEF ReadError, Goto, flags, capture, ScpiOnly, locals, sockets
<1>19. CASE CloseStop
  BY <1>19 DEF CloseStop, At, Goto, StopSession, flags, ScpiOnly, locals, sockets
<1>20. CASE Join
  BY <1>20 DEF Join, Goto, flags, trigger, capture, locals
<1>21. CASE ReadReady
  BY <1>21 DEF ReadReady, DataStep, scpi, capture, locals, DeviceKept, flags
<1>22. CASE ReadFailed
  BY <1>22 DEF ReadFailed, DataStep, scpi, capture, locals, sockets, DeviceKept, flags
<1>23. CASE CheckShutdown
  BY <1>23 DEF CheckShutdown, DataStep, scpi, capture, locals, sockets, DeviceKept,
       flags, TakeSeqnum
<1>24. CASE GateRunning
  BY <1>24 DEF GateRunning, DataStep, scpi, capture, locals, sockets, DeviceKept, flags
<1>25. CASE GateArmed
  BY <1>25 DEF GateArmed, DataStep, scpi, capture, locals, sockets, DeviceKept, flags
<1>26. CASE NotReady
  BY <1>26 DEF NotReady, DataStep, scpi, SendHeader, DeviceKept, flags
<1>27. CASE GetConfig
  BY <1>27 DEF GetConfig, DataStep, scpi, capture, sockets, DeviceKept, flags
<1>28. CASE LoadForce
  BY <1>28 DEF LoadForce, DataStep, scpi, capture, sockets, DeviceKept, flags
<1>29. CASE SessionStart
  BY <1>29 DEF SessionStart, DataStep, scpi, locals, sockets, DeviceKept, flags
<1>30. CASE MarkForced
  BY <1>30 DEF MarkForced, DataStep, scpi, locals, sockets, DeviceKept, flags
<1>31. CASE ScanConfig
  BY <1>31 DEF ScanConfig, DataStep, scpi, capture, sockets, DeviceKept, flags
<1>32. CASE ScanPrev
  BY <1>32 DEF ScanPrev, DataStep, scpi, capture, sockets, DeviceKept, flags
<1>33. CASE ScanEdge
  BY <1>33 DEF ScanEdge, DataStep, scpi, ScanDone, flags, sockets
<1>34. CASE ScanOutOfRange
  BY <1>34 DEF ScanOutOfRange, DataStep, scpi, ScanDone, flags, sockets, capture
<1>35. CASE Reply
  BY <1>35 DEF Reply, DataStep, scpi, AfterReply, SendHeader, DeviceKept, flags
<1>36. CASE ReplyFailed
  BY <1>36 DEF ReplyFailed, DataStep, scpi, SkipCheck, Triggered, sockets, DeviceKept,
       flags
<1>37. CASE LoadOneShot
  BY <1>37 DEF LoadOneShot, DataStep, scpi, AfterComplete, capture, locals, sockets,
       DeviceKept, flags
<1>38. CASE StoreRunning
  BY <1>38 DEF StoreRunning, DataStep, scpi, capture, locals, sockets
<1>39. CASE StoreArmed
  BY <1>39 DEF StoreArmed, DataStep, scpi, AfterComplete, capture, locals, sockets
<1>40. CASE ClearForce
  BY <1>40 DEF ClearForce, DataStep, scpi, capture, sockets
<1>41. CASE SessionEnd
  BY <1>41 DEF SessionEnd, DataStep, scpi, locals, sockets, DeviceKept, flags
<1>42. CASE LogicPacket
  BY <1>42 DEF LogicPacket, sockets, EnvironmentOnly, flags, trigger, locals
<1>43. CASE TriggerPacket
  BY <1>43 DEF TriggerPacket, sockets, EnvironmentOnly, flags, trigger, locals
<1>44. CASE ClientReady
  BY <1>44 DEF ClientReady, capture, EnvironmentOnly, flags, trigger, locals
<1>45. CASE ClientCloseCmd
  BY <1>45 DEF ClientCloseCmd, capture, EnvironmentOnly, flags, trigger, locals
<1>46. CASE ClientCloseData
  BY <1>46 DEF ClientCloseData, capture, EnvironmentOnly, flags, trigger, locals
<1>47. CASE UNCHANGED vars
  BY <1>47 DEF vars, flags, trigger, capture, scpi, locals, sockets
<1>. QED
  BY <1>1, <1>2, <1>3, <1>4, <1>5, <1>6, <1>7, <1>8, <1>9, <1>10, <1>11,
       <1>12, <1>13, <1>14, <1>15, <1>16, <1>17, <1>18, <1>19, <1>20, <1>21, <1>22, <1>23,
       <1>24, <1>25, <1>26, <1>27, <1>28, <1>29, <1>30, <1>31, <1>32, <1>33, <1>34, <1>35,
       <1>36, <1>37, <1>38, <1>39, <1>40, <1>41, <1>42, <1>43, <1>44, <1>45, <1>46, <1>47
    DEF Next, Scpi, Start, ForceTrigger, Stop, DataProgress, Environment

\* A capture runs only inside acquire, and no thread outlives its connection.
THEOREM Ownership == Spec => []CaptureOwned
<1>1. Init => CaptureOwned
  BY DEF Init, CaptureOwned
<1>. QED
  BY <1>1, OwnedKept, PTL DEF Spec

-----------------------------------------------------------------------------
(***************************************************************************)
(* One header per 'K', numbered without a gap.  As far as the sockets and  *)
(* the numbers are concerned, the steps are of nine kinds.                 *)
(***************************************************************************)

Numbers == <<seqnum, seq>>

\* The SCPI thread serves its client, or gives up on it, which alone shuts down.
Serving == {"IDLE"} \cup Commands

Leads ==
  /\ \/ cmd' = cmd
     \/ cmd \in Serving /\ cmd' \in Serving
     \/ cmd \in Serving \cup {"CLOSE"} /\ cmd' \in {"CLOSE", "JOIN"}
  /\ shutdown' => shutdown \/ cmd' = "CLOSE"

\* No byte is read and no header is sent.
Moves ==
  /\ UNCHANGED <<Numbers, sockets>> /\ (shutdown => shutdown') /\ Leads
  /\ \/ dpc' = dpc
     \/ dpc \in Answering /\ dpc' \in Answering
     \/ dpc \in Completing /\ dpc' \in Completing \cup {"read"}

\* The data thread gives up on a socket that the client closed.
Fails ==
  /\ ~data_open /\ UNCHANGED <<sockets, cmd, shutdown>>
  /\ dpc \in {"read"} \cup Answering /\ dpc' = "done"

Sends(real) ==
  /\ dpc \in Answering /\ dpc' \in Completing \cup {"read"}
  /\ out' = IF data_open THEN Append(out, [seq |-> seq, real |-> real]) ELSE out
  /\ UNCHANGED <<shutdown, cmd, Numbers, cmd_open, data_open, sent, inbox>>

Closes ==
  /\ UNCHANGED <<dpc, shutdown, cmd, Numbers, sent, inbox, out>>
  /\ (data_open' => data_open) /\ (cmd_open' => cmd_open)

Kind ==
  \/ Connect \/ Join \/ ReadReady \/ CheckShutdown \/ ClientReady
  \/ Moves \/ Fails \/ Closes
  \/ \E real \in BOOLEAN : Sends(real)

\* Every step is of one of these kinds.
LEMMA Kinds == BooleansOK /\ [Next]_vars => Kind
<1> SUFFICES ASSUME BooleansOK, [Next]_vars PROVE Kind
  OBVIOUS
<1> USE DEF Moves, Leads, Serving, Commands, Arming, Numbers, Answering, Completing
<1>1. ASSUME NEW c \in Arming, StartRunning(c) PROVE Kind
  BY <1>1 DEF StartRunning, ReadCommand, capture, ScpiOnly, locals, sockets, Kind
<1>2. ASSUME NEW c \in Arming, StartOneShot(c) PROVE Kind
  BY <1>2 DEF StartOneShot, At, Goto, capture, ScpiOnly, locals, sockets, Kind
<1>3. ASSUME NEW c \in Arming, StartForce(c) PROVE Kind
  BY <1>3 DEF StartForce, At, Goto, capture, ScpiOnly, locals, sockets, Kind
<1>4. ASSUME NEW c \in Arming, StartArmed(c) PROVE Kind
  BY <1>4 DEF StartArmed, At, Goto, capture, ScpiOnly, locals, sockets, Kind
<1>5. ASSUME NEW c \in Arming, StartReset(c) PROVE Kind
  BY <1>5 DEF StartReset, At, Idle, Goto, flags, capture, ScpiOnly, locals, sockets, Kind
<1>6. ASSUME NEW k \in Keys, SetTrigger(k) PROVE Kind
  BY <1>6 DEF SetTrigger, flags, capture, locals, sockets, Kind
<1>7. CASE ForceFlag
  BY <1>7 DEF ForceFlag, ReadCommand, capture, ScpiOnly, locals, sockets, Kind
<1>8. CASE ForceArmed
  BY <1>8 DEF ForceArmed, At, Goto, capture, ScpiOnly, locals, sockets, Kind
<1>9. CASE ForceLoad
  BY <1>9 DEF ForceLoad, At, Goto, flags, capture, ScpiOnly, locals, sockets, Kind
<1>10. CASE ForceRunning
  BY <1>10 DEF ForceRunning, At, Goto, capture, ScpiOnly, locals, sockets, Kind
<1>11. CASE ForceOneShot
  BY <1>11 DEF ForceOneShot, At, Goto, capture, ScpiOnly, locals, sockets, Kind
<1>12. CASE ForceReset
  BY <1>12 DEF ForceReset, At, Idle, Goto, flags, capture, ScpiOnly, locals, sockets, Kind
<1>13. CASE StopRunning
  BY <1>13 DEF StopRunning, ReadCommand, capture, ScpiOnly, locals, sockets, Kind
<1>14. CASE StopArmed
  BY <1>14 DEF StopArmed, At, Goto, capture, ScpiOnly, locals, sockets, Kind
<1>15. CASE StopCapture
  BY <1>15 DEF StopCapture, At, Idle, Goto, StopSession, flags, ScpiOnly, locals, sockets,
       Kind
<1>16. CASE ReadEof
  BY <1>16 DEF ReadEof, Goto, flags, capture, ScpiOnly, locals, sockets, Kind
<1>17. CASE ReadError
  BY <1>17 DEF ReadError, Goto, flags, capture, ScpiOnly, locals, sockets, Kind
<1>18. CASE CloseStop
  BY <1>18 DEF CloseStop, At, Goto, StopSession, flags, ScpiOnly, locals, sockets, Kind
<1>19. CASE ReadFailed
  BY <1>19 DEF ReadFailed, DataStep, scpi, capture, locals, sockets, DeviceKept, flags,
       Fails, Kind
<1>20. CASE GateRunning
  BY <1>20 DEF GateRunning, DataStep, scpi, capture, locals, sockets, DeviceKept, flags,
       Kind
<1>21. CASE GateArmed
  BY <1>21 DEF GateArmed, DataStep, scpi, capture, locals, sockets, DeviceKept, flags, Kind
<1>22. CASE NotReady
  <2>1. Sends(FALSE)
    BY <1>22 DEF NotReady, DataStep, scpi, SendHeader, DeviceKept, flags, Sends
  <2>. QED
    BY <2>1 DEF Kind
<1>23. CASE GetConfig
  BY <1>23 DEF GetConfig, DataStep, scpi, capture, sockets, DeviceKept, flags, Kind
<1>24. CASE LoadForce
  BY <1>24 DEF LoadForce, DataStep, scpi, capture, sockets, DeviceKept, flags, Kind
<1>25. CASE SessionStart
  BY <1>25 DEF SessionStart, DataStep, scpi, locals, sockets, DeviceKept, flags, Kind
<1>26. CASE MarkForced
  BY <1>26 DEF MarkForced, DataStep, scpi, locals, sockets, DeviceKept, flags, Kind
<1>27. CASE ScanConfig
  BY <1>27 DEF ScanConfig, DataStep, scpi, capture, sockets, DeviceKept, flags, Kind
<1>28. CASE ScanPrev
  BY <1>28 DEF ScanPrev, DataStep, scpi, capture, sockets, DeviceKept, flags, Kind
<1>29. CASE ScanEdge
  BY <1>29 DEF ScanEdge, DataStep, scpi, ScanDone, flags, sockets, Kind
<1>30. CASE ScanOutOfRange
  BY <1>30 DEF ScanOutOfRange, DataStep, scpi, ScanDone, flags, sockets, capture, Kind
<1>31. CASE Reply
  <2>1. Sends(SendReal)
    BY <1>31 DEF Reply, DataStep, scpi, AfterReply, SkipCheck, Triggered, SendHeader,
       DeviceKept, flags, Sends
  <2>. QED
    BY <2>1, SendRealType DEF Kind
<1>32. CASE ReplyFailed
  BY <1>32 DEF ReplyFailed, DataStep, scpi, SkipCheck, Triggered, sockets, DeviceKept,
       flags, Fails, Kind
<1>33. CASE LoadOneShot
  BY <1>33 DEF LoadOneShot, DataStep, scpi, AfterComplete, capture, locals, sockets,
       DeviceKept, flags, Kind
<1>34. CASE StoreRunning
  BY <1>34 DEF StoreRunning, DataStep, scpi, capture, locals, sockets, Kind
<1>35. CASE StoreArmed
  BY <1>35 DEF StoreArmed, DataStep, scpi, AfterComplete, capture, locals, sockets, Kind
<1>36. CASE ClearForce
  BY <1>36 DEF ClearForce, DataStep, scpi, capture, sockets, Kind
<1>37. CASE SessionEnd
  BY <1>37 DEF SessionEnd, DataStep, scpi, locals, sockets, DeviceKept, flags, Kind
<1>38. CASE LogicPacket
  BY <1>38 DEF LogicPacket, sockets, EnvironmentOnly, flags, trigger, locals, Kind
<1>39. CASE TriggerPacket
  BY <1>39 DEF TriggerPacket, sockets, EnvironmentOnly, flags, trigger, locals, Kind
<1>40. CASE ClientCloseCmd
  BY <1>40 DEF ClientCloseCmd, capture, EnvironmentOnly, flags, trigger, locals, Closes,
       Kind
<1>41. CASE ClientCloseData
  BY <1>41 DEF ClientCloseData, capture, EnvironmentOnly, flags, trigger, locals, Closes,
       Kind
<1>42. CASE UNCHANGED vars
  BY <1>42 DEF vars, scpi, locals, sockets, Kind
<1>. QED
  BY <1>1, <1>2, <1>3, <1>4, <1>5, <1>6, <1>7, <1>8, <1>9, <1>10, <1>11, <1>12,
     <1>13, <1>14, <1>15, <1>16, <1>17, <1>18, <1>19, <1>20, <1>21, <1>22, <1>23, <1>24,
     <1>25, <1>26, <1>27, <1>28, <1>29, <1>30, <1>31, <1>32, <1>33, <1>34, <1>35, <1>36,
     <1>37, <1>38, <1>39, <1>40, <1>41, <1>42
  DEF Next, Scpi, Start, ForceTrigger, Stop, DataProgress, Environment, Kind

HeaderInv == OneHeaderPerReady /\ HeaderSequence /\ Numbering

\* A header sent on an open socket settles the 'K' that is owed one.
LEMMA SendKeeps ==
  ASSUME Typed, HeaderInv, NEW real \in BOOLEAN, Sends(real)
  PROVE  HeaderInv'
<1> DEFINE h == [seq |-> seq, real |-> real]
<1>0. out \in Seq(Headers) /\ Len(out) \in Nat /\ seq \in 0 .. SeqMod - 1 /\ inbox \in Nat
  BY DEF Typed, TypeOK, DataOK
<1>1. CASE ~data_open
  BY <1>1 DEF HeaderInv, Sends, OneHeaderPerReady, HeaderSequence, Numbering
<1>2. CASE data_open
  <2>1. h \in Headers /\ h.seq = seq
    BY <1>0 DEF Headers
  <2>2. out' = Append(out, h) /\ data_open' /\ dpc \in Answering
    BY <1>2 DEF Sends
  <2>3. /\ out' \in Seq(Headers) /\ Len(out') = Len(out) + 1 /\ out'[Len(out) + 1] = h
        /\ \A i \in 1 .. Len(out) : out'[i] = out[i]
    BY <1>0, <2>1, <2>2, AppendHeader
  <2>4. seq = Expected /\ seqnum = NextSeq(seq)
    BY <1>2, <2>2 DEF HeaderInv, Numbering
  <2>5. OneHeaderPerReady'
    <3>1. Owed /\ ~Owed' /\ dpc # "done" /\ dpc' # "done"
      BY <2>2 DEF Sends, Owed, Answering, Completing
    <3>. QED
      BY <1>0, <1>2, <2>3, <3>1 DEF HeaderInv, Sends, OneHeaderPerReady
  <2>6. HeaderSequence'
    <3> SUFFICES ASSUME NEW i \in 1 .. Len(out')
                 PROVE  out'[i].seq = IF i = 1 THEN 0 ELSE NextSeq(out'[i - 1].seq)
      BY DEF HeaderSequence, NextSeq
    <3>1. CASE i \in 1 .. Len(out)
      <4>1. out[i].seq = IF i = 1 THEN 0 ELSE NextSeq(out[i - 1].seq)
        BY <3>1 DEF HeaderInv, HeaderSequence
      <4>2. i # 1 => i - 1 \in 1 .. Len(out)
        BY <1>0, <3>1
      <4>3. out'[i] = out[i] /\ (i # 1 => out'[i - 1] = out[i - 1])
        BY <2>3, <3>1, <4>2
      <4>. QED
        BY <4>1, <4>3
    <3>2. CASE i = Len(out) + 1
      BY <1>0, <2>1, <2>3, <2>4, <3>2 DEF Expected
    <3>. QED
      BY <1>0, <2>3, <3>1, <3>2
  <2>7. Numbering'
    <3>1. Expected' = NextSeq(seq)
      BY <1>0, <2>1, <2>3 DEF Expected, NextSeq
    <3>. QED
      BY <2>2, <2>4, <3>1 DEF Sends, Numbering, Numbers, Answering, Completing, NextSeq
  <2>. QED
    BY <2>5, <2>6, <2>7 DEF HeaderInv
<1>. QED
  BY <1>1, <1>2

\* No step loses, repeats or misnumbers a header.
LEMMA HeadersKept ==
  Typed /\ HeaderInv /\ [Next]_vars => HeaderInv'
<1> SUFFICES ASSUME Typed, HeaderInv, Kind PROVE HeaderInv'
  BY Kinds DEF Typed, TypeOK
<1> USE DEF Typed, TypeOK, BooleansOK, DataOK
<1>1. ASSUME out' = out PROVE HeaderSequence' /\ Expected' = Expected /\ Len(out') = Len(out)
  BY <1>1 DEF HeaderInv, HeaderSequence, Expected, NextSeq
<1>2. CASE Connect
  <2>1. OneHeaderPerReady' /\ HeaderSequence'
    BY <1>2 DEF Connect, OneHeaderPerReady, HeaderSequence, Owed, Answering
  <2>2. Numbering'
    BY <1>2 DEF Connect, ResetForNewConnection, Numbering, Expected, Answering
  <2>. QED
    BY <2>1, <2>2 DEF HeaderInv
<1>3. CASE Join
  BY <1>1, <1>3 DEF Join, HeaderInv, OneHeaderPerReady, Numbering
<1>4. CASE ReadReady
  <2>1. /\ out' = out /\ data_open' = data_open /\ sent' = sent /\ inbox' = inbox - 1
        /\ dpc = "read" /\ dpc' = "shutdown" /\ seqnum' = seqnum
    BY <1>4 DEF ReadReady, DataStep, locals, DeviceKept
  <2>2. ~Owed /\ Owed'
    BY <2>1 DEF Owed, Answering
  <2>3. OneHeaderPerReady'
    BY <1>1, <2>1, <2>2 DEF HeaderInv, OneHeaderPerReady
  <2>4. Numbering'
    BY <1>1, <2>1 DEF HeaderInv, Numbering, Answering
  <2>. QED
    BY <1>1, <2>1, <2>3, <2>4 DEF HeaderInv
<1>5. CASE CheckShutdown
  <2>1. /\ out' = out /\ data_open' = data_open /\ sent' = sent /\ inbox' = inbox
        /\ dpc = "shutdown" /\ shutdown' = shutdown
    BY <1>5 DEF CheckShutdown, sockets, DataStep
  <2>2. CASE dpc' = "done"
    <3>1. shutdown
      BY <1>5, <2>2 DEF CheckShutdown, DataStep
    <3>. QED
      BY <1>1, <2>1, <2>2, <3>1 DEF HeaderInv, OneHeaderPerReady, Numbering, Answering
  <2>3. CASE dpc' = "gateRunning"
    <3>1. seq' = seqnum /\ seqnum' = NextSeq(seqnum)
      BY <1>5, <2>3 DEF CheckShutdown, TakeSeqnum, DataStep
    <3>2. data_open => seqnum = Expected
      BY <2>1 DEF HeaderInv, Numbering, Answering
    <3>3. Numbering'
      BY <1>1, <2>1, <2>3, <3>1, <3>2 DEF Numbering, Answering, NextSeq
    <3>4. Owed /\ Owed'
      BY <2>1, <2>3 DEF Owed, Answering
    <3>5. OneHeaderPerReady'
      BY <1>1, <2>1, <2>3, <3>4 DEF HeaderInv, OneHeaderPerReady
    <3>. QED
      BY <1>1, <2>1, <3>3, <3>5 DEF HeaderInv
  <2>. QED
    BY <1>5, <2>2, <2>3 DEF CheckShutdown, DataStep
<1>6. CASE ClientReady
  <2>1. /\ out' = out /\ dpc' = dpc /\ seq' = seq /\ seqnum' = seqnum
        /\ sent' = sent + 1 /\ inbox' = inbox + 1 /\ data_open /\ shutdown' = shutdown
    BY <1>6 DEF ClientReady, EnvironmentOnly, locals
  <2>2. Owed' = Owed
    BY <2>1 DEF Owed
  <2>3. OneHeaderPerReady'
    BY <1>1, <2>1, <2>2 DEF HeaderInv, OneHeaderPerReady
  <2>4. Numbering'
    BY <1>1, <2>1 DEF HeaderInv, Numbering, NextSeq
  <2>. QED
    BY <1>1, <2>1, <2>3, <2>4 DEF HeaderInv
<1>7. CASE Moves
  <2>1. /\ out' = out /\ data_open' = data_open /\ sent' = sent /\ inbox' = inbox
        /\ seq' = seq /\ seqnum' = seqnum /\ (shutdown => shutdown')
    BY <1>7 DEF Moves, Numbers, sockets
  <2>2. Owed' = Owed /\ (dpc' = "done" <=> dpc = "done")
    BY <1>7 DEF Moves, Owed, Answering, Completing
  <2>3. OneHeaderPerReady'
    BY <1>1, <2>1, <2>2 DEF HeaderInv, OneHeaderPerReady
  <2>4. dpc' \in Answering <=> dpc \in Answering
    BY <1>7 DEF Moves, Answering, Completing
  <2>5. Numbering'
    BY <1>1, <2>1, <2>2, <2>4 DEF HeaderInv, Numbering, NextSeq
  <2>. QED
    BY <1>1, <2>1, <2>3, <2>5 DEF HeaderInv
<1>8. CASE Fails
  BY <1>1, <1>8 DEF Fails, sockets, HeaderInv, OneHeaderPerReady, Numbering
<1>9. CASE Closes
  <2>1. /\ out' = out /\ dpc' = dpc /\ seq' = seq /\ seqnum' = seqnum /\ shutdown' = shutdown
        /\ sent' = sent /\ inbox' = inbox /\ (data_open' => data_open)
    BY <1>9 DEF Closes, Numbers
  <2>2. Owed' = Owed
    BY <2>1 DEF Owed
  <2>. QED
    BY <1>1, <2>1, <2>2 DEF HeaderInv, OneHeaderPerReady, Numbering, NextSeq
<1>. QED
  BY <1>2, <1>3, <1>4, <1>5, <1>6, <1>7, <1>8, <1>9, SendKeeps DEF Kind

\* The three facts hold in every behaviour; the second and third of them need
\* each other, since a header's number comes from a counter the client never
\* sees.
THEOREM Headered == Spec => []HeaderInv
<1>1. Init => HeaderInv
  BY DEF Init, HeaderInv, OneHeaderPerReady, HeaderSequence, Numbering, Expected, Owed,
         Answering
<1>. QED
  BY <1>1, TypeInvariant, HeadersKept, PTL DEF Spec

\* Every 'K' is answered by exactly one header while its socket is open.
THEOREM OneHeader == Spec => []OneHeaderPerReady
BY Headered, PTL DEF HeaderInv

\* The headers of a connection are numbered from zero without a gap.
THEOREM Sequence == Spec => []HeaderSequence
BY Headered, PTL DEF HeaderInv

\* No number is used up by anything but an answered 'K'.
THEOREM Numbered == Spec => []Numbering
BY Headered, PTL DEF HeaderInv

-----------------------------------------------------------------------------
(***************************************************************************)
(* The bridge server implements RequestReply: its initial states are       *)
(* initial states of RequestReply, and each of its steps is a step of      *)
(* RequestReply or leaves what that module sees unchanged.                 *)
(***************************************************************************)
\* The shutdown flag is raised only when the server gives up on a client.
ShutdownInv == shutdown => cmd \in {"ACCEPT", "CLOSE", "JOIN"}

\* What the mapping needs of a state: a header that is about to be sent has the
\* number the client expects, and a 'K' is dropped only by a shutdown.
MapInv == Typed /\ CaptureOwned /\ HeaderInv /\ ShutdownInv

LEMMA ShutdownKept == Typed /\ ShutdownInv /\ [Next]_vars => ShutdownInv'
<1> SUFFICES ASSUME Kind, ShutdownInv PROVE ShutdownInv'
  BY Kinds DEF Typed, TypeOK
<1>1. CASE Connect
  BY <1>1 DEF Connect, ResetForNewConnection, ShutdownInv
<1>2. CASE Join
  BY <1>2 DEF Join, Goto, ShutdownInv
<1>3. CASE ReadReady
  BY <1>3 DEF ReadReady, DataStep, scpi, ShutdownInv
<1>4. CASE CheckShutdown
  BY <1>4 DEF CheckShutdown, DataStep, scpi, ShutdownInv
<1>5. CASE ClientReady
  BY <1>5 DEF ClientReady, EnvironmentOnly, ShutdownInv
<1>6. CASE Moves
  BY <1>6 DEF Moves, Leads, Serving, Commands, ShutdownInv
<1>7. CASE Fails
  BY <1>7 DEF Fails, ShutdownInv
<1>8. CASE Closes
  BY <1>8 DEF Closes, ShutdownInv
<1>9. ASSUME NEW real \in BOOLEAN, Sends(real) PROVE ShutdownInv'
  BY <1>9 DEF Sends, ShutdownInv
<1>. QED
  BY <1>1, <1>2, <1>3, <1>4, <1>5, <1>6, <1>7, <1>8, <1>9 DEF Kind

\* The invariant holds in every behaviour.
LEMMA Mapped == Spec => []MapInv
<1>1. Init => ShutdownInv
  BY DEF Init, ShutdownInv
<1>2. Spec => []ShutdownInv
  BY <1>1, TypeInvariant, ShutdownKept, PTL DEF Spec
<1>. QED
  BY <1>2, TypeInvariant, Ownership, Headered, PTL DEF MapInv

-----------------------------------------------------------------------------
\* The phases, one by one.
LEMMA PhaseIs ==
  /\ Phase = "closed" <=> cmd = "ACCEPT"
  /\ Phase = "open" <=> cmd \notin {"ACCEPT", "CLOSE", "JOIN"} /\ cmd_open /\ data_open
  /\ Phase \in {"closed", "open", "closing"}
BY DEF Phase

\* A live data thread has a client, and one that is being answered is owed.
LEMMA LiveThread ==
  MapInv /\ dpc # "none" => Phase # "closed"
BY PhaseIs DEF MapInv, CaptureOwned

\* Steps that neither read nor answer: at most the client is given up.
LEMMA MovesMap ==
  ASSUME MapInv, Moves
  PROVE  [RR!RRNext]_(RR!abstract)
<1>1. out' = out /\ inbox' = inbox /\ Owed' = Owed /\ cmd_open' = cmd_open /\ data_open' = data_open
  BY DEF Moves, sockets, Owed, Answering, Completing
<1>2. Pending' = Pending
  BY <1>1 DEF Pending
<1>3. CASE Phase' = Phase
  BY <1>1, <1>2, <1>3 DEF RR!abstract
<1>4. CASE Phase' # Phase
  <2>1. cmd \in Serving /\ cmd' \in {"CLOSE", "JOIN"}
    BY <1>1, <1>4 DEF Moves, Leads, Serving, Commands, Phase
  <2>2. Phase = "open" /\ Phase' = "closing"
    BY <1>1, <1>4, <2>1 DEF Serving, Commands, Phase
  <2>. QED
    BY <1>1, <1>2, <2>2 DEF RR!RRNext, RR!Hangup
<1>. QED
  BY <1>3, <1>4

\* A header answers a 'K', unless the client has closed its socket.
LEMMA SendsMap ==
  ASSUME MapInv, NEW real \in BOOLEAN, Sends(real)
  PROVE  RR!RRNext
<1>1. Phase # "closed" /\ Phase' = Phase
  BY LiveThread DEF Sends, Answering, Phase
<1>2. inbox \in Nat /\ inbox' = inbox /\ Owed /\ ~Owed'
  BY DEF MapInv, Typed, TypeOK, DataOK, Sends, Owed, Answering, Completing
<1>3. Pending > 0 /\ Pending' = Pending - 1
  BY <1>2 DEF Pending
<1>4. CASE data_open
  <2>1. seq = RR!Number
    BY <1>4 DEF MapInv, HeaderInv, Numbering, Sends, Expected, NextSeq, RR!Number
  <2>2. out' = Append(out, [seq |-> RR!Number, real |-> real])
    BY <1>4, <2>1 DEF Sends
  <2>. QED
    BY <1>1, <1>3, <2>2 DEF RR!RRNext, RR!Answer
<1>5. CASE ~data_open
  <2>1. Phase = "closing" /\ out' = out
    BY <1>1, <1>5, PhaseIs DEF Sends
  <2>. QED
    BY <1>1, <1>3, <2>1 DEF RR!RRNext, RR!Abandon
<1>. QED
  BY <1>4, <1>5

\* Every step of the server is a step of RequestReply or a stutter.
LEMMA StepMaps == MapInv /\ [Next]_vars => [RR!RRNext]_(RR!abstract)
<1> SUFFICES ASSUME MapInv, Kind PROVE [RR!RRNext]_(RR!abstract)
  BY Kinds DEF MapInv, Typed, TypeOK
<1>0. inbox \in Nat
  BY DEF MapInv, Typed, TypeOK, DataOK
<1>1. CASE Connect
  <2>1. Phase = "closed" /\ Phase' = "open"
    BY <1>1 DEF Connect, Phase
  <2>2. Pending = Pending /\ Pending' = 0 /\ out' = <<>>
    BY <1>1 DEF Connect, Pending, Owed, Answering
  <2>. QED
    BY <2>1, <2>2 DEF RR!RRNext, RR!Open
<1>2. CASE Join
  <2>1. Phase = "closing" /\ Phase' = "closed"
    BY <1>2 DEF Join, Goto, Phase
  <2>2. Pending' = 0 /\ out' = out
    BY <1>2 DEF Join, Pending, Owed, Answering
  <2>. QED
    BY <2>1, <2>2 DEF RR!RRNext, RR!Close
<1>3. CASE ReadReady
  <2>1. Phase' = Phase /\ out' = out
    BY <1>3 DEF ReadReady, DataStep, scpi, Phase
  <2>2. inbox' = inbox - 1 /\ ~Owed /\ Owed'
    BY <1>3 DEF ReadReady, DataStep, Owed, Answering
  <2>3. Pending' = Pending
    BY <1>0, <2>2 DEF Pending
  <2>. QED
    BY <2>1, <2>3 DEF RR!abstract
<1>4. CASE CheckShutdown
  <2>1. Phase' = Phase /\ out' = out /\ inbox' = inbox /\ dpc = "shutdown" /\ Owed
    BY <1>4 DEF CheckShutdown, DataStep, scpi, sockets, Phase, Owed
  <2>2. CASE dpc' = "gateRunning"
    <3>1. Pending' = Pending
      BY <2>1, <2>2 DEF Pending, Owed, Answering
    <3>. QED
      BY <2>1, <3>1 DEF RR!abstract
  <2>3. CASE dpc' = "done"
    <3>1. shutdown
      BY <1>4, <2>3 DEF CheckShutdown, DataStep
    <3>2. Phase = "closing"
      BY <2>1, <3>1, LiveThread, PhaseIs DEF MapInv, ShutdownInv
    <3>3. ~Owed'
      BY <2>3 DEF Owed, Answering
    <3>4. Pending > 0 /\ Pending' = Pending - 1
      BY <1>0, <2>1, <3>3 DEF Pending
    <3>. QED
      BY <2>1, <3>2, <3>4 DEF RR!RRNext, RR!Abandon
  <2>. QED
    BY <1>4, <2>2, <2>3 DEF CheckShutdown, DataStep
<1>5. CASE ClientReady
  <2>1. Phase' = Phase /\ Phase # "closed" /\ out' = out
    BY <1>5, PhaseIs DEF ClientReady, EnvironmentOnly, Phase
  <2>2. inbox' = inbox + 1 /\ Owed' = Owed
    BY <1>5 DEF ClientReady, EnvironmentOnly, Owed
  <2>3. Pending' = Pending + 1
    BY <1>0, <2>2 DEF Pending
  <2>. QED
    BY <2>1, <2>3 DEF RR!RRNext, RR!Request
<1>6. CASE Moves
  BY <1>6, MovesMap
<1>7. CASE Fails
  <2>1. Phase' = Phase /\ Phase = "closing" /\ out' = out /\ inbox' = inbox
    BY <1>7, LiveThread, PhaseIs DEF Fails, sockets, Phase, Answering
  <2>2. ~Owed'
    BY <1>7 DEF Fails, Owed, Answering
  <2>3. CASE Owed
    <3>1. Pending > 0 /\ Pending' = Pending - 1
      BY <1>0, <2>1, <2>2, <2>3 DEF Pending
    <3>. QED
      BY <2>1, <3>1 DEF RR!RRNext, RR!Abandon
  <2>4. CASE ~Owed
    BY <2>1, <2>2, <2>4 DEF Pending, RR!abstract
  <2>. QED
    BY <2>3, <2>4
<1>8. CASE Closes
  <2>1. out' = out /\ inbox' = inbox /\ Owed' = Owed /\ cmd' = cmd
    BY <1>8 DEF Closes, Owed
  <2>2. Pending' = Pending
    BY <2>1 DEF Pending
  <2>3. Phase' = Phase \/ (Phase = "open" /\ Phase' = "closing")
    BY <1>8, <2>1 DEF Closes, Phase
  <2>. QED
    BY <2>1, <2>2, <2>3 DEF RR!RRNext, RR!Hangup, RR!abstract
<1>9. ASSUME NEW real \in BOOLEAN, Sends(real) PROVE RR!RRNext
  BY <1>9, SendsMap
<1>. QED
  BY <1>1, <1>2, <1>3, <1>4, <1>5, <1>6, <1>7, <1>8, <1>9 DEF Kind

\* run_data_thread keeps what RequestReply promises: one header per request, in
\* order, none that was not asked for, and none missing while the client stays.
THEOREM Implementation == Spec => ImplementsSafety
<1>1. Init => RR!RRInit
  BY DEF Init, RR!RRInit, Phase, Pending, Owed, Answering
<1>. QED
  BY <1>1, Mapped, StepMaps, PTL DEF Spec, ImplementsSafety, RR!RRSafety

-----------------------------------------------------------------------------
(***************************************************************************)
(* The capture that the data thread holds.                                 *)
(***************************************************************************)

\* Where the data thread holds a complete capture, at "reply" if it has samples.
Holding == {"force", "scanConfig", "scanPrev", "scan"}

\* The steps, as far as the capture is concerned: the thread stays where it is,
\* or is elsewhere before and after; it starts, ends, passes on or gives up a
\* capture; or it writes an answer.
Stays ==
  /\ dpc' = dpc /\ (session' = "idle" <=> session = "idle")
  /\ session = "idle" => data' = data

Elsewhere ==
  /\ session' = session
  /\ dpc \notin Holding \cup {"reply"} /\ dpc' \notin Holding \cup {"reply"}

Opens ==
  /\ dpc = "start" /\ session = "idle"
  /\ \/ dpc' = "run" /\ session' = "running"
     \/ dpc' = "reply" /\ session' = session /\ data' = FALSE

Ends ==
  /\ dpc = "run" /\ session # "idle" /\ session' = "idle"
  /\ dpc' = "force" \/ (dpc' = "reply" /\ data' = FALSE)

Scans ==
  /\ session' = session /\ data' = data /\ dpc \in Holding
  /\ dpc' \in Holding \/ dpc' = "reply"

Answers ==
  /\ session' = session /\ dpc = "reply" /\ dpc' \notin Holding \cup {"reply"}

CycleKind == Stays \/ Elsewhere \/ Opens \/ Ends \/ Scans \/ Answers

\* Every step is of one of these kinds.
LEMMA CycleKinds == CaptureOwned /\ [Next]_vars => CycleKind
<1> SUFFICES ASSUME CaptureOwned, [Next]_vars PROVE CycleKind
  OBVIOUS
<1> USE DEF CaptureOwned, CycleKind
<1>1. CASE Connect
  BY <1>1 DEF Connect, capture, Elsewhere, Holding
<1>2. ASSUME NEW c \in Arming, Start(c) PROVE CycleKind
  BY <1>2 DEF Start, StartRunning, StartOneShot, StartForce, StartArmed, StartReset, capture,
       ScpiOnly, Stays
<1>3. CASE ForceTrigger
  BY <1>3 DEF ForceTrigger, ForceFlag, ForceArmed, ForceLoad, ForceRunning, ForceOneShot,
       ForceReset, capture, ScpiOnly, Stays
<1>4. CASE StopRunning \/ StopArmed
  BY <1>4 DEF StopRunning, StopArmed, capture, ScpiOnly, Stays
<1>5. CASE StopCapture \/ CloseStop
  BY <1>5 DEF StopCapture, CloseStop, StopSession, ScpiOnly, Stays
<1>6. CASE ReadEof \/ ReadError
  BY <1>6 DEF ReadEof, ReadError, capture, ScpiOnly, Stays
<1>7. CASE Join
  BY <1>7 DEF Join, capture, Elsewhere, Holding
<1>8. ASSUME NEW k \in Keys, SetTrigger(k) PROVE CycleKind
  BY <1>8 DEF SetTrigger, capture, Stays
<1>9. CASE ReadReady \/ ReadFailed \/ CheckShutdown \/ GateRunning \/ GateArmed \/ GetConfig
             \/ LoadForce
  BY <1>9 DEF ReadReady, ReadFailed, CheckShutdown, GateRunning, GateArmed, GetConfig,
       LoadForce, DataStep, capture, Elsewhere, Holding
<1>10. CASE NotReady
  BY <1>10 DEF NotReady, DataStep, SendHeader, Elsewhere, Holding
<1>11. CASE SessionStart
  BY <1>11 DEF SessionStart, DataStep, Opens
<1>12. CASE MarkForced
  BY <1>12 DEF MarkForced, DataStep, Scans, Holding
<1>13. CASE ScanConfig \/ ScanPrev
  BY <1>13 DEF ScanConfig, ScanPrev, DataStep, capture, Scans, Holding
<1>14. CASE ScanEdge \/ ScanOutOfRange
  BY <1>14 DEF ScanEdge, ScanOutOfRange, DataStep, capture, Scans, Holding
<1>15. CASE Reply
  BY <1>15 DEF Reply, AfterReply, SendHeader, DataStep, Answers, Holding
<1>16. CASE ReplyFailed
  BY <1>16 DEF ReplyFailed, DataStep, Answers, Holding
<1>17. CASE LoadOneShot \/ StoreRunning \/ StoreArmed \/ ClearForce
  BY <1>17 DEF LoadOneShot, StoreRunning, StoreArmed, ClearForce, AfterComplete, DataStep,
       capture, Elsewhere, Holding
<1>18. CASE SessionEnd
  BY <1>18 DEF SessionEnd, DataStep, Ends
<1>19. CASE LogicPacket \/ TriggerPacket
  BY <1>19 DEF LogicPacket, TriggerPacket, EnvironmentOnly, Stays
<1>20. CASE ClientReady \/ ClientCloseCmd \/ ClientCloseData
  BY <1>20 DEF ClientReady, ClientCloseCmd, ClientCloseData, EnvironmentOnly, capture, Stays
<1>21. CASE UNCHANGED vars
  BY <1>21 DEF vars, capture, Stays
<1>. QED
  BY <1>1, <1>2, <1>3, <1>4, <1>5, <1>6, <1>7, <1>8, <1>9, <1>10, <1>11, <1>12, <1>13,
       <1>14, <1>15, <1>16, <1>17, <1>18, <1>19, <1>20, <1>21
    DEF Next, Scpi, Stop, DataProgress, Environment

\* The steps of a capture's life.
Cycle == {<<"idle", "idle">>, <<"idle", "running">>, <<"running", "running">>,
          <<"running", "done">>, <<"running", "idle">>, <<"done", "done">>, <<"done", "idle">>}

\* What a step of each kind does to the capture; a waveform is written of one
\* that is complete, and gives it up.
LEMMA CycleStep ==
  ASSUME BooleansOK, CaptureOwned, CycleKind
  PROVE  /\ <<Capture, Capture'>> \in Cycle
         /\ SendsWaveform => Capture = "done" /\ Capture' = "idle"
<1> USE DEF Capture, SendsWaveform, SendReal, HaveData, CaptureOwned, Cycle, Holding
<1>1. CASE Stays
  BY <1>1 DEF Stays
<1>2. CASE Elsewhere
  BY <1>2 DEF Elsewhere
<1>3. CASE Opens
  BY <1>3 DEF Opens
<1>4. CASE Ends
  BY <1>4 DEF Ends
<1>5. CASE Scans
  BY <1>5 DEF Scans
<1>6. CASE Answers
  BY <1>6 DEF Answers
<1>. QED
  BY <1>1, <1>2, <1>3, <1>4, <1>5, <1>6 DEF CycleKind

\* A waveform is written of a complete capture, and of each at most once.
THEOREM WaveformOnce == Spec => CaptureCycle
<1>1. Typed /\ CaptureOwned /\ [Next]_vars =>
        [/\ SendsWaveform => Capture = "done" /\ Capture' = "idle"
         /\ <<Capture, Capture'>> \in {<<"idle", "idle">>, <<"idle", "running">>,
              <<"running", "running">>, <<"running", "done">>, <<"running", "idle">>,
              <<"done", "done">>, <<"done", "idle">>}]_vars
  BY CycleKinds, CycleStep DEF Cycle, Typed, TypeOK
<1>. QED
  BY <1>1, TypeInvariant, Ownership, PTL DEF Spec, CaptureCycle

-----------------------------------------------------------------------------
(***************************************************************************)
(* What the two threads of a session may do to each other's commands.  The *)
(* history variables only watch, so the facts above hold of HSpec too.     *)
(***************************************************************************)

\* The history variables only watch: every behaviour is one of BridgeServer.
LEMMA Watches == HSpec => [](Typed /\ CaptureOwned)
<1>1. HInit => Init
  BY DEF HInit
<1>2. [HNext]_<<vars, history>> => [Next]_vars
  BY DEF HNext
<1>. QED
  BY <1>1, <1>2, TypeInvariant, Ownership, PTL DEF HSpec, Spec

-----------------------------------------------------------------------------
(***************************************************************************)
(* The steps, as far as the run state is concerned.                        *)
(***************************************************************************)

\* The data thread may still deliver the waveform of a 'K' that has passed the
\* running check; from Loaded on it has also read the force flag.
Loaded == {"start", "run", "force", "scanConfig", "scanPrev", "scan", "reply"}
Past   == {"gateArmed", "config", "isForce"} \cup Loaded

\* A waveform is among the headers of this connection.
Reals == \E i \in 1 .. Len(out) : out[i].real

\* Neither thread moves, or the server gives up on its client.
Rests ==
  /\ UNCHANGED <<flags, last_trigger_state, is_force, out>>
  /\ \/ UNCHANGED <<cmd, step>>
     \/ cmd \in {"IDLE", "CLOSE", "JOIN"} /\ cmd' \in {"CLOSE", "JOIN", "ACCEPT"}
  /\ dpc' = dpc \/ (dpc = "done" /\ dpc' = "none")
  /\ trig' = "forced" => trig = "forced"

\* The data thread gets on, up to the reply, and changes no flag.
Walks ==
  /\ UNCHANGED <<flags, cmd, step>> /\ ~DeliversReal /\ (Reals' => Reals)
  /\ \/ dpc \notin Past \cup Completing /\ dpc' \notin Past \cup Completing
     \/ dpc = "gateRunning" /\ running /\ dpc' = "gateArmed"
     \/ dpc = "gateArmed" /\ (dpc' = "empty" \/ (trigger_armed /\ dpc' = "config"))
     \/ dpc = "config" /\ dpc' = "isForce"
     \/ dpc \in Loaded \ {"reply"} /\ dpc' \in Loaded
     \/ dpc = "reply" /\ dpc' = "done"
  /\ is_force' = is_force \/ dpc' \in {"read", "done"}
  /\ trig' = "forced" => \/ trig = "forced" /\ dpc # "reply"
                         \/ force_trigger /\ dpc' = "reply"

\* It answers; a waveform always ends the acquisition it belongs to.
Replies ==
  /\ UNCHANGED <<flags, cmd, step, is_force>> /\ dpc = "reply" /\ trig' = "no"
  /\ dpc' = IF SkipCheck \/ Triggered THEN "complete" ELSE "read"
  /\ DeliversReal => SkipCheck \/ Triggered

RunKind ==
  \/ Connect \/ (\E c \in Arming : Start(c)) \/ ForceTrigger \/ Stop
  \/ Rests \/ Walks \/ LoadForce \/ Replies
  \/ LoadOneShot \/ StoreRunning \/ StoreArmed \/ ClearForce

\* A header that is not a waveform's adds none.
LEMMA NoWaveform ==
  ASSUME out \in Seq(Headers), NEW h \in Headers, ~h.real,
         out' = IF data_open THEN Append(out, h) ELSE out
  PROVE  ~DeliversReal /\ (Reals' => Reals)
<1>1. CASE ~data_open
  BY <1>1 DEF DeliversReal, Reals
<1>2. CASE data_open
  <2>1. /\ Len(out') = Len(out) + 1 /\ out'[Len(out) + 1] = h /\ Len(out) \in Nat
        /\ \A i \in 1 .. Len(out) : out'[i] = out[i]
    BY <1>2, AppendHeader
  <2>. QED
    BY <2>1 DEF DeliversReal, Reals
<1>. QED
  BY <1>1, <1>2

LEMMA NoneDelivered ==
  out' = out /\ out \in Seq(Headers) => ~DeliversReal /\ (Reals' <=> Reals)
BY DEF DeliversReal, Reals

\* A waveform is delivered only by a reply that sends one.
LEMMA ReplyIs == Typed /\ Reply => Replies
<1> SUFFICES ASSUME Typed, Reply PROVE Replies
  OBVIOUS
<1> USE DEF Typed, TypeOK, DataOK
<1>1. /\ UNCHANGED <<flags, cmd, step, is_force>> /\ dpc = "reply" /\ trig' = "no"
      /\ dpc' = IF SkipCheck \/ Triggered THEN "complete" ELSE "read"
  BY DEF Reply, DataStep, scpi, SendHeader, DeviceKept, AfterReply
<1>2. ASSUME ~(SkipCheck \/ Triggered) PROVE ~DeliversReal
  <2> DEFINE h == [seq |-> seq, real |-> SendReal]
  <2>1. ~SendReal
    BY <1>2 DEF SendReal
  <2>2. h \in Headers /\ ~h.real
    BY <2>1, SendRealType DEF Headers
  <2>3. out' = IF data_open THEN Append(out, h) ELSE out
    BY DEF Reply, SendHeader
  <2> HIDE DEF h
  <2>. QED
    BY <2>2, <2>3, NoWaveform
<1>. QED
  BY <1>1, <1>2 DEF Replies

\* Every step is of one of these kinds.
LEMMA RunKinds == Typed /\ [Next]_vars => RunKind
<1> SUFFICES ASSUME Typed, [Next]_vars PROVE RunKind
  OBVIOUS
<1> USE DEF Typed, TypeOK, DataOK
<1> USE DEF Past, Loaded, Completing, capture, locals, sockets, flags, scpi
<1>1. out' = out => ~DeliversReal /\ (Reals' => Reals)
  BY NoneDelivered
<1>2. ASSUME NEW k \in Keys, SetTrigger(k) PROVE Rests
  BY <1>2 DEF SetTrigger, Rests
<1>3. CASE ReadEof
  BY <1>3 DEF ReadEof, Goto, ScpiOnly, Rests, RunKind
<1>4. CASE ReadError
  BY <1>4 DEF ReadError, Goto, ScpiOnly, Rests, RunKind
<1>5. CASE CloseStop
  BY <1>5 DEF CloseStop, At, Goto, StopSession, ScpiOnly, Rests, RunKind
<1>6. CASE Join
  BY <1>6 DEF Join, Goto, trigger, Rests, RunKind
<1>7. CASE LogicPacket
  BY <1>7 DEF LogicPacket, EnvironmentOnly, trigger, Rests, RunKind
<1>8. CASE TriggerPacket
  BY <1>8 DEF TriggerPacket, EnvironmentOnly, trigger, Rests, RunKind
<1>9. CASE ClientReady
  BY <1>9 DEF ClientReady, EnvironmentOnly, trigger, Rests, RunKind
<1>10. CASE ClientCloseCmd
  BY <1>10 DEF ClientCloseCmd, EnvironmentOnly, trigger, Rests, RunKind
<1>11. CASE ClientCloseData
  BY <1>11 DEF ClientCloseData, EnvironmentOnly, trigger, Rests, RunKind
<1>12. CASE ReadReady
  BY <1>1, <1>12 DEF ReadReady, DataStep, DeviceKept, Walks, RunKind
<1>13. CASE ReadFailed
  BY <1>1, <1>13 DEF ReadFailed, DataStep, DeviceKept, Walks, RunKind
<1>14. CASE CheckShutdown
  BY <1>1, <1>14 DEF CheckShutdown, DataStep, DeviceKept, TakeSeqnum, Walks, RunKind
<1>15. CASE GateRunning
  BY <1>1, <1>15 DEF GateRunning, DataStep, DeviceKept, Walks, RunKind
<1>16. CASE GateArmed
  BY <1>1, <1>16 DEF GateArmed, DataStep, DeviceKept, Walks, RunKind
<1>17. CASE GetConfig
  BY <1>1, <1>17 DEF GetConfig, DataStep, DeviceKept, Walks, RunKind
<1>18. CASE SessionStart
  BY <1>1, <1>18 DEF SessionStart, DataStep, DeviceKept, Walks, RunKind
<1>19. CASE MarkForced
  BY <1>1, <1>19 DEF MarkForced, DataStep, DeviceKept, Walks, RunKind
<1>20. CASE ScanConfig
  BY <1>1, <1>20 DEF ScanConfig, DataStep, DeviceKept, Walks, RunKind
<1>21. CASE ScanPrev
  BY <1>1, <1>21 DEF ScanPrev, DataStep, DeviceKept, Walks, RunKind
<1>22. CASE ScanEdge
  BY <1>1, <1>22 DEF ScanEdge, DataStep, DeviceKept, ScanDone, Walks, RunKind
<1>23. CASE ScanOutOfRange
  BY <1>1, <1>23 DEF ScanOutOfRange, DataStep, DeviceKept, ScanDone, Walks, RunKind
<1>24. CASE ReplyFailed
  BY <1>1, <1>24 DEF ReplyFailed, DataStep, DeviceKept, Walks, RunKind
<1>25. CASE SessionEnd
  BY <1>1, <1>25 DEF SessionEnd, DataStep, DeviceKept, Walks, RunKind
<1>26. CASE NotReady
  <2> DEFINE h == [seq |-> seq, real |-> FALSE]
  <2>1. h \in Headers /\ ~h.real /\ out' = IF data_open THEN Append(out, h) ELSE out
    BY <1>26 DEF NotReady, SendHeader, Headers
  <2> HIDE DEF h
  <2>2. ~DeliversReal /\ (Reals' => Reals)
    BY <2>1, NoWaveform
  <2>. QED
    BY <1>26, <2>2 DEF NotReady, SendHeader, DataStep, DeviceKept, Walks, RunKind
<1>27. CASE UNCHANGED vars
  BY <1>27 DEF vars, trigger, Rests, RunKind
<1>. QED
  BY <1>2, <1>3, <1>4, <1>5, <1>6, <1>7, <1>8, <1>9, <1>10, <1>11, <1>12, <1>13, <1>14,
     <1>15, <1>16, <1>17, <1>18, <1>19, <1>20, <1>21, <1>22, <1>23, <1>24, <1>25, <1>26,
     <1>27, ReplyIs
    DEF Next, Scpi, DataProgress, Environment, RunKind

-----------------------------------------------------------------------------
(***************************************************************************)
(* The invariants.                                                         *)
(***************************************************************************)

\* A command that is executed is at one of its stores, and a completed one stays
\* the last until the next is read.
LastInv ==
  /\ cmd \in Arming => step \in 2 .. 5
  /\ cmd = "STOP" => step \in 2 .. 3
  /\ last \in Commands \cup {"none"} /\ (last # "none" => cmd \notin Commands)
  /\ delivered \in Nat /\ raced \in BOOLEAN /\ met \in BOOLEAN /\ answered \in BOOLEAN
  /\ armed_once \in BOOLEAN

\* STOP has taken running back, and at most one capture had passed its check.
StopInv ==
  /\ cmd = "STOP" \/ last = "STOP" => ~running
  /\ last = "STOP" => delivered + (IF dpc \in Past THEN 1 ELSE 0) <= 1

\* SINGLE has stored one_shot, so the capture that is delivered takes the run
\* back before the data thread reads another 'K'.
SingleInv ==
  /\ (cmd = "SINGLE" /\ step > 2) \/ last = "SINGLE" => one_shot
  /\ last = "SINGLE" /\ delivered > 0 =>
       /\ delivered = 1 /\ dpc \notin Past
       /\ ~running \/ dpc \in {"complete", "storeRunning"}

\* A START that did not meet the stores of a completion has the run, and has
\* taken from every later completion the reason to make them.
StartInv ==
  /\ (cmd = "START" \/ last = "START") /\ ~raced => running /\ dpc # "storeArmed"
  /\ ((cmd = "START" /\ step > 2) \/ last = "START") /\ ~raced =>
       ~one_shot /\ dpc # "storeRunning"
  /\ ((cmd = "START" /\ step > 4) \/ last = "START") /\ ~raced => trigger_armed

\* Before a capture is answered no completion is under way that a SINGLE or
\* FORCE has not met, so what it has stored so far stands.
KeptInv ==
  (cmd \in Kept \/ last \in Kept) /\ ~met /\ ~answered =>
    /\ dpc \notin Completing
    /\ cmd = "FORCE" \/ last = "FORCE" => force_trigger
    /\ cmd = "SINGLE" \/ (cmd = "FORCE" /\ step > 4) \/ last \in Kept => running
    /\ (cmd = "SINGLE" /\ step > 4) \/ (cmd = "FORCE" /\ step > 2) \/ last \in Kept =>
         trigger_armed

\* The flag is down, and no capture is marked by it.
Lowered == ~force_trigger /\ trig # "forced"

\* Once a forced capture is delivered, the next one knows of the flag or cannot be
\* marked; once that is delivered too, the flag goes down.
ForceInv ==
  /\ marked \in 0 .. 2 /\ (trig = "forced" => dpc = "reply")
  /\ marked > 0 /\ dpc \in Loaded => is_force \/ Lowered
  /\ marked = 2 => (dpc \in Completing /\ is_force) \/ Lowered

\* A client that has not armed: nothing runs, passes the check or is delivered.
ArmedInv ==
  ~armed_once => /\ ~running /\ dpc \notin Past /\ ~Reals
                 /\ cmd \notin Arming \cup {"FORCE"}

\* Whatever is old is so because a command met a capture in progress.
OverlapInv == acq_old \/ state_old \/ prev_old \/ stale > 0 => overlap

-----------------------------------------------------------------------------
\* Each lemma goes through the kinds of steps, after the history's own step.
LEMMA LastKept == Typed /\ LastInv /\ [HNext]_<<vars, history>> => LastInv'
<1> SUFFICES ASSUME Typed, LastInv, [HNext]_<<vars, history>> PROVE LastInv'
  OBVIOUS
<1> USE DEF LastInv, Arming, Commands
<1>1. CASE UNCHANGED <<vars, history>>
  BY <1>1 DEF vars, scpi, history
<1>2. CASE HNext
  <2>1. /\ last' = IF Connected \/ Begins(Commands) THEN "none"
                   ELSE IF Completes(Commands) THEN cmd ELSE last
        /\ delivered' \in {0, delivered, delivered + 1}
    BY <1>2 DEF HNext, HistoryStep
  <2>h. /\ raced' \in BOOLEAN /\ met' \in BOOLEAN /\ answered' \in BOOLEAN
        /\ armed_once' \in BOOLEAN
    <3>1. raced' \in BOOLEAN
      <4>1. raced' = IF Connected \/ Begins(Commands \ Arming) THEN FALSE
                     ELSE IF Begins(Arming) THEN InCompletion
                     ELSE raced \/ (cmd \in Arming /\ step = 2 /\ InCompletion)
        BY <1>2 DEF HNext, HistoryStep
      <4>2. raced \in BOOLEAN /\ InCompletion \in BOOLEAN
        BY DEF InCompletion
      <4> HIDE DEF LastInv, Arming, Commands
      <4>. QED
        BY <4>1, <4>2, Zenon
    <3>2. met' \in BOOLEAN
      <4>1. met' = IF Connected \/ Begins(Commands \ Kept) THEN FALSE
                   ELSE IF Begins(Kept) THEN dpc \in Completing
                   ELSE met \/ (cmd \in Kept /\ dpc \in Completing)
        BY <1>2 DEF HNext, HistoryStep
      <4>2. met \in BOOLEAN /\ (dpc \in Completing) \in BOOLEAN
        OBVIOUS
      <4> HIDE DEF LastInv, Arming, Commands
      <4>. QED
        BY <4>1, <4>2, Zenon
    <3>3. answered' \in BOOLEAN
      BY <1>2 DEF HNext, HistoryStep
    <3>4. armed_once' \in BOOLEAN
      BY <1>2 DEF HNext, HistoryStep
    <3>. QED
      BY <3>1, <3>2, <3>3, <3>4
  <2> USE <2>1, <2>h DEF Connected, Begins, Completes
  <2>2. CASE Connect
    BY <2>2 DEF Connect
  <2>3. ASSUME NEW c \in Arming, Start(c) PROVE LastInv'
    BY <2>3 DEF Start, StartRunning, StartOneShot, StartForce, StartArmed, StartReset,
           ReadCommand, At, Goto, Idle
  <2>4. CASE ForceTrigger
    BY <2>4 DEF ForceTrigger, ForceFlag, ForceArmed, ForceLoad, ForceRunning,
           ForceOneShot, ForceReset, ReadCommand, At, Goto, Idle
  <2>5. CASE Stop
    BY <2>5 DEF Stop, StopRunning, StopArmed, StopCapture, ReadCommand, At, Goto, Idle
  <2>6. CASE Rests
    BY <2>6 DEF Rests
  <2>7. CASE UNCHANGED <<cmd, step>>
    BY <2>7
  <2>. QED
    BY <1>2, <2>2, <2>3, <2>4, <2>5, <2>6, <2>7, RunKinds
    DEF RunKind, HNext, Walks, Replies, LoadForce, LoadOneShot, StoreRunning, StoreArmed,
        ClearForce, DataStep, scpi
<1>. QED
  BY <1>1, <1>2

\* No step of the data thread gives back the run that STOP took.
LEMMA StopKept == Typed /\ LastInv /\ StopInv /\ [HNext]_<<vars, history>> => StopInv'
<1> SUFFICES ASSUME Typed, LastInv, StopInv, [HNext]_<<vars, history>> PROVE StopInv'
  OBVIOUS
<1> USE DEF StopInv, Past
<1>1. CASE UNCHANGED <<vars, history>>
  BY <1>1 DEF vars, history, flags, scpi, capture, locals, sockets
<1>2. CASE HNext
  <2>1. /\ last' = IF Connected \/ Begins(Commands) THEN "none"
                   ELSE IF Completes(Commands) THEN cmd ELSE last
        /\ delivered' = IF Connected \/ Completes(Commands) THEN 0
                        ELSE IF DeliversReal THEN delivered + 1 ELSE delivered
    BY <1>2 DEF HNext, HistoryStep
  <2>2. out' = out => ~DeliversReal /\ (Reals' <=> Reals)
    BY NoneDelivered DEF Typed, TypeOK, DataOK
  <2> USE <2>1, <2>2 DEF Connected, Begins, Completes, LastInv, Arming, Commands
  <2> USE DEF flags, Typed, TypeOK, BooleansOK, Past, Loaded, Completing
  <2>3. CASE Connect
    BY <2>3 DEF Connect, ResetForNewConnection, locals
  <2>4. ASSUME NEW c \in Arming, Start(c) PROVE StopInv'
    BY <2>4 DEF Start, StartRunning, StartOneShot, StartForce, StartArmed, StartReset,
           ReadCommand, At, Goto, Idle, ScpiOnly, capture, locals, sockets
  <2>5. CASE ForceTrigger
    BY <2>5 DEF ForceTrigger, ForceFlag, ForceArmed, ForceLoad, ForceRunning,
           ForceOneShot, ForceReset, ReadCommand, At, Goto, Idle, ScpiOnly, capture, locals,
           sockets
  <2>6. CASE Stop
    BY <2>6 DEF Stop, StopRunning, StopArmed, StopCapture, StopSession, ReadCommand, At,
         Goto, Idle, ScpiOnly, capture, locals, sockets
  <2>7. CASE Rests
    BY <2>7 DEF Rests
  <2>8. CASE Walks
    BY <2>8 DEF Walks
  <2>9. CASE LoadForce
    BY <2>9 DEF LoadForce, DataStep, DeviceKept, scpi, capture, sockets
  <2>10. CASE Replies
    BY <2>10 DEF Replies
  <2>11. CASE LoadOneShot
    BY <2>11 DEF LoadOneShot, AfterComplete, DataStep, DeviceKept, scpi, capture, locals,
         sockets
  <2>12. CASE StoreRunning
    BY <2>12 DEF StoreRunning, DataStep, scpi, capture, locals, sockets
  <2>13. CASE StoreArmed
    BY <2>13 DEF StoreArmed, AfterComplete, DataStep, scpi, capture, locals, sockets
  <2>14. CASE ClearForce
    BY <2>14 DEF ClearForce, DataStep, scpi, capture, sockets
  <2>. QED
    BY <1>2, <2>3, <2>4, <2>5, <2>6, <2>7, <2>8, <2>9, <2>10, <2>11, <2>12, <2>13,
       <2>14, RunKinds DEF RunKind, HNext
<1>. QED
  BY <1>1, <1>2

\* The second waveform after a SINGLE finds no run.
LEMMA SingleKept == Typed /\ LastInv /\ SingleInv /\ [HNext]_<<vars, history>> => SingleInv'
<1> SUFFICES ASSUME Typed, LastInv, SingleInv, [HNext]_<<vars, history>> PROVE SingleInv'
  OBVIOUS
<1> USE DEF SingleInv, Past
<1>1. CASE UNCHANGED <<vars, history>>
  BY <1>1 DEF vars, history, flags, scpi, capture, locals, sockets
<1>2. CASE HNext
  <2>1. /\ last' = IF Connected \/ Begins(Commands) THEN "none"
                   ELSE IF Completes(Commands) THEN cmd ELSE last
        /\ delivered' = IF Connected \/ Completes(Commands) THEN 0
                        ELSE IF DeliversReal THEN delivered + 1 ELSE delivered
    BY <1>2 DEF HNext, HistoryStep
  <2>2. out' = out => ~DeliversReal /\ (Reals' <=> Reals)
    BY NoneDelivered DEF Typed, TypeOK, DataOK
  <2> USE <2>1, <2>2 DEF Connected, Begins, Completes, LastInv, Arming, Commands
  <2> USE DEF flags, Typed, TypeOK, BooleansOK, Past, Loaded, Completing
  <2>3. CASE Connect
    BY <2>3 DEF Connect, ResetForNewConnection, locals
  <2>4. ASSUME NEW c \in Arming, Start(c) PROVE SingleInv'
    <3>1. CASE StartRunning(c)
      BY <3>1 DEF StartRunning, ReadCommand, ScpiOnly, capture, locals, sockets
    <3>2. CASE StartOneShot(c)
      BY <3>2 DEF StartOneShot, At, Goto, ScpiOnly, capture, locals, sockets
    <3>3. CASE StartForce(c)
      BY <3>3 DEF StartForce, At, Goto, ScpiOnly, capture, locals, sockets
    <3>4. CASE StartArmed(c)
      BY <3>4 DEF StartArmed, At, Goto, ScpiOnly, capture, locals, sockets
    <3>5. CASE StartReset(c)
      BY <3>5 DEF StartReset, At, Goto, Idle, ScpiOnly, capture, locals, sockets
    <3>. QED
      BY <2>4, <3>1, <3>2, <3>3, <3>4, <3>5 DEF Start
  <2>5. CASE ForceTrigger
    BY <2>5 DEF ForceTrigger, ForceFlag, ForceArmed, ForceLoad, ForceRunning,
           ForceOneShot, ForceReset, ReadCommand, At, Goto, Idle, ScpiOnly, capture, locals,
           sockets
  <2>6. CASE Stop
    BY <2>6 DEF Stop, StopRunning, StopArmed, StopCapture, StopSession, ReadCommand, At,
         Goto, Idle, ScpiOnly, capture, locals, sockets
  <2>7. CASE Rests
    BY <2>7 DEF Rests
  <2>8. CASE Walks
    BY <2>8 DEF Walks
  <2>9. CASE LoadForce
    BY <2>9 DEF LoadForce, DataStep, DeviceKept, scpi, capture, sockets
  <2>10. CASE Replies
    BY <2>10 DEF Replies
  <2>11. CASE LoadOneShot
    BY <2>11 DEF LoadOneShot, AfterComplete, DataStep, DeviceKept, scpi, capture, locals,
         sockets
  <2>12. CASE StoreRunning
    BY <2>12 DEF StoreRunning, DataStep, scpi, capture, locals, sockets
  <2>13. CASE StoreArmed
    BY <2>13 DEF StoreArmed, AfterComplete, DataStep, scpi, capture, locals, sockets
  <2>14. CASE ClearForce
    BY <2>14 DEF ClearForce, DataStep, scpi, capture, sockets
  <2>. QED
    BY <1>2, <2>3, <2>4, <2>5, <2>6, <2>7, <2>8, <2>9, <2>10, <2>11, <2>12, <2>13,
       <2>14, RunKinds DEF RunKind, HNext
<1>. QED
  BY <1>1, <1>2

\* Only a completion that the first two stores of START met takes its run.
LEMMA StartStands == Typed /\ LastInv /\ StartInv /\ [HNext]_<<vars, history>> => StartInv'
<1> SUFFICES ASSUME Typed, LastInv, StartInv, [HNext]_<<vars, history>> PROVE StartInv'
  OBVIOUS
<1> USE DEF StartInv, InCompletion
<1>1. CASE UNCHANGED <<vars, history>>
  BY <1>1 DEF vars, history, flags, scpi, capture, locals, sockets
<1>2. CASE HNext
  <2>1. /\ last' = IF Connected \/ Begins(Commands) THEN "none"
                   ELSE IF Completes(Commands) THEN cmd ELSE last
        /\ ~raced' =>
             \/ Connected \/ Begins(Commands \ Arming)
             \/ Begins(Arming) /\ ~InCompletion
             \/ ~Begins(Commands) /\ ~raced /\ ~(cmd \in Arming /\ step = 2 /\ InCompletion)
    <3>1. /\ last' = IF Connected \/ Begins(Commands) THEN "none"
                     ELSE IF Completes(Commands) THEN cmd ELSE last
          /\ raced' = IF Connected \/ Begins(Commands \ Arming) THEN FALSE
                      ELSE IF Begins(Arming) THEN InCompletion
                      ELSE raced \/ (cmd \in Arming /\ step = 2 /\ InCompletion)
      BY <1>2 DEF HNext, HistoryStep
    <3>2. ~Begins(Commands \ Arming) /\ ~Begins(Arming) => ~Begins(Commands)
      BY DEF Begins
    <3>3. raced \in BOOLEAN
      BY DEF LastInv
    <3> HIDE DEF InCompletion, StartInv
    <3>. QED
      BY <3>1, <3>2, <3>3, Zenon
  <2>2. out' = out => ~DeliversReal /\ (Reals' <=> Reals)
    BY NoneDelivered DEF Typed, TypeOK, DataOK
  <2> USE <2>1, <2>2 DEF Connected, Begins, Completes, LastInv, Arming, Commands
  <2> USE DEF flags, Typed, TypeOK, BooleansOK, Past, Loaded, Completing
  <2>3. CASE Connect
    BY <2>3 DEF Connect, ResetForNewConnection, locals
  <2>4. ASSUME NEW c \in Arming, Start(c) PROVE StartInv'
    <3>1. CASE StartRunning(c)
      <4>1. cmd = "IDLE" /\ cmd' = c /\ step' = 2 /\ running' /\ dpc' = dpc
        BY <3>1 DEF StartRunning, ReadCommand, ScpiOnly
      <4>2. last' = "none" /\ (~raced' => ~InCompletion)
        BY <4>1
      <4>. QED
        BY <4>1, <4>2
    <3>2. CASE StartOneShot(c)
      BY <3>2 DEF StartOneShot, At, Goto, ScpiOnly, capture, locals, sockets
    <3>3. CASE StartForce(c)
      BY <3>3 DEF StartForce, At, Goto, ScpiOnly, capture, locals, sockets
    <3>4. CASE StartArmed(c)
      BY <3>4 DEF StartArmed, At, Goto, ScpiOnly, capture, locals, sockets
    <3>5. CASE StartReset(c)
      BY <3>5 DEF StartReset, At, Goto, Idle, ScpiOnly, capture, locals, sockets
    <3>. QED
      BY <2>4, <3>1, <3>2, <3>3, <3>4, <3>5 DEF Start
  <2>5. CASE ForceTrigger
    BY <2>5 DEF ForceTrigger, ForceFlag, ForceArmed, ForceLoad, ForceRunning,
           ForceOneShot, ForceReset, ReadCommand, At, Goto, Idle, ScpiOnly, capture, locals,
           sockets
  <2>6. CASE Stop
    BY <2>6 DEF Stop, StopRunning, StopArmed, StopCapture, StopSession, ReadCommand, At,
         Goto, Idle, ScpiOnly, capture, locals, sockets
  <2>7. CASE Rests
    BY <2>7 DEF Rests
  <2>8. CASE Walks
    BY <2>8 DEF Walks
  <2>9. CASE LoadForce
    BY <2>9 DEF LoadForce, DataStep, DeviceKept, scpi, capture, sockets
  <2>10. CASE Replies
    BY <2>10 DEF Replies
  <2>11. CASE LoadOneShot
    BY <2>11 DEF LoadOneShot, AfterComplete, DataStep, DeviceKept, scpi, capture, locals,
         sockets
  <2>12. CASE StoreRunning
    <3>1. /\ dpc = "storeRunning" /\ dpc' = "storeArmed" /\ UNCHANGED <<cmd, step, one_shot>>
      BY <2>12 DEF StoreRunning, DataStep, scpi
    <3>2. cmd = "START" => raced'
      BY <3>1
    <3>3. last = "START" => raced'
      BY <3>1
    <3>. QED
      BY <3>1, <3>2, <3>3
  <2>13. CASE StoreArmed
    BY <2>13 DEF StoreArmed, AfterComplete, DataStep, scpi, capture, locals, sockets
  <2>14. CASE ClearForce
    BY <2>14 DEF ClearForce, DataStep, scpi, capture, sockets
  <2>. QED
    BY <1>2, <2>3, <2>4, <2>5, <2>6, <2>7, <2>8, <2>9, <2>10, <2>11, <2>12, <2>13,
       <2>14, RunKinds DEF RunKind, HNext
<1>. QED
  BY <1>1, <1>2

\* Only a completion takes back what SINGLE or FORCE stored, and it either met
\* the command or has answered a capture since.
LEMMA KeptStands == Typed /\ LastInv /\ KeptInv /\ [HNext]_<<vars, history>> => KeptInv'
<1> SUFFICES ASSUME Typed, LastInv, KeptInv, [HNext]_<<vars, history>> PROVE KeptInv'
  OBVIOUS
<1> USE DEF KeptInv, Kept, Took
<1>1. CASE UNCHANGED <<vars, history>>
  BY <1>1 DEF vars, history, flags, scpi, capture, locals, sockets
<1>2. CASE HNext
  <2>1. /\ last' = IF Connected \/ Begins(Commands) THEN "none"
                   ELSE IF Completes(Commands) THEN cmd ELSE last
        /\ ~met' /\ ~answered' =>
             \/ Connected \/ Begins(Commands \ Kept)
             \/ Begins(Kept) /\ dpc \notin Completing
             \/ /\ ~met /\ ~answered /\ ~Begins(Commands)
                /\ cmd \in Kept => dpc \notin Completing
                /\ Took("reply") => ~(SkipCheck \/ Triggered)
    <3>1. /\ last' = IF Connected \/ Begins(Commands) THEN "none"
                     ELSE IF Completes(Commands) THEN cmd ELSE last
          /\ met' = IF Connected \/ Begins(Commands \ Kept) THEN FALSE
                    ELSE IF Begins(Kept) THEN dpc \in Completing
                    ELSE met \/ (cmd \in Kept /\ dpc \in Completing)
          /\ answered' = IF Connected \/ Begins(Commands) THEN FALSE
                         ELSE answered \/ (Took("reply") /\ (SkipCheck \/ Triggered))
      BY <1>2 DEF HNext, HistoryStep
    <3>. QED
      BY <3>1 DEF LastInv, Begins, Commands, Arming
  <2>2. out' = out => ~DeliversReal /\ (Reals' <=> Reals)
    BY NoneDelivered DEF Typed, TypeOK, DataOK
  <2> USE <2>1, <2>2 DEF Connected, Begins, Completes, LastInv, Arming, Commands
  <2> USE DEF flags, Typed, TypeOK, BooleansOK, Past, Loaded, Completing
  <2>3. CASE Connect
    BY <2>3 DEF Connect, ResetForNewConnection, locals
  <2>4. ASSUME NEW c \in Arming, Start(c) PROVE KeptInv'
    <3>1. CASE StartRunning(c)
      BY <3>1 DEF StartRunning, ReadCommand, ScpiOnly, capture, locals, sockets
    <3>2. CASE StartOneShot(c)
      BY <3>2 DEF StartOneShot, At, Goto, ScpiOnly, capture, locals, sockets
    <3>3. CASE StartForce(c)
      BY <3>3 DEF StartForce, At, Goto, ScpiOnly, capture, locals, sockets
    <3>4. CASE StartArmed(c)
      BY <3>4 DEF StartArmed, At, Goto, ScpiOnly, capture, locals, sockets
    <3>5. CASE StartReset(c)
      BY <3>5 DEF StartReset, At, Goto, Idle, ScpiOnly, capture, locals, sockets
    <3>. QED
      BY <2>4, <3>1, <3>2, <3>3, <3>4, <3>5 DEF Start
  <2>5. CASE ForceTrigger
    <3>1. CASE ForceFlag
      BY <3>1 DEF ForceFlag, ReadCommand, ScpiOnly, capture, locals, sockets
    <3>2. CASE ForceArmed
      BY <3>2 DEF ForceArmed, At, Goto, ScpiOnly, capture, locals, sockets
    <3>3. CASE ForceLoad
      BY <3>3 DEF ForceLoad, At, Goto, ScpiOnly, capture, locals, sockets
    <3>4. CASE ForceRunning
      BY <3>4 DEF ForceRunning, At, Goto, ScpiOnly, capture, locals, sockets
    <3>5. CASE ForceOneShot
      BY <3>5 DEF ForceOneShot, At, Goto, ScpiOnly, capture, locals, sockets
    <3>6. CASE ForceReset
      BY <3>6 DEF ForceReset, At, Goto, Idle, ScpiOnly, capture, locals, sockets
    <3>. QED
      BY <2>5, <3>1, <3>2, <3>3, <3>4, <3>5, <3>6 DEF ForceTrigger
  <2>6. CASE Stop
    BY <2>6 DEF Stop, StopRunning, StopArmed, StopCapture, StopSession, ReadCommand, At,
         Goto, Idle, ScpiOnly, capture, locals, sockets
  <2>7. CASE Rests
    BY <2>7 DEF Rests
  <2>8. CASE Walks
    BY <2>8 DEF Walks
  <2>9. CASE LoadForce
    BY <2>9 DEF LoadForce, DataStep, DeviceKept, scpi, capture, sockets
  <2>10. CASE Replies
    BY <2>10 DEF Replies
  <2>11. CASE LoadOneShot
    BY <2>11 DEF LoadOneShot, AfterComplete, DataStep, DeviceKept, scpi, capture, locals,
         sockets
  <2>12. CASE StoreRunning
    BY <2>12 DEF StoreRunning, DataStep, scpi, capture, locals, sockets
  <2>13. CASE StoreArmed
    BY <2>13 DEF StoreArmed, AfterComplete, DataStep, scpi, capture, locals, sockets
  <2>14. CASE ClearForce
    BY <2>14 DEF ClearForce, DataStep, scpi, capture, sockets
  <2>. QED
    BY <1>2, <2>3, <2>4, <2>5, <2>6, <2>7, <2>8, <2>9, <2>10, <2>11, <2>12, <2>13,
       <2>14, RunKinds DEF RunKind, HNext
<1>. QED
  BY <1>1, <1>2

\* A captured flag is cleared before the third capture loads it.
LEMMA ForceKept ==
  Typed /\ LastInv /\ CaptureOwned /\ ForceInv /\ [HNext]_<<vars, history>> => ForceInv'
<1> SUFFICES ASSUME Typed, LastInv, CaptureOwned, ForceInv, [HNext]_<<vars, history>>
             PROVE  ForceInv'
  OBVIOUS
<1> USE DEF ForceInv, Lowered
<1>1. CASE UNCHANGED <<vars, history>>
  BY <1>1 DEF vars, history, flags, scpi, capture, locals, sockets
<1>2. CASE HNext
  <2>1. marked' = IF Connected \/ Begins({"FORCE"}) THEN 0
                 ELSE IF DeliversReal /\ trig = "forced" THEN marked + 1 ELSE marked
    BY <1>2 DEF HNext, HistoryStep
  <2>2. out' = out => ~DeliversReal /\ (Reals' <=> Reals)
    BY NoneDelivered DEF Typed, TypeOK, DataOK
  <2> USE <2>1, <2>2 DEF Connected, Begins, Completes, LastInv, Arming, Commands
  <2> USE DEF flags, Typed, TypeOK, BooleansOK, Past, Loaded, Completing
  <2>3. CASE Connect
    BY <2>3 DEF Connect, ResetForNewConnection, CaptureOwned, capture, locals
  <2>4. ASSUME NEW c \in Arming, Start(c) PROVE ForceInv'
    BY <2>4 DEF Start, StartRunning, StartOneShot, StartForce, StartArmed, StartReset,
           ReadCommand, At, Goto, Idle, ScpiOnly, capture, locals, sockets
  <2>5. CASE ForceTrigger
    BY <2>5 DEF ForceTrigger, ForceFlag, ForceArmed, ForceLoad, ForceRunning,
           ForceOneShot, ForceReset, ReadCommand, At, Goto, Idle, ScpiOnly, capture, locals,
           sockets
  <2>6. CASE Stop
    BY <2>6 DEF Stop, StopRunning, StopArmed, StopCapture, StopSession, ReadCommand, At,
         Goto, Idle, ScpiOnly, capture, locals, sockets
  <2>7. CASE Rests
    BY <2>7 DEF Rests
  <2>8. CASE Walks
    BY <2>8 DEF Walks
  <2>9. CASE LoadForce
    BY <2>9 DEF LoadForce, DataStep, DeviceKept, scpi, capture, sockets
  <2>10. CASE Replies
    BY <2>10 DEF Replies
  <2>11. CASE LoadOneShot
    BY <2>11 DEF LoadOneShot, AfterComplete, DataStep, DeviceKept, scpi, capture, locals,
         sockets
  <2>12. CASE StoreRunning
    BY <2>12 DEF StoreRunning, DataStep, scpi, capture, locals, sockets
  <2>13. CASE StoreArmed
    BY <2>13 DEF StoreArmed, AfterComplete, DataStep, scpi, capture, locals, sockets
  <2>14. CASE ClearForce
    BY <2>14 DEF ClearForce, DataStep, scpi, capture, sockets
  <2>. QED
    BY <1>2, <2>3, <2>4, <2>5, <2>6, <2>7, <2>8, <2>9, <2>10, <2>11, <2>12, <2>13,
       <2>14, RunKinds DEF RunKind, HNext
<1>. QED
  BY <1>1, <1>2

\* Only a command of this client starts the run, and only a run leads past the checks.
LEMMA ArmedKept == Typed /\ LastInv /\ ArmedInv /\ [HNext]_<<vars, history>> => ArmedInv'
<1> SUFFICES ASSUME Typed, LastInv, ArmedInv, [HNext]_<<vars, history>> PROVE ArmedInv'
  OBVIOUS
<1> USE DEF ArmedInv, Past
<1>1. CASE UNCHANGED <<vars, history>>
  <2>1. UNCHANGED <<running, dpc, out, armed_once, cmd>>
    BY <1>1 DEF vars, history, flags, scpi, sockets
  <2>2. Reals' <=> Reals
    BY <2>1, NoneDelivered DEF Typed, TypeOK, DataOK
  <2>. QED
    BY <2>1, <2>2, Zenon
<1>2. CASE HNext
  <2>1. armed_once' = IF Connected THEN FALSE
                     ELSE armed_once \/ Begins(Arming \cup {"FORCE"})
    BY <1>2 DEF HNext, HistoryStep
  <2>2. out' = out => ~DeliversReal /\ (Reals' <=> Reals)
    BY NoneDelivered DEF Typed, TypeOK, DataOK
  <2> USE <2>1, <2>2 DEF Connected, Begins, Completes, LastInv, Arming, Commands
  <2> USE DEF flags, Typed, TypeOK, BooleansOK, Past, Loaded, Completing
  <2>3. CASE Connect
    BY <2>3 DEF Connect, ResetForNewConnection, Reals
  <2>4. ASSUME NEW c \in Arming, Start(c) PROVE ArmedInv'
    BY <2>4 DEF Start, StartRunning, StartOneShot, StartForce, StartArmed, StartReset,
           ReadCommand, At, Goto, Idle, ScpiOnly, capture, locals, sockets
  <2>5. CASE ForceTrigger
    <3>1. CASE ForceFlag
      BY <3>1 DEF ForceFlag, ReadCommand, ScpiOnly, capture, locals, sockets
    <3>2. CASE ForceArmed
      BY <3>2 DEF ForceArmed, At, Goto, ScpiOnly, capture, locals, sockets
    <3>3. CASE ForceLoad
      BY <3>3 DEF ForceLoad, At, Goto, ScpiOnly, capture, locals, sockets
    <3>4. CASE ForceRunning
      BY <3>4 DEF ForceRunning, At, Goto, ScpiOnly, capture, locals, sockets
    <3>5. CASE ForceOneShot
      BY <3>5 DEF ForceOneShot, At, Goto, ScpiOnly, capture, locals, sockets
    <3>6. CASE ForceReset
      BY <3>6 DEF ForceReset, At, Goto, Idle, ScpiOnly, capture, locals, sockets
    <3>. QED
      BY <2>5, <3>1, <3>2, <3>3, <3>4, <3>5, <3>6 DEF ForceTrigger
  <2>6. CASE Stop
    BY <2>6 DEF Stop, StopRunning, StopArmed, StopCapture, StopSession, ReadCommand, At,
         Goto, Idle, ScpiOnly, capture, locals, sockets
  <2>7. CASE Rests
    BY <2>7 DEF Rests
  <2>8. CASE Walks
    BY <2>8 DEF Walks
  <2>9. CASE LoadForce
    BY <2>9 DEF LoadForce, DataStep, DeviceKept, scpi, capture, sockets
  <2>10. CASE Replies
    BY <2>10 DEF Replies
  <2>11. CASE LoadOneShot
    BY <2>11 DEF LoadOneShot, AfterComplete, DataStep, DeviceKept, scpi, capture, locals,
         sockets
  <2>12. CASE StoreRunning
    BY <2>12 DEF StoreRunning, DataStep, scpi, capture, locals, sockets
  <2>13. CASE StoreArmed
    BY <2>13 DEF StoreArmed, AfterComplete, DataStep, scpi, capture, locals, sockets
  <2>14. CASE ClearForce
    BY <2>14 DEF ClearForce, DataStep, scpi, capture, sockets
  <2>. QED
    BY <1>2, <2>3, <2>4, <2>5, <2>6, <2>7, <2>8, <2>9, <2>10, <2>11, <2>12, <2>13,
       <2>14, RunKinds DEF RunKind, HNext
<1>. QED
  BY <1>1, <1>2

\* A command that resets the trigger state leaves none, and meets no comparison.
LEMMA ResetClears ==
  Typed /\ CaptureOwned /\ [Next]_vars /\ Resets =>
    last_trigger_state' = None /\ ~Took("scanPrev")
<1> SUFFICES ASSUME Typed, CaptureOwned, [Next]_vars, Resets
             PROVE  last_trigger_state' = None /\ ~Took("scanPrev")
  OBVIOUS
<1> USE DEF Resets, Connected, Completes, Took, Arming
<1>1. CASE Connect
  BY <1>1 DEF Connect, ResetForNewConnection, CaptureOwned
<1>2. ASSUME NEW c \in Arming, Start(c) PROVE last_trigger_state' = None /\ ~Took("scanPrev")
  BY <1>2 DEF Start, StartRunning, StartOneShot, StartForce, StartArmed, StartReset,
         ReadCommand, At, Goto, Idle, ScpiOnly
<1>3. CASE ForceTrigger
  BY <1>3 DEF ForceTrigger, ForceFlag, ForceArmed, ForceLoad, ForceRunning,
         ForceOneShot, ForceReset, ReadCommand, At, Goto, Idle, ScpiOnly
<1>4. CASE Stop
  BY <1>4 DEF Stop, StopRunning, StopArmed, StopCapture, ReadCommand, At, Goto, Idle
<1>5. CASE Rests
  BY <1>5 DEF Rests
<1>6. CASE UNCHANGED cmd
  BY <1>6
<1>. QED
  BY <1>1, <1>2, <1>3, <1>4, <1>5, <1>6, RunKinds
  DEF RunKind, Walks, Replies, LoadForce, LoadOneShot, StoreRunning, StoreArmed, ClearForce,
      DataStep, scpi

\* The old state of a capture that met no command is gone with the command's reset.
LEMMA OverlapKept ==
  Typed /\ CaptureOwned /\ OverlapInv /\ [HNext]_<<vars, history>> => OverlapInv'
<1> SUFFICES ASSUME Typed, CaptureOwned, OverlapInv, [HNext]_<<vars, history>>
             PROVE  OverlapInv'
  OBVIOUS
<1> USE DEF OverlapInv
<1>1. CASE UNCHANGED <<vars, history>>
  BY <1>1 DEF history
<1>2. CASE HNext
  <2> DEFINE meets == Begins(Arming \cup {"FORCE"}) /\ dpc \in InCapture
  <2>1. acq_old' => acq_old \/ meets
    BY <1>2 DEF HNext, HistoryStep
  <2>2. overlap' = IF Resets THEN acq_old' ELSE overlap \/ meets
    BY <1>2 DEF HNext, HistoryStep
  <2>3. CASE Resets
    <3>1. last_trigger_state' = None /\ ~Took("scanPrev")
      BY <1>2, <2>3, ResetClears DEF HNext
    <3>2. ~state_old' /\ ~prev_old' /\ stale' = 0
      BY <1>2, <2>3, <3>1 DEF HNext, HistoryStep
    <3>. QED
      BY <2>2, <2>3, <3>2
  <2>4. CASE ~Resets
    <3>1. state_old' => acq_old \/ prev_old \/ state_old
      BY <1>2, <2>4 DEF HNext, HistoryStep
    <3>2. prev_old' => state_old \/ prev_old
      BY <1>2 DEF HNext, HistoryStep
    <3>3. stale' > 0 => stale > 0 \/ prev_old
      BY <1>2, <2>4 DEF HNext, HistoryStep
    <3> HIDE DEF meets
    <3>. QED
      BY <2>1, <2>2, <2>4, <3>1, <3>2, <3>3
  <2>. QED
    BY <2>3, <2>4
<1>. QED
  BY <1>1, <1>2

-----------------------------------------------------------------------------
(***************************************************************************)
(* What the invariants say of every behaviour.                             *)
(***************************************************************************)
HistoryInv ==
  /\ LastInv /\ StopInv /\ SingleInv /\ StartInv /\ KeptInv
  /\ ForceInv /\ ArmedInv /\ OverlapInv

LEMMA HistoryKept == HSpec => []HistoryInv
<1>1. HInit => HistoryInv
  <2> SUFFICES ASSUME HInit PROVE HistoryInv
    OBVIOUS
  <2> USE DEF HInit, Init
  <2>1. LastInv /\ StopInv /\ SingleInv /\ StartInv /\ KeptInv
    BY DEF LastInv, StopInv, SingleInv, StartInv, KeptInv, Kept, Commands, Arming, Past,
           Loaded
  <2>2. ForceInv /\ ArmedInv /\ OverlapInv
    BY DEF ForceInv, Lowered, ArmedInv, Reals, OverlapInv, Past, Loaded, Arming
  <2>. QED
    BY <2>1, <2>2 DEF HistoryInv
<1>2. Typed /\ CaptureOwned /\ HistoryInv /\ [HNext]_<<vars, history>> => HistoryInv'
  BY LastKept, StopKept, SingleKept, StartStands, KeptStands, ForceKept, ArmedKept,
     OverlapKept DEF HistoryInv
<1>. QED
  BY <1>1, <1>2, Watches, PTL DEF HSpec

\* STOP cannot be undone by the data thread: at most one more waveform comes.
THEOREM AtMostOneAfterStop == HSpec => []StopBound
<1>1. HistoryInv => StopBound
  BY DEF HistoryInv, StopInv, LastInv, StopBound
<1>. QED
  BY <1>1, HistoryKept, PTL

\* SINGLE gives at most one waveform, whatever capture it meets.
THEOREM AtMostOneAfterSingle == HSpec => []SingleBound
<1>1. HistoryInv => SingleBound
  BY DEF HistoryInv, SingleInv, LastInv, SingleBound
<1>. QED
  BY <1>1, HistoryKept, PTL

\* START stays in force unless the stores of a completion met its own.
THEOREM StartStaysInForce == HSpec => []StartKept
<1>1. HistoryInv => StartKept
  BY DEF HistoryInv, StartInv, StartKept
<1>. QED
  BY <1>1, HistoryKept, PTL

\* A SINGLE or FORCE that met no completion waits for its capture.
THEOREM KeptInForce == HSpec => []KeptUntilAnswered
<1>1. HistoryInv => KeptUntilAnswered
  BY DEF HistoryInv, KeptInv, KeptUntilAnswered, Kept
<1>. QED
  BY <1>1, HistoryKept, PTL

\* One FORCE marks at most two of the captures that are delivered.
THEOREM AtMostTwoForced == HSpec => []ForceBound
<1>1. HistoryInv => ForceBound
  BY DEF HistoryInv, ForceInv, ForceBound
<1>. QED
  BY <1>1, HistoryKept, PTL

\* A client that has not armed receives no waveform.
THEOREM NothingInherited == HSpec => []NoInheritedRun
<1>1. HistoryInv => NoInheritedRun
  BY DEF HistoryInv, ArmedInv, Reals, NoInheritedRun
<1>. QED
  BY <1>1, HistoryKept, PTL

\* A capture is compared with a state from before a reset only after an overlap.
THEOREM ComparedFresh == HSpec => []FreshUnlessOverlap
<1>1. HistoryInv => FreshUnlessOverlap
  BY DEF HistoryInv, OverlapInv, FreshUnlessOverlap
<1>. QED
  BY <1>1, HistoryKept, PTL

-----------------------------------------------------------------------------
(***************************************************************************)
(* Whose connections the server serves: the accept loop of TwinLan, for    *)
(* any clients.                                                            *)
(***************************************************************************)
\* The owners of the command connections not paired yet, oldest first.
Unpaired == IF server = "acceptData" THEN <<cmd_stream>> \o cmd_queue ELSE cmd_queue

NoneHalf == \A c \in Clients : client[c] # "half"
OnlyHalf(c) == client[c] = "half" /\ \A d \in Clients : client[d] = "half" => d = c

\* The connections of the two ports come from the same clients in the same order,
\* but for one client who has still to connect to the data port, the last.
InStep ==
  \/ NoneHalf /\ Unpaired = data_queue
  \/ \E c \in Clients : OnlyHalf(c) /\ Unpaired = Append(data_queue, c)

PairInv == clean => InStep /\ (server = "serving" => cmd_stream = data_stream)

\* A sequence that begins with x, and the same with one more at its end.
LEMMA FirstOfMany ==
  ASSUME NEW S, NEW q \in Seq(S), NEW r \in Seq(S), NEW x \in S, NEW y \in S
  PROVE  /\ q # <<>> => <<Head(q)>> \o Tail(q) = q
         /\ Append(<<x>> \o r, y) = <<x>> \o Append(r, y)
         /\ q # <<>> /\ <<x>> \o r = q => Head(q) = x /\ Tail(q) = r
<1>0. /\ <<x>> \in Seq(S) /\ <<x>> \o r \in Seq(S) /\ Len(<<x>>) = 1
      /\ Head(<<x>> \o r) = x /\ Tail(<<x>> \o r) = r
  OBVIOUS
<1>1. q # <<>> => <<Head(q)>> \o Tail(q) = q
  OBVIOUS
<1>2. Append(<<x>> \o r, y) = <<x>> \o Append(r, y)
  OBVIOUS
<1>3. q # <<>> /\ <<x>> \o r = q => Head(q) = x /\ Tail(q) = r
  BY <1>0
<1>. QED  BY <1>1, <1>2, <1>3

LEMMA FirstOfLonger ==
  ASSUME NEW S, NEW q \in Seq(S), NEW r \in Seq(S), NEW x \in S, NEW y \in S,
         q # <<>>, <<x>> \o r = Append(q, y)
  PROVE  Head(q) = x /\ Append(Tail(q), y) = r
<1>1. Head(<<x>> \o r) = x /\ Tail(<<x>> \o r) = r
  OBVIOUS
<1>. QED  BY <1>1, HeadTailAppend

\* A client's progress changes: what that does to who is half connected.
LEMMA Progress ==
  ASSUME LanTypeOK, NEW c \in Clients, NEW s \in {"new", "half", "both", "gone"},
         client' = [client EXCEPT ![c] = s]
  PROVE  /\ client'[c] = s /\ \A d \in Clients \ {c} : client'[d] = client[d]
         /\ client' \in [Clients -> {"new", "half", "both", "gone"}]
BY DEF LanTypeOK

LEMMA PairTyped ==
  ASSUME LanTypeOK, [LanNext]_lanVars
  PROVE  LanTypeOK'
<1>. USE DEF LanTypeOK
<1>1. CASE UNCHANGED lanVars
  BY <1>1 DEF lanVars, streams, queues
<1>2. CASE AcceptCmd
  BY <1>2, HeadTailProperties, ClientsAssumption DEF AcceptCmd
<1>3. CASE AcceptData
  BY <1>3, HeadTailProperties, ClientsAssumption DEF AcceptData
<1>4. CASE AcceptError
  <2>1. /\ server' = "acceptCmd" /\ cmd_stream' = Nobody /\ data_stream' = data_stream
        /\ data_stream = Nobody /\ client' = client
    BY <1>4 DEF AcceptError
  <2>2. cmd_queue' \in Seq(Clients) /\ data_queue' \in Seq(Clients)
    <3>1. /\ cmd_queue \in Seq(Clients) /\ (cmd_queue # <<>> => Tail(cmd_queue) \in Seq(Clients))
          /\ data_queue \in Seq(Clients) /\ (data_queue # <<>> => Tail(data_queue) \in Seq(Clients))
      BY HeadTailProperties
    <3>2. /\ cmd_queue' = cmd_queue \/ (cmd_queue # <<>> /\ cmd_queue' = Tail(cmd_queue))
          /\ data_queue' = data_queue \/ (data_queue # <<>> /\ data_queue' = Tail(data_queue))
      BY <1>4 DEF AcceptError, queues
    <3>3. QED  BY <3>1, <3>2
  <2>3. clean' \in BOOLEAN
    BY <1>4 DEF AcceptError
  <2>4. QED  BY <2>1, <2>2, <2>3
<1>5. CASE HandleClient
  BY <1>5 DEF HandleClient, queues
<1>6. ASSUME NEW c \in Clients, ConnectCmd(c)
      PROVE  LanTypeOK'
  <2>1. clean' \in BOOLEAN
    BY <1>6, Zenon DEF ConnectCmd
  <2>2. QED  BY <1>6, <2>1, Progress, AppendProperties DEF ConnectCmd, streams
<1>7. ASSUME NEW c \in Clients, ConnectData(c)
      PROVE  LanTypeOK'
  BY <1>7, Progress, AppendProperties DEF ConnectData, streams
<1>8. ASSUME NEW c \in Clients, Leave(c)
      PROVE  LanTypeOK'
  <2>1. clean' \in BOOLEAN
    BY <1>8, Zenon DEF Leave
  <2>2. QED  BY <1>8, <2>1, Progress DEF Leave, streams, queues
<1>9. QED  BY <1>1, <1>2, <1>3, <1>4, <1>5, <1>6, <1>7, <1>8 DEF LanNext

LEMMA PairKept ==
  ASSUME LanTypeOK, PairInv, [LanNext]_lanVars
  PROVE  PairInv'
<1>. SUFFICES ASSUME clean' PROVE InStep' /\ (server = "serving" => cmd_stream = data_stream)'
  BY DEF PairInv
<1>1. CASE UNCHANGED lanVars
  BY <1>1 DEF lanVars, streams, queues, PairInv, InStep, Unpaired,
              NoneHalf, OnlyHalf
<1>2. CASE AcceptCmd
  <2>1. /\ cmd_queue # <<>> /\ cmd_queue \in Seq(Clients) /\ Head(cmd_queue) \in Clients
        /\ server = "acceptCmd" /\ server' = "acceptData"
        /\ cmd_stream' = Head(cmd_queue) /\ cmd_queue' = Tail(cmd_queue)
        /\ UNCHANGED <<data_stream, data_queue, client, clean>>
    BY <1>2, HeadTailProperties DEF AcceptCmd, LanTypeOK
  <2>2. <<Head(cmd_queue)>> \o Tail(cmd_queue) = cmd_queue
    BY <2>1, FirstOfMany
  <2>3. Unpaired' = Unpaired
    BY <2>1, <2>2 DEF Unpaired
  <2>4. QED  BY <2>1, <2>3 DEF PairInv, InStep, NoneHalf, OnlyHalf
<1>3. CASE AcceptData
  <2>1. /\ data_queue # <<>> /\ data_queue \in Seq(Clients) /\ cmd_queue \in Seq(Clients)
        /\ server = "acceptData" /\ server' = "serving" /\ cmd_stream \in Clients
        /\ data_stream' = Head(data_queue) /\ data_queue' = Tail(data_queue)
        /\ UNCHANGED <<cmd_stream, cmd_queue, client, clean>>
    BY <1>3 DEF AcceptData, LanTypeOK
  <2>2. InStep /\ Unpaired = <<cmd_stream>> \o cmd_queue /\ Unpaired' = cmd_queue
    BY <2>1 DEF PairInv, Unpaired
  <2>3. CASE NoneHalf /\ Unpaired = data_queue
    <3>1. Head(data_queue) = cmd_stream /\ Tail(data_queue) = cmd_queue
      BY <2>1, <2>2, <2>3, FirstOfMany
    <3>2. QED  BY <2>1, <2>2, <2>3, <3>1 DEF InStep, NoneHalf
  <2>4. ASSUME NEW c \in Clients, OnlyHalf(c), Unpaired = Append(data_queue, c)
        PROVE  InStep' /\ (server = "serving" => cmd_stream = data_stream)'
    <3>1. <<cmd_stream>> \o cmd_queue = Append(data_queue, c)
      BY <2>2, <2>4
    <3>2. Head(data_queue) = cmd_stream /\ Append(Tail(data_queue), c) = cmd_queue
      BY <2>1, <3>1, FirstOfLonger
    <3>3. QED  BY <2>1, <2>2, <2>4, <3>2 DEF InStep, OnlyHalf
  <2>5. QED  BY <2>2, <2>3, <2>4 DEF InStep
<1>4. CASE AcceptError
  <2>1. /\ server = "acceptCmd" /\ server' = "acceptCmd" /\ clean
        /\ UNCHANGED <<cmd_queue, data_queue, client>>
    BY <1>4 DEF AcceptError, queues
  <2>2. QED  BY <2>1 DEF PairInv, InStep, Unpaired, NoneHalf, OnlyHalf
<1>5. CASE HandleClient
  BY <1>5 DEF HandleClient, queues, PairInv, InStep, Unpaired, NoneHalf, OnlyHalf
<1>6. ASSUME NEW c \in Clients, ConnectCmd(c)
      PROVE  InStep' /\ (server = "serving" => cmd_stream = data_stream)'
  <2>1. /\ clean /\ NoneHalf /\ cmd_queue' = Append(cmd_queue, c)
        /\ client' = [client EXCEPT ![c] = "half"]
        /\ UNCHANGED <<server, cmd_stream, data_stream, data_queue>>
    BY <1>6 DEF ConnectCmd, streams, NoneHalf
  <2>2. OnlyHalf(c)'
    BY <2>1, Progress DEF NoneHalf, OnlyHalf
  <2>3. Unpaired = data_queue
    BY <2>1 DEF PairInv, InStep, NoneHalf, OnlyHalf
  <2>4. Unpaired' = Append(Unpaired, c)
    BY <2>1, FirstOfMany DEF Unpaired, LanTypeOK
  <2>5. QED  BY <2>1, <2>2, <2>3, <2>4 DEF InStep, PairInv
<1>7. ASSUME NEW c \in Clients, ConnectData(c)
      PROVE  InStep' /\ (server = "serving" => cmd_stream = data_stream)'
  <2>1. /\ clean /\ client[c] = "half" /\ data_queue' = Append(data_queue, c)
        /\ client' = [client EXCEPT ![c] = "both"]
        /\ UNCHANGED <<server, cmd_stream, data_stream, cmd_queue>>
    BY <1>7 DEF ConnectData, streams
  <2>2. OnlyHalf(c) /\ Unpaired = Append(data_queue, c)
    BY <2>1 DEF PairInv, InStep, NoneHalf, OnlyHalf
  <2>3. NoneHalf'
    BY <2>1, <2>2, Progress DEF NoneHalf, OnlyHalf
  <2>4. QED  BY <2>1, <2>2, <2>3 DEF InStep, PairInv, Unpaired
\* Whoever leaves is not the one half connected.
<1>8. ASSUME NEW c \in Clients, Leave(c)
      PROVE  InStep' /\ (server = "serving" => cmd_stream = data_stream)'
  <2>1. /\ clean /\ client[c] = "both" /\ client' = [client EXCEPT ![c] = "gone"]
        /\ UNCHANGED <<server, cmd_stream, data_stream, cmd_queue, data_queue>>
    BY <1>8 DEF Leave, streams, queues
  <2>2. /\ NoneHalf => NoneHalf'
        /\ \A d \in Clients : OnlyHalf(d) => OnlyHalf(d)'
    BY <2>1, Progress DEF NoneHalf, OnlyHalf
  <2>3. QED  BY <2>1, <2>2 DEF InStep, PairInv, Unpaired
<1>9. QED  BY <1>1, <1>2, <1>3, <1>4, <1>5, <1>6, <1>7, <1>8 DEF LanNext

\* TwinLanServer::accept: the two streams of a pair are one client's, however
\* many clients wait and whenever they leave, as long as they connect one at a
\* time and completely and the server drops no connection.
THEOREM PairsOwn == LanSpec => []PairOwn
<1>1. LanInit => LanTypeOK /\ PairInv
  BY EmptySeq, ClientsAssumption DEF LanInit, LanTypeOK, PairInv, InStep, NoneHalf, Unpaired
<1>2. LanTypeOK /\ PairInv /\ [LanNext]_lanVars => (LanTypeOK /\ PairInv)'
  BY PairTyped, PairKept
<1>3. PairInv => PairOwn
  BY DEF PairInv, PairOwn
<1>4. QED  BY <1>1, <1>2, <1>3, PTL DEF LanSpec

-----------------------------------------------------------------------------
(***************************************************************************)
(* LabelledSession: the configuration next to a session.                   *)
(***************************************************************************)

\* The stutter of the composition is one of both its parts.
LEMMA Rest == UNCHANGED <<vars, config, hasty>> => Capture' = Capture /\ UNCHANGED Config!vars
<1> SUFFICES ASSUME UNCHANGED vars, UNCHANGED config
             PROVE  Capture' = Capture /\ UNCHANGED Config!vars
  OBVIOUS
<1>1. Capture' = Capture
  BY DEF vars, capture, Capture
<1>. QED
  BY <1>1 DEF config, Config!vars, Config!driver, Config!lists, Config!active,
       Config!command, Config!data

\* LNext is made of steps of BridgeServer, so its invariants hold in it.
LEMMA SessionUnchanged == LSpec => Spec
<1>1. LInit => Init
  BY DEF LInit
<1>2. [LNext]_<<vars, config, hasty>> => [Next]_vars
  BY DEF LNext, ServerStep, ConfigStep, Next
<1>. QED
  BY <1>1, <1>2, PTL DEF LSpec, Spec

\* While the data thread holds a capture, the 'K' it answers is outstanding.
LEMMA HeldNext == Typed' /\ CaptureOwned' /\ Capture' # "idle" => Pending' > 0
<1> SUFFICES ASSUME Typed', CaptureOwned', Capture' # "idle" PROVE Pending' > 0
  OBVIOUS
<1>1. Owed'
  BY DEF Capture, CaptureOwned, Owed, Answering
<1>2. inbox' \in Nat
  BY BoundAssumption DEF Typed, TypeOK, DataOK
<1>3. Pending' = inbox' + 1
  BY <1>1, Zenon DEF Pending
<1>4. \A n \in Nat : n + 1 > 0
  OBVIOUS
<1>. QED
  BY <1>2, <1>3, <1>4, Zenon

\* Until main serves there is no client; until the rates are listed no command
\* is executed, main's own included, and no rate was read back.
Starting ==
  /\ main # "serving" => cmd = "ACCEPT" /\ session = "idle" /\ dpc = "none"
  /\ main \in {"open", "width", "session", "pattern", "rates"} => op = "none" /\ ~read

\* The stored rate is the driver's once it was read back.
RateStored ==
  /\ read => sample_rate = driver_rate
  /\ op = "rateGet" => ~read

\* A capture runs at the driver's rate, unless a RATE was in progress while the
\* 'K' that it answers was outstanding.
RateKept ==
  /\ Capture # "idle" /\ rate_raced => hasty
  /\ Capture # "idle" /\ ~rate_raced => capture_rate = driver_rate

LabelInv == Starting /\ RateStored /\ RateKept

\* The server starts, ends and gives up captures, and leaves the rates alone.
LEMMA ServerKeeps ==
  ASSUME LabelInv, ServerStep, Capture' # "idle" => Pending' > 0,
         hasty' = (Pending' > 0 /\ (hasty \/ RateInProgress'))
  PROVE  LabelInv'
<1> USE DEF LabelInv, Starting, RateStored, RateKept, ServerStep, RateInProgress
<1>1. CASE Capture' = Capture /\ UNCHANGED config
  BY <1>1 DEF config
<1>2. CASE Config!SessionStart
  BY <1>2 DEF Config!SessionStart, Config!DataOnly, Config!driver, Config!lists,
       Config!active, Config!command
<1>3. CASE Config!SessionEnd
  BY <1>3 DEF Config!SessionEnd, Config!DataOnly, Config!driver, Config!lists,
       Config!active, Config!command
<1>4. CASE Config!SendWaveform \/ Config!Discard
  BY <1>4 DEF Config!SendWaveform, Config!Discard, Config!DataOnly, Config!driver,
       Config!lists, Config!active, Config!command
<1>. QED
  BY <1>1, <1>2, <1>3, <1>4 DEF CapturePart

\* The configuration changes around the captures.
LEMMA ConfigKeeps ==
  ASSUME LabelInv, ConfigStep, Capture' = Capture, Capture' # "idle" => Pending' > 0,
         hasty' = (Pending' > 0 /\ (hasty \/ RateInProgress'))
  PROVE  LabelInv'
<1>1. UNCHANGED <<cmd, session, dpc>>
  BY DEF ConfigStep, vars, capture, scpi
<1>2. Config!Next
  BY DEF ConfigStep
<1>3. Starting'
  <2> USE <1>1 DEF LabelInv, Starting
  <2>1. CASE Config!OpenDevice \/ Config!OpenSession \/ Config!OpenFails \/ Config!SetWidth
               \/ Config!SetPattern \/ Config!ListRates \/ Config!ListDepths
               \/ Config!ListFails
    BY <2>1 DEF Config!OpenDevice, Config!OpenSession, Config!OpenFails, Config!SetWidth,
         Config!SetPattern, Config!ListRates, Config!ListDepths, Config!ListFails,
         Config!Start, Config!command
  <2>2. ASSUME NEW r \in Rates, Config!RateCommand(r) PROVE Starting'
    BY <2>2 DEF Config!RateCommand, Config!CallRate, Config!Return, Config!Returned
  <2>3. CASE Config!RateSet \/ Config!RateGet
    BY <2>3 DEF Config!RateSet, Config!RateGet, Config!Return, Config!Returned
  <2>4. ASSUME NEW d \in Depths, Config!DepthCommand(d) PROVE Starting'
    BY <2>4 DEF Config!DepthCommand
  <2>5. CASE Config!DepthSet
    BY <2>5 DEF Config!DepthSet, Config!Return, Config!Returned
  <2>6. CASE Config!SessionStart \/ Config!SessionEnd \/ Config!Discard \/ Config!SendWaveform
    BY <2>6 DEF Config!SessionStart, Config!SessionEnd, Config!Discard, Config!SendWaveform
  <2>. QED
    BY <1>2, <2>1, <2>2, <2>3, <2>4, <2>5, <2>6 DEF Config!Next
<1>4. RateStored'
  <2> USE DEF LabelInv, Starting, RateStored
  <2>1. CASE Config!OpenDevice \/ Config!OpenSession \/ Config!OpenFails
               \/ Config!SetPattern \/ Config!ListRates \/ Config!ListDepths
               \/ Config!ListFails
    BY <2>1 DEF Config!OpenDevice, Config!OpenSession, Config!OpenFails, Config!SetPattern,
         Config!ListRates, Config!ListDepths, Config!ListFails, Config!driver,
         Config!active, Config!command
  <2>2. CASE Config!SetWidth
    BY <2>2 DEF Config!SetWidth, Config!Start, Config!active, Config!command
  <2>3. ASSUME NEW r \in Rates, Config!RateCommand(r) PROVE RateStored'
    BY <2>3 DEF Config!RateCommand, Config!CallRate, Config!Return, Config!driver,
         Config!active
  <2>4. CASE Config!RateSet
    BY <2>4 DEF Config!RateSet, Config!Return, Config!active
  <2>5. CASE Config!RateGet
    BY <2>5 DEF Config!RateGet, Config!Return, Config!driver
  <2>6. ASSUME NEW d \in Depths, Config!DepthCommand(d) PROVE RateStored'
    BY <2>6 DEF Config!DepthCommand, Config!driver, Config!active
  <2>7. CASE Config!DepthSet
    BY <2>7 DEF Config!DepthSet, Config!Return
  <2>8. CASE Config!SessionStart \/ Config!SessionEnd \/ Config!Discard \/ Config!SendWaveform
    BY <2>8 DEF Config!SessionStart, Config!SessionEnd, Config!Discard, Config!SendWaveform
  <2>. QED
    BY <1>2, <2>1, <2>2, <2>3, <2>4, <2>5, <2>6, <2>7, <2>8 DEF Config!Next
<1>5. Capture # "idle" => /\ hasty => hasty'
                          /\ op' = "rateGet" => hasty'
  BY DEF RateInProgress
<1>6. Capture # "idle" => main = "serving"
  BY DEF LabelInv, Starting, Capture
<1>7. RateKept'
  <2> USE <1>6 DEF LabelInv, RateKept
  <2>1. CASE UNCHANGED <<driver_rate, capture_rate, rate_raced>>
    BY <1>5, <2>1
  <2>2. CASE Config!RateSet /\ op' = "rateGet"
    <3>1. rate_raced' = (Capture # "idle") /\ UNCHANGED capture_rate
      BY <2>2 DEF Config!RateSet, Config!Return
    <3>. QED
      BY <1>5, <2>2, <3>1
  <2>3. CASE Config!SetWidth
    BY <2>3 DEF Config!SetWidth, Config!Start
  <2>. QED
    BY <1>2, <2>1, <2>2, <2>3 DEF Config!Next, Config!OpenDevice, Config!OpenSession,
         Config!OpenFails, Config!SetPattern, Config!ListRates, Config!ListDepths,
         Config!ListFails, Config!RateCommand, Config!RateSet, Config!Return,
         Config!RateGet, Config!DepthCommand, Config!DepthSet, Config!SessionStart,
         Config!SessionEnd, Config!Discard, Config!SendWaveform, Config!driver, Config!data
<1>. QED
  BY <1>3, <1>4, <1>7 DEF LabelInv

\* The rate that send_waveform would report is the capture's, whatever STOP,
\* SINGLE, FORCE and disconnects do, when no RATE was in progress while a 'K'
\* was outstanding, and the last one could read its rate back.
THEOREM LabelsCapture == LSpec => []LabelOfCapture
<1>1. LInit => LabelInv
  BY DEF LInit, Init, Config!Init, LabelInv, Starting, RateStored, RateKept, Capture
<1>2. LabelInv /\ (Typed /\ CaptureOwned)' /\ [LNext]_<<vars, config, hasty>> => LabelInv'
  <2> SUFFICES ASSUME LabelInv, Typed', CaptureOwned', [LNext]_<<vars, config, hasty>>
               PROVE  LabelInv'
    OBVIOUS
  <2>1. CASE ServerStep /\ hasty' = (Pending' > 0 /\ (hasty \/ RateInProgress'))
    BY <2>1, HeldNext, ServerKeeps
  <2>2. CASE ConfigStep /\ hasty' = (Pending' > 0 /\ (hasty \/ RateInProgress'))
    <3>1. Capture' = Capture
      BY <2>2 DEF ConfigStep, vars, capture, Capture
    <3>. QED
      BY <2>2, <3>1, HeldNext, ConfigKeeps
  <2>3. CASE UNCHANGED <<vars, config, hasty>>
    BY <2>3, Rest DEF vars, capture, scpi, config, LabelInv, Starting, RateStored, RateKept
  <2>. QED
    BY <2>1, <2>2, <2>3 DEF LNext
<1>3. LabelInv => LabelOfCapture
  BY DEF LabelInv, RateStored, RateKept, LabelOfCapture
<1>4. LSpec => [](Typed /\ CaptureOwned)
  BY SessionUnchanged, TypeInvariant, Ownership, PTL
<1>. QED
  BY <1>1, <1>2, <1>3, <1>4, PTL DEF LSpec
=============================================================================
