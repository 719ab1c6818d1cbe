--------------------------- MODULE DataStreamProofs ---------------------------
(***************************************************************************)
(* Proofs about the data socket as a stream: the names of the bytes of a   *)
(* sample, the waveforms that a client puts together from a header and     *)
(* what follows it, and the place of the trigger in them.                  *)
(*                                                                         *)
(* What is on its way to the client is one sequence, what the socket has   *)
(* and behind it what write_all has left.  Each item of it says how many   *)
(* bytes are Left to come; the next item is the one that Follows.  The     *)
(* client is where the sequence begins and the data thread is where it     *)
(* ends, so that no operation has to look further than one item.           *)
(***************************************************************************)
EXTENDS DataStream, FiniteSetTheorems, SequenceTheorems, TLAPS

Capture == [bytes : Nat, unitsize : Nat, triggered : BOOLEAN, sample : Nat]
Headers == [kind : {"header"}, num_channels : Nat, num_samples : Nat, fs_per_sample : Nat,
            trigger_fs : Int, of : Capture \cup {None}]
Bytes   == [kind : {"byte"}, position : Nat, of : Capture]
Items   == Headers \cup Bytes

Pcs == {"open", "refused", "read", "reply", "empty", "chunks", "dead", "done"}

InTransit == /\ outbox \in Seq(Items) /\ wire \in Seq(Items)
             /\ got \in Seq(Headers \cup Nat)

Typed ==
  /\ InTransit
  /\ width # None => width \in Nat \ {0} /\ width % 8 = 0
  /\ width = None <=> dpc \in {"open", "refused"}
  /\ width = None => outbox = <<>>
  /\ driver_unit \in Nat /\ sample_rate \in Nat /\ dpc \in Pcs
  /\ open \in BOOLEAN /\ misread \in BOOLEAN /\ odd \in BOOLEAN
  /\ dpc \in {"reply", "chunks"} => acq \in Capture
  /\ offset \in Nat
  /\ want \in Nat
  /\ want > 0 => got # <<>> /\ got[1] \in Headers

-----------------------------------------------------------------------------
(* The layout. *)

Named == width # None => /\ width \in Nat \ {0} /\ width % 8 = 0
                         /\ layout = Layout(width, analog)

-----------------------------------------------------------------------------
(* The trigger. *)

Placed(h) ==
  h.num_samples > 0 =>
    (h.of.triggered /\ h.fs_per_sample > 0 /\ h.of.sample * h.fs_per_sample <= MaxI64
       => h.trigger_fs \div h.fs_per_sample = h.of.sample)

AllPlaced(s) == \A i \in 1 .. Len(s) : s[i] \in Headers => Placed(s[i])

PlacedInv ==
  /\ AllPlaced(outbox) /\ AllPlaced(wire)
  /\ want > 0 => Placed(got[1])
  /\ shown # None => shown[1].num_samples > 0 /\ Placed(shown[1])

-----------------------------------------------------------------------------
(* The waveforms. *)

\* What is true of an item as long as captures are in whole samples.
Fits(x) ==
  IF x \in Headers
    THEN x.num_samples > 0 => /\ x.of \in Capture /\ x.of.bytes > 0
                              /\ x.num_samples * UnitSize(x.num_channels) = x.of.bytes
    ELSE x.position \in 1 .. x.of.bytes

\* The bytes to come behind an item, and the item that does come.
Left(x) ==
  IF x \in Headers THEN IF x.num_samples > 0 THEN x.of.bytes ELSE 0 ELSE x.of.bytes - x.position

Follows(x, y) ==
  IF Left(x) = 0
    THEN y \in Headers
    ELSE y \in Bytes /\ y.of = x.of /\ y.position = x.of.bytes - Left(x) + 1

Expected(y) ==
  IF want = 0
    THEN y \in Headers
    ELSE y \in Bytes /\ y.of = got[1].of /\ y.position = Len(got)

Queued == wire \o outbox

Chain(s) == /\ \A i \in 1 .. Len(s) : Fits(s[i])
            /\ \A i \in 1 .. Len(s) - 1 : Follows(s[i], s[i + 1])

InOrder == Chain(Queued) /\ (Queued # <<>> => Expected(Queued[1]))

\* The client has the first bytes of the capture of its header.
ClientInv ==
  want > 0 => /\ Fits(got[1]) /\ got[1].num_samples > 0
              /\ got[1].of.bytes = want + Len(got) - 1
              /\ \A i \in 2 .. Len(got) : got[i] = i - 1

ShownInv ==
  ~misread /\ (shown # None => Tail(shown) = [i \in 1 .. shown[1].of.bytes |-> i])

\* What the last item, or the client, still waits for is what the thread has
\* not chunked.
Awaited   == IF Queued = <<>> THEN want ELSE Left(Queued[Len(Queued)])
AwaitedOf == IF Queued = <<>> THEN got[1].of ELSE Queued[Len(Queued)].of

ThreadInv ==
  /\ dpc \notin {"empty", "chunks"} => outbox = <<>>
  /\ dpc = "empty" => Len(outbox) = 1
  /\ dpc \notin {"dead", "done"}
  /\ IF dpc = "chunks"
       THEN /\ acq.unitsize > 0 /\ offset <= acq.bytes
            /\ Awaited = acq.bytes - offset
            /\ offset < acq.bytes => AwaitedOf = acq
       ELSE Awaited = 0

StreamInv ==
  ~odd => ShownInv /\ (open => InOrder /\ ClientInv /\ ThreadInv)

-----------------------------------------------------------------------------
(* Arithmetic. *)

LEMMA Unit == \A n \in Nat : UnitSize(n) \in Nat
  BY DEF UnitSize

\* A width of whole bytes is its unit size times 8.
LEMMA WholeBytes ==
  ASSUME NEW n \in Nat, n % 8 = 0
  PROVE  n = 8 * (n \div 8) /\ UnitSize(n) = n \div 8 /\ n \div 8 \in Nat
  BY DEF UnitSize

LEMMA Positive == ASSUME NEW n \in Nat \ {0} PROVE UnitSize(n) \in Nat \ {0}
  BY DEF UnitSize

\* A product is divided by its factors.
LEMMA DivideProduct ==
  ASSUME NEW m \in Nat, NEW n \in Nat \ {0}
  PROVE  (m * n) \div n = m
  OBVIOUS

LEMMA WholeQuotient ==
  ASSUME NEW m \in Nat, NEW n \in Nat \ {0}, m % n = 0
  PROVE  (m \div n) * n = m
  OBVIOUS

\* Numbers that fit are not wrapped around.
LEMMA WrapsNot ==
  ASSUME NEW x \in 0 .. MaxI64
  PROVE  Wrap(x) = x
  BY SizesAssumption DEF Wrap

LEMMA WrapType == ASSUME NEW x \in Nat PROVE Wrap(x) \in Int
  BY SizesAssumption DEF Wrap

-----------------------------------------------------------------------------
(* Sequences. *)

LEMMA TailOf ==
  ASSUME NEW S, NEW s \in Seq(S), s # <<>>
  PROVE  /\ Head(s) = s[1] /\ Head(s) \in S
         /\ Tail(s) \in Seq(S)
         /\ Len(s) \in Nat \ {0} /\ Len(Tail(s)) = Len(s) - 1
         /\ \A i \in 1 .. Len(s) - 1 : Tail(s)[i] = s[i + 1]
  OBVIOUS

LEMMA TailIs ==
  ASSUME NEW S, NEW s \in Seq(S), s # <<>>
  PROVE  Tail(s) = [i \in 1 .. Len(s) - 1 |-> s[i + 1]]
<1>1. /\ Tail(s) \in Seq(S) /\ Len(Tail(s)) = Len(s) - 1
      /\ \A i \in 1 .. Len(s) - 1 : Tail(s)[i] = s[i + 1]
  BY TailOf
<1> DEFINE t == [i \in 1 .. Len(s) - 1 |-> s[i + 1]]
<1>2. t \in Seq(S) /\ Len(t) = Len(s) - 1 /\ \A i \in 1 .. Len(t) : t[i] = s[i + 1]
  BY TailOf
<1> HIDE DEF t
<1>3. Tail(s) = t
  BY <1>1, <1>2, SeqEqual
<1> QED
  BY <1>3 DEF t

LEMMA AppendOf ==
  ASSUME NEW S, NEW s \in Seq(S), NEW x \in S
  PROVE  /\ Append(s, x) \in Seq(S)
         /\ Len(s) \in Nat /\ Len(Append(s, x)) = Len(s) + 1
         /\ \A i \in 1 .. Len(s) : Append(s, x)[i] = s[i]
         /\ Append(s, x)[Len(s) + 1] = x
  OBVIOUS

-----------------------------------------------------------------------------
(* BytesNamed. *)

LEMMA WidthWhole ==
  ASSUME NEW arg \in MaxChannels, NEW hw \in HwCounts, Width(arg, hw) # None
  PROVE  Width(arg, hw) \in Nat \ {0} /\ Width(arg, hw) % 8 = 0
  BY SizesAssumption DEF Width, MainWidths

\* The lines that CHANS? reports are the lines of the capture.
LEMMA LinesCounted ==
  ASSUME NEW n \in Nat \ {0}, n % 8 = 0, NEW marks
  PROVE  8 * AnalogCount(Layout(n, marks)) + DigitalCount(Layout(n, marks)) = n
<1> DEFINE A == {g \in Groups(n) : g \in marks}
           D == {g \in Groups(n) : g \notin marks}
<1>1. n = 8 * (n \div 8) /\ n \div 8 \in Nat
  BY WholeBytes
<1>2. IsFiniteSet(Groups(n)) /\ Cardinality(Groups(n)) = n \div 8
  BY <1>1, FS_Interval DEF Groups
<1>3. /\ IsFiniteSet(A) /\ IsFiniteSet(D)
      /\ Cardinality(A) \in Nat /\ Cardinality(D) \in Nat
  BY <1>2, FS_Subset, FS_CardinalityType
<1>4. Cardinality(A \cup D) = Cardinality(A) + Cardinality(D) - Cardinality(A \cap D)
  BY <1>3, FS_Union
<1>5. A \cup D = Groups(n) /\ A \cap D = {}
  OBVIOUS
<1>6. Cardinality(A \cup D) = n \div 8 /\ Cardinality(A \cap D) = 0
  <2> HIDE DEF A, D
  <2> QED BY <1>2, <1>5, FS_EmptySet, Zenon
<1>7. Cardinality(A) + Cardinality(D) = n \div 8
  <2> HIDE DEF A, D
  <2> QED BY <1>1, <1>3, <1>4, <1>6
<1>8. /\ {g \in DOMAIN Layout(n, marks) : Layout(n, marks)[g].analog} = A
      /\ {g \in DOMAIN Layout(n, marks) : ~Layout(n, marks)[g].analog} = D
  BY DEF Layout
<1>9. AnalogCount(Layout(n, marks)) = Cardinality(A)
      /\ DigitalCount(Layout(n, marks)) = 8 * Cardinality(D)
  BY <1>8, Zenon DEF AnalogCount, DigitalCount
<1> HIDE DEF A, D
<1> QED
  BY <1>1, <1>3, <1>7, <1>9

\* What a client calls line j of byte g is what a trigger of that name looks at.
LEMMA LineScanned ==
  ASSUME NEW g \in Nat, NEW j \in 0 .. 7
  PROVE  /\ ScannedByte(<<"D", 8 * g + j>>) = g
         /\ ScannedBit(<<"D", 8 * g + j>>) = j
  BY DEF ScannedByte, ScannedBit

LEMMA NamedMeans == Named => BytesNamed
<1> SUFFICES ASSUME Named, width # None PROVE BytesNamed
  BY DEF BytesNamed
<1>1. width \in Nat \ {0} /\ width % 8 = 0 /\ layout = Layout(width, analog)
  BY DEF Named
<1>2. 8 * AnalogCount(layout) + DigitalCount(layout) = width
  BY <1>1, LinesCounted
<1>3. \A g \in 0 .. UnitSize(width) - 1 :
         /\ layout[g].byte_offset = g /\ layout[g].analog = (g \in analog)
         /\ layout[g].name = Name(g, g \in analog)
  BY <1>1, WholeBytes DEF Layout, Groups
<1>4. \A g \in 0 .. UnitSize(width) - 1 : g \in Nat
  BY <1>1, Positive
<1>5. ASSUME NEW g \in 0 .. UnitSize(width) - 1
      PROVE  IF layout[g].analog
               THEN ScannedByte(layout[g].name) = g
               ELSE \A j \in 0 .. 7 :
                      LET line == <<"D", layout[g].name[2] + j>>
                      IN ScannedByte(line) = g /\ ScannedBit(line) = j
  <2>1. /\ layout[g].analog = (g \in analog) /\ layout[g].name = Name(g, g \in analog)
        /\ g \in Nat
    BY <1>3, <1>4, Zenon
  <2>2. CASE g \in analog
    <3>1. Name(g, g \in analog) = <<"A", g>>
      BY <2>2, Zenon DEF Name
    <3>2. layout[g].analog
      BY <2>1, <2>2, Zenon
    <3>3. ScannedByte(<<"A", g>>) = g
      BY DEF ScannedByte
    <3> QED
      BY <2>1, <3>1, <3>2, <3>3, Zenon
  <2>3. CASE g \notin analog
    <3>1. Name(g, g \in analog) = <<"D", 8 * g>>
      BY <2>3, Zenon DEF Name
    <3>2. <<"D", 8 * g>>[2] = 8 * g
      OBVIOUS
    <3> QED
      BY <2>1, <2>3, <3>1, <3>2, LineScanned
  <2> QED
    BY <2>2, <2>3
<1> QED
  BY <1>2, <1>3, <1>5 DEF BytesNamed

\* Every byte of a sample has one name in the layout, and a trigger on it looks
\* at that byte, for every width and every choice of analog groups.
THEOREM Names == Spec => []BytesNamed
<1>1. Init => Named
  BY DEF Init, Named
<1>2. Named /\ [Next]_vars => Named'
  <2> SUFFICES ASSUME Named, [Next]_vars PROVE Named'
    OBVIOUS
  <2>1. CASE Open
    BY <2>1, WidthWhole DEF Open, Named
  <2>2. CASE UNCHANGED device
    BY <2>2 DEF device, Named
  <2> QED
    BY <2>1, <2>2 DEF Next, vars, SetRate, Serve, ReadReady, ReadFails, SendEmpty, SendWaveform,
                      Sends, NextChunk, ChunksPanic, Write, WriteFails, Ask, HangUp, Receive
<1> QED
  BY <1>1, <1>2, NamedMeans, PTL DEF Spec

-----------------------------------------------------------------------------
(* Types. *)

LEMMA Unchunked ==
  ASSUME NEW a \in Capture, NEW from \in Nat, a.unitsize > 0, from <= a.bytes
  PROVE  /\ ChunkEnd(a, from) \in from .. a.bytes
         /\ ChunkEnd(a, from) = from <=> from = a.bytes
<1> DEFINE size == CHUNK_SAMPLES * a.unitsize
<1>1. a.bytes \in Nat /\ a.unitsize \in Nat \ {0}
  BY DEF Capture
<1>2. size \in Nat \ {0}
  BY <1>1, SizesAssumption
<1> HIDE DEF size
<1> QED
  BY <1>1, <1>2 DEF ChunkEnd, size

LEMMA HeaderTyped ==
  ASSUME Typed, NEW a \in Capture \cup {None}, NEW n \in Nat, NEW fs \in Nat, NEW t \in Int,
         width # None
  PROVE  Header(a, n, fs, t) \in Headers
  BY DEF Typed, Header, Headers

LEMMA Nothing == <<>> \in Seq(Items) /\ <<>> \in Seq(Headers \cup Nat)
  OBVIOUS

LEMMA TypeInit == Init => Typed
<1> SUFFICES ASSUME Init PROVE Typed
  OBVIOUS
<1>1. sample_rate \in Nat
  BY SizesAssumption DEF Init
<1>2. InTransit
  BY Nothing, Zenon DEF Init, InTransit
<1>3. /\ width = None <=> dpc \in {"open", "refused"}
      /\ width = None => outbox = <<>>
  BY DEF Init
<1>4. width # None => width \in Nat \ {0} /\ width % 8 = 0
  BY DEF Init
<1>5. /\ driver_unit \in Nat /\ dpc \in Pcs
      /\ open \in BOOLEAN /\ misread \in BOOLEAN /\ odd \in BOOLEAN
  BY DEF Init, Pcs
<1>6. /\ dpc \in {"reply", "chunks"} => acq \in Capture
      /\ offset \in Nat
  BY DEF Init
<1>7. /\ want \in Nat
      /\ want > 0 => got # <<>> /\ got[1] \in Headers
  BY DEF Init
<1> QED
  BY <1>1, <1>2, <1>3, <1>4, <1>5, <1>6, <1>7 DEF Typed

LEMMA CapturesTyped == Typed => Captures \subseteq Capture
  BY DEF Typed, Captures, Capture

LEMMA SendsTyped ==
  ASSUME NEW a \in Capture, NEW r \in Nat
  PROVE  /\ NumSamples(a) \in Nat /\ HzToFs(r) \in Nat
         /\ TriggerFs(a, HzToFs(r)) \in Int
<1>1. NumSamples(a) \in Nat
  BY DEF Capture, NumSamples
<1>2. HzToFs(r) \in Nat
  BY SizesAssumption DEF HzToFs
<1>3. a.sample * HzToFs(r) \in Nat /\ Delay \in Int
  BY <1>2, SizesAssumption DEF Capture
<1> QED
  BY <1>1, <1>2, <1>3, WrapType DEF TriggerFs

LEMMA TypeStep == Typed /\ [Next]_vars => Typed'
<1> SUFFICES ASSUME Typed, [Next]_vars PROVE Typed'
  OBVIOUS
<1> USE DEF device, thread, socket, client, InTransit
<1>1. CASE Open
  <2>1. PICK arg \in MaxChannels, hw \in HwCounts, kept \in HwCounts :
          /\ width' = Width(arg, hw) /\ driver_unit' = UnitSize(kept)
          /\ dpc' = IF Width(arg, hw) = None THEN "refused" ELSE "read"
    BY <1>1 DEF Open
  <2>2. driver_unit' \in Nat
    BY <2>1, Unit, SizesAssumption
  <2>3. width' # None => width' \in Nat \ {0} /\ width' % 8 = 0
    BY <2>1, WidthWhole
  <2> QED
    BY <1>1, <2>1, <2>2, <2>3 DEF Open, Typed, Pcs
<1>2. CASE SetRate
  BY <1>2, SizesAssumption DEF SetRate, Typed, Pcs
<1>3. CASE ReadReady
  BY <1>3, CapturesTyped DEF ReadReady, Typed, Pcs
<1>4. CASE ReadFails
  BY <1>4 DEF ReadFails, Typed, Pcs
<1>5. CASE SendEmpty
  <2>1. width # None
    BY <1>5 DEF SendEmpty, Typed
  <2>2. Header(None, 0, 0, 0) \in Items
    BY <2>1, HeaderTyped DEF Items
  <2> QED
    BY <1>5, <2>2 DEF SendEmpty, Typed, Pcs
<1>6. CASE SendWaveform
  <2> DEFINE h == Header(acq, NumSamples(acq), HzToFs(sample_rate),
                         TriggerFs(acq, HzToFs(sample_rate)))
  <2>1. acq \in Capture /\ sample_rate \in Nat /\ width # None
    BY <1>6 DEF SendWaveform, Sends, Typed
  <2>2. h \in Items
    BY <2>1, SendsTyped, HeaderTyped DEF Items
  <2>3. outbox' = <<h>> /\ odd' \in BOOLEAN
    BY <1>6 DEF SendWaveform, Sends
  <2> HIDE DEF h
  <2> QED
    BY <1>6, <2>1, <2>2, <2>3 DEF SendWaveform, Sends, Typed, Pcs
<1>7. CASE NextChunk
  <2> DEFINE end == ChunkEnd(acq, offset)
  <2>1. acq \in Capture /\ offset \in Nat /\ acq.bytes \in Nat /\ acq.unitsize \in Nat
    BY <1>7 DEF NextChunk, Typed, Capture
  <2>2. end \in Nat
    BY <2>1, SizesAssumption DEF ChunkEnd
  <2>3. outbox' = [i \in 1 .. end - offset |-> Byte(acq, offset + i)]
    BY <1>7 DEF NextChunk
  <2>4. \A i \in 1 .. end - offset : Byte(acq, offset + i) \in Items
    BY <2>1, <2>2 DEF Byte, Bytes, Items
  <2>5. outbox' \in Seq(Items)
    BY <2>1, <2>2, <2>3, <2>4
  <2>6. /\ dpc' \in {"read", "chunks"} /\ dpc' = "chunks" => acq' = acq
        /\ offset' \in Nat
    BY <1>7, <2>2 DEF NextChunk
  <2> QED
    BY <1>7, <2>1, <2>5, <2>6 DEF NextChunk, Typed, Pcs
<1>8. CASE ChunksPanic
  BY <1>8 DEF ChunksPanic, Typed, Pcs
<1>9. CASE Write
  BY <1>9 DEF Write, Typed, Pcs
<1>10. CASE WriteFails
  <2>1. InTransit'
    BY <1>10, Nothing, Zenon DEF WriteFails, Typed
  <2> HIDE DEF InTransit
  <2> QED
    BY <1>10, <2>1 DEF WriteFails, Typed, Pcs
<1>11. CASE Ask \/ HangUp
  BY <1>11 DEF Ask, HangUp, Typed, Pcs
<1>12. CASE Receive
  <2> DEFINE item == Head(wire)
  <2>1. item \in Items /\ wire' \in Seq(Items)
    BY <1>12 DEF Receive, Typed
  <2>2. Receives(item) /\ UNCHANGED <<device, sample_rate, thread, socket, odd>>
    BY <1>12 DEF Receive
  <2> HIDE DEF item
  <2>3. CASE misread' = TRUE /\ UNCHANGED <<want, got, shown>>
    BY <2>1, <2>2, <2>3 DEF Typed, Pcs
  <2>4. CASE item \in Headers /\ want = 0 /\ UNCHANGED misread
    <3>1. item.num_samples * UnitSize(item.num_channels) \in Nat
      BY <2>4, Unit DEF Headers
    <3>2. item.kind = "header" /\ <<item>> \in Seq(Headers \cup Nat)
      BY <2>4 DEF Headers
    <3>3. want' \in Nat /\ (got' = <<item>> \/ (got' = <<>> /\ want' = 0))
      BY <2>2, <2>4, <3>1, <3>2 DEF Receives
    <3>4. got' \in Seq(Headers \cup Nat)
      BY <3>2, <3>3, Nothing, Zenon
    <3>5. want' > 0 => (got' # <<>> /\ got'[1] \in Headers)
      BY <2>4, <3>3
    <3> QED
      BY <2>1, <2>2, <2>4, <3>3, <3>4, <3>5 DEF Typed, Pcs
  <2>5. CASE item \in Bytes /\ want > 0 /\ UNCHANGED misread
    <3>1. item.kind # "header" /\ item.position \in Nat
      BY <2>5 DEF Bytes
    <3>2. want' = want - 1 /\ (got' = Append(got, item.position) \/ (got' = <<>> /\ want' = 0))
      BY <2>2, <2>5, <3>1 DEF Receives, Typed
    <3>3. /\ got \in Seq(Headers \cup Nat) /\ got # <<>> /\ got[1] \in Headers
          /\ want \in Nat
      BY <2>5 DEF Typed
    <3>4. Append(got, item.position) \in Seq(Headers \cup Nat)
      BY <3>1, <3>3
    <3>5. got' \in Seq(Headers \cup Nat)
      BY <3>2, <3>4, Nothing, Zenon
    <3>6. Append(got, item.position) # <<>> /\ Append(got, item.position)[1] = got[1]
      BY <3>3
    <3>7. want' > 0 => (got' # <<>> /\ got'[1] \in Headers)
      BY <3>2, <3>3, <3>6
    <3> QED
      BY <2>1, <2>2, <2>5, <3>2, <3>3, <3>5, <3>7 DEF Typed, Pcs
  <2>6. item \in Headers => item.kind = "header"
    BY DEF Headers
  <2>7. item \in Bytes => item.kind # "header"
    BY DEF Bytes
  <2>8. \/ misread' = TRUE /\ UNCHANGED <<want, got, shown>>
        \/ (item.kind = "header" <=> want = 0) /\ UNCHANGED misread
    BY <2>2 DEF Receives
  <2>9. want = 0 \/ want > 0
    BY DEF Typed
  <2> QED
    BY <2>1, <2>3, <2>4, <2>5, <2>6, <2>7, <2>8, <2>9 DEF Items
<1>13. CASE UNCHANGED vars
  BY <1>13 DEF vars, Typed, Pcs
<1> QED
  BY <1>1, <1>2, <1>3, <1>4, <1>5, <1>6, <1>7, <1>8, <1>9, <1>10, <1>11, <1>12, <1>13
  DEF Next, Serve

\* The types hold in every reachable state, for every value of the constants.
THEOREM StreamTyped == Spec => []Typed
BY TypeInit, TypeStep, PTL DEF Spec

-----------------------------------------------------------------------------
(* TriggerPlaced. *)

\* One load of the rate serves both fields.
LEMMA SentPlaced ==
  ASSUME NEW a \in Capture, NEW n \in Nat, NEW fs \in Nat
  PROVE  Placed(Header(a, n, fs, TriggerFs(a, fs)))
<1> DEFINE h == Header(a, n, fs, TriggerFs(a, fs))
<1>1. /\ h.of = a /\ h.fs_per_sample = fs /\ h.trigger_fs = TriggerFs(a, fs)
      /\ a.sample \in Nat
  BY DEF Header, Capture
<1>2. ASSUME a.triggered, fs > 0, a.sample * fs <= MaxI64
      PROVE  TriggerFs(a, fs) \div fs = a.sample
  <2>1. TriggerFs(a, fs) = Wrap(a.sample * fs)
    BY <1>2 DEF TriggerFs
  <2>2. a.sample * fs \in 0 .. MaxI64
    BY <1>1, <1>2, SizesAssumption
  <2>3. TriggerFs(a, fs) = a.sample * fs
    BY <2>1, <2>2, WrapsNot
  <2> QED
    BY <1>1, <1>2, <2>3, DivideProduct
<1> HIDE DEF h
<1> QED
  BY <1>1, <1>2 DEF Placed, h

LEMMA EmptyPlaced == Placed(Header(None, 0, 0, 0))
  BY DEF Placed, Header

LEMMA PlacedStep == Typed /\ PlacedInv /\ [Next]_vars => PlacedInv'
<1> SUFFICES ASSUME Typed, PlacedInv, [Next]_vars PROVE PlacedInv'
  OBVIOUS
<1> USE DEF device, thread, socket, client
<1>1. CASE UNCHANGED <<outbox, wire, client>>
  BY <1>1 DEF PlacedInv, AllPlaced, Placed
<1>2. CASE SendEmpty
  <2>1. AllPlaced(outbox')
    BY <1>2, EmptyPlaced DEF SendEmpty, AllPlaced
  <2> QED
    BY <1>2, <2>1 DEF SendEmpty, PlacedInv, AllPlaced, Placed
<1>3. CASE SendWaveform
  <2>1. acq \in Capture /\ sample_rate \in Nat
    BY <1>3 DEF SendWaveform, Sends, Typed
  <2>2. AllPlaced(outbox')
    BY <1>3, <2>1, SendsTyped, SentPlaced DEF SendWaveform, Sends, AllPlaced
  <2> QED
    BY <1>3, <2>2 DEF SendWaveform, Sends, PlacedInv, AllPlaced, Placed
<1>4. CASE NextChunk
  <2>1. AllPlaced(outbox')
    <3>1. ASSUME NEW i \in 1 .. Len(outbox') PROVE outbox'[i] \notin Headers
      <4>1. i \in DOMAIN outbox'
        BY TypeStep DEF Typed, InTransit
      <4> QED
        BY <1>4, <4>1 DEF NextChunk, Byte, Headers
    <3> QED
      BY <3>1 DEF AllPlaced
  <2> QED
    BY <1>4, <2>1 DEF NextChunk, PlacedInv, AllPlaced, Placed
<1>5. CASE Write
  <2>1. AllPlaced(outbox') /\ AllPlaced(wire')
    <3>1. outbox \in Seq(Items) /\ wire \in Seq(Items) /\ outbox # <<>>
      BY <1>5 DEF Write, Typed, InTransit
    <3>2. AllPlaced(outbox) /\ AllPlaced(wire)
      BY DEF PlacedInv
    <3>3. AllPlaced(Tail(outbox)) /\ (Head(outbox) \in Headers => Placed(Head(outbox)))
      BY <3>1, <3>2, TailOf DEF AllPlaced
    <3>4. AllPlaced(Append(wire, Head(outbox)))
      BY <3>1, <3>2, <3>3, TailOf, AppendOf DEF AllPlaced
    <3> QED
      BY <1>5, <3>3, <3>4 DEF Write
  <2> QED
    BY <1>5, <2>1 DEF Write, PlacedInv, Placed
<1>6. CASE WriteFails
  BY <1>6 DEF WriteFails, PlacedInv, AllPlaced, Placed
<1>7. CASE Receive
  <2> DEFINE item == Head(wire)
  <2>1. AllPlaced(wire') /\ (item \in Headers => Placed(item)) /\ item \in Items
    <3>1. wire \in Seq(Items) /\ wire # <<>> /\ AllPlaced(wire) /\ wire' = Tail(wire)
      BY <1>7 DEF Receive, Typed, InTransit, PlacedInv
    <3> QED
      BY <3>1, TailOf DEF AllPlaced
  <2>2. Receives(item) /\ UNCHANGED outbox
    BY <1>7 DEF Receive
  <2> HIDE DEF item
  <2>3. PlacedInv!2' /\ PlacedInv!3'
    <3>1. CASE misread' = TRUE /\ UNCHANGED <<want, got, shown>>
      BY <3>1 DEF PlacedInv, Placed
    <3>2. CASE item.kind = "header" /\ want = 0
      <4>1. item \in Headers
        BY <2>1, <3>2 DEF Items, Headers, Bytes
      <4> QED
        BY <2>1, <2>2, <3>2, <4>1 DEF Receives, PlacedInv, Placed
    <3>3. CASE item.kind # "header" /\ want > 0
      <4>1. Append(got, item.position)[1] = got[1]
        BY <3>3 DEF Typed, InTransit
      <4> QED
        BY <2>1, <2>2, <3>3, <4>1 DEF Receives, PlacedInv, Placed
    <3> QED
      <4>1. \/ misread' = TRUE /\ UNCHANGED <<want, got, shown>>
            \/ item.kind = "header" <=> want = 0
        BY <2>2 DEF Receives
      <4>2. want = 0 \/ want > 0
        BY DEF Typed
      <4> QED
        BY <3>1, <3>2, <3>3, <4>1, <4>2
  <2> QED
    BY <2>1, <2>2, <2>3 DEF PlacedInv, AllPlaced
<1> QED
  BY <1>1, <1>2, <1>3, <1>4, <1>5, <1>6, <1>7
  DEF Next, Serve, vars, Open, SetRate, ReadReady, ReadFails, ChunksPanic, Ask, HangUp

\* The client finds the trigger where it was, whatever RATE commands came in
\* between, for every rate and every capture whose product fits.
THEOREM Trigger == Spec => []TriggerPlaced
<1>1. Init => PlacedInv
  BY DEF Init, PlacedInv, AllPlaced
<1>2. PlacedInv => TriggerPlaced
  BY DEF PlacedInv, Placed, TriggerPlaced
<1> QED
  BY <1>1, <1>2, StreamTyped, PlacedStep, PTL DEF Spec

-----------------------------------------------------------------------------
(* WholeWaveforms. *)

LEMMA ConcatOf ==
  ASSUME NEW s \in Seq(Items), NEW t \in Seq(Items)
  PROVE  /\ s \o t \in Seq(Items) /\ Len(s) \in Nat /\ Len(t) \in Nat
         /\ Len(s \o t) = Len(s) + Len(t)
         /\ \A i \in 1 .. Len(s) : (s \o t)[i] = s[i]
         /\ \A i \in 1 .. Len(t) : (s \o t)[Len(s) + i] = t[i]
         /\ s \o <<>> = s /\ <<>> \o t = t
  OBVIOUS

\* What write_all moves from its buffer to the socket keeps its place.
LEMMA Moved ==
  ASSUME NEW s \in Seq(Items), NEW t \in Seq(Items), t # <<>>
  PROVE  Append(s, Head(t)) \o Tail(t) = s \o t
  OBVIOUS

LEMMA Taken ==
  ASSUME NEW s \in Seq(Items), NEW t \in Seq(Items), s # <<>>
  PROVE  Tail(s) \o t = Tail(s \o t) /\ Head(s) = (s \o t)[1] /\ s \o t # <<>>
  OBVIOUS

LEMMA ChainConcat ==
  ASSUME NEW s \in Seq(Items), NEW t \in Seq(Items), Chain(s), Chain(t),
         s # <<>> /\ t # <<>> => Follows(s[Len(s)], t[1])
  PROVE  Chain(s \o t)
<1> DEFINE u == s \o t
<1>1. /\ Len(s) \in Nat /\ Len(t) \in Nat /\ Len(u) = Len(s) + Len(t)
      /\ \A i \in 1 .. Len(s) : u[i] = s[i]
      /\ \A i \in 1 .. Len(t) : u[Len(s) + i] = t[i]
  BY ConcatOf
<1>2. /\ Len(s) > 0 => s # <<>>
      /\ Len(t) > 0 => t # <<>>
  OBVIOUS
<1> HIDE DEF u
<1>3. ASSUME NEW i \in 1 .. Len(u) PROVE Fits(u[i])
  <2>1. CASE i \in 1 .. Len(s)
    BY <1>1, <2>1 DEF Chain
  <2>2. CASE i - Len(s) \in 1 .. Len(t)
    <3>1. i = Len(s) + (i - Len(s))
      BY <1>1
    <3>2. u[i] = t[i - Len(s)]
      BY <1>1, <2>2, <3>1
    <3> QED
      BY <2>2, <3>2 DEF Chain
  <2> QED
    BY <1>1, <2>1, <2>2
<1>4. ASSUME NEW i \in 1 .. Len(u) - 1 PROVE Follows(u[i], u[i + 1])
  <2>1. CASE i \in 1 .. Len(s) - 1
    BY <1>1, <2>1 DEF Chain
  <2>2. CASE i = Len(s) /\ Len(s) > 0
    <3>1. Len(t) > 0 /\ 1 \in 1 .. Len(t) /\ Len(s) \in 1 .. Len(s)
      BY <1>1, <2>2
    <3>2. u[i] = s[Len(s)] /\ u[i + 1] = t[1]
      BY <1>1, <2>2, <3>1
    <3> QED
      BY <1>2, <2>2, <3>1, <3>2
  <2>3. CASE i - Len(s) \in 1 .. Len(t) - 1
    <3>1. /\ i = Len(s) + (i - Len(s)) /\ i + 1 = Len(s) + (i - Len(s) + 1)
          /\ i - Len(s) \in 1 .. Len(t) /\ i - Len(s) + 1 \in 1 .. Len(t)
      BY <1>1, <2>3
    <3>2. u[i] = t[i - Len(s)]
      BY <1>1, <3>1
    <3>3. u[i + 1] = t[i - Len(s) + 1]
      <4>1. u[Len(s) + (i - Len(s) + 1)] = t[i - Len(s) + 1]
        BY <1>1, <3>1
      <4> QED
        BY <3>1, <4>1
    <3> QED
      BY <2>3, <3>2, <3>3 DEF Chain
  <2> QED
    BY <1>1, <2>1, <2>2, <2>3
<1> QED
  BY <1>3, <1>4 DEF Chain, u

LEMMA ChainTail ==
  ASSUME NEW s \in Seq(Items), s # <<>>, Chain(s)
  PROVE  /\ Chain(Tail(s)) /\ Fits(s[1])
         /\ Tail(s) # <<>> => Follows(s[1], Tail(s)[1])
<1>1. /\ Tail(s) \in Seq(Items) /\ Len(s) \in Nat \ {0} /\ Len(Tail(s)) = Len(s) - 1
      /\ \A i \in 1 .. Len(s) - 1 : Tail(s)[i] = s[i + 1]
  BY TailOf
<1>2. Fits(s[1])
  BY <1>1 DEF Chain
<1>3. ASSUME NEW i \in 1 .. Len(Tail(s)) PROVE Fits(Tail(s)[i])
  BY <1>1 DEF Chain
<1>4. ASSUME NEW i \in 1 .. Len(Tail(s)) - 1 PROVE Follows(Tail(s)[i], Tail(s)[i + 1])
  <2>1. Tail(s)[i] = s[i + 1] /\ Tail(s)[i + 1] = s[i + 1 + 1]
    BY <1>1
  <2>2. i + 1 \in 1 .. Len(s) - 1
    BY <1>1
  <2> QED
    BY <2>1, <2>2 DEF Chain
<1>5. Tail(s) # <<>> => Follows(s[1], Tail(s)[1])
  <2> SUFFICES ASSUME Tail(s) # <<>> PROVE Follows(s[1], Tail(s)[1])
    OBVIOUS
  <2>1. Len(Tail(s)) > 0
    BY <1>1
  <2>2. Tail(s)[1] = s[1 + 1] /\ 1 \in 1 .. Len(s) - 1
    BY <1>1, <2>1
  <2> QED
    BY <2>2 DEF Chain
<1> QED
  BY <1>2, <1>3, <1>4, <1>5 DEF Chain

\* One item is a chain, and the empty sequence is.
LEMMA ChainOne == ASSUME NEW x, Fits(x) PROVE Chain(<<x>>) /\ Chain(<<>>)
  BY DEF Chain

\* What the thread has chunked of a waveform in one go.
Chunked(a, from, n) == [i \in 1 .. n |-> Byte(a, from + i)]

LEMMA ChunkChain ==
  ASSUME NEW a \in Capture, NEW from \in Nat, NEW n \in Nat, from + n <= a.bytes
  PROVE  /\ Chunked(a, from, n) \in Seq(Items) /\ Len(Chunked(a, from, n)) = n
         /\ Chain(Chunked(a, from, n))
         /\ \A i \in 1 .. n : /\ Chunked(a, from, n)[i] = Byte(a, from + i)
                              /\ Byte(a, from + i) \in Bytes
                              /\ Left(Byte(a, from + i)) = a.bytes - (from + i)
<1> DEFINE t == Chunked(a, from, n)
<1>1. a.bytes \in Nat
  BY DEF Capture
<1>2. ASSUME NEW i \in 1 .. n
      PROVE  /\ t[i] = Byte(a, from + i) /\ Byte(a, from + i) \in Bytes
             /\ Byte(a, from + i) \notin Headers
             /\ Byte(a, from + i).of = a /\ Byte(a, from + i).position = from + i
  BY DEF Chunked, Byte, Bytes, Headers
<1>3. t \in Seq(Items) /\ Len(t) = n
  BY <1>2 DEF Chunked, Items
<1>4. ASSUME NEW i \in 1 .. n
      PROVE  Fits(t[i]) /\ Left(t[i]) = a.bytes - (from + i)
  BY <1>1, <1>2 DEF Fits, Left
<1>5. ASSUME NEW i \in 1 .. n - 1 PROVE Follows(t[i], t[i + 1])
  <2>1. i \in 1 .. n /\ i + 1 \in 1 .. n
    OBVIOUS
  <2>2. Left(t[i]) = a.bytes - (from + i) /\ Left(t[i]) # 0 /\ t[i].of = a
    BY <1>1, <1>2, <1>4, <2>1
  <2>3. t[i + 1] \in Bytes /\ t[i + 1].of = a /\ t[i + 1].position = from + (i + 1)
    BY <1>2, <2>1
  <2> HIDE DEF t
  <2> QED
    BY <1>1, <2>2, <2>3 DEF Follows
<1> HIDE DEF t
<1>6. Chain(t)
  BY <1>3, <1>4, <1>5 DEF Chain
<1> QED
  BY <1>2, <1>3, <1>4, <1>6 DEF t

\* The thread goes on where it has left off: what is behind the last item, or
\* what the client waits for, comes next.
Continues(y) == IF wire = <<>> THEN Expected(y) ELSE Follows(wire[Len(wire)], y)

LEMMA Extends ==
  ASSUME Typed, Typed', InOrder, outbox = <<>>, UNCHANGED <<wire, want, got>>,
         outbox' # <<>>, Chain(outbox'), Continues(outbox'[1])
  PROVE  /\ InOrder'
         /\ Awaited' = Left(outbox'[Len(outbox')]) /\ AwaitedOf' = outbox'[Len(outbox')].of
<1>1. /\ wire \in Seq(Items) /\ outbox' \in Seq(Items) /\ wire' = wire
      /\ Queued = wire
  BY ConcatOf, Nothing DEF Typed, InTransit, Queued
<1>2. Queued' = wire \o outbox'
  BY <1>1 DEF Queued
<1>3. Len(outbox') \in Nat \ {0} /\ Len(wire) \in Nat
  BY <1>1
<1>4. /\ Queued' # <<>>
      /\ Queued'[Len(Queued')] = outbox'[Len(outbox')]
  BY <1>1, <1>2, <1>3, ConcatOf
<1>5. Chain(Queued')
  BY <1>1, <1>2, ChainConcat DEF InOrder, Continues
<1>6. Expected(Queued'[1])
  <2>1. CASE wire = <<>>
    BY <1>1, <1>2, <2>1, ConcatOf DEF Continues
  <2>2. CASE wire # <<>>
    <3>1. Len(wire) > 0
      BY <1>1, <2>2
    <3>2. Queued'[1] = wire[1]
      BY <1>1, <1>2, <1>3, <3>1, ConcatOf
    <3> QED
      BY <1>1, <2>2, <3>2 DEF InOrder
  <2> QED
    BY <2>1, <2>2
<1> QED
  BY <1>4, <1>5, <1>6 DEF InOrder, Awaited, AwaitedOf, Expected

\* With an empty buffer the client's next item depends on the socket alone.
LEMMA NothingLeft ==
  ASSUME Typed, outbox = <<>>
  PROVE  /\ Queued = wire
         /\ Awaited = IF wire = <<>> THEN want ELSE Left(wire[Len(wire)])
         /\ AwaitedOf = IF wire = <<>> THEN got[1].of ELSE wire[Len(wire)].of
<1>1. Queued = wire
  BY ConcatOf, Nothing DEF Typed, InTransit, Queued
<1> QED
  BY <1>1 DEF Awaited, AwaitedOf

LEMMA HeaderContinues ==
  ASSUME Typed, outbox = <<>>, Awaited = 0, NEW h \in Headers
  PROVE  Continues(h)
  BY NothingLeft DEF Continues, Expected, Follows

LEMMA ChunkContinues ==
  ASSUME Typed, ClientInv, outbox = <<>>, acq \in Capture, offset < acq.bytes,
         Awaited = acq.bytes - offset, AwaitedOf = acq
  PROVE  Continues(Byte(acq, offset + 1))
<1>1. /\ acq.bytes \in Nat /\ offset \in Nat /\ want \in Nat
  BY DEF Typed, Capture
<1>2. /\ Byte(acq, offset + 1) \in Bytes
      /\ Byte(acq, offset + 1).of = acq /\ Byte(acq, offset + 1).position = offset + 1
  BY <1>1 DEF Byte, Bytes
<1>3. CASE wire = <<>>
  <2>1. want = acq.bytes - offset /\ got[1].of = acq /\ Len(got) \in Nat
    BY <1>3, NothingLeft DEF Typed, InTransit
  <2>2. acq.bytes = want + Len(got) - 1
    BY <1>1, <2>1 DEF ClientInv
  <2>3. want # 0
    BY <1>1, <2>1
  <2>4. \A b, o, w, n \in Nat : w = b - o /\ b = w + n - 1 => n = o + 1
    OBVIOUS
  <2>5. Len(got) = offset + 1
    BY ONLY <1>1, <2>1, <2>2, <2>4
  <2> QED
    BY <1>2, <1>3, <2>1, <2>3, <2>5 DEF Continues, Expected
<1>4. CASE wire # <<>>
  <2>1. Left(wire[Len(wire)]) = acq.bytes - offset /\ wire[Len(wire)].of = acq
    BY <1>4, NothingLeft
  <2> QED
    BY <1>1, <1>2, <1>4, <2>1 DEF Continues, Follows
<1> QED
  BY <1>3, <1>4

\* The header of a capture in whole samples announces all of it.
LEMMA WholeHeader ==
  ASSUME Typed, NEW a \in Capture, NEW fs \in Nat, NEW t \in Int, width # None,
         a.unitsize = UnitSize(width), a.bytes % UnitSize(width) = 0, a.bytes > 0
  PROVE  LET h == Header(a, NumSamples(a), fs, t)
         IN  h \in Headers /\ Fits(h) /\ Left(h) = a.bytes /\ h.of = a
<1> DEFINE h == Header(a, NumSamples(a), fs, t)
<1>1. UnitSize(width) \in Nat \ {0} /\ a.bytes \in Nat
  BY Positive DEF Typed, Capture
<1>2. NumSamples(a) = a.bytes \div UnitSize(width) /\ NumSamples(a) \in Nat
  BY <1>1 DEF NumSamples
<1>3. NumSamples(a) * UnitSize(width) = a.bytes
  BY <1>1, <1>2, WholeQuotient
<1>4. NumSamples(a) > 0
  BY <1>1, <1>2, <1>3
<1>5. h \in Headers
  BY <1>2, HeaderTyped
<1>6. h.num_channels = width /\ h.num_samples = NumSamples(a) /\ h.of = a
  BY DEF Header
<1> HIDE DEF h
<1>7. Fits(h) /\ Left(h) = a.bytes
  BY <1>1, <1>3, <1>4, <1>5, <1>6 DEF Fits, Left
<1> QED
  BY <1>5, <1>6, <1>7 DEF h

\* What the client makes of the next item, as long as it is the expected one.
LEMMA ClientStep ==
  ASSUME Typed, ClientInv, ShownInv, NEW x \in Items, Fits(x), Expected(x), Receives(x)
  PROVE  /\ ClientInv' /\ ShownInv' /\ want' = Left(x)
         /\ want' > 0 => /\ got'[1].of = x.of
                         /\ Len(got') = x.of.bytes - Left(x) + 1
<1>1. CASE want = 0
  <2>1. x \in Headers /\ x.kind = "header" /\ x.num_samples \in Nat
    BY <1>1 DEF Expected, Headers
  <2>2. x.num_samples * UnitSize(x.num_channels) = Left(x) /\ Left(x) \in Nat
    <3>1. CASE x.num_samples = 0
      BY <2>1, <3>1, Unit DEF Left, Headers
    <3>2. CASE x.num_samples > 0
      BY <2>1, <3>2 DEF Left, Fits, Capture
    <3> QED
      BY <2>1, <3>1, <3>2
  <2>3. ~(Left(x) = 0 /\ x.num_samples > 0)
    BY <2>1 DEF Fits, Left, Capture
  <2>4. want' = Left(x) /\ got' = <<x>> /\ UNCHANGED <<shown, misread>>
    BY <1>1, <2>1, <2>2, <2>3 DEF Receives
  <2>5. want' > 0 => x.num_samples > 0 /\ x.of.bytes = want' /\ x.of.bytes \in Nat
    BY <2>1, <2>2, <2>4 DEF Left
  <2>6. Len(got') = 1 /\ got'[1] = x
    BY <2>4
  <2>7. ClientInv'
    BY <2>5, <2>6 DEF ClientInv
  <2> QED
    BY <2>2, <2>4, <2>5, <2>6, <2>7 DEF ShownInv
<1>2. CASE want > 0
  <2> DEFINE h == got[1]
  <2>1. /\ x \in Bytes /\ x.of = h.of /\ x.position = Len(got)
        /\ x.kind # "header" /\ x \notin Headers
    BY <1>2 DEF Expected, Bytes, Headers
  <2>2. /\ h \in Headers /\ got \in Seq(Headers \cup Nat) /\ Len(got) \in Nat \ {0}
        /\ h.num_samples > 0 /\ h.of.bytes = want + Len(got) - 1 /\ Fits(h)
        /\ want \in Nat /\ \A i \in 2 .. Len(got) : got[i] = i - 1
    <3>1. /\ h \in Headers /\ got \in Seq(Headers \cup Nat) /\ got # <<>> /\ want \in Nat
      BY <1>2 DEF Typed, InTransit
    <3>2. Len(got) \in Nat \ {0}
      BY <3>1
    <3> QED
      BY <1>2, <3>1, <3>2 DEF ClientInv
  <2>3. Left(x) = want - 1
    BY <2>1, <2>2 DEF Left
  <2> DEFINE now == Append(got, x.position)
  <2>4. /\ now \in Seq(Headers \cup Nat) /\ Len(now) = Len(got) + 1 /\ now[1] = h
        /\ \A i \in 2 .. Len(now) : now[i] = i - 1
    BY <2>1, <2>2
  <2>5. /\ want' = want - 1 /\ UNCHANGED misread
        /\ IF want - 1 = 0 /\ now[1].num_samples > 0 THEN shown' = now
                                                    ELSE got' = now /\ UNCHANGED shown
    BY <1>2, <2>1 DEF Receives
  <2> HIDE DEF now, h
  <2>6. CASE want = 1
    <3>1. shown' = now /\ want' = 0
      BY <2>2, <2>4, <2>5, <2>6
    <3>2. h.of.bytes = Len(now) - 1
      BY <2>2, <2>4, <2>6
    <3>3. Tail(now) = [i \in 1 .. Len(now) - 1 |-> i]
      <4>1. Tail(now) = [i \in 1 .. Len(now) - 1 |-> now[i + 1]]
        BY <2>2, <2>4, TailIs
      <4>2. ASSUME NEW i \in 1 .. Len(now) - 1 PROVE now[i + 1] = i
        <5>1. i + 1 \in 2 .. Len(now)
          BY <2>2, <2>4
        <5> QED
          BY <2>4, <5>1
      <4> QED
        BY <4>1, <4>2
    <3>4. ShownInv'
      BY <2>4, <2>5, <3>1, <3>2, <3>3 DEF ShownInv
    <3> QED
      BY <2>3, <2>6, <3>1, <3>4 DEF ClientInv
  <2>7. CASE want > 1
    <3>1. got' = now /\ want' = want - 1 /\ UNCHANGED <<shown, misread>>
      BY <2>2, <2>5, <2>7
    <3>2. ClientInv'
      <4>1. got'[1] = h /\ Len(got') = Len(got) + 1 /\ \A i \in 2 .. Len(got') : got'[i] = i - 1
        BY <2>4, <3>1
      <4>2. Fits(got'[1]) /\ got'[1].num_samples > 0 /\ got'[1].of.bytes = want' + Len(got') - 1
        BY <2>2, <3>1, <4>1
      <4> QED
        BY <4>1, <4>2 DEF ClientInv, Fits
    <3> QED
      BY <2>1, <2>2, <2>3, <2>4, <3>1, <3>2 DEF ShownInv, h
  <2> QED
    BY <1>2, <2>2, <2>6, <2>7
<1> QED
  BY <1>1, <1>2 DEF Typed

\* No item is lost, and the client's view of the next one moves with it.
LEMMA ReceiveStep ==
  ASSUME Typed, Typed', ShownInv, InOrder, ClientInv, ThreadInv, Receive
  PROVE  ShownInv' /\ InOrder' /\ ClientInv' /\ ThreadInv'
<1> DEFINE x == Queued[1]
<1>1. /\ wire \in Seq(Items) /\ outbox \in Seq(Items) /\ wire # <<>>
      /\ Queued \in Seq(Items)
  BY ConcatOf DEF Receive, Typed, InTransit, Queued
<1>2. Queued # <<>> /\ Head(wire) = x /\ Tail(Queued) = Tail(wire) \o outbox
  BY <1>1, Taken DEF Queued
<1>3. Queued' = Tail(Queued) /\ Receives(x) /\ UNCHANGED <<dpc, acq, offset, outbox>>
  BY <1>2 DEF Receive, Queued, thread
<1>4. x \in Items /\ Len(Queued) \in Nat \ {0}
  BY <1>1, <1>2, TailOf
<1>5. Fits(x) /\ Chain(Queued') /\ (Queued' # <<>> => Follows(x, Queued'[1]))
  BY <1>1, <1>2, <1>3, ChainTail DEF InOrder
<1>6. Expected(x)
  BY <1>2 DEF InOrder
<1> HIDE DEF x
<1>7. /\ ClientInv' /\ ShownInv' /\ want' = Left(x)
      /\ want' > 0 => (/\ got'[1].of = x.of
                       /\ Len(got') = x.of.bytes - Left(x) + 1)
  BY <1>3, <1>4, <1>5, <1>6, ClientStep
<1>8. InOrder'
  <2> SUFFICES ASSUME Queued' # <<>> PROVE Expected(Queued[1])'
    BY <1>5 DEF InOrder
  <2>1. want' \in Nat
    BY DEF Typed
  <2> QED
    BY <1>5, <1>7, <2>1 DEF Follows, Expected
<1>9. Awaited' = Awaited /\ (Awaited > 0 => AwaitedOf' = AwaitedOf)
  <2>1. CASE Queued' = <<>>
    <3>1. Len(Queued) = 1
      <4>1. Len(Tail(Queued)) = Len(Queued) - 1 /\ Tail(Queued) = <<>>
        BY <1>1, <1>2, <1>3, <2>1, TailOf
      <4>2. Len(Tail(Queued)) = 0
        BY <4>1
      <4> QED
        BY <1>4, <4>1, <4>2
    <3>2. Awaited = Left(x) /\ AwaitedOf = x.of
      BY <1>2, <3>1 DEF Awaited, AwaitedOf, x
    <3> QED
      BY <1>7, <2>1, <3>2 DEF Awaited, AwaitedOf
  <2>2. CASE Queued' # <<>>
    <3>1. Queued'[Len(Queued')] = Queued[Len(Queued)]
      <4>1. /\ Len(Queued') = Len(Queued) - 1 /\ Len(Queued') > 0
            /\ \A i \in 1 .. Len(Queued) - 1 : Queued'[i] = Queued[i + 1]
        BY <1>1, <1>2, <1>3, <2>2, TailOf
      <4>2. Queued'[Len(Queued')] = Queued[Len(Queued') + 1]
        BY <1>4, <4>1
      <4> QED
        BY <1>4, <4>1, <4>2
    <3> QED
      BY <1>2, <2>2, <3>1 DEF Awaited, AwaitedOf
  <2> QED
    BY <2>1, <2>2
<1>10. ThreadInv'
  <2>1. dpc = "chunks" => acq.bytes \in Nat /\ offset \in Nat
    BY DEF Typed, Capture
  <2> QED
    BY <1>3, <1>9, <2>1 DEF ThreadInv
<1> QED
  BY <1>7, <1>8, <1>10

LEMMA StreamStep == Typed /\ StreamInv /\ [Next]_vars => StreamInv'
<1> SUFFICES ASSUME Typed, StreamInv, [Next]_vars, ~odd'
             PROVE  ShownInv' /\ (open' => InOrder' /\ ClientInv' /\ ThreadInv')
  BY DEF StreamInv
<1> USE DEF device, thread, socket, client
<1>0. Typed'
  BY TypeStep
<1>1. ~odd /\ (open' => open)
  BY DEF Typed, Next, Serve, vars, Open, SetRate, ReadReady, ReadFails, SendEmpty, SendWaveform,
         Sends, NextChunk, ChunksPanic, Write, WriteFails, Ask, HangUp, Receive
<1>2. ShownInv /\ (open => InOrder /\ ClientInv /\ ThreadInv)
  BY <1>1 DEF StreamInv
\* All but Receive leave the client alone.
<1>3. CASE UNCHANGED client /\ ~open'
  BY <1>2, <1>3 DEF ShownInv
<1>4. ASSUME UNCHANGED client, open'
      PROVE  ShownInv' /\ ClientInv' /\ ShownInv /\ InOrder /\ ClientInv /\ ThreadInv
  BY <1>1, <1>2, <1>4 DEF ShownInv, ClientInv
\* Steps that move no item.
<1>5. ASSUME UNCHANGED <<client, wire, outbox>>, open',
             \/ UNCHANGED <<dpc, acq, offset>>
             \/ /\ dpc \notin {"empty", "chunks"}
                /\ dpc' \notin {"empty", "chunks", "dead", "done"}
      PROVE  ShownInv' /\ InOrder' /\ ClientInv' /\ ThreadInv'
  BY <1>4, <1>5 DEF InOrder, Expected, Chain, Queued, ThreadInv, Awaited, AwaitedOf
<1>6. CASE Open \/ SetRate \/ ReadReady \/ Ask \/ UNCHANGED vars
  BY <1>3, <1>5, <1>6 DEF Open, SetRate, ReadReady, Ask, vars
<1>7. CASE ReadFails \/ HangUp \/ WriteFails
  BY <1>3, <1>7 DEF ReadFails, HangUp, WriteFails
<1>8. CASE ChunksPanic
  BY <1>3, <1>4, <1>8 DEF ChunksPanic, ThreadInv, Typed
<1>9. CASE SendEmpty
  <2> SUFFICES ASSUME open' PROVE ShownInv' /\ InOrder' /\ ClientInv' /\ ThreadInv'
    BY <1>3, <1>9 DEF SendEmpty
  <2> DEFINE h == Header(None, 0, 0, 0)
  <2>1. /\ outbox = <<>> /\ outbox' = <<h>> /\ UNCHANGED <<wire, client>> /\ dpc' = "empty"
        /\ Awaited = 0 /\ width # None
    BY <1>4, <1>9 DEF SendEmpty, ThreadInv, Typed
  <2>2. h \in Headers /\ Fits(h) /\ Left(h) = 0
    <3>1. h \in Headers /\ h.num_samples = 0
      BY <2>1, HeaderTyped DEF Header
    <3> QED
      BY <3>1 DEF Fits, Left
  <2> HIDE DEF h
  <2>3. Chain(outbox') /\ Continues(outbox'[1]) /\ outbox' # <<>> /\ Len(outbox') = 1
        /\ outbox'[Len(outbox')] = h
    BY <2>1, <2>2, ChainOne, HeaderContinues
  <2>4. InOrder' /\ Awaited' = 0
    BY <1>0, <1>4, <2>1, <2>2, <2>3, Extends
  <2> QED
    BY <1>4, <2>1, <2>3, <2>4 DEF ThreadInv
<1>10. CASE SendWaveform
  <2> SUFFICES ASSUME open' PROVE ShownInv' /\ InOrder' /\ ClientInv' /\ ThreadInv'
    BY <1>3, <1>10 DEF SendWaveform, Sends
  <2> DEFINE h == Header(acq, NumSamples(acq), HzToFs(sample_rate),
                         TriggerFs(acq, HzToFs(sample_rate)))
  <2>1. /\ outbox = <<>> /\ outbox' = <<h>> /\ UNCHANGED <<wire, client, acq>>
        /\ dpc' = "chunks" /\ offset' = 0 /\ acq \in Capture /\ acq.bytes > 0
        /\ Awaited = 0 /\ width # None
    BY <1>4, <1>10 DEF SendWaveform, Sends, ThreadInv, Typed
  <2>2. acq.unitsize = UnitSize(width) /\ acq.bytes % UnitSize(width) = 0
    BY <1>10 DEF SendWaveform, Sends
  <2>3. acq.unitsize > 0 /\ acq.bytes \in Nat /\ sample_rate \in Nat
    BY <2>1, <2>2, Positive DEF Typed, Capture
  <2>4. h \in Headers /\ Fits(h) /\ Left(h) = acq.bytes /\ h.of = acq
    BY <2>1, <2>2, <2>3, SendsTyped, WholeHeader
  <2> HIDE DEF h
  <2>5. Chain(outbox') /\ Continues(outbox'[1]) /\ outbox' # <<>> /\ Len(outbox') = 1
        /\ outbox'[Len(outbox')] = h
    BY <2>1, <2>4, ChainOne, HeaderContinues
  <2>6. InOrder' /\ Awaited' = acq.bytes /\ AwaitedOf' = acq
    BY <1>0, <1>4, <2>1, <2>4, <2>5, Extends
  <2> QED
    BY <1>4, <2>1, <2>3, <2>6 DEF ThreadInv
<1>11. CASE NextChunk
  <2> SUFFICES ASSUME open' PROVE ShownInv' /\ InOrder' /\ ClientInv' /\ ThreadInv'
    BY <1>3, <1>11 DEF NextChunk
  <2> DEFINE end == ChunkEnd(acq, offset)
             n   == end - offset
  <2>1. /\ outbox = <<>> /\ acq \in Capture /\ acq.unitsize > 0 /\ acq.bytes \in Nat
        /\ offset \in Nat /\ offset <= acq.bytes /\ Awaited = acq.bytes - offset
        /\ offset < acq.bytes => AwaitedOf = acq
    BY <1>4, <1>11 DEF NextChunk, ThreadInv, Typed, Capture
  <2>2. end \in offset .. acq.bytes /\ (end = offset <=> offset = acq.bytes)
    BY <2>1, Unchunked
  <2>3. /\ outbox' = Chunked(acq, offset, n) /\ UNCHANGED <<wire, client>>
        /\ dpc' = IF end = offset THEN "read" ELSE "chunks"
        /\ end # offset => offset' = end /\ acq' = acq
    BY <1>11 DEF NextChunk, Chunked
  <2> HIDE DEF end
  <2>4. n \in Nat /\ offset + n = end /\ offset + n <= acq.bytes
    BY <2>1, <2>2
  <2>5. /\ outbox' \in Seq(Items) /\ Len(outbox') = n /\ Chain(outbox')
        /\ \A i \in 1 .. n : /\ outbox'[i] = Byte(acq, offset + i)
                             /\ Byte(acq, offset + i) \in Bytes
                             /\ Left(Byte(acq, offset + i)) = acq.bytes - (offset + i)
    BY <2>1, <2>3, <2>4, ChunkChain
  <2> HIDE DEF n
  <2>6. CASE end = offset
    <3>1. outbox' = <<>>
      BY <2>1, <2>4, <2>5, <2>6, EmptySeq
    <3>2. UNCHANGED <<client, wire, outbox>> /\ dpc' = "read" /\ Awaited = 0
      BY <2>1, <2>2, <2>3, <2>6, <3>1
    <3> QED
      BY <1>4, <3>1, <3>2 DEF InOrder, Expected, Chain, Queued, ThreadInv, Awaited, AwaitedOf
  <2>7. CASE end # offset
    <3>1. /\ n > 0 /\ outbox' # <<>> /\ offset < acq.bytes /\ dpc' = "chunks"
          /\ offset' = end /\ acq' = acq
      BY <2>1, <2>2, <2>3, <2>4, <2>5, <2>7, EmptySeq
    <3>2. outbox'[1] = Byte(acq, offset + 1) /\ outbox'[n] = Byte(acq, offset + n)
      BY <2>4, <2>5, <3>1
    <3>3. Left(outbox'[n]) = acq.bytes - end /\ outbox'[n].of = acq
      <4>1. n \in 1 .. n
        BY <2>4, <3>1
      <4> QED
        BY <2>4, <2>5, <3>2, <4>1 DEF Byte
    <3>4. Continues(outbox'[1])
      <4>1. Continues(Byte(acq, offset + 1))
        BY <1>4, <2>1, <2>3, <3>1, ChunkContinues
      <4> QED
        BY <3>2, <4>1
    <3>5. InOrder' /\ Awaited' = acq.bytes - end /\ AwaitedOf' = acq
      BY <1>0, <1>4, <2>1, <2>3, <2>5, <3>1, <3>3, <3>4, Extends
    <3> QED
      <4>1. end \in Nat /\ end <= acq.bytes
        BY <2>1, <2>2
      <4>2. /\ dpc' \notin {"empty", "dead", "done"} /\ acq'.unitsize > 0
            /\ offset' <= acq'.bytes /\ Awaited' = acq'.bytes - offset' /\ AwaitedOf' = acq'
        BY <2>1, <3>1, <3>5, <4>1
      <4> QED
        BY <1>4, <2>3, <3>1, <3>5, <4>2 DEF ThreadInv
  <2> QED
    BY <2>6, <2>7
<1>12. CASE Write
  <2> SUFFICES ASSUME open' PROVE ShownInv' /\ InOrder' /\ ClientInv' /\ ThreadInv'
    BY <1>3, <1>12 DEF Write
  <2>1. /\ outbox \in Seq(Items) /\ wire \in Seq(Items) /\ outbox # <<>>
        /\ outbox' = Tail(outbox) /\ wire' = Append(wire, Head(outbox))
        /\ UNCHANGED <<client, acq, offset>>
    BY <1>12 DEF Write, Typed, InTransit
  <2>2. Queued' = Queued
    BY <2>1, Moved DEF Queued
  <2>3. InOrder' /\ Awaited' = Awaited /\ AwaitedOf' = AwaitedOf
    BY <1>4, <2>1, <2>2 DEF InOrder, Expected, Awaited, AwaitedOf
  <2>4. dpc \in {"empty", "chunks"} /\ dpc' = (IF dpc = "empty" THEN "read" ELSE dpc)
    BY <1>4, <1>12, <2>1 DEF Write, ThreadInv
  <2>5. dpc = "empty" => outbox' = <<>>
    BY <1>4, <2>1, TailOf DEF ThreadInv
  <2> QED
    BY <1>4, <2>1, <2>3, <2>4, <2>5 DEF ThreadInv
<1>13. CASE Receive
  BY <1>0, <1>1, <1>2, <1>13, ReceiveStep DEF Receive
<1> QED
  BY <1>6, <1>7, <1>8, <1>9, <1>10, <1>11, <1>12, <1>13 DEF Next, Serve

\* A client that reads as many bytes as a header says has the capture, all of
\* it and in order, and is never out of step with the stream: for every size
\* of a chunk and of the socket's buffer, and every number of captures.
THEOREM Waveforms == Spec => []WholeWaveforms
<1>1. Init => StreamInv
  <2> SUFFICES ASSUME Init PROVE StreamInv
    OBVIOUS
  <2>1. Queued = <<>>
    BY ConcatOf, Nothing DEF Init, Queued
  <2> QED
    BY <2>1 DEF Init, StreamInv, ShownInv, InOrder, Chain, ClientInv, ThreadInv, Awaited
<1>2. StreamInv => WholeWaveforms
  BY DEF StreamInv, ShownInv, WholeWaveforms
<1> QED
  BY <1>1, <1>2, StreamTyped, StreamStep, PTL DEF Spec
=============================================================================
