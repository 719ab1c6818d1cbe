------------------------------ MODULE DataStream ------------------------------
(***************************************************************************)
(* The data socket as a stream: the start of the program with a capture    *)
(* width and a channel layout, the header and the samples that             *)
(* send_waveform writes in chunks, the socket that takes them as far as it *)
(* has room, and a client that finds the end of a waveform from the header *)
(* alone.  A RATE command may store a new rate at any time.                *)
(*                                                                         *)
(* A byte is its position in the capture, the 38 bytes of a header are one *)
(* item of the stream.  "of" is history in both: the capture that they     *)
(* are of, which no client sees.  Which 'K' gets a waveform is             *)
(* BridgeServer's subject: here any capture with data may be sent or       *)
(* withheld.                                                               *)
(***************************************************************************)
EXTENDS Integers, Sequences, ChannelLayout

CONSTANTS
  MaxChannels,  \* values of --max-channels, None where it is not given
  HwCounts,     \* logic channels that a device has, and widths a driver keeps
  Prefixes,     \* prefixes and numbers of the tokens of --analog-groups
  Indices,
  Rates,        \* rates that the device reports
  Delay,        \* TRIG:DELAY
  FsPerSecond,  \* 10^15, smaller in a model
  MaxI64,       \* 2^63 - 1, smaller in a model
  CHUNK_SAMPLES,\* 256 * 1024, smaller in a model
  Capacity,     \* what the socket takes until the client reads
  MaxBytes,     \* bound: bytes of a capture
  MaxAsks       \* bound: 'K's of a client

ASSUME SizesAssumption ==
  /\ {FsPerSecond, MaxI64, CHUNK_SAMPLES, Capacity} \subseteq Nat \ {0}
  /\ {MaxBytes, MaxAsks, Delay} \cup Rates \cup HwCounts \cup Indices \subseteq Nat

\* hz_to_fs casts a rate to an i64: drivers have none that does not fit.
ASSUME RatesAssumption == \A hz \in Rates : hz <= MaxI64

Tokens == [prefix : Prefixes, index : Indices \cup {None}]

VARIABLES
  layout, width, analog,           \* of the device; width None before it is open
  driver_unit,                     \* unit size of the capture width that the driver keeps
  sample_rate,
  dpc, acq, offset, outbox,        \* the data thread: the capture it sends, the bytes it
                                   \*   has chunked, what write_all has left to write
  open, asks, inbox, wire,         \* the socket
  want, got,                       \* the client: bytes it waits for, the header and bytes it has
  shown, misread,                  \* the last whole waveform; it took one for the other
  odd                              \* history: a capture was sent that is not in whole samples
                                   \*   of the width

device == <<layout, width, analog, driver_unit>>
thread == <<dpc, acq, offset, outbox>>
socket == <<open, asks, inbox>>
client == <<want, got, shown, misread>>
vars   == <<device, sample_rate, thread, socket, wire, client, odd>>

Init ==
  /\ layout = <<>> /\ width = None /\ analog = {} /\ driver_unit = 0
  /\ sample_rate \in Rates
  /\ dpc = "open" /\ acq = None /\ offset = 0 /\ outbox = <<>>
  /\ open = TRUE /\ asks = 0 /\ inbox = 0 /\ wire = <<>>
  /\ want = 0 /\ got = <<>> /\ shown = None /\ misread = FALSE /\ odd = FALSE

UnitSize(channels) == (channels + 7) \div 8

\* main and SigrokDevice::open: the driver may keep another width than asked for.
Open ==
  /\ dpc = "open"
  /\ \E arg \in MaxChannels, hw, kept \in HwCounts, spec \in SUBSET Tokens :
       LET w == Width(arg, hw)
       IN /\ dpc' = IF w = None THEN "refused" ELSE "read"
          /\ width' = w
          /\ analog' = AnalogGroups(spec)
          /\ layout' = IF w = None THEN <<>> ELSE Layout(w, AnalogGroups(spec))
          /\ driver_unit' = UnitSize(kept)
  /\ UNCHANGED <<sample_rate, acq, offset, outbox, socket, wire, client, odd>>

SetRate ==
  /\ width # None /\ sample_rate' \in Rates \ {sample_rate}
  /\ UNCHANGED <<device, thread, socket, wire, client, odd>>

-----------------------------------------------------------------------------
(* The data thread. *)

\* Variant: the header counts bytes.
NumBytes(a) == a.bytes

NumSamples(a) == IF a.unitsize > 0 THEN a.bytes \div a.unitsize ELSE 0

\* What the driver may deliver: a packet that names no unit size, or ends in
\* the middle of a sample, is one that a driver should not send.
Captures ==
  {a \in [bytes : 0 .. MaxBytes, unitsize : {driver_unit, 0},
          triggered : BOOLEAN, sample : 0 .. MaxBytes] : a.sample <= NumSamples(a)}

HzToFs(hz) == IF hz = 0 THEN 0 ELSE FsPerSecond \div hz

\* i64 arithmetic of a release build.
Wrap(x) == ((x + MaxI64 + 1) % (2 * (MaxI64 + 1))) - (MaxI64 + 1)

TriggerFs(a, fs) == IF a.triggered THEN Wrap(a.sample * fs) ELSE Delay

Header(a, samples, fs, trigger) ==
  [kind |-> "header", num_channels |-> width, num_samples |-> samples, fs_per_sample |-> fs,
   trigger_fs |-> trigger, of |-> a]

Byte(a, i) == [kind |-> "byte", position |-> i, of |-> a]

ReadReady ==
  /\ dpc = "read" /\ inbox > 0 /\ inbox' = inbox - 1
  /\ acq' \in Captures /\ dpc' = "reply"
  /\ UNCHANGED <<device, sample_rate, offset, outbox, open, asks, wire, client, odd>>

ReadFails ==
  /\ dpc = "read" /\ ~open /\ dpc' = "done"
  /\ UNCHANGED <<device, sample_rate, acq, offset, outbox, socket, wire, client, odd>>

SendEmpty ==
  /\ dpc = "reply" /\ dpc' = "empty" /\ outbox' = <<Header(None, 0, 0, 0)>> /\ acq' = None
  /\ UNCHANGED <<device, sample_rate, offset, socket, wire, client, odd>>

Sends(fs, trigger) ==
  /\ dpc = "reply" /\ acq.bytes > 0 /\ dpc' = "chunks" /\ offset' = 0
  /\ outbox' = <<Header(acq, NumSamples(acq), fs, trigger)>>
  /\ odd' = (odd \/ acq.unitsize # UnitSize(width) \/ acq.bytes % UnitSize(width) # 0)
  /\ UNCHANGED <<device, sample_rate, acq, socket, wire, client>>

\* Variant: the rate is loaded again for the trigger, and a RATE came between.
SendWaveformTwoLoads ==
  \E r \in Rates : Sends(HzToFs(sample_rate), TriggerFs(acq, HzToFs(r)))

SendWaveform == Sends(HzToFs(sample_rate), TriggerFs(acq, HzToFs(sample_rate)))

\* Variant: chunks_exact, which leaves out the last chunk if it is short.
ExactChunkEnd(a, from) ==
  LET size == CHUNK_SAMPLES * a.unitsize IN IF from + size <= a.bytes THEN from + size ELSE from

\* logic_data.chunks(): the last chunk is shorter.
ChunkEnd(a, from) ==
  LET size == CHUNK_SAMPLES * a.unitsize IN IF from + size <= a.bytes THEN from + size ELSE a.bytes

NextChunk ==
  /\ dpc = "chunks" /\ outbox = <<>> /\ acq.unitsize > 0
  /\ LET end == ChunkEnd(acq, offset)
     IN /\ dpc' = IF end = offset THEN "read" ELSE "chunks"
        /\ outbox' = [i \in 1 .. end - offset |-> Byte(acq, offset + i)]
        /\ offset' = IF end = offset THEN 0 ELSE end
        /\ acq' = IF end = offset THEN None ELSE acq
  /\ UNCHANGED <<device, sample_rate, socket, wire, client, odd>>

\* chunks(0) panics; handle_client's join takes no notice.
ChunksPanic ==
  /\ dpc = "chunks" /\ outbox = <<>> /\ acq.unitsize = 0 /\ dpc' = "dead"
  /\ UNCHANGED <<device, sample_rate, acq, offset, outbox, socket, wire, client, odd>>

\* write_all goes on as long as the socket has room, and waits if it has none.
Write ==
  /\ outbox # <<>> /\ Len(wire) < Capacity
  /\ wire' = Append(wire, Head(outbox)) /\ outbox' = Tail(outbox)
  /\ dpc' = IF dpc = "empty" THEN "read" ELSE dpc
  /\ UNCHANGED <<device, sample_rate, acq, offset, socket, client, odd>>

\* Variant: a failed write is tried again.
WriteRetried ==
  /\ outbox # <<>> /\ ~open
  /\ UNCHANGED <<device, sample_rate, thread, socket, wire, client, odd>>

\* A failed write ends the thread, but send_empty_header drops its result.
WriteFails ==
  /\ outbox # <<>> /\ ~open
  /\ outbox' = <<>> /\ dpc' = IF dpc = "empty" THEN "read" ELSE "done"
  /\ UNCHANGED <<device, sample_rate, acq, offset, socket, wire, client, odd>>

Serve == ReadReady \/ ReadFails \/ SendEmpty \/ SendWaveform \/ NextChunk \/ ChunksPanic
         \/ Write \/ WriteFails

-----------------------------------------------------------------------------
(* The client. *)

Ask ==
  /\ width # None /\ open /\ asks < MaxAsks /\ asks' = asks + 1 /\ inbox' = inbox + 1
  /\ UNCHANGED <<device, sample_rate, thread, open, wire, client, odd>>

HangUp ==
  /\ width # None /\ open /\ open' = FALSE
  /\ UNCHANGED <<device, sample_rate, thread, asks, inbox, wire, client, odd>>

Receives(item) ==
  LET header == item.kind = "header"
      bytes  == IF header THEN item.num_samples * UnitSize(item.num_channels) ELSE want - 1
      now    == IF header THEN <<item>> ELSE Append(got, item.position)
  IN IF header # (want = 0)
       THEN misread' = TRUE /\ UNCHANGED <<want, got, shown>>
       ELSE /\ want' = bytes /\ UNCHANGED misread
            /\ IF bytes = 0 /\ now[1].num_samples > 0 THEN shown' = now /\ got' = <<>>
                            ELSE got' = now /\ UNCHANGED shown

Receive ==
  /\ open /\ wire # <<>> /\ ~misread
  /\ wire' = Tail(wire) /\ Receives(Head(wire))
  /\ UNCHANGED <<device, sample_rate, thread, socket, odd>>

-----------------------------------------------------------------------------
Next == Open \/ SetRate \/ Serve \/ Ask \/ HangUp \/ Receive

Spec == Init /\ [][Next]_vars

\* The data thread is scheduled, and the client reads what is there.
FairSpec == Spec /\ WF_vars(Serve) /\ WF_vars(Receive)

-----------------------------------------------------------------------------
(* Properties *)

TypeOK ==
  /\ (width # None => width > 0 /\ width % 8 = 0) /\ driver_unit \in Nat /\ analog \subseteq Nat
  /\ DOMAIN layout = IF width = None THEN {} ELSE Groups(width)
  /\ sample_rate \in Rates /\ Len(outbox) <= CHUNK_SAMPLES * MaxBytes /\ Len(wire) <= Capacity
  /\ dpc \in {"open", "refused", "read", "reply", "empty", "chunks", "dead", "done"}
  /\ acq = None \/ acq.sample <= NumSamples(acq)
  /\ offset \in 0 .. MaxBytes /\ inbox \in 0 .. asks /\ asks \in 0 .. MaxAsks
  /\ want \in 0 .. MaxBytes * UnitSize(32) /\ {open, misread, odd} \subseteq BOOLEAN

\* Every byte of a sample has one name in the layout, and what the client calls
\* a line is the byte and the bit that a trigger on that name looks at; the
\* counts that CHANS? reports make up the header's num_channels.
BytesNamed ==
  width # None =>
    /\ 8 * AnalogCount(layout) + DigitalCount(layout) = width
    /\ \A g \in 0 .. UnitSize(width) - 1 :
         /\ layout[g].byte_offset = g /\ layout[g].analog = (g \in analog)
         /\ IF layout[g].analog
              THEN ScannedByte(layout[g].name) = g
              ELSE \A j \in 0 .. 7 :
                     LET line == <<"D", layout[g].name[2] + j>>
                     IN ScannedByte(line) = g /\ ScannedBit(line) = j

\* A client that reads num_samples * unit_size() bytes behind a header gets the
\* capture, all of it and in order, and finds the next header where it expects
\* it, however the chunks, the room in the socket and its own reads interleave;
\* unless a capture was not in whole samples of the announced width.
WholeWaveforms ==
  ~odd => /\ ~misread
          /\ shown # None =>
               Tail(shown) = [i \in 1 .. shown[1].of.bytes |-> i]

\* The trigger is where the client looks for it, trigger_fs / fs_per_sample
\* samples into the capture, whatever RATE commands came in between: unless the
\* rate has no sample time or the product does not fit an i64.
TriggerPlaced ==
  shown # None =>
    LET h == shown[1]
    IN h.of.triggered /\ h.fs_per_sample > 0 /\ h.of.sample * h.fs_per_sample <= MaxI64
         => h.trigger_fs \div h.fs_per_sample = h.of.sample

\* A client that stays and reads gets all of the answers it asked for.
Completes ==
  (inbox > 0) ~> ((dpc = "read" /\ inbox = 0 /\ wire = <<>> /\ want = 0) \/ odd \/ ~open)

\* A data thread does not outlive the client's hanging up, blocked or not.
Ends == (~open) ~> (dpc \in {"done", "dead"})
=============================================================================
