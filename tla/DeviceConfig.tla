----------------------------- MODULE DeviceConfig -----------------------------
(***************************************************************************)
(* What the bridge believes of its device and what the device does: the    *)
(* start of the program (SigrokDevice::open and the rest of main, whose    *)
(* steps can each fail), the RATE and DEPTH commands (set_rate, set_depth),*)
(* and the header that labels a waveform with a rate and a width           *)
(* (send_waveform).  The driver keeps a configuration of its own: it may   *)
(* refuse a value or clamp it, and a capture runs at the rate and width    *)
(* that are configured when the session starts.                            *)
(*                                                                         *)
(* The atomics sample_rate and sample_depth are written by main and then   *)
(* by the SCPI thread, and read by the data thread.  How the data thread   *)
(* is driven (arming, STOP, triggers) is BridgeServer's subject: here a    *)
(* capture may begin whenever none is in progress.                         *)
(***************************************************************************)
EXTENDS Naturals

CONSTANTS
  Rates,        \* sample rates a driver may know
  Depths,       \* sample depths
  Widths,       \* capture widths, in channels
  Bandwidth,    \* the driver supports a rate whose rate * width is within it
  MaxChannels,  \* the width the program asks for: --max-channels, or the device's
  Unknown       \* no waveform sent yet

ASSUME RatesAssumption == /\ Rates \subseteq Nat \ {0} /\ Depths \subseteq Nat
                          /\ Widths \subseteq Nat \ {0} /\ Bandwidth \in Nat
ASSUME WidthAssumption == MaxChannels \in Widths /\ MaxChannels % 8 = 0
ASSUME UnknownAssumption == Unknown \notin [label : Nat, rate : Nat, channels : Nat,
                                            width : Nat, raced : BOOLEAN, read : BOOLEAN]

VARIABLES
  pc,                                      \* main: the next step of the start
  driver_rate, driver_depth, driver_width, \* the driver's configuration
  sample_rates, sample_depths,             \* the advertised values
  sample_rate, sample_depth,               \* the values believed active
  op, req, result,                         \* the set_rate or set_depth in progress
  capture, capture_rate, capture_width,    \* the data thread's capture
  header,                                  \* the last waveform header
  \* history
  read,    \* sample_rate was read from the driver since its rate last changed
  before,  \* driver_rate when this set_rate began
  raced    \* a RATE command overlaps this capture

driver  == <<driver_rate, driver_depth, driver_width>>
lists   == <<sample_rates, sample_depths>>
active  == <<sample_rate, sample_depth>>
command == <<op, req, result, before>>
data    == <<capture, capture_rate, capture_width, header, raced>>
vars    == <<pc, driver, lists, active, command, data, read>>

\* "its rate ceiling follows the width" (open).
Supported(w) == {r \in Rates : r * w <= Bandwidth}

Header(label, rate, channels, width, wasRaced, wasRead) ==
  [label |-> label, rate |-> rate, channels |-> channels, width |-> width,
   raced |-> wasRaced, read |-> wasRead]

Init ==
  /\ pc = "open"
  /\ driver_rate \in Rates /\ driver_depth \in Depths /\ driver_width \in Widths
  /\ sample_rates = {} /\ sample_depths = {} /\ sample_rate = 0 /\ sample_depth = 0
  /\ op = "none" /\ req = 0 /\ result = "ok" /\ before = 0
  /\ capture = "idle" /\ capture_rate = 0 /\ capture_width = 0 /\ raced = FALSE
  /\ header = Unknown /\ read = FALSE

-----------------------------------------------------------------------------
(***************************************************************************)
(* The start.  main gives up at the first step that fails, except for the  *)
(* width, the pattern mode, and the initial rate and depth.                *)
(***************************************************************************)
Start(from, to) == pc = from /\ pc' = to

\* sr_init, find the driver, initialise it, scan, sr_dev_open; then, past the
\* width, sr_session_new, sr_session_dev_add and the datafeed callback.
OpenDevice  == Start("open", "width") /\ UNCHANGED <<driver, lists, active, command, data, read>>
OpenSession == Start("session", "pattern")
               /\ UNCHANGED <<driver, lists, active, command, data, read>>
OpenFails   == /\ pc \in {"open", "session"} /\ pc' = "failed"
               /\ UNCHANGED <<driver, lists, active, command, data, read>>

\* SR_CONF_NUM_LOGIC_CHANNELS: an error is logged, "driver may clamp".
SetWidth ==
  /\ Start("width", "session")
  /\ driver_width' \in Widths /\ driver_rate' \in Rates
  /\ UNCHANGED <<driver_depth, lists, active, command, data, read>>

\* set_pattern_mode, if asked for; an error is logged.
SetPattern == Start("pattern", "rates") /\ UNCHANGED <<driver, lists, active, command, data, read>>

\* Variant: the rates of the widest capture, whatever the driver's width.
ListRatesOfRequest ==
  /\ Start("rates", IF Supported(MaxChannels) = {} THEN "failed" ELSE "depths")
  /\ sample_rates' = Supported(MaxChannels)
  /\ UNCHANGED <<driver, sample_depths, active, command, data, read>>

\* sr_config_list; an empty list is an error.
ListRates ==
  /\ Start("rates", IF Supported(driver_width) = {} THEN "failed" ELSE "depths")
  /\ sample_rates' = Supported(driver_width)
  /\ UNCHANGED <<driver, sample_depths, active, command, data, read>>

ListDepths ==
  /\ Start("depths", IF Depths = {} THEN "failed" ELSE "rate") /\ sample_depths' = Depths
  /\ UNCHANGED <<driver, sample_rates, active, command, data, read>>

ListFails == /\ pc \in {"rates", "depths"} /\ pc' = "failed"
             /\ UNCHANGED <<driver, lists, active, command, data, read>>

-----------------------------------------------------------------------------
(***************************************************************************)
(* set_rate and set_depth, called by main with the first advertised value  *)
(* and by the RATE and DEPTH commands with any value.                      *)
(***************************************************************************)
Returned == CASE pc = "rate"  -> "depth"
              [] pc = "depth" -> "serving"
              [] OTHER        -> pc

Return(res) == op' = "none" /\ req' = 0 /\ before' = 0 /\ result' = res /\ pc' = Returned

CallRate(r) == op' = "rateSet" /\ req' = r /\ before' = driver_rate /\ UNCHANGED result

RateCommand(r) ==
  /\ pc \in {"rate", "serving"} /\ op = "none"
  /\ pc = "rate" => r \in sample_rates
  /\ IF r \in sample_rates THEN CallRate(r) /\ UNCHANGED pc ELSE Return("error")
  /\ UNCHANGED <<driver, lists, active, data, read>>

\* sr_config_set: refused, or done, possibly with a clamped value.
RateSet ==
  /\ op = "rateSet"
  /\ \/ Return("error") /\ UNCHANGED <<driver_rate, raced, read>>
     \/ /\ driver_rate' \in Supported(driver_width)
        /\ raced' = (capture # "idle") /\ read' = FALSE
        /\ op' = "rateGet" /\ UNCHANGED <<pc, req, result, before>>
  /\ UNCHANGED <<driver_depth, driver_width, lists, active, capture, capture_rate,
                 capture_width, header>>

\* Variant: the requested value is reported as active.
RateStoreRequested ==
  /\ op = "rateGet" /\ Return("ok") /\ sample_rate' = req /\ read' = TRUE
  /\ UNCHANGED <<driver, lists, sample_depth, data>>

\* sr_config_get, then the store of what it returned.
RateGet ==
  /\ op = "rateGet"
  /\ \/ Return("ok") /\ sample_rate' = driver_rate /\ read' = TRUE
     \/ Return("error") /\ UNCHANGED <<sample_rate, read>>
  /\ UNCHANGED <<driver, lists, sample_depth, data>>

DepthCommand(d) ==
  /\ pc \in {"depth", "serving"} /\ op = "none"
  /\ pc = "depth" => d \in sample_depths
  /\ op' = "depthSet" /\ req' = d /\ UNCHANGED <<pc, result, before>>
  /\ UNCHANGED <<driver, lists, active, data, read>>

\* sr_config_set; what the driver made of the value is not read back.
DepthSet ==
  /\ op = "depthSet"
  /\ \/ Return("error") /\ UNCHANGED <<driver_depth, sample_depth>>
     \/ Return("ok") /\ driver_depth' \in Depths /\ sample_depth' = req
  /\ UNCHANGED <<driver_rate, driver_width, lists, sample_rate, data, read>>

-----------------------------------------------------------------------------
(***************************************************************************)
(* The data thread.                                                        *)
(***************************************************************************)
DataOnly == UNCHANGED <<pc, driver, lists, active, command, read>>

\* sr_session_start: the capture's rate and width are the driver's of now.
SessionStart ==
  /\ pc = "serving" /\ capture = "idle" /\ capture' = "running"
  /\ capture_rate' = driver_rate /\ capture_width' = driver_width
  /\ raced' = (op = "rateGet")
  /\ UNCHANGED header /\ DataOnly

SessionEnd ==
  /\ capture = "running" /\ capture' = "done"
  /\ UNCHANGED <<capture_rate, capture_width, header, raced>> /\ DataOnly

\* The capture failed or is not delivered.
Discard ==
  /\ capture # "idle" /\ capture' = "idle"
  /\ capture_rate' = 0 /\ capture_width' = 0 /\ raced' = FALSE
  /\ UNCHANGED header /\ DataOnly

\* send_waveform: get_rate() of now, the channel count of the start.
SendWaveform ==
  /\ capture = "done" /\ capture' = "idle"
  /\ header' = Header(sample_rate, capture_rate, MaxChannels, capture_width, raced, read)
  /\ capture_rate' = 0 /\ capture_width' = 0 /\ raced' = FALSE
  /\ DataOnly

-----------------------------------------------------------------------------
Next ==
  \/ OpenDevice \/ OpenSession \/ OpenFails \/ SetWidth \/ SetPattern
  \/ ListRates \/ ListDepths \/ ListFails
  \/ \E r \in Rates : RateCommand(r)
  \/ RateSet \/ RateGet
  \/ \E d \in Depths : DepthCommand(d)
  \/ DepthSet
  \/ SessionStart \/ SessionEnd \/ Discard \/ SendWaveform

Spec == Init /\ [][Next]_vars

-----------------------------------------------------------------------------
(***************************************************************************)
(* Properties                                                              *)
(***************************************************************************)
Ops == {"none", "rateSet", "rateGet", "depthSet"}

\* The shape of the state; while a command is executed its caller waits.
TypeOK ==
  /\ pc \in {"open", "width", "session", "pattern", "rates", "depths", "rate", "depth",
             "serving", "failed"}
  /\ driver_rate \in Rates /\ driver_depth \in Depths /\ driver_width \in Widths
  /\ sample_rates \subseteq Rates /\ sample_depths \subseteq Depths
  /\ sample_rate \in Rates \cup {0} /\ sample_depth \in Depths \cup {0}
  /\ op \in Ops /\ req \in Rates \cup Depths \cup {0} /\ result \in {"ok", "error"}
  /\ before \in Rates \cup {0}
  /\ capture \in {"idle", "running", "done"} /\ raced \in BOOLEAN /\ read \in BOOLEAN
  /\ capture_rate \in Rates \cup {0} /\ capture_width \in Widths \cup {0}
  /\ header \in [label : Nat, rate : Nat, channels : Nat, width : Nat,
                 raced : BOOLEAN, read : BOOLEAN] \cup {Unknown}
  /\ op # "none" => pc \in {"rate", "depth", "serving"}
  /\ op \in {"rateSet", "rateGet"} => req \in sample_rates /\ before \in Rates

\* A waveform carries the rate it was captured at, unless a RATE command ran
\* during the capture or the last one could not read the rate back: "never
\* report the requested value as active unless it actually took effect".
LabelHonest == header # Unknown /\ ~header.raced /\ header.read => header.label = header.rate

\* The stored rate is the driver's once it was read: why LabelHonest holds.
RateRead == read => sample_rate = driver_rate

\* Every advertised rate is one the driver supports at its capture width: the
\* width is set before the rates are listed (open), whatever became of it.
AdvertisedSupported == sample_rates \subseteq Supported(driver_width)

\* protocol.rs: fs_per_sample is "1e15 / sample_rate_hz" of the waveform.
LabelIsRate == header # Unknown /\ header.read => header.label = header.rate

\* "Failed to set rate: {}. Active rate remains {} Hz" (handle_scpi_commands):
\* a command that fails leaves the rate of the device alone.
RateRemains ==
  [][(op \in {"rateSet", "rateGet"} /\ op' = "none" /\ result' = "error")
       => driver_rate' = before]_vars

\* SCPI-PROTOCOL.md: a sample takes ceil(num_channels / 8) bytes on the wire.
UnitSize(channels) == (channels + 7) \div 8
WireFraming == header # Unknown => UnitSize(header.channels) = UnitSize(header.width)
=============================================================================
