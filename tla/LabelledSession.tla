---------------------------- MODULE LabelledSession ----------------------------
(***************************************************************************)
(* BridgeServer and DeviceConfig put together.  The SCPI thread that       *)
(* executes START and STOP executes RATE and DEPTH too, one at a time; the *)
(* data thread's capture is the one whose rate DeviceConfig follows, and   *)
(* its waveform the one that gets the label.  main serves clients once its *)
(* start is over.                                                          *)
(*                                                                         *)
(* A step is one of the server, which changes the configuration only in    *)
(* what it does to the capture, or one of the configuration.               *)
(***************************************************************************)
EXTENDS BridgeServer

CONSTANTS Rates, Depths, Widths, Bandwidth, MaxChannels, Unknown  \* DeviceConfig's

VARIABLES
  main,                       \* DeviceConfig's pc
  driver_rate, driver_depth, driver_width,
  sample_rates, sample_depths, sample_rate, sample_depth,
  op, req, result, before, read,
  rate_raced,                 \* DeviceConfig's raced
  capture_rate, capture_width, header,
  \* history
  hasty  \* a RATE command was in progress since a 'K' is outstanding

config == <<main, driver_rate, driver_depth, driver_width, sample_rates, sample_depths,
            sample_rate, sample_depth, op, req, result, before, read, rate_raced,
            capture_rate, capture_width, header>>

Config == INSTANCE DeviceConfig WITH pc <- main, capture <- Capture, raced <- rate_raced

\* What a step of the server is for the configuration.
CapturePart ==
  \/ Capture' = Capture /\ ~SendsWaveform /\ UNCHANGED config
  \/ Config!SessionStart \/ Config!SessionEnd
  \/ SendsWaveform /\ Config!SendWaveform
  \/ ~SendsWaveform /\ Config!Discard

\* A client's RATE or DEPTH is executed before the next command is read.
ServerStep ==
  /\ main = "serving"
  /\ \/ op = "none" /\ (Connect \/ Scpi)
     \/ DataProgress \/ SessionEnd \/ Environment
  /\ CapturePart

\* The start of main, or a RATE or DEPTH that was read.
ConfigStep ==
  /\ main = "serving" /\ op = "none" => cmd = "IDLE" /\ cmd_open
  /\ UNCHANGED vars /\ Config!Next

RateInProgress == op \in {"rateSet", "rateGet"}

LInit == Init /\ Config!Init /\ hasty = FALSE

LNext ==
  /\ ServerStep \/ ConfigStep
  /\ hasty' = (Pending' > 0 /\ (hasty \/ RateInProgress'))

LSpec == LInit /\ [][LNext]_<<vars, config, hasty>>

\* For TLC: what only DeviceConfig's own properties look at is not told apart.
Seen == <<vars, main, driver_rate, driver_depth, driver_width, sample_rates, sample_depths,
          sample_rate, op, req, read, rate_raced, capture_rate, capture_width, hasty>>

-----------------------------------------------------------------------------
(* Properties *)

\* "Never report the requested value as active unless it actually took effect"
\* (set_rate), for the client: the rate that send_waveform would report is the
\* one that the capture runs at, whatever STOP, SINGLE, FORCE and disconnects
\* do, when no RATE was in progress while a 'K' was outstanding (and the last
\* one could read its rate back).
LabelOfCapture == Capture # "idle" /\ ~hasty /\ read => sample_rate = capture_rate

\* Waiting for STOP is not enough: a capture that it did not reach is labelled
\* with the rate of a later RATE.
LabelAlways == Capture # "idle" /\ read => sample_rate = capture_rate
=============================================================================
