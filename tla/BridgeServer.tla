----------------------------- MODULE BridgeServer -----------------------------
(***************************************************************************)
(* One client of the bridge server, end to end: the thread that executes   *)
(* SCPI commands (handle_client, handle_scpi_commands), the data thread    *)
(* that answers the client's 'K' bytes (run_data_thread), the atomics of   *)
(* SigrokDevice that they share, and the libsigrok session that a capture  *)
(* runs in.                                                                *)
(*                                                                         *)
(* Every atomic load or store and every mutex section is a step of its own *)
(* (all of them are SeqCst, so their interleavings are the behaviours of   *)
(* the program); what only one thread can see is merged into the step      *)
(* before it.  A trigger configuration is one member of Keys, standing for *)
(* the triple (source, edge direction, level); None is "no source".  What  *)
(* a capture contains is chosen by the driver: no sample or some, with a   *)
(* trigger packet or without.                                              *)
(*                                                                         *)
(* A byte that is not 'K', a query, a channel command and an unrecognised  *)
(* line change no state and have no action.                                *)
(***************************************************************************)
EXTENDS Naturals, Sequences

CONSTANTS
  Keys,        \* trigger configurations that name a source
  Scannable,   \* those whose source parses as a D or an A channel
  None,        \* no trigger source; no persisted trigger state
  Pretrigger,  \* samples kept in front of the trigger (--pretrigger)
  SeqMod,      \* the sequence number is a u32: 2^32, smaller in a model
  MaxK,        \* bound: 'K' bytes a client sends on one connection
  MaxCmds      \* bound: commands a client sends on one connection

ASSUME KeysAssumption  == Scannable \subseteq Keys /\ None \notin Keys
ASSUME BoundAssumption == /\ SeqMod \in Nat \ {0, 1} /\ Pretrigger \in Nat
                          /\ MaxK \in Nat /\ MaxCmds \in Nat

VARIABLES
  \* SigrokDevice
  running, one_shot, force_trigger, trigger_armed, shutdown, seqnum,
  trigger_config, last_trigger_state,
  \* the libsigrok session and what its callback collected
  session, data, trig,
  \* the SCPI thread: the command it executes and the next store of it
  cmd, step,
  \* the data thread and its locals
  dpc, seq, has_source, is_force, key, prev,
  \* the two sockets and their client
  cmd_open, data_open, sent, inbox, out, cmds

flags   == <<running, one_shot, force_trigger, trigger_armed>>
trigger == <<trigger_config, last_trigger_state>>
capture == <<session, data, trig>>
scpi    == <<cmd, step, cmds>>
locals  == <<seq, has_source, is_force, key, prev>>
sockets == <<cmd_open, data_open, sent, inbox, out>>
vars    == <<flags, shutdown, seqnum, trigger, capture, scpi, dpc, locals, sockets>>

Arming   == {"START", "SINGLE"}
Commands == {"START", "SINGLE", "FORCE", "STOP"}

\* What is known of the trigger of a capture: none, a trigger packet with
\* samples after it, a trigger packet that ended the data, forced, software.
TrigKinds == {"no", "hw", "end", "forced", "sw"}

\* A 'K' has taken its sequence number and its header is not written yet.
Answering == {"gateRunning", "gateArmed", "empty", "config", "isForce", "start",
              "run", "force", "scanConfig", "scanPrev", "scan", "reply"}
Completing == {"complete", "storeRunning", "storeArmed", "clearForce"}

BooleansOK ==
  /\ running \in BOOLEAN /\ one_shot \in BOOLEAN /\ force_trigger \in BOOLEAN
  /\ trigger_armed \in BOOLEAN /\ shutdown \in BOOLEAN /\ data \in BOOLEAN
  /\ has_source \in BOOLEAN /\ is_force \in BOOLEAN /\ prev \in BOOLEAN
  /\ cmd_open \in BOOLEAN /\ data_open \in BOOLEAN

Headers == [seq : 0 .. SeqMod - 1, real : BOOLEAN]

ControlOK ==
  /\ session \in {"idle", "running", "stopping"} /\ trig \in TrigKinds
  /\ cmd \in {"ACCEPT", "IDLE", "CLOSE", "JOIN"} \cup Commands /\ step \in 1 .. 6
  /\ dpc \in {"none", "read", "shutdown", "done"} \cup Answering \cup Completing

DataOK ==
  /\ {trigger_config, last_trigger_state, key} \subseteq Keys \cup {None}
  /\ {seqnum, seq} \subseteq 0 .. SeqMod - 1
  /\ {sent, inbox} \subseteq 0 .. MaxK /\ cmds \in 0 .. MaxCmds
  /\ out \in Seq(Headers)

TypeOK == BooleansOK /\ ControlOK /\ DataOK

Init ==
  /\ running = FALSE /\ one_shot = FALSE /\ force_trigger = FALSE
  /\ trigger_armed = FALSE /\ shutdown = FALSE /\ seqnum = 0
  /\ trigger_config = None /\ last_trigger_state = None
  /\ session = "idle" /\ data = FALSE /\ trig = "no"
  /\ cmd = "ACCEPT" /\ step = 1 /\ cmds = 0
  /\ dpc = "none" /\ seq = 0 /\ key = None
  /\ has_source = FALSE /\ is_force = FALSE /\ prev = FALSE
  /\ cmd_open = FALSE /\ data_open = FALSE
  /\ sent = 0 /\ inbox = 0 /\ out = <<>>

-----------------------------------------------------------------------------
(***************************************************************************)
(* The SCPI thread.  At "ACCEPT" it waits for a client, at "IDLE" for a    *)
(* command line; step is the next store of the command it executes.        *)
(***************************************************************************)

\* Variant: the run state is not reset.
ResetKeepsRun ==
  /\ one_shot' = FALSE /\ force_trigger' = FALSE /\ shutdown' = FALSE /\ seqnum' = 0
  /\ last_trigger_state' = None /\ UNCHANGED <<running, trigger_armed>>

\* Variant: the sequence number is not reset.
ResetKeepsSeqnum ==
  /\ running' = FALSE /\ one_shot' = FALSE /\ force_trigger' = FALSE
  /\ trigger_armed' = FALSE /\ shutdown' = FALSE
  /\ last_trigger_state' = None /\ UNCHANGED seqnum

ResetForNewConnection ==
  /\ running' = FALSE /\ one_shot' = FALSE /\ force_trigger' = FALSE
  /\ trigger_armed' = FALSE /\ shutdown' = FALSE /\ seqnum' = 0
  /\ last_trigger_state' = None

\* main accepts a client; the reset and the spawn of the data thread are not
\* observable by anybody before the thread runs.
Connect ==
  /\ cmd = "ACCEPT" /\ cmd' = "IDLE" /\ step' = 1 /\ cmds' = 0
  /\ ResetForNewConnection
  /\ dpc' = "read"
  /\ cmd_open' = TRUE /\ data_open' = TRUE /\ sent' = 0 /\ inbox' = 0 /\ out' = <<>>
  /\ UNCHANGED <<trigger_config, capture, locals>>

\* read_command returns command c, and the first store of c follows.
ReadCommand(c) ==
  /\ cmd = "IDLE" /\ cmd_open /\ cmds < MaxCmds
  /\ cmd' = c /\ step' = 2 /\ cmds' = cmds + 1

At(c, i)   == cmd = c /\ step = i
Goto(c, i) == cmd' = c /\ step' = i /\ UNCHANGED cmds
Idle       == Goto("IDLE", 1)

ScpiOnly == UNCHANGED <<seqnum, trigger_config, dpc, locals, sockets>>

\* Variant: sr_session_stop does not reach the session.
StopNothing == UNCHANGED capture

\* sr_session_stop: a session that is not running is left as it is.
StopSession ==
  /\ session' = IF session = "running" THEN "stopping" ELSE session
  /\ UNCHANGED <<data, trig>>

StartRunning(c) ==
  /\ ReadCommand(c) /\ running' = TRUE
  /\ UNCHANGED <<one_shot, force_trigger, trigger_armed, shutdown, last_trigger_state, capture>>
  /\ ScpiOnly

\* Variant: SINGLE stores what START stores.
SingleAsStart(c) ==
  /\ At(c, 2) /\ Goto(c, 3) /\ one_shot' = FALSE
  /\ UNCHANGED <<running, force_trigger, trigger_armed, shutdown, last_trigger_state, capture>>
  /\ ScpiOnly

\* Variant: START leaves the one_shot of an earlier SINGLE.
StartKeepsOneShot(c) ==
  /\ At(c, 2) /\ Goto(c, 3) /\ one_shot' = (c = "SINGLE" \/ one_shot)
  /\ UNCHANGED <<running, force_trigger, trigger_armed, shutdown, last_trigger_state, capture>>
  /\ ScpiOnly

StartOneShot(c) ==
  /\ At(c, 2) /\ Goto(c, 3) /\ one_shot' = (c = "SINGLE")
  /\ UNCHANGED <<running, force_trigger, trigger_armed, shutdown, last_trigger_state, capture>>
  /\ ScpiOnly

StartForce(c) ==
  /\ At(c, 3) /\ Goto(c, 4) /\ force_trigger' = FALSE
  /\ UNCHANGED <<running, one_shot, trigger_armed, shutdown, last_trigger_state, capture>>
  /\ ScpiOnly

StartArmed(c) ==
  /\ At(c, 4) /\ Goto(c, 5) /\ trigger_armed' = TRUE
  /\ UNCHANGED <<running, one_shot, force_trigger, shutdown, last_trigger_state, capture>>
  /\ ScpiOnly

\* Variant: the trigger state outlives START and SINGLE.
StartKeepsState(c) ==
  /\ At(c, 5) /\ Idle
  /\ UNCHANGED <<flags, shutdown, last_trigger_state, capture>> /\ ScpiOnly

StartReset(c) ==
  /\ At(c, 5) /\ Idle /\ last_trigger_state' = None
  /\ UNCHANGED <<flags, shutdown, capture>> /\ ScpiOnly

\* START and SINGLE differ in the value of one_shot alone.
Start(c) == \/ StartRunning(c) \/ StartOneShot(c) \/ StartForce(c)
            \/ StartArmed(c) \/ StartReset(c)

ForceFlag ==
  /\ ReadCommand("FORCE") /\ force_trigger' = TRUE
  /\ UNCHANGED <<running, one_shot, trigger_armed, shutdown, last_trigger_state, capture>>
  /\ ScpiOnly

ForceArmed ==
  /\ At("FORCE", 2) /\ Goto("FORCE", 3) /\ trigger_armed' = TRUE
  /\ UNCHANGED <<running, one_shot, force_trigger, shutdown, last_trigger_state, capture>>
  /\ ScpiOnly

ForceLoad ==
  /\ At("FORCE", 3) /\ Goto("FORCE", IF running THEN 6 ELSE 4)
  /\ UNCHANGED <<flags, shutdown, last_trigger_state, capture>> /\ ScpiOnly

ForceRunning ==
  /\ At("FORCE", 4) /\ Goto("FORCE", 5) /\ running' = TRUE
  /\ UNCHANGED <<one_shot, force_trigger, trigger_armed, shutdown, last_trigger_state, capture>>
  /\ ScpiOnly

ForceOneShot ==
  /\ At("FORCE", 5) /\ Goto("FORCE", 6) /\ one_shot' = TRUE
  /\ UNCHANGED <<running, force_trigger, trigger_armed, shutdown, last_trigger_state, capture>>
  /\ ScpiOnly

ForceReset ==
  /\ At("FORCE", 6) /\ Idle /\ last_trigger_state' = None
  /\ UNCHANGED <<flags, shutdown, capture>> /\ ScpiOnly

ForceTrigger == ForceFlag \/ ForceArmed \/ ForceLoad \/ ForceRunning \/ ForceOneShot \/ ForceReset

StopRunning ==
  /\ ReadCommand("STOP") /\ running' = FALSE
  /\ UNCHANGED <<one_shot, force_trigger, trigger_armed, shutdown, last_trigger_state, capture>>
  /\ ScpiOnly

StopArmed ==
  /\ At("STOP", 2) /\ Goto("STOP", 3) /\ trigger_armed' = FALSE
  /\ UNCHANGED <<running, one_shot, force_trigger, shutdown, last_trigger_state, capture>>
  /\ ScpiOnly

StopCapture ==
  /\ At("STOP", 3) /\ Idle /\ StopSession
  /\ UNCHANGED <<flags, shutdown, last_trigger_state>> /\ ScpiOnly

Stop == StopRunning \/ StopArmed \/ StopCapture

\* TRIG:SOU, TRIG:EDGE:DIR and TRIG:LEV: one store under the config's mutex.
\* A level or edge set while there is no source leaves "no source".
SetTrigger(k) ==
  /\ cmd = "IDLE" /\ cmd_open /\ cmds < MaxCmds /\ cmds' = cmds + 1
  /\ trigger_config' = k
  /\ UNCHANGED <<flags, shutdown, seqnum, last_trigger_state, capture, cmd, step, dpc,
                 locals, sockets>>

\* End of the command stream: request_shutdown, then join the data thread.
ReadEof ==
  /\ cmd = "IDLE" /\ ~cmd_open /\ Goto("CLOSE", 2) /\ shutdown' = TRUE
  /\ UNCHANGED <<flags, last_trigger_state, capture>> /\ ScpiOnly

\* So does an error: a line that is not UTF-8, a reply that cannot be written.
ReadError ==
  /\ cmd = "IDLE" /\ cmd_open /\ Goto("CLOSE", 2) /\ shutdown' = TRUE
  /\ UNCHANGED <<flags, last_trigger_state, capture>> /\ ScpiOnly

CloseStop ==
  /\ At("CLOSE", 2) /\ Goto("JOIN", 1) /\ StopSession
  /\ UNCHANGED <<flags, shutdown, last_trigger_state>> /\ ScpiOnly

\* Variant: the data thread is not joined.
JoinDetached ==
  /\ cmd = "JOIN" /\ Goto("ACCEPT", 1)
  /\ dpc' = "none" /\ cmd_open' = FALSE /\ data_open' = FALSE /\ inbox' = 0
  /\ UNCHANGED <<flags, shutdown, seqnum, trigger, capture, locals, sent, out>>

\* handle_client returns and drops both streams.
Join ==
  /\ cmd = "JOIN" /\ dpc = "done" /\ Goto("ACCEPT", 1)
  /\ dpc' = "none" /\ cmd_open' = FALSE /\ data_open' = FALSE /\ inbox' = 0
  /\ UNCHANGED <<flags, shutdown, seqnum, trigger, capture, locals, sent, out>>

\* The steps the SCPI thread takes on its own, once a command is read.
ScpiProgress ==
  \/ \E c \in Arming : StartOneShot(c) \/ StartForce(c) \/ StartArmed(c) \/ StartReset(c)
  \/ ForceArmed \/ ForceLoad \/ ForceRunning \/ ForceOneShot \/ ForceReset
  \/ StopArmed \/ StopCapture
  \/ ReadEof \/ CloseStop \/ Join

Scpi ==
  \/ \E c \in Arming : Start(c)
  \/ ForceTrigger \/ Stop \/ ReadEof \/ ReadError \/ CloseStop \/ Join
  \/ \E k \in Keys : SetTrigger(k)

-----------------------------------------------------------------------------
(***************************************************************************)
(* The data thread; dpc names its next step.                               *)
(***************************************************************************)

\* Variant: the counter does not wrap.
NextSeqUnbounded(n) == n + 1

NextSeq(n) == (n + 1) % SeqMod

DataStep(from, to) == dpc = from /\ dpc' = to /\ UNCHANGED <<scpi, shutdown, trigger_config>>

DeviceKept == UNCHANGED <<flags, seqnum, last_trigger_state>>

\* read_exact returns a 'K'.
ReadReady ==
  /\ DataStep("read", "shutdown") /\ inbox > 0 /\ inbox' = inbox - 1
  /\ UNCHANGED <<capture, locals, cmd_open, data_open, sent, out>> /\ DeviceKept

\* Variant: a failed read is tried again.
ReadRetried ==
  /\ DataStep("read", "read") /\ ~data_open
  /\ UNCHANGED <<capture, locals, sockets>> /\ DeviceKept

\* read_exact fails: the client closed the data socket.
ReadFailed ==
  /\ DataStep("read", "done") /\ ~data_open
  /\ UNCHANGED <<capture, locals, sockets>> /\ DeviceKept

\* Variant: the counter is read and not advanced.
ReadSeqnum == seq' = seqnum /\ UNCHANGED seqnum

\* next_seqnum, which no other thread calls.
TakeSeqnum == seq' = seqnum /\ seqnum' = NextSeq(seqnum)

CheckShutdown ==
  \/ /\ DataStep("shutdown", "done") /\ shutdown
     /\ UNCHANGED <<capture, locals, sockets>> /\ DeviceKept
  \/ /\ DataStep("shutdown", "gateRunning") /\ ~shutdown
     /\ TakeSeqnum
     /\ UNCHANGED <<flags, last_trigger_state, capture, has_source, is_force, key, prev, sockets>>

GateRunning ==
  /\ DataStep("gateRunning", IF running THEN "gateArmed" ELSE "empty")
  /\ UNCHANGED <<capture, locals, sockets>> /\ DeviceKept

GateArmed ==
  /\ DataStep("gateArmed", IF trigger_armed THEN "config" ELSE "empty")
  /\ UNCHANGED <<capture, locals, sockets>> /\ DeviceKept

\* A write after the client closed its end may fail or be lost unnoticed.
\* The result of the capture and the locals but is_force are not used again.
SendHeader(real) ==
  /\ out' = IF data_open THEN Append(out, [seq |-> seq, real |-> real]) ELSE out
  /\ data' = FALSE /\ trig' = "no" /\ has_source' = FALSE
  /\ UNCHANGED <<session, seq, is_force, key, prev, cmd_open, data_open, sent, inbox>>
  /\ DeviceKept

\* Variant: a 'K' that comes before START is ignored.
NotReadySilent == DataStep("empty", "read") /\ UNCHANGED <<capture, locals, sockets>> /\ DeviceKept

\* Variant: the data thread waits for START instead of answering.
NotReadyWaits ==
  DataStep("empty", "gateRunning") /\ UNCHANGED <<capture, locals, sockets>> /\ DeviceKept

NotReady == DataStep("empty", "read") /\ SendHeader(FALSE)

GetConfig ==
  /\ DataStep("config", "isForce") /\ has_source' = (trigger_config # None)
  /\ UNCHANGED <<capture, seq, is_force, key, prev, sockets>> /\ DeviceKept

LoadForce ==
  /\ DataStep("isForce", "start") /\ is_force' = force_trigger
  /\ UNCHANGED <<capture, seq, has_source, key, prev, sockets>> /\ DeviceKept

\* acquire: empty the callback's buffer, then sr_session_start, which may fail.
SessionStart ==
  /\ \/ DataStep("start", "run") /\ session = "idle" /\ session' = "running"
     \/ DataStep("start", "reply") /\ UNCHANGED session
  /\ data' = FALSE /\ trig' = "no"
  /\ UNCHANGED <<locals, sockets>> /\ DeviceKept

\* sr_session_run returns: the capture is complete, stopped, or has failed.
SessionEnd ==
  /\ session # "idle" /\ session' = "idle"
  /\ \/ DataStep("run", "force") /\ UNCHANGED <<data, trig>>
     \/ DataStep("run", "reply") /\ data' = FALSE /\ trig' = "no"
  /\ UNCHANGED <<locals, sockets>> /\ DeviceKept

\* FORCE marks the capture; a capture with data and no trigger is scanned.
MarkForced ==
  /\ trig' = IF force_trigger /\ data THEN "forced" ELSE trig
  /\ DataStep("force", IF trig' = "no" /\ data THEN "scanConfig" ELSE "reply")
  /\ UNCHANGED <<session, data, locals, sockets>> /\ DeviceKept

ScanConfig ==
  /\ \/ trigger_config \in Scannable /\ DataStep("scanConfig", "scanPrev") /\ key' = trigger_config
     \/ trigger_config \notin Scannable /\ DataStep("scanConfig", "reply") /\ key' = None
  /\ UNCHANGED <<capture, seq, has_source, is_force, prev, sockets>> /\ DeviceKept

\* prev: the persisted state belongs to this configuration.
ScanPrev ==
  /\ DataStep("scanPrev", "scan") /\ prev' = (last_trigger_state = key)
  /\ UNCHANGED <<capture, seq, has_source, is_force, key, sockets>> /\ DeviceKept

\* The locals of the scan go out of scope.
ScanDone == /\ key' = None /\ prev' = FALSE
            /\ UNCHANGED <<flags, seqnum, seq, has_source, is_force, sockets>>

\* The scan finds an edge or not, and persists its end state.
ScanEdge ==
  /\ DataStep("scan", "reply") /\ last_trigger_state' = key /\ trig' \in {"no", "sw"}
  /\ ScanDone /\ UNCHANGED <<session, data>>

\* The channel is not part of the samples: the end state is the given state.
ScanOutOfRange ==
  /\ DataStep("scan", "reply")
  /\ last_trigger_state' = IF prev THEN key ELSE last_trigger_state
  /\ ScanDone /\ UNCHANGED capture

\* The crop in acquire keeps Pretrigger samples in front of the trigger: of a
\* buffer whose trigger packet came last nothing is left if that is none.
HaveData  == data /\ (trig = "end" => Pretrigger > 0)
Triggered == trig # "no"
SkipCheck == is_force \/ ~has_source
SendReal  == HaveData /\ (SkipCheck \/ Triggered)

\* Variant: every answer ends the acquisition, a wait for a trigger included.
AfterReplyEnds == "complete"

AfterReply == IF SkipCheck \/ Triggered THEN "complete" ELSE "read"

Reply == DataStep("reply", AfterReply) /\ SendHeader(SendReal)

\* send_waveform reports a failed write and the data thread returns.
ReplyFailed ==
  /\ DataStep("reply", "done") /\ SendReal /\ ~data_open
  /\ data' = FALSE /\ trig' = "no" /\ has_source' = FALSE /\ is_force' = FALSE
  /\ UNCHANGED <<session, seq, key, prev, sockets>> /\ DeviceKept

\* complete_one_shot: one load, then two stores.
AfterComplete == IF is_force THEN "clearForce" ELSE "read"

\* Variant: in continuous mode a completed capture arms the next one.
LoadOneShotRearms ==
  /\ DataStep("complete", IF one_shot THEN "storeRunning" ELSE AfterComplete)
  /\ running' = (running \/ ~one_shot) /\ trigger_armed' = (trigger_armed \/ ~one_shot)
  /\ UNCHANGED <<one_shot, force_trigger, seqnum, last_trigger_state, capture, locals, sockets>>

LoadOneShot ==
  /\ DataStep("complete", IF one_shot THEN "storeRunning" ELSE AfterComplete)
  /\ UNCHANGED <<capture, locals, sockets>> /\ DeviceKept

StoreRunning ==
  /\ DataStep("storeRunning", "storeArmed") /\ running' = FALSE
  /\ UNCHANGED <<one_shot, force_trigger, trigger_armed, seqnum, last_trigger_state,
                 capture, locals, sockets>>

StoreArmed ==
  /\ DataStep("storeArmed", AfterComplete) /\ trigger_armed' = FALSE
  /\ UNCHANGED <<running, one_shot, force_trigger, seqnum, last_trigger_state,
                 capture, locals, sockets>>

\* Variant: the force flag is never cleared.
KeepForce ==
  /\ DataStep("clearForce", "read") /\ is_force' = FALSE
  /\ UNCHANGED <<capture, seq, has_source, key, prev, sockets>> /\ DeviceKept

ClearForce ==
  /\ DataStep("clearForce", "read") /\ force_trigger' = FALSE
  /\ is_force' = FALSE
  /\ UNCHANGED <<running, one_shot, trigger_armed, seqnum, last_trigger_state,
                 capture, seq, has_source, key, prev, sockets>>

\* The steps of the data thread other than the end of a capture.
DataProgress ==
  \/ ReadReady \/ ReadFailed \/ CheckShutdown \/ GateRunning \/ GateArmed \/ NotReady
  \/ GetConfig \/ LoadForce \/ SessionStart \/ MarkForced
  \/ ScanConfig \/ ScanPrev \/ ScanEdge \/ ScanOutOfRange
  \/ Reply \/ ReplyFailed
  \/ LoadOneShot \/ StoreRunning \/ StoreArmed \/ ClearForce

-----------------------------------------------------------------------------
(***************************************************************************)
(* The driver, whose packets datafeed_callback collects, and the client.   *)
(***************************************************************************)

EnvironmentOnly == UNCHANGED <<flags, shutdown, seqnum, trigger, cmd, step, dpc, locals>>

LogicPacket ==
  /\ session # "idle" /\ data' = TRUE
  /\ trig' = IF trig = "end" THEN "hw" ELSE trig
  /\ UNCHANGED <<session, cmds, sockets>> /\ EnvironmentOnly

TriggerPacket ==
  /\ session # "idle" /\ trig' = "end"
  /\ UNCHANGED <<session, data, cmds, sockets>> /\ EnvironmentOnly

ClientReady ==
  /\ cmd \notin {"ACCEPT"} /\ data_open /\ sent < MaxK
  /\ sent' = sent + 1 /\ inbox' = inbox + 1
  /\ UNCHANGED <<capture, cmds, cmd_open, data_open, out>> /\ EnvironmentOnly

ClientCloseCmd ==
  /\ cmd_open /\ cmd_open' = FALSE
  /\ UNCHANGED <<capture, cmds, data_open, sent, inbox, out>> /\ EnvironmentOnly

ClientCloseData ==
  /\ data_open /\ data_open' = FALSE
  /\ UNCHANGED <<capture, cmds, cmd_open, sent, inbox, out>> /\ EnvironmentOnly

Environment == LogicPacket \/ TriggerPacket \/ ClientReady \/ ClientCloseCmd \/ ClientCloseData

-----------------------------------------------------------------------------
Next == Connect \/ Scpi \/ DataProgress \/ SessionEnd \/ Environment

Spec == Init /\ [][Next]_vars

\* Both threads are scheduled, and a capture that was stopped ends.
Fairness ==
  /\ WF_vars(ScpiProgress) /\ WF_vars(DataProgress)
  /\ WF_vars(session = "stopping" /\ SessionEnd)

\* A capture is bounded by limit_samples and ends without a stop.
BoundedCapture == WF_vars(SessionEnd)

FairSpec     == Spec /\ Fairness /\ BoundedCapture
StopOnlySpec == Spec /\ Fairness

-----------------------------------------------------------------------------
(***************************************************************************)
(* Properties                                                              *)
(***************************************************************************)

\* A 'K' that was read and has no header yet.
Owed == dpc \in {"shutdown"} \cup Answering

\* "Every 'K' received produces exactly one header response" (run_data_thread):
\* while the data socket is open, each byte the client sent is unread, being
\* answered or answered, whatever the commands do meanwhile.  The one way for
\* a 'K' to stay without a header is the shutdown of the connection.
OneHeaderPerReady ==
  data_open =>
    IF dpc = "done" THEN shutdown
                    ELSE sent = inbox + Len(out) + (IF Owed THEN 1 ELSE 0)

\* The headers of a connection are numbered 0, 1, 2, ... modulo 2^32: no number
\* is skipped or repeated, and none continues the previous connection's.
HeaderSequence ==
  \A i \in 1 .. Len(out) : out[i].seq = IF i = 1 THEN 0 ELSE NextSeq(out[i - 1].seq)

\* The number the next header of this connection has to carry.
Expected == IF out = <<>> THEN 0 ELSE NextSeq(out[Len(out)].seq)

\* The device's counter and the number a 'K' has taken agree with what the
\* client has received, so nothing but an answered 'K' uses up a number.
Numbering ==
  data_open =>
    /\ dpc \in Answering => seq = Expected /\ seqnum = NextSeq(seq)
    /\ dpc \notin Answering \cup {"done"} => seqnum = Expected

\* A libsigrok session runs only inside the acquire of a live data thread: it
\* is never started twice, and when the server waits for the next client no
\* thread and no capture of the previous one is left.
CaptureOwned ==
  /\ session # "idle" => dpc = "run"
  /\ dpc = "none" <=> cmd = "ACCEPT"

\* The data thread holds a capture until it has answered with it, or found that
\* it has no samples.
Capture ==
  IF session # "idle" THEN "running"
  ELSE IF dpc \in {"force", "scanConfig", "scanPrev", "scan"} \/ (dpc = "reply" /\ data)
         THEN "done" ELSE "idle"

\* The answer that the data thread writes is a waveform.
SendsWaveform == dpc = "reply" /\ dpc' \notin {"reply", "done"} /\ SendReal

\* A waveform is written of a capture that is complete, and of each at most
\* once: the session whose callback fills the buffer has ended, and the buffer
\* goes with the answer (acquire takes it, run_data_thread drops it).
CaptureCycle ==
  [][ /\ SendsWaveform => Capture = "done" /\ Capture' = "idle"
      /\ <<Capture, Capture'>> \in {<<"idle", "idle">>, <<"idle", "running">>,
           <<"running", "running">>, <<"running", "done">>, <<"running", "idle">>,
           <<"done", "done">>, <<"done", "idle">>} ]_vars

\* A connection whose two sockets the client closed ends, and the server is
\* ready for the next client (main's accept loop), if captures end.
Released == BoundedCapture => ((~cmd_open /\ ~data_open) ~> (cmd = "ACCEPT"))

\* README: on disconnect the next client can connect.  The connection is over
\* for the server when the command stream ends.
ReleasedOnCommandEof == (cmd = "CLOSE") ~> (cmd = "ACCEPT")

\* STOP frees the data thread (run_data_thread: "keeps STOP responsive", a
\* capture blocks "until sr_session_stop() interrupts it"): it gets back to
\* reading unless the client arms again.
StopFrees == At("STOP", 3) ~> (dpc \in {"read", "done"} \/ cmd \in Arming \cup {"FORCE"})

\* A STOP that finds the session running does.
StopInterrupts == (At("STOP", 3) /\ session = "running") ~> (dpc \in {"read", "done"})

(***************************************************************************)
(* The implementation of RequestReply.  A client is hanging up from the    *)
(* moment it closes one of its sockets, or the server gives up on it.      *)
(***************************************************************************)
Phase == CASE cmd = "ACCEPT" -> "closed"
           [] cmd \notin {"ACCEPT", "CLOSE", "JOIN"} /\ cmd_open /\ data_open -> "open"
           [] OTHER -> "closing"

Pending == inbox + (IF Owed THEN 1 ELSE 0)

RR == INSTANCE RequestReply WITH phase <- Phase, pending <- Pending, replies <- out

\* One header per request, numbered without a gap, and none for a request that
\* was not made, whatever the commands do.
ImplementsSafety == RR!RRSafety

\* Every request of a client that stays is answered, if captures end.
ImplementsLive == BoundedCapture => RR!Live
=============================================================================
