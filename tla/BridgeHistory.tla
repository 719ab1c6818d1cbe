---------------------------- MODULE BridgeHistory ----------------------------
(***************************************************************************)
(* BridgeServer with history variables that watch its steps: what the      *)
(* client has asked for last, what it was given since, and which session   *)
(* the persisted trigger state comes from.  They constrain nothing; the    *)
(* properties below relate what the two threads did to each other's        *)
(* commands over several steps.                                            *)
(***************************************************************************)
EXTENDS BridgeServer

VARIABLES
  last,       \* the acquisition command completed last, "none" while one runs
  delivered,  \* real waveforms delivered since then
  raced,      \* the stores of complete_one_shot met the first two of the last
              \*   START or SINGLE
  armed_once, \* this client has sent START, SINGLE or FORCE
  marked,     \* captures delivered as forced since FORCE raised the flag
  met,        \* the last SINGLE or FORCE overlapped the completion of a capture
  answered,   \* a capture that ends an acquisition was answered since it was complete
  acq_old,    \* the capture in progress began before a START, SINGLE or FORCE
  state_old,  \* so did the capture that persisted last_trigger_state since
  prev_old,   \* this capture compares against such a state
  stale,      \* number of such comparisons since the last reset
  overlap     \* the last START, SINGLE or FORCE met a capture in progress, or an
              \*   earlier one did and the state it left is not reset yet

history == <<last, delivered, raced, armed_once, marked, met, answered, acq_old, state_old,
             prev_old, stale, overlap>>

HInit ==
  /\ Init
  /\ last = "none" /\ delivered = 0 /\ raced = FALSE /\ armed_once = FALSE /\ marked = 0
  /\ met = FALSE /\ answered = FALSE
  /\ acq_old = FALSE /\ state_old = FALSE /\ prev_old = FALSE /\ stale = 0
  /\ overlap = FALSE

-----------------------------------------------------------------------------
(* Events of a step. *)

Connected     == cmd = "ACCEPT" /\ cmd' = "IDLE"
Begins(C)     == cmd = "IDLE" /\ cmd' \in C
Completes(C)  == cmd \in C /\ cmd' = "IDLE"
DeliversReal  == Len(out') > Len(out) /\ out'[Len(out')].real
Took(from)    == dpc = from /\ dpc' # from
Resets        == Completes(Arming \cup {"FORCE"}) \/ Connected
InCapture     == {"run", "force", "scanConfig", "scanPrev", "scan"}
Kept          == {"SINGLE", "FORCE"}
InCompletion  == dpc \in {"storeRunning", "storeArmed"}

HistoryStep ==
  /\ last' = IF Connected \/ Begins(Commands) THEN "none"
             ELSE IF Completes(Commands) THEN cmd ELSE last
  /\ delivered' = IF Connected \/ Completes(Commands) THEN 0
                  ELSE IF DeliversReal THEN delivered + 1 ELSE delivered
  /\ raced' = IF Connected \/ Begins(Commands \ Arming) THEN FALSE
              ELSE IF Begins(Arming) THEN InCompletion
              ELSE raced \/ (cmd \in Arming /\ step = 2 /\ InCompletion)
  /\ armed_once' = IF Connected THEN FALSE
                   ELSE armed_once \/ Begins(Arming \cup {"FORCE"})
  /\ marked' = IF Connected \/ Begins({"FORCE"}) THEN 0
               ELSE IF DeliversReal /\ trig = "forced" THEN marked + 1 ELSE marked
  /\ met' = IF Connected \/ Begins(Commands \ Kept) THEN FALSE
            ELSE IF Begins(Kept) THEN dpc \in Completing
            ELSE met \/ (cmd \in Kept /\ dpc \in Completing)
  /\ answered' = IF Connected \/ Begins(Commands) THEN FALSE
                 ELSE answered \/ (Took("reply") /\ (SkipCheck \/ Triggered))
  /\ acq_old' = IF Took("start") \/ dpc' \in {"read", "done"} THEN FALSE
                ELSE acq_old \/ (Begins(Arming \cup {"FORCE"}) /\ dpc \in InCapture)
  /\ overlap' = IF Resets THEN acq_old'
                ELSE overlap \/ (Begins(Arming \cup {"FORCE"}) /\ dpc \in InCapture)
  /\ state_old' = IF Resets THEN last_trigger_state' # None
                  ELSE IF Took("scan") /\ last_trigger_state' # None
                       THEN IF ScanEdge THEN acq_old /\ cmd \notin Arming \cup {"FORCE"}
                                     ELSE IF prev THEN prev_old ELSE state_old
                       ELSE state_old
  /\ prev_old' = IF Took("scanPrev") THEN prev' /\ state_old /\ ~acq_old
                 ELSE prev_old /\ dpc' = "scan" /\ ~Resets
  /\ stale' = IF Resets THEN 0
              ELSE IF ScanEdge /\ prev_old THEN stale + 1 ELSE stale

HNext == Next /\ HistoryStep
HSpec == HInit /\ [][HNext]_<<vars, history>>

-----------------------------------------------------------------------------
(* Properties *)

\* After STOP the client gets at most one more real waveform, the one whose
\* 'K' had passed the running check: STOP cannot be undone by the data thread.
StopBound == last = "STOP" => delivered <= 1

\* After SINGLE the client gets at most one real waveform, even when SINGLE
\* arrives in the middle of a continuous capture: "one waveform, then stop".
SingleBound == last = "SINGLE" => delivered <= 1

\* After START the device stays running and armed until the next command,
\* unless complete_one_shot, having loaded the one_shot of an earlier SINGLE,
\* was on its way to its stores before START had stored its own.
StartKept == last = "START" /\ ~raced => running /\ trigger_armed

\* A SINGLE or FORCE whose stores met no completion keeps the device running
\* and armed, and FORCE its flag, until a capture is answered that ends an
\* acquisition: a load of running or one_shot that goes stale, or the clearing
\* of another FORCE's flag, loses only commands that overlapped it.
KeptUntilAnswered ==
  last \in Kept /\ ~met /\ ~answered =>
    running /\ trigger_armed /\ (last = "FORCE" => force_trigger)

\* One FORCE marks at most two delivered captures: the one that was waiting
\* for its trigger and the one that finds the flag at its beginning.
ForceBound == marked <= 2

\* No waveform reaches a client that has not armed: nothing of the previous
\* client's acquisition state is left after reset_for_new_connection.
NoInheritedRun == (\E i \in 1 .. Len(out) : out[i].real) => armed_once

\* No capture is compared with a state from before the last START, SINGLE or
\* FORCE, unless that command met a capture in flight, which persists its end
\* state after the command's reset.
FreshUnlessOverlap == stale > 0 => overlap

-----------------------------------------------------------------------------
(* What comments and documents say, and the code does not keep to. *)

\* run_data_thread: a completed capture leaves START running, "because
\* one_shot=false".
StartStaysRunning == last = "START" => running /\ trigger_armed

\* BridgeDevice::clear_force_trigger: "exactly once per FORCE so the next K
\* sees normal trigger semantics again".
ForcedOnce == marked <= 1

\* SINGLE is "one waveform, then stop": it does not stop before the waveform.
SingleDelivers ==
  last = "SINGLE" /\ data_open /\ ~trigger_armed => delivered = 1

\* trigger.rs: callers must reset the state when a new acquisition session
\* starts, so no capture is compared with one from before that.
FreshState == stale = 0
=============================================================================
