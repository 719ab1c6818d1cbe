# sigrok-bridge-server in TLA+

TLA+ models of the bridge server, the TLC runs that check them on small
instances, and proofs for every instance that TLAPS checks.  The program is
small, but two threads, a driver that blocks, a client that hangs up when it
likes and a build cache that survives failed builds make it hard to test.

    tlc -config BridgeHistory.cfg BridgeHistory     # one of the runs below
    tlapm BridgeServerProofs.tla                    # the proofs

Paths are relative to the repository's root.

## The system

| Part | State | Operations | Interacts through |
|---|---|---|---|
| `sigrok-bridge/src/main.rs` | none | open the device, set the first rate and depth, accept clients one after another | calls |
| `sigrok-bridge-common/src/twinlan.rs` | two listeners and their backlogs | `bind`, `accept` | two TCP ports; pairs by order of arrival |
| `sigrok-bridge-common/src/server.rs` | the data thread's locals | `handle_client` (reset, spawn, command loop, shutdown, join), `run_data_thread` (a 'K' in, a header and perhaps samples out) | the `BridgeDevice` that both threads share |
| `sigrok-bridge-common/src/scpi_handler.rs`, `scpi.rs` | none | one command line in, one reply out | calls on the device |
| `sigrok-bridge/src/sigrok_device.rs` | `running`, `one_shot`, `force_trigger`, `trigger_armed`, `shutdown`, `seqnum`, `sample_rate`, `sample_depth` (atomics); `trigger_config`, `last_trigger_state`, the callback's buffer (mutexes); the libsigrok session | `start`, `single`, `stop`, `force`, `set_*`, `acquire`, `complete_one_shot`, `reset_for_new_connection`, ... | both threads; libsigrok, which calls `datafeed_callback` inside `sr_session_run` |
| `sigrok-bridge-common/src/trigger.rs` | none; the caller keeps `prev_state` | `find_trigger_digital`, `find_trigger_analog` | called by `acquire` |
| `sigrok-bridge-common/src/types.rs`, `protocol.rs`, `device.rs` | none | types, encoding, the device trait | |
| `libsigrok-sys/src/lib.rs` | none | declarations of libsigrok and glib | |
| `libsigrok-sys/build/` | files in `OUT_DIR` and in a download cache | `build_all`, `build_libsigrok`, `build_libsigrok_cross`, the MSYS2 bootstrap | the file system, from one run of `cargo build` to the next |

What is hard, and what makes each part correct:

* **Client session.** The SCPI thread stores the flags one at a time while the
  data thread reads them one at a time, and a capture blocks for as long as
  the driver likes.  Every 'K' must get one header, numbered in order, whatever
  the commands do; a command must not be undone by the completion of an older
  capture; the connection must end and leave nothing to the next one.
* **Capture.** The scan for the trigger continues over the gap between two
  buffers by a persisted level; the crop shifts the buffer under the trigger.
  The first edge must be found, no edge twice, and the trigger must stay where
  it is.
* **Configuration.** A driver refuses, clamps, or cannot read back a value;
  what the bridge advertises and labels must be what the device does.
* **Accepting.** Two ports and no identity of clients: a pair of streams must
  be one client's.
* **Command stream.** Clients configure the device one after another by lines
  without tags or acknowledgements, and leave when they like.  What is set must
  be what was sent, and a reply must belong to its query.
* **Data stream.** A waveform is a header and samples of which nothing marks
  the end.  The counts in the header, the samples written and the place of the
  trigger must agree, or the client loses its place for good.
* **Build cache.** A build fails anywhere, sources change between and under
  builds, two builds run at once over one cache; what is linked must be what the
  sources say, and a build repeated must succeed.

The C++ client and the fake bridge that the documents mention are not in the
repository; a client is an environment here, which sends 'K's and commands and
closes its sockets in any order.

## The modules

| Module | Models | Run |
|---|---|---|
| `BridgeServer` | one client after another: SCPI thread, data thread, shared atomics, session | `server_refinement` |
| `BridgeHistory` | `BridgeServer` and history variables over its steps | `client_session` |
| `RequestReply` | what the data socket promises (abstract) | |
| `LabelledSession` | `BridgeServer` and `DeviceConfig` together: RATE and DEPTH in a session | (proved) |
| `BridgeServerProofs` | theorems of `BridgeServer`, `BridgeHistory` and `LabelledSession`, one of `TwinLan` | |
| `Acquisition` | what is in a capture: packets, FORCE, scan, persisted state, crop | `acquisition` |
| `AcquisitionProofs` | theorems of `Acquisition` | |
| `CommandStream` | lines and replies on the command socket, the configuration they leave | `command_stream` |
| `CommandStreamProofs` | theorems of `CommandStream` | |
| `ChannelLayout` | capture width, byte groups, channel names (operators) | |
| `DataStream` | header, chunks, socket and client of a waveform, over `ChannelLayout` | `data_stream` |
| `DataStreamProofs` | theorems of `DataStream` | |
| `DeviceConfig` | the start of the program, RATE and DEPTH, the labels of a waveform | `device_config` |
| `DeviceConfigProofs` | theorems of `DeviceConfig`, one of `ConfigRange` | |
| `ConfigRange` | the expansion of a driver's (min, max, step) | `config_range` |
| `TwinLan` | the accept loop and its two backlogs | `accept_pairs` |
| `LibsigrokBuild` | the stamp of libsigrok.a over many runs of the build | `libsigrok_stamp` |
| `LibsigrokBuildProofs` | theorem of `LibsigrokBuild` | |
| `DependencyBuild` | the libraries before it, and the download cache that builds share | `dependency_build` |
| `DependencyBuildProofs` | theorem of `DependencyBuild` | |
| `CrossBuild` | the MSYS2 sysroot, its manifest and package cache, and libsigrok built against it | `cross_build` |
| `CrossBuildProofs` | theorems of `CrossBuild` | |

`BridgeServer` composes the session's parts, since they share the device, and
`LabelledSession` puts the configuration beside them.  The
other modules take one concern each and name in their head what they leave to
which module; where one assumes what another shows, the property is named
(`TwinLan`'s fairness of `HandleClient` is `BridgeServer`'s `Released`;
`BridgeServer`'s `HaveData` is `Acquisition`'s `DeliversSamples`).

### BridgeServer

A step is one atomic access, one mutex section or one socket operation; what
only one thread can see is merged into the step before it.  All atomics are
`SeqCst`, so interleavings of these steps are the behaviours of the program.

* `cmd` and `step` are the SCPI thread: at `"ACCEPT"` it waits for a client, at
  `"IDLE"` for a line, otherwise `step` is the next store of the command.
  START is `StartRunning`, `StartOneShot`, `StartForce`, `StartArmed`,
  `StartReset`, the five stores of `start()` in the code's order; SINGLE
  differs in one value, FORCE and STOP have their own.  `ReadEof` and
  `ReadError` end the command loop, `CloseStop` is the second half of
  `request_shutdown`, and `Join` waits for the data thread.
* `dpc` is the data thread.  It goes `read`, `shutdown`, the two gates of the
  readiness check, `config` and `isForce`, through `acquire` (`start`, `run`,
  `force`, `scanConfig`, `scanPrev`, `scan`), `reply`, and the completion
  (`complete`, `storeRunning`, `storeArmed`, `clearForce`).
* `session` is libsigrok's: `running` from `sr_session_start`, `stopping` after
  a stop that found it running.  A stop that finds it idle does nothing.
* A trigger configuration is a member of `Keys`, or `None`.  What a capture
  contains is the driver's choice: samples or none, a trigger packet or none,
  and what its scan finds.  `Acquisition` has the samples.

* Writing a reply or a header is a step that does not block: a client takes what is
  sent to it.  What becomes of one that does not is `CommandStream`'s subject for
  replies and `DataStream`'s for waveforms.

`RequestReply` has five steps: open, request, answer, hang up, close; answers
carry consecutive numbers.  The mapping: a client is `open` while both sockets
are and the server has not given up on it; `pending` counts the 'K's that are
unread or being answered; `replies` are the headers.

### Acquisition

A capture is a sequence of sample values.  `Side` is where a value lies of the
threshold (a level of a channel for a digital source), and is all that
`find_trigger_digital` and `find_trigger_analog` look at, so the two are one
loop here.  A source is present in the sample, absent (past the unit size, the
functions' early return), or unparsed (no D or A channel).  A step of the loop
is a sample; `Persist` stores the end state under the key.  `mark` remembers the
last sample that was scanned, `hit` and `captured` what the crop began with.

### CommandStream

A line is a head, an argument and whether its end came: `read_line` returns what
precedes the end of the stream as a line, so a client that leaves in the middle
of one (`HangUpInLine`) may leave nothing that parses, a shorter number (a quotient by
a power of ten), a channel without its index, or all of it.  `config` is what the
device keeps, `intended` what the requests stand for under the program's limits;
an action per kind of command reads the first pending line.  `Connect` keeps
what `reset_for_new_connection` keeps.  A reply takes one of `Room` places in the socket
until the client reads it (`Receive`); where there is none, `send_reply` blocks, and with
it the thread that reads commands.  A client may close its side only and read on, or all
of the connection (`gone`), at which a reply that is due fails.

### DataStream and ChannelLayout

`Open` is the start of the program with any width, layout and driver; then each
'K' gets any capture the driver may deliver, as an empty header or as a
waveform.  A byte is its position in the capture, a header one item; `outbox` is
what `write_all` has left to write, `wire` what the client has not read, and
`Receives` the client, which counts `num_samples * unit_size()` bytes behind a header.
A capture that is not in whole samples of the announced width sets `odd`:
no client can find its place behind one.  Arithmetic is that of a release build,
with a small i64, which every rate fits (`RatesAssumption`).

### DeviceConfig and ConfigRange

The driver has a configuration of its own.  The start is the order of calls in
`open` and `main`, each of which may fail; `RateSet` and `RateGet` are the two
calls of `set_rate`.  `SendWaveform` writes the rate that is stored now beside
the rate the capture ran at, which only the model knows.  `ConfigRange` is the
loop of `parse_gvariant_uint64_list`, step by step, with a small `u64`.

### LabelledSession

Alone, `DeviceConfig` lets a capture begin and end when it likes.  Here its capture is
the data thread's: `Capture` is `running` while the session does, `done` until the
thread has answered with it or found no samples, and otherwise `idle`.  A step of
the server (`ServerStep`) is for the configuration what it does to this capture
(`CapturePart`), so `SendsWaveform` writes the header that is labelled.  A step of the
configuration (`ConfigStep`) is one of main's start, before there is a client, or one
of a RATE or DEPTH, which the SCPI thread begins at `"IDLE"` and completes before it reads
the next line.  `hasty` remembers that a RATE was in progress since a 'K' is outstanding.

`LabelOfCapture`: a label is right whatever STOP, SINGLE, FORCE and disconnects do, if no
RATE is in progress while a 'K' is outstanding, and the last one could read the rate
back.  Waiting for the reply to STOP is not enough: `LabelAlways`, without `~hasty`, is
violated, as a STOP may come before the session it should stop.  (A client that sends its
'K' after the reply to a query that it sent after RATE, and its next RATE after the
header, keeps to this.)  The property is proved, and no run is listed.  Before the proof,
TLC checked it and the invariant it rests on, with two rates, one width, no trigger
source, two 'K's and two commands per connection: 1.7 million states under the view
`Seen`, which leaves out the last header, `result`, `before` and `sample_depth`.  No guard
and no part of the property reads those, and nothing in the view is computed from them,
so states that differ in them alone have the same future.

### TwinLan

Backlogs are sequences of clients.  `AcceptError` is any of accept, `set_nodelay`
and `try_clone` failing, before or after a connection was taken.

### LibsigrokBuild, DependencyBuild and CrossBuild

A run of the build is a sequence of steps over what `OUT_DIR` holds; it can
fail, or be killed, at each of them, and the next starts over.  A source is a
member of `Commits` (its content); `mode` says where it comes from.  `Ids` is
what `libsigrok_src_rev` may make of it: a `git rev-parse` that fails leaves no identity, a
`git status` that fails hides that the tree is dirty.  In `LibsigrokBuild`, `torn`, `moved` and
`unseen` remember of the library in place whether its run ended between install and
stamp, whether files changed under it, and whether it took a dirty tree for its commit.

In `DependencyBuild` builds share the archives and the temporary name that `fetch`
downloads to.  A file has the build that emptied it last beside its state, and
`fd` is the place that a downloading build's open file has by now: a rename takes
other writers along, a removal leaves them without a name.  `met` and `poisoned`
remember of an archive whether two builds downloaded it at a time and whether
one of them was cut short while its file was another's archive.

In `CrossBuild` a package has the version it was resolved at.  `FastPath` follows the
manifest, `ColdPath` asks pacman, and both unpack package by package; the
manifest is written in place, and one with a line that was cut, or that two builds
wrote over each other, is as good as none.  (A manifest is small enough for one
`write`, so the builds do not mix within it otherwise.)  pacman holds `lock` while it
downloads, and fails where it finds it; a pacman that is killed leaves it, in a
directory that outlives `cargo clean`.  `Fetch` takes the archive of libsigrok as the
shared cache has it, `"cut"` if another build has spoilt it (`SpoilArchive`, which stands for what
`DependencyBuild` calls `poisoned`), and `Install` needs a whole one.  `torn`, `short` and `pin`
remember of a build whether its unpacking was cut short, whether its manifest was,
and which version a whole manifest promised.

## What the runs check

Each module states its types as `TypeOK`.  The run of `BridgeHistory` checks it, and it is
proved of `BridgeServer`, `Acquisition` and `DeviceConfig`; in the other modules it documents
the variables, and holds under the same cfg.  Their proofs have a `Typed` of their own, with
what the argument needs of the types.

**client_session** (`TypeOK`, `OneHeaderPerReady`, `HeaderSequence`,
`CaptureOwned`, `Numbering`, `StopBound`, `SingleBound`, `StartKept`,
`KeptUntilAnswered`, `ForceBound`, `NoInheritedRun`, `FreshUnlessOverlap`).  Two configurations, one
that can be scanned and one that cannot, three 'K's and two commands per
connection, any number of connections, and a sequence number modulo 3.  Three
'K's are a capture before a command, one under it and one after it, and wrap the
number; two commands are what every race here takes (one that starts a capture
and one that meets it).  About 2.5 million states.  It shows that each 'K' is
answered once and in order; that a session runs only inside `acquire`, never
past its connection; that STOP and SINGLE are followed by at most one more
waveform; that START stays running unless it overtook a completion that had
loaded `one_shot` (and only then); that SINGLE and FORCE are lost only to the
completion of a capture that overlapped them or was answered since, so that
neither a failed load, nor FORCE's look at `running`, nor the clearing of another
FORCE's flag loses one that came after; that a FORCE marks at most two captures;
that nobody who has not armed gets a waveform; and that a stale level is
compared with only after a command met a capture in flight.

**server_refinement** (`ImplementsSafety`, `ImplementsLive`, `Released`,
`StopInterrupts`, `CaptureCycle`), with two 'K's and two commands per connection, since a STOP
has to find a capture that another command started.  The specification is
`StopOnlySpec`: both threads are scheduled and a capture that was *stopped* ends,
but one that was not may run for ever.  `ImplementsLive` and `Released` add their
premise `BoundedCapture`, that captures end; `StopInterrupts` must not.  `CaptureCycle` says that
a waveform is written of a capture that is complete and of each at most once.

**acquisition** (`FirstEdge`, `Continuity`, `CropAnchors`, `DeliversSamples`).  Captures of
up to three samples of two values, one after another, a source of each kind,
both edge directions and either, hardware triggers and FORCE, one sample of
pretrigger (with none, where `DeliversSamples` makes its exception, the cfg holds too).
Three samples are one before, at and after every boundary the
code has (baseline, loop, end; crop to the left of, at and past the trigger).

**device_config** (`LabelHonest`, `AdvertisedSupported`).  Three rates, two
depths, two widths, the smaller one asked for, and a bandwidth that rules out one
rate at the larger, which the driver may choose instead: the advertised lists
differ.

**config_range** (`Expansion`).  All 512 triples over 0..7 and a limit of 4:
saturation, a step of zero, an empty range and a cut list all occur.

**accept_pairs** (`PairOwn`, `Served`).  Three clients: one served, one half
connected and one that comes after.

**libsigrok_stamp** (`LinkedIsCurrent`).  Three sources, one of them with the
patch's changes in it, two patches, three changes of the developer's: away,
back, and a change in between.  Either git command may fail in any run.

**command_stream** (`ConfigAsSent`, `RepliesMatch`, `Answered`).  Two clients and two
whole lines, and one that is cut for each client: what one client leaves, the
next one finds.  Room for one reply, so that a second query blocks the thread until the
first reply is read.  `Answered` has a premise, `ClientReads`: a client does not leave its
replies unread for ever, unless it goes.  The numbers 1, 12 and 123 are a rate that is taken, one that the
driver refuses and one that does not parse, and each is the next one cut short.

**data_stream** (`BytesNamed`, `WholeWaveforms`, `TriggerPlaced`, `Completes`, `Ends`).
`--max-channels` of 8, 24 (refused) or none, devices of 4 and 16 channels and drivers
that keep either width; analog tokens with and without prefix and number, in
and out of range; two 'K's, captures of up to three bytes, chunks of two samples
and room for two items in the socket: a chunk that is full, one that is short and
a capture of one and a half samples occur, and the writer blocks in the middle
of a chunk.  Two rates, and an i64 that the latest trigger at the lower rate does
not fit.  About 690 000 states.

**dependency_build** (`CacheWhole`, `CleaningInstalls`).  Two builds, two libraries, one
that removes its build directory first (libffi) and one that does not (all
others), two interruptions: one for the build that spoils a download and one
for the build that meets it.

**cross_build** (`SysrootWhole`, `Pinned`, `Recovers`).  Two builds, three packages with
the sentinel's in the middle, so that packages before and after it may be missing; two
versions; two interruptions or losses, of which one tears and one meets it.  `Recovers`
excepts what another run finds as it was: a torn sysroot, a short manifest, a cut
archive and the lock of a killed pacman.  That pacman is refused while another build
downloads is no exception.  About 600 000 states.

### Where the code and its documents part

One run ends in a violation of what a comment says:

* **stale_library** (`ChangedSourceRebuilds`): a build that fails between install and stamp
  leaves its library under an older stamp, and a return to the older source
  links it.  `LinkedIsCurrent` is what remains true.

The modules state more of the kind, which TLC refutes when the property takes
the place of the others in a cfg (`BridgeHistory` ones with at most two
commands, unless said):

| Property | Says | What happens |
|---|---|---|
| `BridgeHistory!StartStaysRunning` | server.rs:244, "START stays running because one_shot=false" | `complete_one_shot` loads, then stores; a START between is left stopped (`StartKept` remains true) |
| `BridgeHistory!ForcedOnce` | device.rs:40, the flag is cleared "exactly once per FORCE" | FORCE during a capture marks that one and the next (`ForceBound`) |
| `BridgeServer!ReleasedOnCommandEof` (fair) | README.md:239, "On disconnect, the device is released" | a client that closes only its command socket keeps the server (`Released`) |
| `BridgeHistory!SingleDelivers` | docs/SCPI-PROTOCOL.md:25, SINGLE is "one waveform, then stop" | without a trigger source a failed or empty capture disarms it |
| `BridgeHistory!FreshState` (three commands) | trigger.rs:10, callers must reset the state on Start, Single, Force | a capture in flight stores its level after the reset |
| `BridgeServer!StopFrees` (`StopOnlySpec`) | server.rs:195, a capture blocks "until sr_session_stop() interrupts it" | a STOP before `sr_session_start` is lost |
| `Acquisition!PreviousAcquisition` (`Hardware = FALSE`) | trigger.rs:3, the state "at the end of the previous acquisition" | a capture that is not scanned leaves an older one's |
| `DeviceConfig!LabelIsRate` | protocol.rs:28, the label is the waveform's rate | it is the rate of the moment it is sent |
| `DeviceConfig!RateRemains` | scpi_handler.rs:89, "Active rate remains" | the driver's has changed if only the read-back failed |
| `DeviceConfig!WireFraming` | docs/SCPI-PROTOCOL.md:86 | the header announces the width asked for, the samples have the driver's |
| `TwinLan!PairAlways` | twinlan.rs:12, a "client connection pair" | two clients at once, or one that leaves half connected |
| `LibsigrokBuild!CrossTracksCommit` | build.rs:18, override the commit "to track a different" one | the cross build has no stamp |
| `LibsigrokBuild!DirtyRebuilds` | common.rs:70, the identity is HEAD "(+ `-dirty`)" | where `git status` fails a dirty tree gets its commit's, and its stamp is trusted (`LinkedIsCurrent`) |
| `CommandStream!AnsweredAlways` (fair) | docs/SCPI-PROTOCOL.md:12, a query has a "Response" | a client that asks and does not read its replies stops the thread (`Answered`) |
| `CommandStream!OnlyWholeLines` | docs/SCPI-PROTOCOL.md:7, commands are "newline-delimited" | a line that a disconnect cuts is executed (`ConfigAsSent`) |
| `DependencyBuild!NeverPartial` | deps.rs:3, whose builders take the archive as it is | a build cut short may own the file that another one has renamed (`CacheWhole`) |
| `DependencyBuild!Installs` | deps.rs:3, each builder "is idempotent" | a partly unpacked directory is used for ever |
| `CrossBuild!Idempotent` (fair) | msys2.rs:44, bootstrap is "Idempotent" | the lock of a pacman that was killed stops all later ones (`Recovers`) |
| `DependencyBuild!SentinelWhole` | deps.rs:3, the sentinel | it is installed before the rest of the library |

`StopBound` is what remains of server.rs:139, "STOP mid-capture ... empty header
returned": the samples collected so far may be delivered.  docs/SCPI-PROTOCOL.md
lists a command `ADC:MODE`, which `parse_scpi_line` does not know; it is an ignored
line.  msys2.rs:59 promises "byte-identical sysroots" for "two cold builds of the same
commit", which holds while the manifest stays whole and its packages cached
(`Pinned`).  An interrupted unpacking that got past the sentinel is another way in which the
bootstrap is not idempotent (`SysrootWhole` and `Recovers` except it).

## Fairness

* `ScpiProgress` and `DataProgress`, weakly fair: both are threads of the operating
  system, and neither waits for the other but in `Join`.  Reading a command or
  a 'K' is not part of them, being the client's choice.  That they are not held up by a
  client which does not read is an assumption of this module.
* `session = "stopping" /\ SessionEnd`: `sr_session_run` returns after
  `sr_session_stop`, which is its contract.
* `BoundedCapture`, a premise: drivers stop at `limit_samples` (`acquire`'s comment says
  so).  With a driver that waits for a hardware trigger it is not given, so
  nothing about STOP rests on it.
* `TwinLan`: the accept loop runs, `handle_client` returns once both owners have
  left, a client makes both connections and at some time is done.
* `CommandStream`: the command thread runs (`WF(Serve)`), which is no promise that it can
  write a reply.  That the client reads, or goes, is the premise of `Answered`, not of the
  specification; without it the thread may block for ever, as it does in the code.
* `DataStream`: the data thread runs, and a client that stays reads what is there
  (`WF(Receive)`), without which `write_all` blocks for ever, as it does in the code.  A
  client need not stay, or ask.
* `DependencyBuild`, `CrossBuild`: each build runs on, and is run again after a failure;
  failures from outside are bounded by `MaxFails`.

## What is proved

Each theorem holds for every value of the constants that the named assumptions
of its component's module admit; TLC evaluates these in every run.  An
invariant that a proof rests on was checked by TLC on the run's instance first (that of
`LabelledSession` on the instance named above).

`BridgeServerProofs`, for any `Keys`, `Scannable`, `Pretrigger`, `SeqMod` above one, and any
bounds on 'K's and commands:

* `TypeCorrect`: `Spec => []TypeOK`.  The inductive invariant is `Typed`, `TypeOK` and that no
  more 'K's are unread than were sent, which bounds the inbox.  Its three groups
  (booleans, control, data) are each kept by a lemma with one step per action.
* `Ownership`: `Spec => []CaptureOwned`, inductive with the types: only `SessionStart` leaves
  idle, only the return of `sr_session_run` leaves `"run"`, and `Join` waits for
  `"done"`.
* `OneHeader`, `Sequence` and `Numbered`: `OneHeaderPerReady`, `HeaderSequence` and `Numbering`.
  The sequence is not inductive: a header's number comes from a counter the client
  never sees.  `HeaderInv` adds `Numbering`, that this counter and the number a 'K' took
  are those that the headers received call for.  The lemma `Kinds` first reduces the
  steps to nine kinds by what they do to sockets and numbers; `HeadersKept` then goes
  through the kinds.
* `Implementation`: `Spec => ImplementsSafety`, that is, `RequestReply` with the mapping above.
  `MapInv` is the three invariants together and `ShutdownInv`: the shutdown flag is up only
  when the server gives up on a client, so that the 'K' the data thread drops on
  it is one of a connection that is closing.  `StepMaps` goes through the kinds again.
* `WaveformOnce`: `Spec => CaptureCycle`.  `CycleKinds` sorts the steps by what they do to the
  capture, with `Ownership`, without which a connection could end around one.
* Of `BridgeHistory`, all seven bounds: `AtMostOneAfterStop` (`StopBound`), `AtMostOneAfterSingle`
  (`SingleBound`), `StartStaysInForce` (`StartKept`), `KeptInForce` (`KeptUntilAnswered`), `AtMostTwoForced`
  (`ForceBound`), `NothingInherited` (`NoInheritedRun`), `ComparedFresh` (`FreshUnlessOverlap`).  `Watches`
  carries the facts above over, since the history constrains nothing.  `RunKinds` sorts the
  steps once more, by what they do to the run state.  None of the bounds is
  inductive; what they need is where the data thread may be when the command that
  counts is complete.  `StopInv`: after a STOP that was complete the device is not running, and
  the thread has one capture under way at most, none once one was delivered.  `SingleInv`:
  `one_shot` is up, so the capture that is delivered takes the run back before another 'K' is
  read.  `StartInv` and `KeptInv` say, store by store of the command, what is in force by then
  and which stores of a completion cannot be on their way.  `ForceInv`: once a forced
  capture was delivered, the next one knows of the flag and lowers it, or finds it down.
  `ArmedInv` finds nothing running before a client arms, and `OverlapInv` follows an old level
  from capture to stored state to comparison.
* `PairsOwn`: `Spec => []PairOwn` of `TwinLan`, for any number of clients.  While the history is
  clean, the command connections not paired yet (`Unpaired`) belong to the same clients, in the
  same order, as the data connections that wait, but for one client who is half
  connected and comes last (`InStep`).
* Of `LabelledSession`, `LabelsCapture`: `LSpec => []LabelOfCapture`, for any rates and
  bandwidth.  `RateStored` is that a rate which was read back is the driver's; `RateKept`
  that a capture runs at the driver's rate unless a RATE overlapped it, and then `hasty`
  is up, since a capture has its 'K' outstanding (`HeldNext`, from `Ownership`).

`AcquisitionProofs`, for buffers of any length, any number of values, sources and any
pretrigger:

* `AcquisitionTyped`; `ScanFindsFirstEdge`, whose loop invariant `LoopInv` says that no
  sample before the index is an edge and that the baseline is the sample before it;
  `ScanContinues`, with `PresentStates` (only a source in the sample persists a level);
  `CropKeepsTrigger`, with `Placed` (the trigger lies within the samples, or at their
  end when a trigger packet came last); and `EmptyIsNoLoss`, which `BridgeServer` builds on,
  from the same invariant.

`DeviceConfigProofs`, for any rates, depths, widths and bandwidth:

* `ConfigTyped` and `RatesSupported`, with `Starting`: before the rates are listed none is
  advertised, so the width cannot change under the list.
* `LabelsHonest`, with `Labels`: a rate that was read back is the driver's (`RateRead`), a capture
  that no RATE command overlapped runs at the driver's rate (`CaptureRate`), and
  between the change of a rate and its read-back the stored one counts as unread.

* `RangeExpanded`: `Spec => []Expansion` of `ConfigRange`, for any range, any width of the counter
  and any limit.  `Counted`: when the list has `i` values they are `min + n * step` for `n` below `i`,
  saturated, and the counter is the one for `n = i`; so the first value past `max` ends it.

`CommandStreamProofs`, for any requests, any text of a cut line and any number of clients:

* `Configured`: `Spec => []ConfigAsSent`.  The property speaks of the moment when no line is
  unread; the invariant `TrailInv` speaks of every moment: there is a trail of configurations,
  one for each unread line, from the device's to the one the client means, and a step
  along it executes a line.  `MeansExecutes` is the heart of it: what a request means under
  the program's limits is what its line does.  A line cut by the end of the stream may
  lead elsewhere, and `CutInv` says that it is the last one.
* `RepliesInOrder`: `Spec => []RepliesMatch`, with `RepliesInv`: the replies and the queries
  unread are together those asked.

`DataStreamProofs`, for any device, layout, capture, rate, chunk and room in the socket:

* `Waveforms`: `Spec => []WholeWaveforms`.  What is in the socket and what `write_all` has left
  are one sequence, `Queued`, whatever the room in between.  In it every item is
  followed by the one that is due (`Chain`): a header or a byte with bytes left by the byte
  after it, the last byte by a header.  The client's end of the sequence is what it
  still wants (`ClientInv`), the thread's end what is left of its capture (`ThreadInv`).
* `Trigger`: `Spec => []TriggerPlaced`.  The position and the sample time of a header come from one
  load of the rate, so the quotient of the product is the sample (`PlacedInv`).
* `Names`: `Spec => []BytesNamed`, from what `Open` makes of any tokens; `LinesCounted` counts the
  lines of the groups.

`DependencyBuildProofs`, for any number of builds, libraries and interruptions:

* `CacheIsWhole`: `Spec => []CacheWhole`.  An archive is a renamed download, so the same has to
  hold of the download while somebody may rename it (`DownloadHeld`); and whoever
  writes what somebody else may rename, or has renamed, has met that build (`TwoMeet`,
  `RenamedMet`), so that its interruption is one that `poisoned` counts.

`LibsigrokBuildProofs`, for any sources, patches and number of changes:

* `LinksCurrent`: `Spec => []LinkedIsCurrent`.  While no file changes under a run, what it read
  is there still (`RunReads`), so what it unpacks, patches and installs is that
  (`RunBuilds`); hence a stamp that can be trusted names the library in place
  (`StampInv`), until the next run removes the library before it does anything else.  A
  dirty tree that passed for its commit (`unseen`) is the one whose stamp cannot.

`CrossBuildProofs`, for any number of builds, packages, versions and interruptions:

* `SysrootIsWhole` and `VersionsPinned`: `Spec => []SysrootWhole`, `Spec => []Pinned`.  The sentinel
  outlives the run that extracted it, so the invariant has to say what it is worth:
  `Extracts` (the packages so far are of the one version the list has, the list
  is whole unless `short`, and nothing extracted means no sentinel) becomes `Sound` when
  the list ends, and `RerunKeeps` shows that a run which is cut short leaves a sound
  sysroot, no sentinel, or `torn`.  `ManifestInv`: what is recorded lists one version.

`ConfigRange` and `TwinLan` share no variable with the modules their theorems stand beside;
their specifications have names of their own (`RangeSpec`, `LanSpec`), so that one proof module
can extend both.

Only model-checked: liveness and fairness (`ImplementsLive`, `Released`,
`StopInterrupts`, `Served`, `Answered`, `Completes`, `Ends`, `CleaningInstalls`, `Recovers`), which
with ENABLED is out of the prover's reach.  No module uses a RECURSIVE operator, with which
the prover loses its SMT solver, and no theorem needs an induction over data, which
it cannot do.

## What is not modelled

* The spelling of SCPI lines and replies, signs and fractions of numbers, the
  encoding of a header's fields and its `wfms_s`, logging, the declarations of the
  options: they keep no state.
* GVariant shapes other than `(ttt)`; connecting to the device beyond its success
  or failure; patterns.  NaN as a trigger level (its key never matches), unit
  size 0 outside `DataStream`.
* libsigrok, glib and the driver, but as environments.
* `macos.rs`, `build.rs` and the native `windows.rs`: a match on the target, required tools,
  flags and link directives, with no state from one step to the next; the override
  `LIBSIGROK_SRC_REV`; the cross variants of the dependencies, which have the steps of
  the native ones; the choice of a toolchain and of the cache's path.

## Plan

In order; all are done.

1. `BridgeServer`, its abstract specification, its history, types and the safety of headers.
2. `Acquisition`: what `BridgeServer` leaves to the driver's choice, with sample values.
3. `DeviceConfig`, `ConfigRange`, `TwinLan`: what the session assumes of its surroundings.
4. `LibsigrokBuild`, `DependencyBuild`: the build cache.
5. `CommandStream`, `DataStream`, `ChannelLayout`: the two sockets as streams.
6. `CrossBuild`; `DependencyBuild` with builds that run at once.
7. Proofs of the invariants above.
8. A composition of `BridgeServer` with `DeviceConfig`, so that a label is related to the
   commands of a real session.
