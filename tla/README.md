# VoxType in TLA+

Models, model checks and proofs for VoxType, a voice-typing daemon for Linux
desktops (Rust, with a Fcitx5 addon in C++). Paths below are those of the
repository: `src/daemon.rs` is the daemon crate, `crates/...` its libraries.

## The system

A press of a shortcut starts a capture, a second one stops it; the recording is
analysed, sent to one or several speech providers, and the text is handed to the
desktop. One lock guards the daemon (the zbus object `VoxTypeDaemon`): every
D-Bus method and one pass of the loop of `src/bin/voxtyped.rs` run under it.
Recognition runs on a thread per session, which reports through a channel of
capacity one and wakes the loop through another.

| Component | Source | State | Operations | Talks to |
|---|---|---|---|---|
| session state machine | `crates/voxtype-core/src/session.rs` | phase, session, `next_id` | `apply(Command)` | owned by the controller |
| application controller | `crates/voxtype-app/src/controller.rs`, `wake.rs` | machine, event queue (256), result cache (32), registry, provider health and usage, wake token | `apply`, `finish_session`, `drain_events`, `session_result`, `replace_registry`, `plan_route`, `record_route_result` | owned by the daemon; wakes the loop |
| daemon | `src/daemon.rs` | recording and its clock, armed insertion, recognition job, configuration, history, `quit` | Start, Stop, Toggle, Cancel, Reset, ReloadConfiguration, ClearHistory, Quit; `enforce_recording_deadline`, `poll_recognition`, `drain_events` | controller, capture, insertion, workers |
| loop | `src/bin/voxtyped.rs` | where it is | deadline, poll, drain, emit, sleep | the daemon, under its lock |
| recognition worker | `src/daemon.rs:808`, `crates/voxtype-app/src/provider.rs` | its route, its attempts, its token | `run_recognition_route` | providers, result channel, wake |
| routing policy | `crates/voxtype-core/src/routing.rs` | none | `plan`, `may_fallback` | controller, worker |
| Doubao provider | `crates/voxtype-provider-doubao/src/*.rs` | protocol session with its evidence, connection with its buffers, cached token | `recognize`: token, connect, start, frames, finish, drain, close; one refresh | the service |
| curl and command adapters | `src/provider_adapters.rs`, `crates/voxtype-provider-common`, `-rest`, `-deepgram` | staged file, child process and its group | `recognize` | `curl`, the user's command |
| capture | `src/audio.rs` | child process, reader thread, recording file, channel of metrics | start, drain, stop, cancel, drop | the daemon; feeds detection |
| speech detection, calibration | `src/vad.rs`, `src/calibration.rs` | noise floor, threshold, run counters; none | push a frame, analyse, trim; analyse two phases | the daemon, the settings program |
| cleanup | `src/grammar.rs` | none | check, apply edits | the daemon, `voxtype-cleanup` |
| insertion | `src/insertion.rs`, `src/desktop.rs` | arm; clipboard snapshot | arm, commit, cancel; paste and restore | Fcitx bridge, clipboard, paste chord |
| Fcitx bridge, addon | `src/fcitx.rs`, `fcitx5-addon/voxtypebridge.cpp` | armed context, pending and completed requests | ARM, COMMIT2, CANCEL, focus events | datagram socket |
| configuration | `src/config.rs` | a file | create, load, validate, save | all programs |
| settings program | `src/bin/voxtype-settings.rs` | instance file, temporary file | update, save, reload | configuration file, daemon |
| tray | `src/bin/voxtype-tray.rs` | channel of signals (16), what it presented | listen, ask, present | the daemon's signals, the desktop |
| overlay | `src/bin/voxtype-overlay.rs`, `src/daemon.rs` | state file, pid file, window | a process for each message; levels written by the daemon | a QML window |
| command line, cleanup program, client | `src/client.rs`, `src/bin/voxtype.rs`, ... | none | D-Bus calls | the daemon |

What makes the behaviour hard:

* Calls come at any time: Cancel, Quit, Reload or a second Start in the middle of
  a recording or a recognition, and the deadline races all of them.
* A worker cannot be stopped, only asked to stop. It may run, answer or panic
  long after its session is over, and next to the worker of a later session.
* The worker's result and its wake-up are two steps, and the loop may be about to
  sleep for a minute.
* The event queue is bounded. A handler applies several commands, each of which
  can be refused, after it has already changed other state.
* Audio leaves the machine: falling back to another provider is a question of
  consent and of evidence about what was already uploaded, and that evidence is
  gathered from a connection that fails, a process that is killed, a service that
  says what it likes.
* Text is dispatched to another process that answers over datagrams with
  timeouts and one retry, or over a clipboard that a user shares.
* A recording is a process, a pipe and a thread; a stop must lose nothing that is
  still in the pipe, and any of them may fail.
* Programs share files: configuration, instance, overlay state. Each may be
  killed at any step, and a user edits by hand.

What makes each component correct is listed with its module below; PROJECT.json
lists the hazards by line and the properties that cover them.

## The modules

| Module | Models |
|---|---|
| `SessionMachine` | `SessionMachine::apply` as a pure function of a record: `Accepts` (may the command be applied) and `After` (the next machine) |
| `AppController` | the controller's methods `Apply`, `Finish`, `Drained` as functions of the record `app`, and `AppSpec`, the controller driven by arbitrary callers |
| `VoxTypeDaemon` | extends `AppController`: the D-Bus handlers, the loop, the workers, time |
| `Dictation` | the abstract specification that the daemon implements: dictations begin, deliver, end with an outcome, may be withdrawn |
| `RecognitionAnswer` | what a provider may answer: category, retry flag, transport, acceptance |
| `ProviderRoute` | planning, accounting and cooldowns of the controller, and workers that run routes under a replay policy |
| `HonestAttempt` | the abstract specification of one call of `recognize`: the answer never denies audio that was received |
| `DoubaoSession` | the protocol machine of one session with Doubao, under any caller and any service |
| `DoubaoRunner` | extends `DoubaoSession`: token, connection, the driver's loops, deadlines, cancellation, the one refresh |
| `CurlAttempt`, `CommandAttempt` | one recognition through a curl process, or through the user's command and its process group |
| `RequestAttempts` | the two side by side, as instances, with what the routing expects of both |
| `AudioCapture` | recorder, pipe, reader thread, file, channel of metrics, owner |
| `FrameLevel`, `VoiceActivity`, `MicrophoneCalibration`, `TextCleanup` | the level of a frame, the detector, the calibration, the cleanup, each beside a direct definition |
| `FcitxBridge` | clients of the Fcitx5 addon, the datagrams between them, the addon, the focus |
| `DesktopInsertion` | the choice of a backend, the commit, the clipboard beside a user and an application |
| `Configuration`, `ConfigFile` | what a valid configuration is and how the settings program changes it; the file, its writers and readers |
| `InstanceGuard`, `OverlayWindow`, `Tray` | the programs beside the daemon |
| `MCAppController`, `MCVoxTypeDaemon`, `MCProviderRoute`, `MCFcitxBridge` | instances for TLC |
| `MCProviders`, `MCRecording`, `MCDesktop` | instances for TLC that take several components, one at a time |
| `...Proofs` | theorems and proofs |

How they fit together: `VoxTypeDaemon` contains the controller and takes from the
others only what it relies on. A recording is a session whose file is on disk
(`AudioCapture` has its pipe and thread); a worker ends with a text, an error or a
panic (`ProviderRoute` has its route); a target is armed for a session
(`FcitxBridge` and `DesktopInsertion` have the exchange). `ProviderRoute` lets a
provider give any answer of `RecognitionAnswer`; `HonestAttempt` says which of
them go with what the provider has received, and the three adapters are shown to
implement it. `AudioCapture` yields frames, `FrameLevel` their levels,
`VoiceActivity` takes levels. `ConfigFile` uses the updates and the validity of
`Configuration`.

### SessionMachine and AppController

A machine is `[phase, session, nextId]`; the session that most states of the code
carry is a field, 0 for Idle. `From` and `Target` are the table of the handlers of
session.rs, including that Cancel and Fail are accepted after the end of a
session. `Apply(a, c)` is the whole of `AppController::apply`: the early return
for back-pressure, the machine, the state event, for three of the commands the
terminal event with its entry in the result cache, and the wake-up.

The controller on its own is driven by any command for any session in any state,
which is more than the daemon does. Its properties: queue and cache keep their
limits although the limit is checked once for two events and differently by
`finish_session`; the newest waiting signal is the current state; signals and
cached results agree; sessions only go forward; a new session shares nothing with
an old one.

### VoxTypeDaemon

A recording, an insertion target and a file are named by the session they were
made for. Each D-Bus handler is one action (or one per outcome: Start has three,
Stop four) that contains everything the handler changes, its clean-up and its
further commands included; commands that the queue refuses leave `Apply` as the
identity, which is how the partial failures arise. Toggle is Start or Stop. The
loop is a program counter: `ready`, then under the lock `deadline`, `poll`,
`drain`, then asleep with the long or the short timeout. Clients act only while
the loop does not hold the lock; workers always. `PollInserts`,
`PollCannotInsert`, `PollRefused` and `PollFails` are the ways through
`complete_recognition` and `fail_recognition`. The branch of `poll_recognition`
that drops the result of another session (daemon.rs:639) has no action: with
`JobIsCurrent`, which is proved, it is never taken.

`target` (the addon's armed session), `pcm` (files) and `inserted` (dispatches of
a text) are external state, as far as the daemon relies on it. A commit is one
step; it may dispatch the text and still report an error, as a late answer of the
bridge does. An ARM that is not answered in time may still be carried out, and a
CANCEL may fail to be sent; the daemon does not learn of either, and `adrift`
remembers that the target is of such an exchange. The datagrams themselves belong to
`FcitxBridge`.

What makes it correct: the microphone is never forgotten; a job, its worker and its
token belong together; a text is dispatched once, before its session ends; an ended
session can be asked for its outcome; nothing is left behind; the loop does not
oversleep. `Dictation` says the same of what users see: `Current`, `Delivered` and
`Reported` are read off machine, dispatches and cache.

### ProviderRoute

A job has a stage (`idle`, `choosing`, `chosen`, `recognizing`, `done`, `recorded`), the
providers still to try, its attempts and the providers that its audio has reached
(`heard`, external). `Answers` are the results an honest adapter may give: no
transport means no acceptance, a text means that the audio was accepted or none
was needed, a retryable error is a transient one (so it is for every constructor
of a retryable error in the provider crates); `HonestAttempt` relates them to what
was heard. The daemon has one job, but a
cancelled one keeps its worker, so several run at once. A worker looks at its token
(`Choose`) and calls the provider (`Contact`) in two steps, between which it may be
cancelled and others fail with that provider. Cooldowns count down in ticks.

### RecognitionAnswer and HonestAttempt

The route decides from an answer alone whether the audio of a recording may go to
another provider. `HonestAttempt` has two variables, what the provider has heard
and what `recognize` returned; its only rule is that an answer which says
"not accepted" is given only if nothing was heard and nothing will be. The answer
of each adapter is one of `Answers`, so that what `ProviderRoute` shows of consent
holds for the adapters there are.

### DoubaoSession and DoubaoRunner

`DoubaoSession` has one action per method of `DoubaoSessionProtocol`: task and
session started, a frame reserved, sent or failed, the finish marker, each kind of
message of the service with its task, packet number and text. Its caller is
arbitrary, so that a call which the protocol refuses is a reply and not a missing
step. What makes it correct: evidence covers what was sent and is never withdrawn;
a final text is of the newest packet; a session finishes once, with a text, after
audio and with its marker sent.

`DoubaoRunner` has the one caller there is. `step` is what it is about (token,
preparation, connection, task, session, audio, marker, finish), `io` how far it is:
build a message, queue it with room in the buffer or without, flush, await, drain
messages, of which a pump takes `MaxInbound` at most. Each
round of a loop checks token and deadlines first, as the code does, and these just
pass. A rejected handshake leads to a second round with a fresh token when no frame
has left. `heard` is what the service has received, which may be less than the
protocol counts and comes later. What makes it correct: a text is of the whole
recording; a refresh replays nothing; the answer is honest; it comes.

### CurlAttempt and CommandAttempt

Both are sequences of the adapter's steps beside processes that do as they like.
`CurlAttempt`: secret, staging, spawn, poll of process and token, kill, reading of
what curl printed, classification of exit code, HTTP status and uploaded bytes,
clean-up. A curl that was killed has printed nothing; of a long diagnostic the end is
cut off: the evidence must be as cautious as that. `CommandAttempt`: the command
reads the recording and may leave helpers in its process group that hold or have
closed its output; at the deadline and on cancellation the adapter kills the group,
and in any case it reads the output to its end. What makes them correct: honest
answers, no process that the adapter was to end and no copy of the audio after the
answer, an answer in the end. `RequestAttempts` instantiates both and
`HonestAttempt` for each, and states these for TLC and for the proofs alike.

### AudioCapture

Recorder, pipe, reader, file and owner are separate processes over a bounded pipe
and a bounded channel that is never waited for (`try_send`). Audio is counted in
half frames, so that a read can end within a frame. Any step of the owner may fail:
no standard output, no thread, an interrupt that does not arrive, a wait that fails,
a reader with an error. What makes it correct: a stop returns everything the
recorder wrote, also after the interrupt; a recording that is not handed over leaves
no file and no process; metrics keep the place of their frame when others were
dropped; the calls return.

### FrameLevel, VoiceActivity, MicrophoneCalibration, TextCleanup

Sequential code, stepped as the code steps and compared with a direct definition
over all small inputs. `FrameLevel`: Newton's iteration in both of its versions
against the root. `VoiceActivity`: the streaming detector (noise floor, adaptive
threshold, attack, release) fed frame by frame, seeded as for a finished recording
or not, against "the first run of enough voiced frames, up to the first long enough
pause", and the trimmed interval. `MicrophoneCalibration`: percentiles of sorted
phases, the suggestion, its cap, the confidence; an applied suggestion must hear the
voice and not the noise. `TextCleanup`: six rules over characters of each class they
tell apart, the choice among overlapping edits, and their application;
no word and no line is lost, and what is applied without review removes blanks only.
`Selected` states what the loop over the sorted candidates keeps, and `InOrder` numbers
the kept edits by how many begin before them; they do not overlap, so that no two begin
at the same place.

### FcitxBridge

A client is one session: a dictation of the daemon, or one run of a diagnostic
command (`probe`, `commit_test`), or of an old client that commits with COMMIT.
Its `step` follows `arm`, `commit` with its one retry, and `cancel`; each attempt
is a datagram `[client, step]` in the addon's queue, answered into `inbox` as long
as the socket of that attempt exists. A time-out may come whenever there is no
answer, so answers are lost, late, or addressed to the attempt before. Sessions of
the daemon talk one at a time (its lock) but need not wait for the addon to have
read what the previous one sent; other clients talk at any time. The addon is one
record: armed context and session, the commit that waits for the deferred event,
the last completed one. `Deferred` reads the armed context when it runs
(voxtypebridge.cpp:467), as the code does. `DeferredFirst` tells whether Fcitx's
event loop runs a deferred event before it reads another datagram; sd-event does.
Focus, password fields, destruction of contexts and restarts of Fcitx are the
environment.

Identifiers of different clients differ. In the code this holds for the sessions
of one daemon; the diagnostic commands share two constant identifiers
(fcitx.rs:83, 113), so that what is shown is not shown for several diagnostic
commands at the same time. The choice of COMMIT by a current client that meets an
addon older than this one (fcitx.rs:142) has no counterpart here.

What makes it correct: a text is committed once although it is sent twice; an
acknowledgement means a dispatch; a rejection means none, so that the daemon may
call the session failed; an arm holds until it is used or withdrawn; a withdrawn
text does not come later; the text goes to the context of its session.

### DesktopInsertion

The backend that an arm selects in each mode, with or without a bridge, and the
commit through it; the clipboard path is a program per step: read the snapshot,
write, paste, wait, compare, restore. A user copies at any time, the application
pastes when it gets to it. What makes it correct: a refusal of the bridge is not got
around by the clipboard; if the user copies nothing meanwhile, what is pasted is the
dictation, and a clipboard reported as restored is as before; a copy made between the
write and the comparison stays. A copy between the snapshot and the write, or between
the comparison and the restoration, is lost (below).

### Configuration and ConfigFile

`Configuration` keeps the settings that validity relates to each other (default
profile, profiles and their providers, quotas) and one flag for the rest, and the
updates of the settings program. `ConfigFile` has `load_or_create` of both programs
and the save: write a temporary file named by process ID, sync, rename, ask the
daemon to reload. Either program is killed at any step, a user edits the file.
What makes it correct: an acknowledged update stays until the user or another update
replaces it; a reply that claims a reload is true; the daemon only runs on what was
validated and not on another configuration in the middle of a recording; a file that
was whole stays whole; a save leaves no temporary file unless it was killed.

### InstanceGuard, OverlayWindow, Tray

`InstanceGuard`: read the file, look whether the process it names runs, remove it,
create it, write the process ID; creating and writing may fail, and a panel may be
killed anywhere. Panels are alone unless they start together and one removes the file
of another as stale; only a kill or a failed write leaves a file without its panel.
`OverlayWindow`: a process per message that nobody waits for, each replacing the state
file and then looking for a window, which quits when idle; a process may fail or die at
any step, also between opening a window and recording it (`unrecorded`). The daemon's
recordings begin and end with or without a message; the message of the deadline is sent
before the end, and levels come until then, so that one of them may replace it. After
the end no level comes over what is said (`LastWordStays`).
`Tray`: the listener's thread (ask, subscribe, forward), the bounded channel, the
loop with its five seconds of silence, and what the desktop has drawn; the state in
which the daemon stays is shown.

## The runs

| Run | Instance | Question |
|---|---|---|
| `controller` | counter saturating at 3, queue of 4, cache of 2 | Are followers of the signals and polling clients told the same, under arbitrary calls? |
| `daemon_backpressure` | 2 sessions, queue of 4, cache of 2, clients who never wait | Is the daemon safe whatever the queue refuses, and does it implement `Dictation`? |
| `daemon_patient` | 2 sessions, queue of 9, clients who leave 7 places, insertion by Fcitx or copying, one configuration | Does every session end, is every event emitted, is Quit obeyed? |
| `route` | 2 jobs, 2 providers, cooldown after 1 failure for 1 tick | Consent, accounts, cooldowns and termination with a cancelled worker beside the next |
| `bridge_daemon` | 2 sessions of the daemon, 2 contexts, queue of 3, one restart, deferred events in any order | Do answers mean what they say; do arms and cancellations hold; do exchanges end? |
| `bridge_foreign` | daemon and old client, 2 contexts, queue of 2, one restart, deferred events first | Is a text committed once, and only to the context of its session? |
| `providers` | a recording of 2 frames, 1 packet number, 1 message per pump; one request; one command with a helper | Is every adapter honest, does it lose, replay or leave nothing, does it answer? |
| `recording` | 7 half frames, pipe of 3, channel of 1; 6 amplitudes in 3 samples; 4 levels in 7 frames; 5 levels in phases of up to 5; texts of up to 5 of 7 characters | Is a recording kept, measured, cut, calibrated and cleaned up as promised? |
| `desktop` | 1 provider beside the default one, 2 process IDs, 1 edit; 4 panels; 3 messages; 4 states, channel of 1, 2 signals; 2 copies | Do the programs beside the daemon share file, window, tray and clipboard safely? |
| `daemon_finished_once`, `daemon_deadline`, `live_level_root` | as above | three statements of the documents that the code does not keep (below) |

`providers`, `recording` and `desktop` hold several components that do not interact
within the run. A variable (`adapter` or `part`) says which one moves; the others
stay where they begin, so that the state space is a sum and not a product. The
properties are conjunctions of those of the parts.

What the properties of the passing runs say:

* `NewestStateIsCurrent`, `PollersAgreeWithSignals`: the newest waiting state signal
  is the current state, and the last outcome signalled for a session is the one in
  the cache, unless it was evicted by as many later sessions.
* `MicrophoneOnlyInCapture`, `NoOrphanWorker`, `EndedHasResult`,
  `NothingIsLeftBehind`, `NoLostWakeup`, `NoTextAfterTheEnd`, `ImplementsDictation`:
  the microphone is open only for the current session and under the clock; a worker
  without a job has been told to stop; an ended session has an outcome; no file or text
  stays behind, and no target unless its ARM was not answered or its CANCEL could not be
  sent; no long sleep over something to do; no text twice, after a
  cancellation or after an outcome.
* `SessionsEnd`, `LoopServes`: under fairness dictations end, events are emitted,
  Quit is obeyed.
* `ConsentRespected`, `AccountsBalance`, `CoolingIsRespected`, `JobsEnd`: audio goes
  to one provider unless consent was given; attempts and usage agree, and nobody is
  charged twice for a job; nobody decides for a provider that cools down, and whoever
  calls one that has begun to was cancelled since; every job ends.
* `AnswersAreTrue`, `ArmHolds`, `CancelIsFinal`, `ExchangesEnd`, `OnlyInArmedContext`,
  `AtMostOnce`: see FcitxBridge.
* `TextIsOfTheWholeRecording`, `RefreshIsNoReplay`, `IsHonest`, `RequestsAreHonest`,
  `RequestsLeaveNothing`, `AttemptsEnd`: see the adapters.
* `TailIsKept`, `NothingIsLeft`, `CallsReturn`, `LevelIsRight`, `SpeechIsFound`,
  `SuggestionIsSound`, `CleanupIsSafe`: see AudioCapture and the sequential code.
* `ConfigurationIsKept`, `WritingIsSafe`, `WindowsAreSingle`, `LastWordStays`,
  `StateIsShown`, `ClipboardIsTheUsers`: see the programs beside the daemon.

**Bounds.** `MaxStarts` bounds the sessions a run starts. Two are enough for what
the properties are about: a session and the remains (worker, arm, file, result)
of an earlier one; a third adds another of the same kind, and the theorems below
do not depend on it. A queue of four lets each push of a handler fail on its own: a
handler pushes up to three events. In the patient run `Headroom` lets a client call
only while seven of the nine places are free: a handler pushes at most three events,
and a pass of the loop needed four places for each of its commands to be accepted;
with less room a session may stick, which is what `daemon_backpressure` explores for
safety. The real limit is 256, drained at every pass. `MaxId` is one above `MaxStarts`
in the daemon, so that identifiers do not saturate there; the saturation itself is in
`controller`, where three sessions also evict from a cache of two. The cache of the
daemon has room for all sessions, because `ImplementsDictation` reads outcomes off it.
Two providers are enough for a fallback, two jobs for a cancelled worker beside a new
one. In the bridge two sessions are one and the remains of an earlier one; an old
client overwrites the addon's memory of a commit between two attempts; a queue of
three is filled by the datagrams one session leaves unread, one of two makes senders
wait often (the kernel's limit is larger). Two contexts are one that was armed and one
that has the focus instead.

In `providers` two frames are a frame with a successor and a last one, which the
driver sends differently; one packet number and the missing one are an older and a
newer packet; a pump of one message is stopped by its limit in every round. The
capture's seven half frames are three frames and an odd rest, its pipe is filled by
one and a half frames, its channel by one metric. The amplitudes of a sample give
means that are squares and means that are not, above and below each power of two
that matters. The detector's runs and pauses are two frames long, so that seven
frames hold a run that is too short, one that counts, a pause that is too short and
one that ends the speech; rolls are one frame. A phase of calibration needs four
frames, so that five are both too short and enough. Texts of five characters hold
two words, a terminator and two blanks, which is what each rule looks at, and two
rules at a time.

**Fairness.** Weak fairness of the loop (a thread that never waits without a
timeout, `recv_timeout` in voxtyped.rs:61), of the sending and the notification of
each worker (every adapter has a deadline of its own, `AttemptsEnd`), and of time.
Clients are not fair: nobody has to call. A worker that panics need not. In
`ProviderRoute` the worker's steps and the poll are fair for the same reasons; time
and cancellation are not. In `FcitxBridge` the time-outs of clients and the event loop
of Fcitx, while it runs, are fair. The latter is needed only because `send_to` has no
time-out: a Fcitx that hangs long enough for its socket's queue to fill blocks the
daemon under its lock (fcitx.rs:306). In `providers` the adapters' own threads are
fair, and the time that their deadlines need; the service, curl and the command are
not, except that a helper of a command ends once its parent is gone (a helper that
held the output for ever would hold the adapter, see below), and a request through
curl is only shown to end once it is cancelled. In `recording` the reader and the
owner are scheduled, and the recorder heeds an interrupt (`stop` waits for it without
a deadline). In `desktop` the two threads of the tray run on and five seconds pass.

**Deadlock checking** is off: after Quit the daemon has exited, a controller that
nobody calls may stop, a finite set of jobs or clients runs out, attempts, recordings
and programs come to their end. Where somebody must not be stuck, a liveness property
says so.

**Mutants.** Every property has a variant of a mapped definition with a plausible
bug (operators named `X_Y`, marked "Mutant") under which its run reports it
violated.

### What the runs found

* `FinishedOnce`: docs/api-contracts.md:389 says that SessionFinished is emitted
  once. Cancel is accepted for a session that has ended (session.rs:207), and
  emits it again, with another outcome, and replaces the cached result.
* `DeadlineStopsRecording`: docs/configuration.md:24 says that the maximum duration
  stops an abandoned recording. If CaptureReady finds the queue full, Start reports
  an error but the recording stays with a session that is preparing, where Stop is
  refused (daemon.rs:288); only Cancel or Quit closes the microphone.
* `LevelIsRoot`, for the frames of a live recording: `integer_sqrt` of
  src/audio.rs:418 begins its iteration below the root whenever the logarithm of the
  mean square is even, and then returns where it began: a frame of level 300 is
  reported as 256. The detector takes that number for the level (vad.rs:159), so that
  a live voice near the threshold is not heard though the finished recording's
  analysis hears it. `LevelIsRight` shows that it is never too high, and too low by
  the root of two at most.

Noted while modelling, and kept in the models.

Daemon and controller: a dictation whose text was dispatched and that is cancelled
afterwards is announced with "No text was inserted" (daemon.rs:403); when
`recording.stop()` fails the handler returns before it disarms the addon
(daemon.rs:332), though the arm is remembered and later disarmed; a session can stay
Finalizing or Inserting without a job when the queue refuses its last command; a
panicking worker wakes nobody, the idle timer finds it within a minute; the attempts
of a cancelled job never enter the usage accounts; a cooldown that runs out does not
reset the count of failures, so that one more failure blocks the provider again.

Bridge: an ARM that timed out is not followed by a CANCEL (daemon.rs:263), so that the
addon may stay armed for a session that has failed, until the next ARM; the answer to a retried
commit is lost when another commit or a restart of Fcitx came in between (the retry is
then refused although the text was dispatched, hence the condition in
`RejectedMeansNotDispatched`, and hence its run with the daemon alone); without
`DeferredFirst` a foreign ARM between the acceptance of a commit and its deferred event
sends the text to the foreign context.

Providers: the token is refreshed not only when StartTask reports that it is refused
but also when the handshake of the connection is (runner.rs:104 with websocket.rs:484,
against the comment at runner.rs:84); a failed request for a token counts as a recognition that was attempted
(managed.rs:217, against docs/doubao-managed-credentials.md:58); a helper of a command
that keeps its output open holds the adapter past the command's timeout
(provider_adapters.rs:373, against docs/configuration.md:105); nobody looks at the
token or at a clock while `secret-tool` runs; a staging that fails leaves its partial
file.

Recording and desktop: repeated punctuation is collapsed also within addresses
(grammar.rs:274, against docs/implementation-layers.md:188); a calibrated threshold may
be raised by the detector's noise floor above the voice it was measured for; what the user
copies between the comparison of the clipboard and its restoration, which are two programs,
is overwritten by the earlier text, and what is copied between the snapshot and the write
by the dictation and then the earlier text (desktop.rs:72 and 57-68, against "A new user
copy is never overwritten", docs/configuration.md:37); an application that pastes after the
delay pastes what was restored; messages of the overlay may be shown out of order, and
two that come at once may open two windows; "Maximum duration reached" may be replaced by
a level, which stays when the stop is refused (daemon.rs:597, 317); a settings panel that
cannot write its process ID, or is killed just before, leaves an empty file that keeps
every later panel from opening (voxtype-settings.rs:890).

## The proofs

Proved with TLAPS for every value of the constants that satisfies the named
assumptions: `MaxIdAssumption`, `LimitsAssumption`, `DaemonAssumption`,
`RouteAssumption`, `BridgeAssumption`, `SessionAssumption`, `RunnerAssumption`,
`CaptureAssumption`, `LevelAssumption`, `VoiceAssumption`, `PhaseAssumption`,
`TextAssumption`, `FileAssumption`, `PanelsAssumption`, `MessagesAssumption`, `SignalsAssumption`,
`ClipboardAssumption`. They say that limits and bounds are numbers (positive where the
code's are), that a default profile is usable, that levels and samples have 16 bits. Of
the 40 properties of the passing runs 33 are proved, and all that are not about
liveness.

* `AppControllerProofs`: `AppTypeOK`, `EventsBounded`, `OneResultPerSession`,
  `MachineWellFormed`, `NewestStateIsCurrent`, `ForwardOnly`, `FreshSession`. The
  inductive invariant `GoodApp(app)` conjoins the types, the limits, that the
  results belong to different sessions, that the machine is well formed, that
  every session in results and events has been issued (without it a fresh
  identifier could meet an old result), and that the newest state event is the
  current state. It is stated for a record rather than for the variables, because
  a handler of the daemon applies several methods in one step: one lemma per
  method (`Apply`, `Finish`, `Drained`, `Notified`) serves both specifications.
  `PollersAgreeWithSignals` counts: `Agrees` says that behind a result in the
  cache there are only later sessions, so that it is evicted by as many as the cache has
  places.
* `VoxTypeDaemonProofs`: `TypeOK`, `MicrophoneOnlyInCapture`, `JobIsCurrent`,
  `NoOrphanWorker`. They support each other in the invariant `Inv`: a Stop makes a
  job of the current session because the recording belongs to it; a Start cannot
  take the session from a job because a job means Finalizing, where Start is
  refused; and a worker is only ever without a job after its token was cancelled
  or its result was taken. One step per action, the handlers that differ only in
  their outcome by a shared lemma about `Apply`.
  On top of these, `NoTextAfterTheEnd`, `EndedHasResult`,
  `NothingIsLeftBehind`, `NoLostWakeup`, and the refinement `Spec =>
  ImplementsDictation`. The invariant `Outcome` stands on `Inv` and has four parts.
  `Tracked`: the cache has the current session's outcome exactly when that session has
  ended, the current session is the one issued last, and the cache holds no more
  outcomes than sessions have ended (so that, with room for `MaxStarts` of them, none
  is evicted). `Pending`: nothing was dispatched or cancelled for the sessions to come,
  the one that is captured and the one that is recognized. `NothingIsLeftBehind` itself.
  `Alert`: what the loop knows while it holds the lock, and that whatever there is to do
  has left a wake-up or is about to. For the refinement, `EndReports` says what a command
  that ends a session makes of all outcomes, and each handler is then an action of
  `Dictation` or changes nothing that is seen; it assumes `MaxStarts <=
  MaxSessionResults`, since an evicted outcome can no longer be read off the cache.
* `ProviderRouteProofs`: `ConsentRespected` from `ConsentInv`: without consent no
  audio has left as long as the route may still turn to another provider, and at
  most one provider has it afterwards. `CoolingIsDeserved` from the types of the
  health records. `AccountsBalance` and `CoolingIsRespected` need what a route is: it
  repeats no provider and holds none that is blocked, which is proved of the recursive
  function `Route` for plans of every length; that nobody is charged twice for a job
  counts the jobs that were recorded.
* `FcitxBridgeProofs`: `TypeOK`, `AtMostOnce`, and `OnlyInArmedContext` for
  `DeferredFirst`. At most once does not rest on the addon's memory of the last
  request, which another commit may overwrite: an arm is used up. `UsedUp(c)`: at
  most one arm request of c is ever under way; while it is, and before it is sent,
  the addon knows nothing of c; and once the text of c has been committed the addon
  neither is armed for c nor keeps a commit of it. `InPlace(c)` adds that the
  armed context is the one of the armed session and that a waiting commit belongs
  to it, which needs that no ARM is read while a commit waits. For `Daemon = Clients`,
  the daemon alone on the bridge, also `AnswersAreTrue`, `ArmHolds` and `CancelIsFinal`,
  with deferred events in either order and any number of restarts, from `SerialInv`: the
  datagrams under way are in an order (`Ordered`: each is sent once, one client talks,
  its request is the last one, behind a commit there are only its other attempts and
  then its cancellation), an acknowledged arm is in the addon (`Held`), a success on its
  way to a client is of a committed text (`AcksAreTrue`) and a refusal of one that
  nothing can commit any more (`RefusalsAreTrue`). The last needs the addon's memory of
  the last request, which `AtMostOnce` does not: without it the retry of a committed
  text would be refused.
* `ProvidersProofs`, about `DoubaoSession`: the types, that evidence covers audio and
  text and is never withdrawn, that a finished session is complete, that texts come in
  order, that ends are final. `SessionInv`: `EvidenceCoversAudio`, `MarkedAfterAudio`,
  `TextIsKnown`. About `DoubaoRunner`: the types, that the protocol allows the driver's
  next call whatever the service sent in between, `TextIsOfTheWholeRecording`,
  `RefreshIsNoReplay`, and `IsHonest`, the refinement of `HonestAttempt`. `RunnerInv`
  adds to `SessionInv` the agreement of the driver's step with the session's phase
  (`InStep`), what each loop may assume (`InLoop`), that frames are counted
  (`Counted`), that what the service heard and what is buffered is covered by the
  evidence (`Covered`), and that failure and answer fit it. About the two other
  adapters: `RequestsAreHonest`, their refinement of `HonestAttempt`, and
  `RequestsLeaveNothing`. `CurlInv`: in which step there is a
  curl and a staged file (`CurlInOrder`), and that a report of no bytes, or an exit
  without a connection, is only had of a curl that has sent nothing (`ReportIsTrue`),
  which is what the evidence is computed from. `CommandInv`: nothing reads before the
  command is started, and a timeout or a cancellation is only reported of a process
  group that is stopped. With `IsHonest`, this proves for all three adapters what
  `ConsentRespected` takes from them.
* `RecordingProofs`, about `AudioCapture`: the types, `TailIsKept`, `NothingIsLeft`, and
  that metrics stay in place. `CaptureInv`: `Balanced` (what was produced is in the pipe
  or in the file; what is written and not pending is measured), `Owned` (which of child,
  file and thread there may be in each step of the owner), `Placed` (the metrics on their
  way are of earlier frames, in order). `SpeechIsFound`, for every sequence of levels:
  `VoiceInv` says that the attack counter is the run of voiced frames at the end
  (`Attacking`), the release counter the pause at the end (`Speaking`), and what the
  property says of the frames so far. `SuggestionIsSound`, for phases of every length:
  how many levels are on either side of a percentile (`PercentileSplits`), counted, and
  a suggestion lies between the two percentiles it is made of. `LevelIsRight`, for frames
  of every size: `FrameInv` says that the estimate is not below the root (`Above`, by
  `ImprovedStaysAbove`), or for the live version that it is near it, and that the next
  one is computed from it; where the iteration stops, `ConvergedIsBelow`. That the mean
  of the squares lies between the least and the greatest is proved along the sum, and
  `LogarithmExists` gives the powers of two that the live version begins with.
  `CleanupIsSafe`, for texts of every length: `Known` says what each rule makes of the
  place it found; the edits that are chosen do not overlap, since two that do would be
  ordered by their keys (`SelectedAreApart`), and follow each other in the report
  (`EditsAreOrdered`). An edit says what it replaces (`EditSaysTheSame`), but one that
  removes a repeated word; so the suggestion says the letters of the places where no
  repeated word was removed (`AppliedSays`, along the edits). Of all tokens that say the
  same as a given one the first is never removed, because what removes a token follows
  another that says the same (`RepeatedAfter`), and so it is still there in one piece
  (`TokensSurvive`).
* `DesktopProofs`: `ConfigurationIsKept` and `WritingIsSafe` for any providers, edits
  and kills, from `FileInv` (what a program knows in each of its steps, and that the file
  always is usable, torn or absent). `WindowsAreSingle` for any number of panels and
  messages: `GuardInv` says that a file belongs to a panel that runs or will or did not end
  well, that nobody else's is removed unless `robbed`, and what a panel that looks has
  seen; `OverlayInv` that while messages do not overlap only the last one has a process,
  and the window, but for unrecorded ones, is the one in the file. `LastWordStays`, which
  needs that messages are numbered in the order they are sent.
  `ClipboardIsTheUsers`, for any texts: `ClipboardInv` has what the clipboard and the
  snapshot are in each step of the insertion, given what the user copied.
* `NumberLemmas`: a set of numbers has a least and, if bounded, a greatest one;
  induction; and that a function defined by recursion over numbers exists. Induction is
  stated for a set of numbers: the prover cannot instantiate an operator with a
  formula, but it can a set. What a recursive function computes is therefore within
  reach, and `Route`, `SquareSum`, `PowerOfTwo`, `Applied` and `Said` are such functions;
  of `SelectSeq`, of folds, of `SetToSortSeq` and of `^` the prover knows no definition.

What the attempts showed about the models: a CASE whose guards overlap fixes no order
among its arms, so that the classification of an answer of curl, the reason of a
calibration and the health after an answer, which the code decides in order, are now
written as IF and ELSE. The key that candidate edits are sorted by has their end too
(`src/src/grammar.rs:85`): without it two candidates of a rule that begin at the same
place would be in no order, and what is selected of them not determined.

Only model-checked:

* liveness (`SessionsEnd`, `LoopServes`, `JobsEnd`, `ExchangesEnd`, `AttemptsEnd`,
  `CallsReturn`, `StateIsShown`): the prover has no support for fairness and ENABLED.
  What an argument for it needs besides fairness is safety, and is proved for three of
  them: that whoever is waited for has a way on, and that there is a number that its
  steps lower and nobody raises. `JobsEnd`: `CurrentJobGoesOn` and `WorkersGetNearer`, with
  three steps for each provider that is left. `CallsReturn`: `NobodyWaitsInVain` (an
  interrupt that was not sent is never waited for, and the thread is joined only once
  nobody fills the pipe) and `ThreadGetsNearer`, with the audio that is left.
  `AttemptsEnd`, for a recognition with Doubao whose token is cancelled:
  `CancelledGoesOn` and `CancellationGetsNearer`, with `MAX_INBOUND_PER_TICK` in the
  number because one loop takes messages without looking at the token.

## The plan

Work still open, the most important first.

1. `stop_wait` of `src/client.rs` composed with the controller: what a client that polls
   with a deadline learns, with eviction.
2. A restart of the daemon: stale recordings, identifiers that begin again at one, an
   addon still armed for the old process.

## Not modelled

The D-Bus client (`src/client.rs`): one call each; what its poll relies on is
`EndedHasResult` and `PollersAgreeWithSignals`. The command line and the cleanup program
(`src/bin/voxtype.rs`, `voxtype-cleanup.rs`, `src/qml.rs`): they call the daemon once or
run the cleanup on what they read; any client may call the daemon at any time in the
models. Selection of profiles, grammar methods and InsertTest of the daemon, which keep
no state of a session. Wording, notifications, D-Bus introspection, formatting of replies.
The wire formats, the Opus codec and the device registration of Doubao, the requests of
REST and Deepgram, the limits of responses, URL checks: conversions of data without state
of their own. The parsing of TOML and the permissions of files. PING and CONTEXT of the
bridge, and the choice of COMMIT for an addon older than the client. What QML draws;
packaging and scripts.

Limits of what is modelled: `ConfigFile` has one settings program (`InstanceGuard` says
when that is so), whose requests are chosen when it reads the file; edits by hand are
bounded, and a user does not remove a file while a program fills it. Programs are
killed between the steps of a save, and a rename is atomic; what a disk makes of a
power failure is left out. In `Configuration`
provider and profile IDs come from one small set. `DesktopInsertion` assumes
an application that pastes within the delay. `MicrophoneCalibration` takes phases as sorted levels, clipped
or not.
