---------------------------- MODULE VoxTypeDaemon ----------------------------
(***************************************************************************)
(* The daemon: src/src/daemon.rs with the loop of src/src/bin/voxtyped.rs. *)
(*                                                                         *)
(* One lock guards the daemon.  A D-Bus handler runs entirely under it and *)
(* is one action here; the loop holds it from "deadline" to "drain", so no *)
(* handler runs in between, while the recognition workers, which do not    *)
(* need it, may.  Handlers that the code refuses leave the state alone and *)
(* have no action.  Notifications, overlays, telemetry and the replies to  *)
(* the callers are left out; a capture, an insertion target or a recording *)
(* file is named by the session it was made for.                           *)
(*                                                                         *)
(* Bounds: MaxStarts sessions are started; clients only call while there   *)
(* is room for Headroom events (0: whenever they like).                    *)
(***************************************************************************)
EXTENDS AppController

CONSTANTS
  Backends,    \* the insertion backends `arm` may select
  Configs,     \* the configurations that loading the file may yield
  MaxHistory,  \* 20 in the source
  MaxStarts,   \* bound of the model: how many sessions are started
  Headroom     \* bound of the model: room in the queue that clients wait for

ASSUME DaemonAssumption ==
  /\ Backends \subseteq {"fcitx5", "clipboard", "copy-only"}
  /\ Configs \subseteq [retain : BOOLEAN, history : BOOLEAN] /\ Configs # {}
  /\ MaxHistory \in Nat \ {0}
  /\ MaxStarts \in Nat /\ MaxStarts < MaxId
  /\ Headroom \in Nat

VARIABLES
  recording,   \* recording: the session whose capture process runs
  clock,       \* recording_started_at, and whether maximum_duration has passed
  armed,       \* armed_insertion
  job,         \* recognition_job: its session
  cancelled,   \* the sessions whose cancellation token has been cancelled
  worker,      \* per session: its recognition thread and the result it sent
  notifying,   \* the sessions whose worker has sent, but not yet notified
  config,      \* config.desktop: retain_recordings, transcript_history_enabled
  history,     \* transcript_history
  quit,        \* quit
  loop,        \* where the loop of voxtyped.rs is
  target,      \* external: the session the Fcitx addon is armed for, once it has read
               \* what it was sent (it reads in order)
  adrift,      \* history: the ARM of the target was not answered, or a CANCEL of it
               \* could not be sent
  pcm,         \* external: the sessions whose recording file is on disk
  inserted     \* external: how often the text of a session was dispatched

desktop    == <<target, adrift, pcm, inserted>>
threads    == <<cancelled, worker, notifying>>
daemonVars == <<recording, clock, armed, job, config, history, quit>>
vars       == <<appVars, daemonVars, threads, desktop, loop>>

NotArmed == [session |-> NoSession, backend |-> "none"]
Arms     == [session : Sessions, backend : Backends] \cup {NotArmed}

\* Mutant: a worker that disconnected is not noticed.
Replied_OnlyResults == {"text", "error"}

Replied      == {"text", "error", "panicked"}
WorkerStates == {"none", "running"} \cup Replied
Asleep       == {"asleep-short", "asleep-long"}
Locked       == {"deadline", "poll", "drain"}
LoopStates   == {"ready", "exited"} \cup Asleep \cup Locked

MaybeSession == Sessions \cup {NoSession}

Init ==
  /\ AppInit
  /\ recording = NoSession
  /\ clock = "none"
  /\ armed = NotArmed
  /\ job = NoSession
  /\ cancelled = {}
  /\ worker = [s \in Sessions |-> "none"]
  /\ notifying = {}
  /\ config \in Configs
  /\ history = <<>>
  /\ quit = FALSE
  /\ loop = "ready"
  /\ target = NoSession
  /\ adrift = FALSE
  /\ pcm = {}
  /\ inserted = [s \in Sessions |-> 0]

-----------------------------------------------------------------------------
(***************************************************************************)
(* Pieces shared by the handlers.                                          *)
(***************************************************************************)

\* The lock is free for a client whose call the bound lets through.
ClientTurn ==
  /\ loop \in {"ready"} \cup Asleep
  /\ Len(events) + Headroom <= MaxPendingEvents

\* insertion_adapter.arm for a session, which selected b.  Without an answer in 500 ms it
\* fails, or falls back to "copy-only"; the addon may still do what it was asked.
Selects(s, b) ==
  \/ b = "fcitx5" /\ target' = s /\ adrift' = FALSE
  \/ b # "fcitx5" /\ UNCHANGED <<target, adrift>>
  \/ /\ b \in {"none", "copy-only"} /\ "fcitx5" \in Backends
     /\ target' = s /\ adrift' = TRUE

Targets(arm) == arm.backend = "fcitx5" /\ target = arm.session

\* The addon forgets the target of an arm: only Fcitx keeps one of its own.
Disarmed(arm) ==
  IF Targets(arm) THEN target' = NoSession /\ adrift' = FALSE
                  ELSE UNCHANGED <<target, adrift>>

\* insertion_adapter.cancel of an arm.  Nobody notices if no socket can be made to send the
\* CANCEL from.
Disarms(arm) ==
  \/ Disarmed(arm)
  \/ Targets(arm) /\ adrift' = TRUE /\ UNCHANGED target

\* Mutant: retain_recordings is read the wrong way round.
CleanedUp_Swapped(s) == IF config.retain THEN pcm \ {s} ELSE pcm

\* The recording file is removed, unless the configuration retains it.
CleanedUp(s) == IF config.retain THEN pcm ELSE pcm \ {s}

\* Mutant: the oldest text is not dropped.
Remembered_Unbounded(s) ==
  IF ~ config.history THEN history ELSE Append(history, s)

\* history.push_back, with the oldest text dropped when twenty are kept
Remembered(s) ==
  IF ~ config.history THEN history
  ELSE Append(IF Len(history) = MaxHistory THEN Tail(history) ELSE history, s)

\* The recording is taken from the daemon.
CaptureTaken == recording' = NoSession /\ clock' = "none"

-----------------------------------------------------------------------------
(***************************************************************************)
(* Start.  The controller has accepted the command: its new state is app1. *)
(***************************************************************************)
CanStart ==
  /\ recording = NoSession
  /\ machine.nextId <= MaxStarts
  /\ Applies(app, Command("start", NoSession))

Started == Apply(app, Command("start", NoSession))

\* No target could be armed, or the addon did not answer: the session fails, an older arm
\* is kept, and no CANCEL is sent.
StartUnarmed ==
  /\ CanStart
  /\ "fcitx5" \in Backends
  /\ Selects(Started.machine.session, "none")
  /\ SetApp(Apply(Started, Command("fail", Started.machine.session)))
  /\ UNCHANGED <<daemonVars, threads, pcm, inserted, loop>>

\* The capture process could not be started: the new arm is given up again.
StartWithoutCapture ==
  /\ CanStart
  /\ LET s == Started.machine.session
     IN \/ /\ "fcitx5" \in Backends
           /\ \/ target' = NoSession /\ adrift' = FALSE
              \/ target' = s /\ adrift' = TRUE
        \/ \E b \in Backends \ {"fcitx5"} : Selects(s, b)
  /\ armed' = NotArmed
  /\ SetApp(Apply(Started, Command("fail", Started.machine.session)))
  /\ UNCHANGED <<recording, clock, job, config, history, quit,
                 threads, pcm, inserted, loop>>

\* Capture runs.  When the queue has no room for CaptureReady the caller gets
\* an error, and the recording stays with a session that is still preparing.
StartCapture ==
  /\ CanStart
  /\ LET s == Started.machine.session
     IN /\ \E b \in Backends :
             /\ armed' = [session |-> s, backend |-> b]
             /\ Selects(s, b)
        /\ recording' = s
        /\ clock' = "running"
        /\ pcm' = pcm \cup {s}
        /\ SetApp(Apply(Started, Command("capture_ready", s)))
  /\ UNCHANGED <<job, config, history, quit, threads, inserted, loop>>

StartHandler == StartUnarmed \/ StartWithoutCapture \/ StartCapture

-----------------------------------------------------------------------------
(***************************************************************************)
(* Stop.  It is called by clients, by Toggle while a recording runs, and   *)
(* by the loop when the recording is overdue.                              *)
(***************************************************************************)
CanStop == Applies(app, Command("stop", machine.session))

Stopped == Apply(app, Command("stop", machine.session))

\* The recording is gone (a Quit took it): the session is left finalizing.
StopNothing ==
  /\ CanStop /\ recording = NoSession
  /\ SetApp(Stopped)
  /\ UNCHANGED <<daemonVars, threads, desktop>>

\* recording.stop() failed and dropped the recording with its file; the
\* handler returns before it reaches the insertion target.
StopCaptureFails ==
  /\ CanStop /\ recording # NoSession
  /\ CaptureTaken
  /\ pcm' = pcm \ {recording}
  /\ SetApp(Apply(Stopped, Command("fail", machine.session)))
  /\ UNCHANGED <<armed, job, config, history, quit, threads, target, adrift, inserted>>

\* Mutant: the arm is forgotten without being cancelled.
StopWithoutJob_KeepsTarget ==
  /\ CanStop /\ recording # NoSession
  /\ CaptureTaken
  /\ \E silent \in BOOLEAN :
       LET quiet == Command("no_speech", machine.session)
       IN SetApp(IF silent /\ Applies(Stopped, quiet)
                 THEN Apply(Stopped, quiet)
                 ELSE Apply(Stopped, Command("fail", machine.session)))
  /\ armed' = NotArmed
  /\ pcm' = CleanedUp(recording)
  /\ UNCHANGED <<job, config, history, quit, threads, target, adrift, inserted>>

\* The recording is too short or silent, or recognition cannot begin (the
\* analysis or trimming fails, no provider is available, no thread starts).
\* A refused NoSpeech is an error like the others, and fails the session.
StopWithoutJob ==
  /\ CanStop /\ recording # NoSession
  /\ CaptureTaken
  /\ \E silent \in BOOLEAN :
       LET quiet == Command("no_speech", machine.session)
       IN SetApp(IF silent /\ Applies(Stopped, quiet)
                 THEN Apply(Stopped, quiet)
                 ELSE Apply(Stopped, Command("fail", machine.session)))
  /\ Disarms(armed)
  /\ armed' = NotArmed
  /\ pcm' = CleanedUp(recording)
  /\ UNCHANGED <<job, config, history, quit, threads, inserted>>

\* A recognition worker is spawned.
StopWithJob ==
  /\ CanStop /\ recording # NoSession
  /\ CaptureTaken
  /\ SetApp(Stopped)
  /\ job' = machine.session
  /\ worker' = [worker EXCEPT ![machine.session] = "running"]
  /\ UNCHANGED <<armed, config, history, quit, cancelled, notifying, desktop>>

StopHandler == StopNothing \/ StopCaptureFails \/ StopWithoutJob \/ StopWithJob

-----------------------------------------------------------------------------
(***************************************************************************)
(* The other handlers.                                                     *)
(***************************************************************************)

\* Mutants of Cancel: the microphone stays open; the token of the job is not
\* cancelled; the handler reports the session cancelled but leaves it to the
\* worker to end it.
CancelHandler_LeavesCapture ==
  /\ Applies(app, Command("cancel", machine.session))
  /\ SetApp(Apply(app, Command("cancel", machine.session)))
  /\ job' = NoSession
  /\ cancelled' = cancelled \cup ({job} \ {NoSession})
  /\ pcm' = pcm \ {job}
  /\ Disarms(armed)
  /\ armed' = NotArmed
  /\ UNCHANGED <<recording, clock, config, history, quit, worker, notifying, inserted>>

CancelHandler_NoToken ==
  /\ Applies(app, Command("cancel", machine.session))
  /\ SetApp(Apply(app, Command("cancel", machine.session)))
  /\ CaptureTaken
  /\ job' = NoSession
  /\ pcm' = pcm \ {recording, job}
  /\ Disarms(armed)
  /\ armed' = NotArmed
  /\ UNCHANGED <<config, history, quit, threads, inserted>>

CancelHandler_Asynchronous ==
  /\ Applies(app, Command("cancel", machine.session))
  /\ SetApp(Finish(app, machine.session, "cancelled"))
  /\ cancelled' = cancelled \cup ({job} \ {NoSession})
  /\ UNCHANGED <<daemonVars, worker, notifying, desktop>>

\* Cancel takes any session, also one that has already ended.
CancelHandler ==
  /\ Applies(app, Command("cancel", machine.session))
  /\ SetApp(Apply(app, Command("cancel", machine.session)))
  /\ CaptureTaken
  /\ job' = NoSession
  /\ cancelled' = cancelled \cup ({job} \ {NoSession})
  /\ pcm' = pcm \ {recording, job}
  /\ Disarms(armed)
  /\ armed' = NotArmed
  /\ UNCHANGED <<config, history, quit, worker, notifying, inserted>>

ResetHandler ==
  /\ Applies(app, Command("reset", NoSession))
  /\ SetApp(Apply(app, Command("reset", NoSession)))
  /\ UNCHANGED <<daemonVars, threads, desktop>>

ReloadConfiguration ==
  /\ recording = NoSession /\ job = NoSession
  /\ config' \in Configs
  /\ history' = IF config'.history THEN history ELSE <<>>
  /\ UNCHANGED <<appVars, recording, clock, armed, job, quit, threads, desktop>>

ClearHistory ==
  /\ history' = <<>>
  /\ UNCHANGED <<appVars, recording, clock, armed, job, config, quit,
                 threads, desktop>>

\* Quit gives up the work but leaves the machine, and the arm, as they are.
QuitHandler ==
  /\ SetApp(Notified(app))
  /\ CaptureTaken
  /\ job' = NoSession
  /\ cancelled' = cancelled \cup ({job} \ {NoSession})
  /\ pcm' = pcm \ {recording, job}
  /\ Disarms(armed)
  /\ quit' = TRUE
  /\ UNCHANGED <<armed, config, history, worker, notifying, inserted>>

Client ==
  /\ ClientTurn
  /\ \/ StartHandler
     \/ StopHandler /\ UNCHANGED loop
     \/ CancelHandler /\ UNCHANGED loop
     \/ ResetHandler /\ UNCHANGED loop
     \/ ReloadConfiguration /\ UNCHANGED loop
     \/ ClearHistory /\ UNCHANGED loop
     \/ QuitHandler /\ UNCHANGED loop

-----------------------------------------------------------------------------
(***************************************************************************)
(* The loop of voxtyped.rs.                                                *)
(***************************************************************************)

\* Mutant: the loop does not look at quit.
LoopEnters_IgnoresQuit ==
  /\ loop = "ready"
  /\ loop' = "deadline"
  /\ UNCHANGED <<appVars, daemonVars, threads, desktop>>

\* The lock is taken; a daemon that should quit leaves the loop at once.
LoopEnters ==
  /\ loop = "ready"
  /\ loop' = IF quit THEN "exited" ELSE "deadline"
  /\ UNCHANGED <<appVars, daemonVars, threads, desktop>>

\* enforce_recording_deadline: an error of stop is only logged.
DeadlineStops ==
  /\ loop = "deadline" /\ clock = "overdue"
  /\ loop' = "poll"
  /\ \/ StopHandler
     \/ ~ CanStop /\ UNCHANGED <<appVars, daemonVars, threads, desktop>>

DeadlineIsFar ==
  /\ loop = "deadline" /\ clock # "overdue"
  /\ loop' = "poll"
  /\ UNCHANGED <<appVars, daemonVars, threads, desktop>>

ResultWaits == job # NoSession /\ worker[job] \in Replied

\* poll_recognition without a result to take
PollFindsNothing ==
  /\ loop = "poll"
  /\ ~ ResultWaits
  /\ loop' = "drain"
  /\ UNCHANGED <<appVars, daemonVars, threads, desktop>>

\* A result is taken: the job is over whatever becomes of it.
PollTakes ==
  /\ loop = "poll"
  /\ ResultWaits
  /\ loop' = "drain"
  /\ job' = NoSession
  /\ pcm' = CleanedUp(job)
  /\ UNCHANGED <<recording, clock, config, quit, threads>>

\* A result of any other session would be dropped with no further effect.
\* That has no action here: JobIsCurrent says that there is no such job.
JobIsForThisSession == machine.phase = "finalizing" /\ machine.session = job

\* complete_recognition and fail_recognition end with the arm forgotten; an
\* error on the way has the insertion adapter cancel it first.
PollFails ==
  /\ PollTakes
  /\ JobIsForThisSession
  /\ worker[job] \in {"error", "panicked"}
  /\ SetApp(Apply(app, Command("fail", job)))
  /\ Disarms(armed)
  /\ armed' = NotArmed
  /\ UNCHANGED <<history, inserted>>

TranscriptReady == Command("transcript_ready", job)

Transcribed == Apply(app, TranscriptReady)

\* The queue has no room for TranscriptReady: the text is lost.
PollRefused ==
  /\ PollTakes
  /\ JobIsForThisSession
  /\ worker[job] = "text"
  /\ ~ Applies(app, TranscriptReady)
  /\ Disarms(armed)
  /\ armed' = NotArmed
  /\ UNCHANGED <<appVars, history, inserted>>

\* Mutant: an insertion that failed is reported completed.
PollCannotInsert_Completes ==
  /\ PollTakes
  /\ JobIsForThisSession
  /\ worker[job] = "text"
  /\ Applies(app, TranscriptReady)
  /\ LET done == Apply(Transcribed, Command("insertion_complete", job))
     IN SetApp(Finish(done, job, "completed"))
  /\ Disarms(armed)
  /\ armed' = NotArmed
  /\ UNCHANGED <<history, inserted>>

\* insert_text fails: nothing is armed for the session, or the adapter reports
\* an error.  A bridge that answered too late may have dispatched the text.
PollCannotInsert ==
  /\ PollTakes
  /\ JobIsForThisSession
  /\ worker[job] = "text"
  /\ Applies(app, TranscriptReady)
  /\ \/ UNCHANGED inserted
     \/ /\ armed.session = job
        /\ inserted' = [inserted EXCEPT ![job] = @ + 1]
  /\ SetApp(Apply(Transcribed, Command("fail", job)))
  /\ Disarms(armed)
  /\ armed' = NotArmed
  /\ UNCHANGED history

\* The text is dispatched.  Fcitx takes it only for the session it is armed
\* for, and forgets its target.  InsertionComplete may still be refused.
PollInserts ==
  /\ PollTakes
  /\ JobIsForThisSession
  /\ worker[job] = "text"
  /\ Applies(app, TranscriptReady)
  /\ armed.session = job
  /\ armed.backend = "fcitx5" => target = job
  /\ inserted' = [inserted EXCEPT ![job] = @ + 1]
  /\ Disarmed(armed)
  /\ armed' = NotArmed
  /\ LET complete == Command("insertion_complete", job)
         done     == Apply(Transcribed, complete)
         finishes == Applies(Transcribed, complete) /\ CanFinish(done)
     IN /\ SetApp(IF finishes THEN Finish(done, job, "completed") ELSE done)
        /\ history' = IF finishes THEN Remembered(job) ELSE history

\* drain_events and maintenance_wait, then the signals are emitted.
LoopDrains ==
  /\ loop = "drain"
  /\ SetApp(Drained(app))
  /\ loop' = IF clock = "none" THEN "asleep-long" ELSE "asleep-short"
  /\ UNCHANGED <<daemonVars, threads, desktop>>

LoopIsWoken ==
  /\ loop \in Asleep /\ wake
  /\ loop' = "ready"
  /\ wake' = FALSE
  /\ UNCHANGED <<machine, events, results, daemonVars, threads, desktop>>

\* recv_timeout runs out: at most 100 ms while recording, 60 s otherwise.
LoopTimesOut ==
  /\ loop \in Asleep /\ ~ wake
  /\ loop' = "ready"
  /\ UNCHANGED <<appVars, daemonVars, threads, desktop>>

Loop ==
  \/ LoopEnters \/ DeadlineStops \/ DeadlineIsFar
  \/ PollFindsNothing \/ PollFails \/ PollRefused
  \/ PollCannotInsert \/ PollInserts
  \/ LoopDrains \/ LoopIsWoken \/ LoopTimesOut

-----------------------------------------------------------------------------
(***************************************************************************)
(* The recognition workers and the passing of time.                        *)
(***************************************************************************)

\* Mutant: the result is sent, and nobody is woken.
WorkerSends_Silently(s) ==
  /\ loop # "exited"
  /\ worker[s] = "running"
  /\ \E r \in {"text", "error"} : worker' = [worker EXCEPT ![s] = r]
  /\ UNCHANGED <<appVars, daemonVars, cancelled, notifying, desktop, loop>>

\* run_recognition_route returns and its result is sent; the wake-up follows.
WorkerSends(s) ==
  /\ loop # "exited"
  /\ worker[s] = "running"
  /\ \E r \in {"text", "error"} : worker' = [worker EXCEPT ![s] = r]
  /\ notifying' = notifying \cup {s}
  /\ UNCHANGED <<appVars, daemonVars, cancelled, desktop, loop>>

WorkerNotifies(s) ==
  /\ loop # "exited"
  /\ s \in notifying
  /\ notifying' = notifying \ {s}
  /\ SetApp(Notified(app))
  /\ UNCHANGED <<daemonVars, cancelled, worker, desktop, loop>>

\* The thread unwinds: its sender is dropped and nobody is woken.
WorkerPanics(s) ==
  /\ loop # "exited"
  /\ worker[s] = "running"
  /\ worker' = [worker EXCEPT ![s] = "panicked"]
  /\ UNCHANGED <<appVars, daemonVars, cancelled, notifying, desktop, loop>>

Worker(s) == WorkerSends(s) \/ WorkerNotifies(s) \/ WorkerPanics(s)

DurationPasses ==
  /\ loop # "exited"
  /\ clock = "running"
  /\ clock' = "overdue"
  /\ UNCHANGED <<appVars, recording, armed, job, config, history, quit,
                 threads, desktop, loop>>

Next == Client \/ Loop \/ (\E s \in Sessions : Worker(s)) \/ DurationPasses

Spec == Init /\ [][Next]_vars

\* The loop and the workers are threads that keep running, a provider answers
\* or gives up, and time passes; nobody has to call the daemon.  A worker that
\* panics does so without having to.
Fairness ==
  /\ WF_vars(Loop)
  /\ \A s \in Sessions : WF_vars(WorkerSends(s)) /\ WF_vars(WorkerNotifies(s))
  /\ WF_vars(DurationPasses)

FairSpec == Spec /\ Fairness

-----------------------------------------------------------------------------
(***************************************************************************)
(* Safety.                                                                 *)
(***************************************************************************)

TypeOK ==
  /\ AppTypeOK
  /\ recording \in MaybeSession
  /\ clock \in {"none", "running", "overdue"}
  /\ armed \in Arms
  /\ job \in MaybeSession
  /\ cancelled \subseteq Sessions
  /\ worker \in [Sessions -> WorkerStates]
  /\ notifying \subseteq Sessions
  /\ config \in Configs
  /\ history \in Seq(Sessions)
  /\ quit \in BOOLEAN
  /\ loop \in LoopStates
  /\ target \in MaybeSession
  /\ adrift \in BOOLEAN
  /\ pcm \subseteq Sessions
  /\ inserted \in [Sessions -> Nat]

\* The microphone is open only for the current session, only before that
\* session leaves capture, and never without the clock of the safety deadline;
\* and while no recognition is under way (daemon.rs:229-313, 315-367).
MicrophoneOnlyInCapture ==
  /\ recording # NoSession =>
       /\ machine.session = recording
       /\ machine.phase \in {"preparing", "listening"}
       /\ job = NoSession
  /\ recording = NoSession <=> clock = "none"

\* A recognition job always belongs to the session that is finalizing: no call
\* of a client can leave a job behind whose result would reach another session
\* (daemon.rs:637-642 checks it once more).
JobIsCurrent == job # NoSession => JobIsForThisSession

\* A worker that still runs either works for the job, or has been told to
\* stop: a cancelled or abandoned dictation does not go on using a provider.
NoOrphanWorker ==
  \A s \in Sessions : worker[s] = "running" => job = s \/ s \in cancelled

\* Text is dispatched once at most, and only for the session that is finalizing,
\* whose token is not cancelled, and for which no outcome has been reported:
\* neither Cancel nor a failure is ever followed by the text.
NoTextAfterTheEnd ==
  [][ \A s \in Sessions : inserted'[s] # inserted[s] =>
        /\ inserted[s] = 0 /\ inserted'[s] = 1
        /\ machine.session = s /\ machine.phase = "finalizing"
        /\ s \notin cancelled
        /\ ~ HasResult(results, s)
    ]_vars

\* A session that has ended can be asked for its outcome: its result is in the
\* cache as long as it is the current session, whatever was refused for lack
\* of room in the event queue (voxtype stop --wait polls for it).
EndedHasResult ==
  machine.phase \in Terminal => HasResult(results, machine.session)

\* As long as text is only inserted through Fcitx, the daemon never forgets a target that
\* the addon is armed for, so that a later Cancel or Quit disarms it; unless the ARM of this
\* target was never answered, or its CANCEL could not be sent.
TargetIsRemembered ==
  Backends = {"fcitx5"} /\ target # NoSession =>
    \/ armed = [session |-> target, backend |-> "fcitx5"]
    \/ adrift

\* Unless recordings are retained, a recording file is on disk only while its
\* session is captured or recognized.
NoAudioLeftBehind ==
  (\A c \in Configs : ~ c.retain) => pcm \subseteq {recording, job}

\* Recent texts are kept only when asked for, at most MaxHistory of them,
\* each once, in the order of their sessions, and only of completed sessions.
HistoryIsOfInserted ==
  /\ Len(history) <= MaxHistory
  /\ history # <<>> => config.history
  /\ \A i \in 1..Len(history) :
       /\ inserted[history[i]] = 1
       /\ \A j \in 1..(i - 1) : history[j] < history[i]

\* Nothing of a dictation is left behind without being asked for: neither a target that
\* the addon said it took, nor its audio, nor its text.
NothingIsLeftBehind ==
  TargetIsRemembered /\ NoAudioLeftBehind /\ HistoryIsOfInserted

\* The loop never sleeps its long sleep over something it should do (signals
\* to emit, a result to take, a recording to watch, to quit) unless a wake-up
\* is there, or about to be sent by the worker that sent the result.
NoLostWakeup ==
  loop = "asleep-long" =>
    \/ wake
    \/ /\ events = <<>> /\ recording = NoSession /\ ~ quit
       /\ job # NoSession => worker[job] \in {"none", "running", "panicked"}
    \/ job \in notifying

-----------------------------------------------------------------------------
(***************************************************************************)
(* The daemon implements Dictation: whatever its clients, workers and      *)
(* queue do, its users see nothing that Dictation does not allow.  (The    *)
(* mapping reads outcomes off the result cache, so it is for instances     *)
(* whose cache has room for every session.)                                *)
(***************************************************************************)
OutcomeIn(rs, s) == IF HasResult(rs, s) THEN rs[Position(rs, s)].outcome ELSE "none"

Current   == IF machine.phase \in Active THEN machine.session ELSE NoSession
Delivered == {s \in Sessions : inserted[s] > 0}
Reported  == [s \in Sessions |-> OutcomeIn(results, s)]

Abstract == INSTANCE Dictation WITH
  Ids <- Sessions, current <- Current, delivered <- Delivered, outcome <- Reported

ImplementsDictation == Abstract!DictationSpec

-----------------------------------------------------------------------------
(***************************************************************************)
(* Liveness.                                                               *)
(***************************************************************************)

\* A dictation that is under way ends, without anybody calling the daemon:
\* the deadline stops its capture and a result, or a panic, ends recognition.
SessionsEnd ==
  \A s \in Sessions :
    machine.session = s /\ machine.phase \in Active
      ~> machine.session # s \/ machine.phase \in Terminal \/ loop = "exited"

\* Events that wait are emitted.
EventsAreEmitted == events # <<>> ~> events = <<>> \/ loop = "exited"

\* Quit is obeyed.
QuitExits == quit ~> loop = "exited"

\* The loop serves whoever waits for it, although it may sleep for a minute and
\* its wake-ups are merged: followers of the signals, and the one who quits.
LoopServes == EventsAreEmitted /\ QuitExits

-----------------------------------------------------------------------------
(***************************************************************************)
(* What the documents say and the code does not do.                        *)
(***************************************************************************)

\* docs/api-contracts.md:389: "SessionFinished is emitted once after the
\* terminal state".  Cancel is accepted after the end, and emits it again.
FinishedOnce ==
  [][ \A i \in 1..Len(events') :
        i > Len(events) /\ events'[i].outcome # "none"
          => ~ HasResult(results, events'[i].session)
    ]_vars

\* docs/configuration.md:24: maximum_duration_seconds "automatically stops an
\* accidentally abandoned recording".
DeadlineStopsRecording ==
  clock = "overdue" ~> recording = NoSession \/ loop = "exited"
=============================================================================
