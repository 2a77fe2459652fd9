---------------------------- MODULE OverlayWindow ----------------------------
(***************************************************************************)
(* What the daemon shows in the overlay.  Each message is a process of its *)
(* own (src/bin/voxtype-overlay.rs), which replaces the state file and     *)
(* sees to it that a window runs; the levels of a recording are written by *)
(* the daemon itself (overlay and write_overlay_telemetry in               *)
(* src/daemon.rs).  Nobody waits for the processes.                        *)
(***************************************************************************)
EXTENDS Naturals, FiniteSets

CONSTANT MaxMessages   \* bound of the messages

OverlayAssumption == MaxMessages \in Nat

\* In the order in which they are sent.  Each stands for its process, and for the
\* window that this process may open.
Messages == 1 .. MaxMessages
NoMessage == 0
NoWindow == 0

VARIABLES
  sent,       \* number of the last message
  recording,  \* the daemon records
  endedAt,    \* number of the last message when the last recording ended
  state,      \* overlay-state.json: a message, or NoMessage: a level, or nothing
  step,       \* of the process of each message
  pidFile,    \* overlay.pid: no number (or no file), or a window
  windows,    \* that run
  overlapped, \* history: two processes ran at once
  unrecorded, \* history: those windows whose process failed to record them
  assured     \* history: a process found or opened a window since the last one quit

vars == <<sent, recording, endedAt, state, step, pidFile, windows, overlapped, unrecorded, assured>>

daemon  == <<sent, recording, endedAt>>
screen  == <<pidFile, windows>>
history == <<overlapped, unrecorded, assured>>

OverlayInit ==
  /\ sent = 0 /\ recording = FALSE /\ endedAt = 0
  /\ state = NoMessage
  /\ step = [n \in Messages |-> "none"]
  /\ pidFile = NoWindow /\ windows = {}
  /\ overlapped = FALSE /\ unrecorded = {} /\ assured = FALSE

\* A process that failed before it could replace the file is "lost".
Ended(n)   == step[n] \in {"none", "ended", "lost"}
Written(n) == step[n] \notin {"none", "writing", "lost"}

-----------------------------------------------------------------------------
(***************************************************************************)
(* The daemon.                                                             *)
(***************************************************************************)

\* overlay
Sends ==
  /\ sent < MaxMessages
  /\ sent' = sent + 1
  /\ step' = [step EXCEPT ![sent + 1] = "writing"]
  /\ overlapped' = (overlapped \/ \E n \in Messages : ~ Ended(n))

SaysNothing == UNCHANGED <<sent, step, overlapped>>

\* "Listening", but not if CaptureReady is refused, which leaves the recording.
Start ==
  /\ ~ recording /\ recording' = TRUE
  /\ Sends \/ SaysNothing
  /\ UNCHANGED <<endedAt, state, screen, unrecorded, assured>>

\* "Processing speech" or "Dictation cancelled", but nothing if the recorder fails, or
\* before the daemon quits.
End ==
  /\ recording /\ recording' = FALSE
  /\ endedAt' = sent
  /\ Sends \/ SaysNothing
  /\ UNCHANGED <<state, screen, unrecorded, assured>>

\* "Maximum duration reached", which is sent before the stop, and also if that is then
\* refused; or what has nothing to do with a recording.
Message ==
  /\ Sends
  /\ UNCHANGED <<recording, endedAt, state, screen, unrecorded, assured>>

\* Mutant: levels are shown whether or not there is a recording.
Telemetry_AfterStop ==
  /\ state' = NoMessage
  /\ UNCHANGED <<daemon, step, screen, history>>

\* poll_audio_telemetry, once more in a stop; with a file of its own and within the
\* daemon's lock.
Telemetry ==
  /\ recording
  /\ state' = NoMessage
  /\ UNCHANGED <<daemon, step, screen, history>>

-----------------------------------------------------------------------------
(***************************************************************************)
(* voxtype-overlay show.                                                   *)
(***************************************************************************)

\* write_state
WriteState(n) ==
  /\ step[n] = "writing"
  /\ state' = n
  /\ step' = [step EXCEPT ![n] = "looking"]
  /\ UNCHANGED <<daemon, screen, history>>

\* Mutant: a number in the file is trusted.
Runs_Recorded(window) == window # NoWindow

\* is_overlay_process
Runs(window) == window \in windows

\* current_overlay_pid
Look(n) ==
  /\ step[n] = "looking"
  /\ IF Runs(pidFile)
     THEN /\ step' = [step EXCEPT ![n] = "ended"] /\ assured' = TRUE
          /\ UNCHANGED pidFile
     ELSE /\ step' = [step EXCEPT ![n] = "opening"] /\ pidFile' = NoWindow
          /\ UNCHANGED assured
  /\ UNCHANGED <<daemon, state, windows, overlapped, unrecorded>>

\* ensure_running
Open(n) ==
  /\ step[n] = "opening"
  /\ windows' = windows \cup {n}
  /\ step' = [step EXCEPT ![n] = "truncating"]
  /\ assured' = TRUE
  /\ UNCHANGED <<daemon, state, pidFile, overlapped, unrecorded>>

\* write_private, which empties the file first.
Truncate(n) ==
  /\ step[n] = "truncating"
  /\ pidFile' = NoWindow
  /\ step' = [step EXCEPT ![n] = "recording"]
  /\ UNCHANGED <<daemon, state, windows, history>>

\* Mutant: the process writes its own number.
Record_Own(n) ==
  /\ step[n] = "recording"
  /\ pidFile' = NoWindow
  /\ step' = [step EXCEPT ![n] = "ended"]
  /\ UNCHANGED <<daemon, state, windows, history>>

Record(n) ==
  /\ step[n] = "recording"
  /\ pidFile' = n
  /\ step' = [step EXCEPT ![n] = "ended"]
  /\ UNCHANGED <<daemon, state, windows, history>>

\* It ends with an error, or dies: a message is not shown, a window not opened, or one
\* that runs not recorded.
Fails(n) ==
  /\ ~ Ended(n)
  /\ step' = [step EXCEPT ![n] = IF @ = "writing" THEN "lost" ELSE "ended"]
  /\ unrecorded' = IF step[n] \in {"truncating", "recording"} THEN unrecorded \cup {n}
                                                              ELSE unrecorded
  /\ UNCHANGED <<daemon, state, screen, overlapped, assured>>

\* The user closes a window, or it ends after five idle minutes.
Quit ==
  /\ \E window \in windows :
       windows' = windows \ {window} /\ unrecorded' = unrecorded \ {window}
  /\ assured' = FALSE
  /\ UNCHANGED <<daemon, state, step, pidFile, overlapped>>

-----------------------------------------------------------------------------

OverlayNext ==
  \/ Start \/ End \/ Message \/ Telemetry \/ Quit
  \/ \E n \in Messages :
       WriteState(n) \/ Look(n) \/ Open(n) \/ Truncate(n) \/ Record(n) \/ Fails(n)

OverlaySpec == OverlayInit /\ [][OverlayNext]_vars

-----------------------------------------------------------------------------
(***************************************************************************)
(* Properties.                                                             *)
(***************************************************************************)

\* When a recording has ended, no level of it comes any more: once a message that was sent
\* since is in the file, a message stays there, and it is the last one if messages do not
\* come at once.  (A message that is sent before the end, like that of the deadline, may
\* be replaced by a level, which stays if the stop fails.)
LastWordStays ==
  ~ recording =>
    /\ (\E n \in Messages : n > endedAt /\ Written(n)) => state # NoMessage
    /\ ~ overlapped /\ sent > endedAt /\ Written(sent) => state = sent

\* Processes that run one after the other open one window, whenever it quits; besides
\* those that a process had opened when it failed.
OneWindowIfApart == ~ overlapped => Cardinality(windows \ unrecorded) <= 1

\* A process only ends well with a window that runs, however many run at once: no message
\* is left in the file without a window, unless the window quits after all.
MessageHasWindow == assured => windows # {}
=============================================================================
