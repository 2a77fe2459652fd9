---------------------------- MODULE AudioCapture ----------------------------
(***************************************************************************)
(* One recording (src/audio.rs): the process that records, the pipe it     *)
(* writes to, the thread that reads the pipe into the file and measures    *)
(* the frames, and the owner, who starts, drains, stops and cancels under  *)
(* the lock of the daemon.  Audio is counted in halves of a frame, so that *)
(* a read may end within one.                                              *)
(***************************************************************************)
EXTENDS Integers, Sequences

CONSTANTS
  Halves,       \* bound of a recording, in halves of a frame
  PipeSize,     \* what the pipe holds
  ChannelSize   \* capacity of the channel of metrics

ASSUME CaptureAssumption ==
  /\ Halves \in Nat /\ PipeSize \in Nat \ {0} /\ ChannelSize \in Nat

VARIABLES
  recorder,              \* the child
  produced, pipe,        \* what it wrote (history), and what waits in the pipe
  reader,                \* the thread
  written, exists,       \* the file: its length, and whether it is there
  pending, nextFrame,    \* audio that is not measured yet, and the next frame
  channel, drained,      \* metrics on their way, and those the owner took (history)
  owner,
  result                 \* what stop returned

recorderVars == <<recorder, produced, pipe>>
readerVars   == <<reader, written, pending, nextFrame, channel>>
ownerVars    == <<owner, exists, drained, result>>
vars         == <<recorderVars, readerVars, ownerVars>>

NoResult == -1

Finished == {"stopped", "gone"}
Ends     == {"done", "failed"}

CaptureInit ==
  /\ recorder = "none" /\ produced = 0 /\ pipe = 0
  /\ reader = "none" /\ written = 0 /\ pending = 0 /\ nextFrame = 0 /\ channel = <<>>
  /\ owner = "off" /\ exists = FALSE /\ drained = <<>> /\ result = NoResult

-----------------------------------------------------------------------------
(***************************************************************************)
(* The recorder.  It may stop by itself at any time, and writes the rest   *)
(* of its own buffer after an interrupt.                                   *)
(***************************************************************************)

Runs == recorder \in {"running", "interrupted"}

Write ==
  /\ Runs /\ reader \notin Ends
  /\ produced < Halves /\ pipe < PipeSize
  /\ produced' = produced + 1 /\ pipe' = pipe + 1
  /\ UNCHANGED <<recorder, readerVars, ownerVars>>

\* By itself, by the interrupt, or because nobody reads any more.
Exit ==
  /\ Runs
  /\ recorder' = "ended"
  /\ UNCHANGED <<produced, pipe, readerVars, ownerVars>>

-----------------------------------------------------------------------------
(***************************************************************************)
(* The thread that reads.                                                  *)
(***************************************************************************)

Read ==
  /\ reader = "reading"
  /\ \E n \in 1..pipe :
       /\ pipe' = pipe - n
       /\ written' = written + n /\ pending' = pending + n
  /\ reader' = "measuring"
  /\ UNCHANGED <<recorder, produced, nextFrame, channel, ownerVars>>

\* The disk is full.
ReadFails ==
  /\ reader = "reading" /\ pipe > 0
  /\ reader' = "failed"
  /\ UNCHANGED <<recorderVars, written, pending, nextFrame, channel, ownerVars>>

Metrics == [frame |-> nextFrame, at |-> written - pending]

\* Metrics that find no room are dropped.
Measure ==
  /\ reader = "measuring" /\ pending >= 2
  /\ channel' = IF Len(channel) < ChannelSize THEN Append(channel, Metrics) ELSE channel
  /\ pending' = pending - 2 /\ nextFrame' = nextFrame + 1
  /\ UNCHANGED <<recorderVars, reader, written, ownerVars>>

\* A frame that is not complete waits for the next read.
Measured ==
  /\ reader = "measuring" /\ pending < 2
  /\ reader' = "reading"
  /\ UNCHANGED <<recorderVars, written, pending, nextFrame, channel, ownerVars>>

EndOfPipe ==
  /\ reader = "reading" /\ pipe = 0 /\ ~ Runs
  /\ reader' = "done"
  /\ UNCHANGED <<recorderVars, written, pending, nextFrame, channel, ownerVars>>

ReaderSteps == Read \/ ReadFails \/ Measure \/ Measured \/ EndOfPipe

-----------------------------------------------------------------------------
(***************************************************************************)
(* The owner.  Each action ends where the code waits for somebody.         *)
(***************************************************************************)

\* start_with_device: the file, then the recorder, then the thread; the guards take
\* away again what there is if the next one fails.
Start ==
  /\ owner = "off"
  /\ \/ /\ owner' = "settling" /\ exists' = TRUE
        /\ recorder' = "running" /\ reader' = "reading"
     \/ /\ owner' = "gone"                          \* no file, or no recorder
        /\ UNCHANGED <<exists, recorder, reader>>
     \/ /\ owner' = "gone" /\ recorder' = "reaped"  \* no thread
        /\ UNCHANGED <<exists, reader>>
  /\ UNCHANGED <<produced, pipe, written, pending, nextFrame, channel, drained, result>>

\* After 50 ms it runs.
Settle ==
  /\ owner = "settling" /\ recorder = "running"
  /\ owner' = "open"
  /\ UNCHANGED <<recorderVars, readerVars, exists, drained, result>>

\* It has exited: the thread is joined.
ExitedEarly ==
  /\ owner = "settling" /\ recorder = "ended"
  /\ recorder' = "reaped" /\ owner' = "joining"
  /\ UNCHANGED <<produced, pipe, readerVars, exists, drained, result>>

\* It cannot be asked: the guards kill it, and the thread is left to itself.
CannotSettle ==
  /\ owner = "settling"
  /\ recorder' = "reaped" /\ owner' = "gone" /\ exists' = FALSE
  /\ UNCHANGED <<produced, pipe, readerVars, drained, result>>

\* drain_frames
Drain ==
  /\ owner = "open" /\ channel # <<>>
  /\ drained' = drained \o channel /\ channel' = <<>>
  /\ UNCHANGED <<recorderVars, reader, written, pending, nextFrame, owner, exists, result>>

\* stop: has it ended by itself?
Stop ==
  /\ owner = "open"
  /\ IF recorder = "ended" THEN recorder' = "reaped" /\ owner' = "flushing"
                           ELSE owner' = "interrupting" /\ UNCHANGED recorder
  /\ UNCHANGED <<produced, pipe, readerVars, exists, drained, result>>

\* Mutant: nobody looks whether the interrupt was sent.
Interrupt_Unchecked ==
  /\ owner = "interrupting"
  /\ recorder' \in {recorder, IF Runs THEN "interrupted" ELSE recorder}
  /\ owner' = "waiting"
  /\ UNCHANGED <<produced, pipe, readerVars, exists, drained, result>>

\* It may end before the interrupt reaches it.
Interrupt ==
  /\ owner = "interrupting"
  /\ \/ /\ recorder' = IF Runs THEN "interrupted" ELSE recorder
        /\ owner' = "waiting"
     \/ recorder' = "ended" /\ owner' = "waiting"          \* refused: it is killed
     \/ recorder' = "reaped" /\ owner' = "joining"         \* no kill program: Drop
  /\ UNCHANGED <<produced, pipe, readerVars, exists, drained, result>>

\* Without a timeout.
Wait ==
  /\ owner = "waiting" /\ recorder = "ended"
  /\ recorder' = "reaped" /\ owner' = "flushing"
  /\ UNCHANGED <<produced, pipe, readerVars, exists, drained, result>>

\* Mutant: the thread is not waited for.
Flush_Unjoined ==
  /\ owner = "flushing"
  /\ result' = written /\ owner' = "stopped"
  /\ UNCHANGED <<recorderVars, readerVars, exists, drained>>

\* join_reader, and the length of the file.
Flush ==
  /\ owner = "flushing" /\ reader = "done"
  /\ result' = written /\ owner' = "stopped"
  /\ UNCHANGED <<recorderVars, readerVars, exists, drained>>

\* Mutant: the file is kept from the beginning of stop on.
FlushFails_Keeps ==
  /\ owner = "flushing" /\ reader \in Ends
  /\ owner' = "gone"
  /\ UNCHANGED <<recorderVars, readerVars, exists, drained, result>>

\* The thread failed, or the file is not there: Drop removes what there is.
FlushFails ==
  /\ owner = "flushing" /\ reader \in Ends
  /\ owner' = "gone" /\ exists' = FALSE
  /\ UNCHANGED <<recorderVars, readerVars, drained, result>>

\* cancel, and Drop: the recorder is killed and reaped at once.
Cancel ==
  /\ owner = "open"
  /\ recorder' = "reaped" /\ owner' = "joining"
  /\ UNCHANGED <<produced, pipe, readerVars, exists, drained, result>>

\* The end of cancel, of Drop and of a failed start.
Join ==
  /\ owner = "joining" /\ reader \in Ends
  /\ owner' = "gone" /\ exists' = FALSE
  /\ UNCHANGED <<recorderVars, readerVars, drained, result>>

OwnerContinues ==
  \/ Settle \/ ExitedEarly \/ CannotSettle
  \/ Interrupt \/ Wait \/ Flush \/ FlushFails \/ Join

CaptureNext == Write \/ Exit \/ ReaderSteps \/ Start \/ Drain \/ Stop \/ Cancel \/ OwnerContinues

CaptureSpec == CaptureInit /\ [][CaptureNext]_vars

-----------------------------------------------------------------------------
(***************************************************************************)
(* Properties.                                                             *)
(***************************************************************************)

CaptureTypeOK ==
  /\ recorder \in {"none", "running", "interrupted", "ended", "reaped"}
  /\ produced \in 0..Halves /\ pipe \in 0..PipeSize
  /\ reader \in {"none", "reading", "measuring"} \cup Ends
  /\ written \in 0..Halves /\ pending \in 0..written
  /\ Len(channel) <= ChannelSize
  /\ owner \in {"off", "settling", "open", "interrupting", "waiting", "flushing", "joining"}
               \cup Finished
  /\ exists \in BOOLEAN /\ result \in 0..Halves \cup {NoResult}

\* A stop returns all that the recorder wrote, the part it wrote after the interrupt
\* included, and keeps the file.
TailIsKept == owner = "stopped" => exists /\ result = produced

\* Whatever fails, a recording that was not handed over leaves neither a file nor a
\* process behind.
NothingIsLeft ==
  owner \in Finished => recorder \in {"none", "reaped"} /\ (exists <=> owner = "stopped")

\* The number of a frame is its place in the recording, in the order of time,
\* however many metrics were dropped in between.
FramesAreInPlace ==
  LET seen == drained \o channel IN
  /\ \A i \in 1..Len(seen) : seen[i].at = 2 * seen[i].frame
  /\ \A i, j \in 1..Len(seen) : i < j => seen[i].frame < seen[j].frame

\* Start, stop and cancel return, whatever the recorder and the disk do.
CallsReturn == (owner \notin {"off", "open"}) ~> (owner \in Finished \cup {"open"})
=============================================================================
