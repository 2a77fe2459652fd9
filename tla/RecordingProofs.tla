-------------------------- MODULE RecordingProofs --------------------------
(***************************************************************************)
(* Proofs about MCRecording.  A recording, of any length and for pipes and *)
(* channels of any size: where the audio is, who is left to whom, and what *)
(* the owner has seen of the frames.  The detector, for any levels and any *)
(* lengths of runs and pauses: it finds the first run, from one frame to   *)
(* the next.  The calibration, for phases of any length: percentiles split *)
(* the levels.  The level of a frame, for frames of any size: Newton's     *)
(* iteration in integers, from either beginning, ends at the root or near  *)
(* it.  The cleanup of a text of any length: its edits go together, and    *)
(* every word is still said.                                               *)
(***************************************************************************)
EXTENDS MCRecording, NumberLemmas, TLAPS, SequenceTheorems

(***************************************************************************)
(* The recording.                                                          *)
(***************************************************************************)
USE CaptureAssumption DEF CaptureAssumption

Metric == [frame : Nat, at : Nat]

Types ==
  /\ CaptureTypeOK
  /\ nextFrame \in Nat
  /\ channel \in Seq(Metric) /\ drained \in Seq(Metric)

\* What was produced is in the pipe or in the file, and what is in the file is
\* measured or waits for the rest of its frame.
Balanced ==
  /\ produced = written + pipe
  /\ written = 2 * nextFrame + pending
  /\ reader = "done" => pipe = 0 /\ ~ Runs

\* Which recorder each step of the owner goes with.
Owned ==
  /\ owner = "off" => recorder = "none" /\ reader = "none" /\ ~ exists
  /\ owner \in {"flushing", "joining"} => recorder = "reaped" /\ exists
  /\ owner \in {"settling", "open", "interrupting", "waiting"} => exists
  /\ owner = "stopped" => recorder = "reaped" /\ exists /\ reader = "done" /\ result = written
  /\ owner = "gone" => recorder \in {"none", "reaped"} /\ ~ exists

\* In the order of time, and before frame n.
Placed(seen, n) ==
  /\ \A i \in 1..Len(seen) : seen[i].at = 2 * seen[i].frame /\ seen[i].frame < n
  /\ \A i, j \in 1..Len(seen) : i < j => seen[i].frame < seen[j].frame

CaptureInv == Types /\ Balanced /\ Owned /\ Placed(drained \o channel, nextFrame)

-----------------------------------------------------------------------------

\* Frames are numbered.
LEMMA Numbered ==
  ASSUME NEW seen \in Seq(Metric)
  PROVE  \A i \in 1..Len(seen) : seen[i].frame \in Nat
  <1> SUFFICES ASSUME NEW i \in 1..Len(seen) PROVE seen[i].frame \in Nat
    OBVIOUS
  <1>1. seen[i] \in Metric
    OBVIOUS
  <1> QED BY <1>1 DEF Metric

\* A frame whose metrics are dropped disturbs nothing.
LEMMA PlacedDropped ==
  ASSUME NEW seen \in Seq(Metric), NEW n \in Nat, Placed(seen, n)
  PROVE  Placed(seen, n + 1)
  <1>1. \A i \in 1..Len(seen) : seen[i].frame \in Nat
    BY Numbered
  <1> QED BY <1>1 DEF Placed

\* The metrics of the next frame are in place behind the others.
LEMMA PlacedNext ==
  ASSUME NEW seen \in Seq(Metric), NEW n \in Nat, Placed(seen, n)
  PROVE  Placed(Append(seen, [frame |-> n, at |-> 2 * n]), n + 1)
  <1> DEFINE m     == [frame |-> n, at |-> 2 * n]
             later == Append(seen, m)
  <1>1. /\ Len(later) = Len(seen) + 1 /\ later[Len(seen) + 1] = m
        /\ \A i \in 1..Len(seen) : later[i] = seen[i]
    OBVIOUS
  <1>2. \A i \in 1..Len(seen) : seen[i].frame \in Nat
    BY Numbered
  <1>3. Len(seen) \in Nat /\ m.frame = n /\ m.at = 2 * n
    OBVIOUS
  <1> HIDE DEF m, later
  <1>4. \A i \in 1..Len(later) : later[i].at = 2 * later[i].frame /\ later[i].frame < n + 1
    BY <1>1, <1>2, <1>3 DEF Placed
  <1>5. \A i, j \in 1..Len(later) : i < j => later[i].frame < later[j].frame
    <2> SUFFICES ASSUME NEW i \in 1..Len(later), NEW j \in 1..Len(later), i < j
                 PROVE  later[i].frame < later[j].frame
      OBVIOUS
    <2>1. i \in 1..Len(seen) /\ later[i] = seen[i] /\ seen[i].frame < n
      BY <1>1, <1>3 DEF Placed
    <2>2. CASE j = Len(seen) + 1
      BY <2>1, <2>2, <1>1, <1>3
    <2>3. CASE j # Len(seen) + 1
      <3>1. j \in 1..Len(seen) /\ later[j] = seen[j]
        BY <2>3, <1>1, <1>3
      <3> QED BY <2>1, <3>1 DEF Placed
    <2> QED BY <2>2, <2>3
  <1> QED BY <1>4, <1>5 DEF Placed, later, m

LEMMA CaptureInitially == CaptureInit => CaptureInv
  <1> SUFFICES ASSUME CaptureInit PROVE CaptureInv
    OBVIOUS
  <1>1. /\ recorder \in {"none", "running", "interrupted", "ended", "reaped"}
        /\ reader \in {"none", "reading", "measuring"} \cup Ends
        /\ owner \in {"off", "settling", "open", "interrupting", "waiting", "flushing", "joining"}
                     \cup Finished
        /\ exists \in BOOLEAN
    BY DEF CaptureInit
  <1>2. /\ produced \in 0..Halves /\ pipe \in 0..PipeSize
        /\ written \in 0..Halves /\ pending \in 0..written /\ nextFrame \in Nat
    BY DEF CaptureInit
  <1>3. result \in 0..Halves \cup {NoResult} /\ Len(channel) <= ChannelSize
    BY DEF CaptureInit
  <1>4. channel \in Seq(Metric) /\ drained \in Seq(Metric)
    BY DEF CaptureInit
  <1>5. Balanced /\ Owned
    BY DEF CaptureInit, Balanced, Owned, Runs
  <1>6. drained \o channel = <<>>
    BY DEF CaptureInit
  <1>7. Placed(<<>>, nextFrame)
    BY DEF Placed
  <1> QED
    BY <1>1, <1>2, <1>3, <1>4, <1>5, <1>6, <1>7 DEF CaptureInv, Types, CaptureTypeOK

-----------------------------------------------------------------------------
(***************************************************************************)
(* Who writes where: most steps leave the frames alone.                    *)
(***************************************************************************)

LEMMA TypesHold == CaptureInv /\ [CaptureNext]_vars => Types'
  <1> SUFFICES ASSUME CaptureInv, [CaptureNext]_vars PROVE Types'
    OBVIOUS
  <1> USE DEF CaptureInv, Types, CaptureTypeOK, Ends, Finished, NoResult,
              recorderVars, readerVars, ownerVars
  <1>1. CASE Write   BY <1>1 DEF Write, Balanced, Runs
  <1>2. CASE Exit    BY <1>2 DEF Exit
  <1>3. CASE Read    BY <1>3 DEF Read, Balanced
  <1>4. CASE ReadFails \/ Measured \/ EndOfPipe
    BY <1>4 DEF ReadFails, Measured, EndOfPipe
  <1>5. CASE Measure
    <2>1. Metrics \in Metric
      BY <1>5 DEF Metrics, Metric
    <2>2. channel' \in Seq(Metric) /\ Len(channel') <= ChannelSize
      BY <1>5, <2>1 DEF Measure
    <2> QED BY <1>5, <2>2 DEF Measure
  <1>6. CASE Start   BY <1>6 DEF Start
  <1>7. CASE Drain
    <2>1. drained' \in Seq(Metric) /\ channel' \in Seq(Metric) /\ Len(channel') <= ChannelSize
      BY <1>7 DEF Drain
    <2> QED BY <1>7, <2>1 DEF Drain
  <1>8. CASE Stop \/ Cancel
    BY <1>8 DEF Stop, Cancel
  <1>9. CASE OwnerContinues
    BY <1>9 DEF OwnerContinues, Settle, ExitedEarly, CannotSettle, Interrupt, Wait, Flush,
                FlushFails, Join, Runs
  <1>10. CASE UNCHANGED vars
    BY <1>10 DEF vars
  <1> QED
    BY <1>1, <1>2, <1>3, <1>4, <1>5, <1>6, <1>7, <1>8, <1>9, <1>10 DEF CaptureNext, ReaderSteps

LEMMA BalanceHolds == CaptureInv /\ [CaptureNext]_vars => Balanced'
  <1> SUFFICES ASSUME CaptureInv, [CaptureNext]_vars PROVE Balanced'
    OBVIOUS
  <1> USE DEF CaptureInv, Types, CaptureTypeOK, Balanced, Runs, Ends,
              recorderVars, readerVars, ownerVars
  <1>1. CASE Write   BY <1>1 DEF Write
  <1>2. CASE Exit    BY <1>2 DEF Exit
  <1>3. CASE ReaderSteps
    BY <1>3 DEF ReaderSteps, Read, ReadFails, Measure, Measured, EndOfPipe
  <1>4. CASE Start   BY <1>4 DEF Start, Owned
  <1>5. CASE Drain \/ Stop \/ Cancel
    BY <1>5 DEF Drain, Stop, Cancel
  <1>6. CASE OwnerContinues
    BY <1>6 DEF OwnerContinues, Settle, ExitedEarly, CannotSettle, Interrupt, Wait, Flush,
                FlushFails, Join
  <1>7. CASE UNCHANGED vars
    BY <1>7 DEF vars
  <1> QED BY <1>1, <1>2, <1>3, <1>4, <1>5, <1>6, <1>7 DEF CaptureNext

LEMMA OwnerHolds == CaptureInv /\ [CaptureNext]_vars => Owned'
  <1> SUFFICES ASSUME CaptureInv, [CaptureNext]_vars PROVE Owned'
    OBVIOUS
  <1> USE DEF CaptureInv, Owned, Runs, recorderVars, readerVars, ownerVars
  <1>1. CASE Write   BY <1>1 DEF Write
  <1>2. CASE Exit    BY <1>2 DEF Exit
  <1>3. CASE ReaderSteps
    BY <1>3 DEF ReaderSteps, Read, ReadFails, Measure, Measured, EndOfPipe
  <1>4. CASE Start   BY <1>4 DEF Start
  <1>5. CASE Drain \/ Stop \/ Cancel
    BY <1>5 DEF Drain, Stop, Cancel
  <1>6. CASE OwnerContinues
    BY <1>6 DEF OwnerContinues, Settle, ExitedEarly, CannotSettle, Interrupt, Wait, Flush,
                FlushFails, Join
  <1>7. CASE UNCHANGED vars
    BY <1>7 DEF vars
  <1> QED BY <1>1, <1>2, <1>3, <1>4, <1>5, <1>6, <1>7 DEF CaptureNext

LEMMA FramesHold == CaptureInv /\ [CaptureNext]_vars => Placed(drained \o channel, nextFrame)'
  <1> SUFFICES ASSUME CaptureInv, [CaptureNext]_vars
               PROVE  Placed(drained' \o channel', nextFrame')
    OBVIOUS
  <1> DEFINE seen == drained \o channel
  <1>1. seen \in Seq(Metric) /\ nextFrame \in Nat /\ Placed(seen, nextFrame)
    BY DEF CaptureInv, Types
  <1>2. CASE Measure
    <2>1. nextFrame' = nextFrame + 1 /\ drained' = drained
      BY <1>2 DEF Measure, ownerVars
    <2>2. Metrics = [frame |-> nextFrame, at |-> 2 * nextFrame]
      BY DEF Metrics, CaptureInv, Types, CaptureTypeOK, Balanced
    <2>3. CASE channel' = Append(channel, Metrics)
      <3>1. Metrics \in Metric
        BY <2>2, <1>1 DEF Metric
      <3>2. drained' \o channel' = Append(seen, Metrics)
        BY <2>1, <2>3, <3>1 DEF CaptureInv, Types
      <3> QED BY <1>1, <2>1, <2>2, <3>2, PlacedNext
    <2>4. CASE channel' = channel
      <3>1. Placed(seen, nextFrame + 1)
        BY <1>1, PlacedDropped
      <3> QED BY <2>1, <2>4, <3>1
    <2> QED BY <1>2, <2>3, <2>4 DEF Measure
  <1>3. CASE Drain
    <2>1. drained' \o channel' = seen /\ nextFrame' = nextFrame
      BY <1>3 DEF Drain, CaptureInv, Types
    <2> QED BY <1>1, <2>1
  <1>4. ASSUME UNCHANGED <<drained, channel, nextFrame>>
        PROVE  Placed(drained' \o channel', nextFrame')
    BY <1>1, <1>4
  <1>5. CASE Write \/ Exit \/ Start \/ Stop \/ Cancel
    BY <1>4, <1>5 DEF Write, Exit, Start, Stop, Cancel, recorderVars, readerVars, ownerVars
  <1>6. CASE Read \/ ReadFails \/ Measured \/ EndOfPipe
    BY <1>4, <1>6 DEF Read, ReadFails, Measured, EndOfPipe, recorderVars, readerVars, ownerVars
  <1>7. CASE OwnerContinues
    BY <1>4, <1>7 DEF OwnerContinues, Settle, ExitedEarly, CannotSettle, Interrupt, Wait, Flush,
                      FlushFails, Join, recorderVars, readerVars, ownerVars
  <1>8. CASE UNCHANGED vars
    BY <1>4, <1>8 DEF vars, readerVars, ownerVars
  <1> QED BY <1>2, <1>3, <1>5, <1>6, <1>7, <1>8 DEF CaptureNext, ReaderSteps

THEOREM CaptureInvariant == CaptureSpec => []CaptureInv
  <1>1. CaptureInv /\ [CaptureNext]_vars => CaptureInv'
    BY TypesHold, BalanceHolds, OwnerHolds, FramesHold DEF CaptureInv
  <1> QED BY CaptureInitially, <1>1, PTL DEF CaptureSpec

-----------------------------------------------------------------------------

\* Sizes and steps stay in their ranges.
THEOREM CaptureTypeCorrect == CaptureSpec => []CaptureTypeOK
  <1>1. CaptureInv => CaptureTypeOK
    BY DEF CaptureInv, Types
  <1> QED BY CaptureInvariant, <1>1, PTL

\* A stop returns everything the recorder wrote: its thread has read an empty pipe
\* that nobody can fill any more.
THEOREM StopKeepsTheTail == CaptureSpec => []TailIsKept
  <1>1. CaptureInv => TailIsKept
    BY DEF CaptureInv, Types, CaptureTypeOK, Balanced, Owned, TailIsKept
  <1> QED BY CaptureInvariant, <1>1, PTL

\* A recording that ends without being handed over leaves neither file nor process.
THEOREM FailureLeavesNothing == CaptureSpec => []NothingIsLeft
  <1>1. CaptureInv => NothingIsLeft
    BY DEF CaptureInv, Owned, NothingIsLeft, Finished, Types, CaptureTypeOK
  <1> QED BY CaptureInvariant, <1>1, PTL

\* Metrics carry the place of their frame, in order, whichever of them were dropped.
THEOREM MetricsStayInPlace == CaptureSpec => []FramesAreInPlace
  <1>1. CaptureInv => FramesAreInPlace
    BY DEF CaptureInv, Placed, FramesAreInPlace
  <1> QED BY CaptureInvariant, <1>1, PTL

-----------------------------------------------------------------------------
(***************************************************************************)
(* What CallsReturn rests on: whoever the owner waits for can end, and     *)
(* does so in a bounded number of its own steps.                           *)
(***************************************************************************)

\* The owner waits for a recorder only after it was interrupted or when it has ended, and
\* for the thread only when nobody can fill the pipe any more.
NobodyWaitsInVain ==
  /\ owner = "settling" => recorder \in {"running", "ended"}
  /\ owner \in {"open", "interrupting"} => recorder \in {"running", "ended"}
  /\ owner = "waiting" => recorder \in {"interrupted", "ended"}
  /\ owner \in {"flushing", "joining"} => ~ Runs
  /\ owner \notin {"off", "gone"} => reader # "none"

\* The steps that the thread has before it, at most, when the pipe is not filled any more.
ThreadSteps(left, unmeasured, where) ==
  3 * left + unmeasured
    + IF where = "reading" THEN 1 ELSE IF where = "measuring" THEN 2 ELSE 0

Joins == owner \in {"flushing", "joining"}

\* Joined, every step of the thread brings it nearer to its end, and no other step takes
\* it away from it.
ThreadGetsNearer ==
  [][ Joins =>
        /\ ThreadSteps(pipe, pending, reader) \in Nat
        /\ ThreadSteps(pipe', pending', reader') <= ThreadSteps(pipe, pending, reader)
        /\ ReaderSteps =>
             ThreadSteps(pipe', pending', reader') < ThreadSteps(pipe, pending, reader)
    ]_vars

\* stop and cancel wait for nobody who does not know of it (audio.rs): an interrupt that
\* was not sent is not waited for, and the thread is only joined after its recorder.
THEOREM OwnersDoNotWaitInVain == CaptureSpec => []NobodyWaitsInVain
  <1>1. CaptureInit => NobodyWaitsInVain
    BY DEF CaptureInit, NobodyWaitsInVain, Runs
  <1>2. NobodyWaitsInVain /\ [CaptureNext]_vars => NobodyWaitsInVain'
    <2> SUFFICES ASSUME NobodyWaitsInVain, [CaptureNext]_vars PROVE NobodyWaitsInVain'
      OBVIOUS
    <2> USE DEF NobodyWaitsInVain, Runs, recorderVars, readerVars, ownerVars
    <2>1. CASE Write   BY <2>1 DEF Write
    <2>2. CASE Exit    BY <2>2 DEF Exit
    <2>3. CASE ReaderSteps
      BY <2>3 DEF ReaderSteps, Read, ReadFails, Measure, Measured, EndOfPipe
    <2>4. CASE Start   BY <2>4 DEF Start
    <2>5. CASE Drain \/ Stop \/ Cancel
      BY <2>5 DEF Drain, Stop, Cancel
    <2>6. CASE OwnerContinues
      BY <2>6 DEF OwnerContinues, Settle, ExitedEarly, CannotSettle, Interrupt, Wait, Flush,
                  FlushFails, Join
    <2>7. CASE UNCHANGED vars
      BY <2>7 DEF vars
    <2> QED BY <2>1, <2>2, <2>3, <2>4, <2>5, <2>6, <2>7 DEF CaptureNext
  <1> QED BY <1>1, <1>2, PTL DEF CaptureSpec

\* A join returns after at most as many steps of the thread as there is audio left, three
\* times what is in the pipe included (join_reader of audio.rs).
THEOREM JoinIsFinite == CaptureSpec => ThreadGetsNearer
  <1> DEFINE Nearer ==
        Joins =>
          /\ ThreadSteps(pipe, pending, reader) \in Nat
          /\ ThreadSteps(pipe', pending', reader') <= ThreadSteps(pipe, pending, reader)
          /\ ReaderSteps =>
               ThreadSteps(pipe', pending', reader') < ThreadSteps(pipe, pending, reader)
  <1>1. CaptureInv /\ NobodyWaitsInVain /\ [CaptureNext]_vars => [Nearer]_vars
    <2> SUFFICES ASSUME CaptureInv, NobodyWaitsInVain, CaptureNext, Joins
                 PROVE  /\ ThreadSteps(pipe, pending, reader) \in Nat
                        /\ ThreadSteps(pipe', pending', reader') <= ThreadSteps(pipe, pending, reader)
                        /\ ReaderSteps =>
                             ThreadSteps(pipe', pending', reader') < ThreadSteps(pipe, pending, reader)
      OBVIOUS
    <2>1. pipe \in Nat /\ pending \in Nat /\ ~ Runs
      BY DEF Joins, CaptureInv, Types, CaptureTypeOK, NobodyWaitsInVain
    <2>2. ThreadSteps(pipe, pending, reader) \in Nat
      BY <2>1 DEF ThreadSteps
    <2>3. CASE UNCHANGED <<pipe, pending, reader>> /\ ~ ReaderSteps
      BY <2>2, <2>3
    <2>4. CASE Read
      <3>1. PICK n \in 1..pipe : pipe' = pipe - n /\ pending' = pending + n
        BY <2>4 DEF Read
      <3>2. reader = "reading" /\ reader' = "measuring"
        BY <2>4 DEF Read
      <3> QED BY <2>1, <2>2, <3>1, <3>2 DEF ThreadSteps
    <2>5. CASE ReadFails \/ EndOfPipe
      <3>1. /\ reader = "reading" /\ reader' \in Ends
            /\ pipe' = pipe /\ pending' = pending
        BY <2>5 DEF ReadFails, EndOfPipe, Ends, recorderVars
      <3> QED BY <2>1, <2>2, <3>1 DEF ThreadSteps, Ends
    <2>6. CASE Measure
      <3>1. pending >= 2 /\ pending' = pending - 2 /\ pipe' = pipe /\ reader' = reader
        BY <2>6 DEF Measure, recorderVars
      <3> QED BY <2>1, <2>2, <3>1 DEF ThreadSteps
    <2>7. CASE Measured
      <3>1. /\ reader = "measuring" /\ reader' = "reading"
            /\ pipe' = pipe /\ pending' = pending
        BY <2>7 DEF Measured, recorderVars
      <3> QED BY <2>1, <2>2, <3>1 DEF ThreadSteps
    <2>8. ASSUME Write \/ Exit \/ Start \/ Drain \/ Stop \/ Cancel \/ OwnerContinues
          PROVE  UNCHANGED <<pipe, pending, reader>>
      <3>1. ~ Write /\ ~ Exit /\ ~ Start /\ ~ Drain /\ ~ Stop /\ ~ Cancel
        BY <2>1 DEF Write, Exit, Start, Drain, Stop, Cancel, Joins
      <3> QED BY <2>8, <3>1 DEF OwnerContinues, Settle, ExitedEarly, CannotSettle, Interrupt, Wait,
                  Flush, FlushFails, Join, readerVars, recorderVars
    <2> QED BY <2>3, <2>4, <2>5, <2>6, <2>7, <2>8 DEF CaptureNext, ReaderSteps
  <1> QED BY <1>1, CaptureInvariant, OwnersDoNotWaitInVain, PTL DEF CaptureSpec, ThreadGetsNearer

-----------------------------------------------------------------------------
(***************************************************************************)
(* The detector of speech.  What its counters say of the last frames, and  *)
(* what start and end say of all of them, is carried from frame to frame.  *)
(***************************************************************************)
Sound == 0..Voice!MaxLevel

\* A frame as the history has it.
Heard == [level : Levels, entry : Sound]

Voiced(heard, i) == heard[i].level >= heard[i].entry
Silent(heard, i) == heard[i].level < Voice!ExitThreshold(heard[i].entry)

Run(heard, s) ==
  /\ s >= 0 /\ s + MinimumVoiced <= Len(heard)
  /\ \A i \in s + 1..s + MinimumVoiced : Voiced(heard, i)

FirstRun(heard, s) ==
  /\ s # None => Run(heard, s)
  /\ \A r \in 0..Len(heard) : Run(heard, r) => s # None /\ s <= r

VoiceTypes ==
  /\ frames \in Seq(Heard)
  /\ seed \in Levels \cup {None} /\ noise \in Sound \cup {None} /\ threshold \in Sound
  /\ attack \in 0..MinimumVoiced - 1 /\ release \in 0..EndSilence - 1
  /\ active \in BOOLEAN
  /\ start \in Nat \cup {None} /\ end \in Nat \cup {None}

\* The attack is the run of voiced frames at the end; before the first speech, it is all
\* of that run.
Attacking ==
  /\ attack <= Len(frames)
  /\ attack > 0 => attackStart = Len(frames) - attack
  /\ \A i \in Len(frames) - attack + 1..Len(frames) : Voiced(frames, i)
  /\ active => attack = 0
  /\ start = None => attack = Len(frames) \/ ~ Voiced(frames, Len(frames) - attack)

\* The release is the pause at the end.
Speaking ==
  /\ start = None <=> end = None
  /\ start # None => start < end /\ end <= Len(frames)
  /\ IF active THEN end # None /\ release = Len(frames) - end ELSE release = 0

VoiceInv ==
  /\ VoiceTypes /\ Attacking /\ Speaking
  /\ Voice!SpeechIsTheFirstRun /\ Voice!EndsInSilence /\ Voice!NoiseIsOfQuietFrames

LEMMA LevelsAreBounded == Voice!MaxLevel \in Nat /\ 10000 <= Voice!MaxLevel
BY DEF Voice!MaxLevel

LEMMA SoundIsNat == Sound \subseteq Nat
BY LevelsAreBounded DEF Sound

LEMMA Saturates ==
  ASSUME NEW a \in Nat
  PROVE  Voice!AtMost(a, Voice!MaxLevel) \in Sound /\ Voice!AtMost(a, Voice!MaxLevel) <= a
BY LevelsAreBounded DEF Voice!AtMost, Sound

LEMMA ThresholdIsSound ==
  ASSUME NEW floor \in Sound
  PROVE  Voice!ThresholdFor(floor) \in Sound
<1> DEFINE Twice   == Voice!AtMost(2 * floor, Voice!MaxLevel)
           Raised  == Voice!AtMost(Twice + 80, Voice!MaxLevel)
           Ceiling == Voice!AtMost(4 * RmsThreshold, Voice!MaxLevel)
<1>1. RmsThreshold \in Sound
  BY VoiceAssumption, LevelsAreBounded DEF VoiceAssumption, Voice!VadAssumption, Sound
<1>2. Twice \in Sound
  BY Saturates DEF Sound
<1>3. Raised \in Sound /\ Ceiling \in Sound
  BY <1>1, <1>2, Saturates DEF Sound
<1>4. Voice!ThresholdFor(floor) = Voice!AtLeast(RmsThreshold, Voice!AtMost(Raised, Ceiling))
  BY DEF Voice!ThresholdFor
<1> HIDE DEF Raised, Ceiling
<1>. QED
  BY <1>1, <1>3, <1>4 DEF Voice!AtLeast, Voice!AtMost, Sound

\* A pause asks for less than speech does.
LEMMA ExitIsLower ==
  ASSUME NEW entry \in Sound
  PROVE  Voice!ExitThreshold(entry) \in Sound /\ Voice!ExitThreshold(entry) <= entry
BY LevelsAreBounded DEF Voice!ExitThreshold, Voice!AtMost, Sound

\* The floor moves towards the level and not beyond it.
LEMMA FloorLiesBetween ==
  ASSUME NEW a \in Sound, NEW b \in Sound
  PROVE  /\ Voice!Smooth(a, b) \in Sound
         /\ b <= a => b <= Voice!Smooth(a, b) /\ Voice!Smooth(a, b) <= a
         /\ a <= b => a <= Voice!Smooth(a, b) /\ Voice!Smooth(a, b) <= b
<1>1. CASE b <= a
  BY <1>1, LevelsAreBounded DEF Voice!Smooth, Sound
<1>2. CASE ~ (b <= a)
  BY <1>2, LevelsAreBounded DEF Voice!Smooth, Sound
<1>. QED
  BY <1>1, <1>2

LEMMA VoiceBegins == Voice!VadInit => VoiceInv
<1> SUFFICES ASSUME Voice!VadInit PROVE VoiceInv
  OBVIOUS
<1> USE DEF Voice!VadInit
<1>1. /\ Levels \subseteq Sound /\ 0 \in Sound /\ None \notin Int
      /\ MinimumVoiced \in Nat \ {0} /\ EndSilence \in Nat \ {0}
  BY VoiceAssumption, LevelsAreBounded DEF VoiceAssumption, Voice!VadAssumption, Sound
<1>2. VoiceTypes
  <2>1. (IF seed = None THEN 0 ELSE seed) \in Sound
    BY <1>1
  <2>2. threshold \in Sound
    BY <2>1, ThresholdIsSound
  <2>3. frames \in Seq(Heard) /\ active \in BOOLEAN
    BY EmptySeq
  <2>. QED
    BY <1>1, <2>2, <2>3 DEF VoiceTypes
<1>3. Attacking /\ Speaking
  BY <1>1 DEF Attacking, Speaking
<1>4. Voice!SpeechIsTheFirstRun /\ Voice!EndsInSilence
  BY <1>1 DEF Voice!SpeechIsTheFirstRun, Voice!RunAt, Voice!Total, Voice!EndsInSilence
<1>5. Voice!NoiseIsOfQuietFrames
  <2> SUFFICES ASSUME seed # None
               PROVE  \E low, high \in {seed} \ {None} : low <= noise /\ noise <= high
    BY DEF Voice!NoiseIsOfQuietFrames
  <2>1. seed \in Int /\ noise = seed
    BY <1>1, LevelsAreBounded DEF Sound
  <2>. QED
    BY <2>1
<1>. QED
  BY <1>2, <1>3, <1>4, <1>5 DEF VoiceInv

\* The history after one more frame.
LEMMA OneMoreFrame ==
  ASSUME VoiceTypes, NEW l \in Levels, Voice!Frame(l)
  PROVE  /\ Len(frames) \in Nat /\ frames' \in Seq(Heard) /\ seed' = seed
         /\ Len(frames') = Len(frames) + 1
         /\ \A i \in 1..Len(frames) : frames'[i] = frames[i]
         /\ frames'[Len(frames) + 1] = [level |-> l, entry |-> threshold]
         /\ l \in Sound /\ threshold \in Sound /\ l \in Nat /\ threshold \in Nat
         /\ \A i \in 1..Len(frames) : Voiced(frames', i) <=> Voiced(frames, i)
         /\ \A i \in 1..Len(frames) : Silent(frames', i) <=> Silent(frames, i)
         /\ Voiced(frames', Len(frames) + 1) <=> l >= threshold
         /\ Silent(frames', Len(frames) + 1) <=> l < Voice!ExitThreshold(threshold)
<1>1. l \in Sound /\ threshold \in Sound /\ frames \in Seq(Heard)
  BY VoiceAssumption DEF VoiceAssumption, Voice!VadAssumption, VoiceTypes, Sound
<1>2. [level |-> l, entry |-> threshold] \in Heard
  BY <1>1 DEF Heard
<1>3. frames' = Append(frames, [level |-> l, entry |-> threshold]) /\ seed' = seed
  BY DEF Voice!Frame
<1>4. /\ Len(frames) \in Nat /\ frames' \in Seq(Heard) /\ Len(frames') = Len(frames) + 1
      /\ \A i \in 1..Len(frames) : frames'[i] = frames[i]
      /\ frames'[Len(frames) + 1] = [level |-> l, entry |-> threshold]
  BY <1>1, <1>2, <1>3, AppendProperties, LenProperties
<1>5. /\ \A i \in 1..Len(frames) : Voiced(frames', i) <=> Voiced(frames, i)
      /\ \A i \in 1..Len(frames) : Silent(frames', i) <=> Silent(frames, i)
      /\ Voiced(frames', Len(frames) + 1) <=> l >= threshold
      /\ Silent(frames', Len(frames) + 1) <=> l < Voice!ExitThreshold(threshold)
  BY <1>4 DEF Voiced, Silent
<1>. QED
  BY <1>1, <1>3, <1>4, <1>5, SoundIsNat

LEMMA VoiceTypesHold ==
  ASSUME VoiceInv, NEW l \in Levels, Voice!ProcessLevel(l)
  PROVE  VoiceTypes'
<1>1. /\ VoiceTypes /\ Speaking /\ Attacking
      /\ MinimumVoiced \in Nat \ {0} /\ EndSilence \in Nat \ {0} /\ None \notin Int
  BY VoiceAssumption DEF VoiceInv, VoiceAssumption, Voice!VadAssumption
<1>2. Voice!Frame(l)
  BY DEF Voice!ProcessLevel, Voice!Sustain, Voice!Pause, Voice!EndSpeech, Voice!Attack,
         Voice!StartSpeech, Voice!Quiet
<1>3. /\ Len(frames) \in Nat /\ frames' \in Seq(Heard) /\ seed' = seed
      /\ l \in Sound /\ threshold \in Sound
  BY <1>1, <1>2, OneMoreFrame
<1>4. noise' \in Sound \cup {None} /\ threshold' \in Sound
  <2>1. Voice!Learned(l) \in Sound
    BY <1>1, <1>3, FloorLiesBetween DEF Voice!Learned, VoiceTypes
  <2>2. Voice!ThresholdFor(Voice!Learned(l)) \in Sound
    BY <2>1, ThresholdIsSound
  <2>3. UNCHANGED <<noise, threshold>> \/ Voice!Learn(l)
    BY DEF Voice!ProcessLevel, Voice!Sustain, Voice!Pause, Voice!EndSpeech, Voice!Attack,
           Voice!StartSpeech, Voice!Quiet
  <2>. QED
    BY <1>1, <2>1, <2>2, <2>3 DEF Voice!Learn, VoiceTypes
<1>5. attack' \in 0..MinimumVoiced - 1 /\ release' \in 0..EndSilence - 1
  BY <1>1 DEF VoiceTypes, Voice!ProcessLevel, Voice!Sustain, Voice!Pause, Voice!EndSpeech,
              Voice!Attack, Voice!StartSpeech, Voice!Quiet
<1>6. active' \in BOOLEAN
  BY <1>1 DEF VoiceTypes, Voice!ProcessLevel, Voice!Sustain, Voice!Pause, Voice!EndSpeech,
              Voice!Attack, Voice!StartSpeech, Voice!Quiet
<1>7. Voice!FirstOfAttack \in Nat
  BY <1>1, <1>3 DEF Voice!FirstOfAttack, Voice!Total, VoiceTypes, Attacking
<1>8. start' \in Nat \cup {None} /\ end' \in Nat \cup {None}
  BY <1>1, <1>3, <1>7
  DEF VoiceTypes, Voice!Total, Voice!ProcessLevel, Voice!Sustain, Voice!Pause,
      Voice!EndSpeech, Voice!Attack, Voice!StartSpeech, Voice!Quiet
<1>. QED
  BY <1>1, <1>3, <1>4, <1>5, <1>6, <1>8 DEF VoiceTypes

LEMMA AttackHolds ==
  ASSUME VoiceInv, NEW l \in Levels, Voice!ProcessLevel(l)
  PROVE  Attacking'
<1>1. /\ VoiceTypes /\ Attacking /\ attack \in Nat /\ None \notin Int
      /\ MinimumVoiced \in Nat \ {0}
  BY VoiceAssumption DEF VoiceInv, VoiceTypes, VoiceAssumption, Voice!VadAssumption
<1>2. CASE Voice!Sustain(l) \/ Voice!Pause(l) \/ Voice!EndSpeech(l)
  <2>1. /\ active /\ attack = 0 /\ attack' = 0 /\ start' = start /\ start # None
        /\ Voice!Frame(l)
    BY <1>1, <1>2
    DEF Attacking, VoiceInv, Speaking, Voice!Sustain, Voice!Pause, Voice!EndSpeech
  <2>2. Len(frames) \in Nat /\ Len(frames') = Len(frames) + 1
    BY <1>1, <2>1, OneMoreFrame
  <2>. QED
    BY <2>1, <2>2 DEF Attacking
<1>3. CASE Voice!Attack(l)
  <2>1. /\ ~ active /\ l >= threshold /\ Voice!Frame(l) /\ active' = active
        /\ attack' = attack + 1 /\ attackStart' = Voice!FirstOfAttack /\ start' = start
    BY <1>3 DEF Voice!Attack
  <2>2. /\ Len(frames) \in Nat /\ Len(frames') = Len(frames) + 1
        /\ \A i \in 1..Len(frames) : Voiced(frames', i) <=> Voiced(frames, i)
        /\ Voiced(frames', Len(frames) + 1)
    BY <1>1, <2>1, OneMoreFrame
  <2>3. Voice!FirstOfAttack = Len(frames) - attack
    BY <1>1, <2>2 DEF Voice!FirstOfAttack, Voice!Total, Attacking
  <2>4. attack' <= Len(frames') /\ attackStart' = Len(frames') - attack'
    BY <1>1, <2>1, <2>2, <2>3 DEF Attacking
  <2>5. ASSUME NEW i \in Len(frames') - attack' + 1..Len(frames')
        PROVE  Voiced(frames', i)
    <3>1. i = Len(frames) + 1 \/ i \in Len(frames) - attack + 1..Len(frames)
      BY <1>1, <2>1, <2>2, <2>5
    <3>2. i \in Len(frames) - attack + 1..Len(frames) => i \in 1..Len(frames) /\ Voiced(frames, i)
      BY <1>1, <2>2 DEF Attacking
    <3>. QED
      BY <2>2, <3>1, <3>2
  <2>6. ASSUME start' = None
        PROVE  attack' = Len(frames') \/ ~ Voiced(frames', Len(frames') - attack')
    <3>1. Len(frames') - attack' = Len(frames) - attack
      BY <1>1, <2>1, <2>2
    <3>2. attack = Len(frames) \/ ~ Voiced(frames, Len(frames) - attack)
      BY <1>1, <2>1, <2>6 DEF Attacking
    <3>3. attack # Len(frames) => Len(frames) - attack \in 1..Len(frames)
      BY <1>1, <2>2 DEF Attacking
    <3>4. attack = Len(frames) => attack' = Len(frames')
      BY <2>1, <2>2
    <3>. QED
      BY <2>2, <3>1, <3>2, <3>3, <3>4
  <2>. QED
    BY <2>1, <2>4, <2>5, <2>6 DEF Attacking
<1>4. CASE Voice!StartSpeech(l)
  <2>1. /\ Voice!Frame(l) /\ attack' = 0
        /\ start' = IF start = None THEN Voice!FirstOfAttack ELSE start
    BY <1>4 DEF Voice!StartSpeech
  <2>2. Len(frames) \in Nat /\ Len(frames') = Len(frames) + 1
    BY <1>1, <2>1, OneMoreFrame
  <2>3. start' # None
    BY <1>1, <2>1, <2>2 DEF Voice!FirstOfAttack, Voice!Total, Attacking
  <2>. QED
    BY <2>1, <2>2, <2>3 DEF Attacking
<1>5. CASE Voice!Quiet(l)
  <2>1. /\ ~ active /\ l < threshold /\ Voice!Frame(l) /\ attack' = 0 /\ active' = active
    BY <1>5 DEF Voice!Quiet
  <2>2. /\ Len(frames) \in Nat /\ Len(frames') = Len(frames) + 1
        /\ Voiced(frames', Len(frames) + 1) <=> l >= threshold
        /\ l \in Nat /\ threshold \in Nat
    BY <1>1, <2>1, OneMoreFrame
  <2>3. ~ Voiced(frames', Len(frames'))
    BY <2>1, <2>2
  <2>. QED
    BY <2>1, <2>2, <2>3 DEF Attacking
<1>. QED
  BY <1>2, <1>3, <1>4, <1>5 DEF Voice!ProcessLevel

LEMMA SpeakingHolds ==
  ASSUME VoiceInv, NEW l \in Levels, Voice!ProcessLevel(l)
  PROVE  Speaking'
<1>1. /\ VoiceTypes /\ Attacking /\ Speaking /\ None \notin Int
      /\ attack \in Nat /\ release \in Nat
      /\ MinimumVoiced \in Nat \ {0} /\ EndSilence \in Nat \ {0}
  BY VoiceAssumption DEF VoiceInv, VoiceTypes, VoiceAssumption, Voice!VadAssumption
<1>2. Voice!Frame(l)
  BY DEF Voice!ProcessLevel, Voice!Sustain, Voice!Pause, Voice!EndSpeech, Voice!Attack,
         Voice!StartSpeech, Voice!Quiet
<1>3. Len(frames) \in Nat /\ Len(frames') = Len(frames) + 1
  BY <1>1, <1>2, OneMoreFrame
<1>4. CASE Voice!Sustain(l)
  <2>1. /\ active /\ active' = active /\ release' = 0 /\ end' = Len(frames) + 1
        /\ start' = start
    BY <1>4 DEF Voice!Sustain, Voice!Total
  <2>. QED
    BY <1>1, <1>3, <2>1 DEF Speaking, VoiceTypes
<1>5. CASE Voice!Pause(l)
  <2>1. /\ active /\ active' = active /\ release' = release + 1 /\ end' = end
        /\ start' = start
    BY <1>5 DEF Voice!Pause
  <2>. QED
    BY <1>1, <1>3, <2>1 DEF Speaking, VoiceTypes
<1>6. CASE Voice!EndSpeech(l)
  <2>1. ~ active' /\ release' = 0 /\ end' = end /\ start' = start
    BY <1>6 DEF Voice!EndSpeech
  <2>. QED
    BY <1>1, <1>3, <2>1 DEF Speaking, VoiceTypes
<1>7. CASE Voice!Attack(l) \/ Voice!Quiet(l)
  <2>1. ~ active /\ active' = active /\ release' = release /\ end' = end /\ start' = start
    BY <1>7 DEF Voice!Attack, Voice!Quiet
  <2>. QED
    BY <1>1, <1>3, <2>1 DEF Speaking, VoiceTypes
<1>8. CASE Voice!StartSpeech(l)
  <2>1. /\ active' = TRUE /\ ~ active /\ release' = release /\ end' = Len(frames) + 1
        /\ start' = IF start = None THEN Voice!FirstOfAttack ELSE start
    BY <1>8 DEF Voice!StartSpeech, Voice!Total
  <2>2. Voice!FirstOfAttack \in Nat /\ Voice!FirstOfAttack <= Len(frames)
    BY <1>1, <1>3 DEF Voice!FirstOfAttack, Voice!Total, Attacking
  <2>3. release' = 0 /\ end' # None /\ start' # None /\ start' < end'
    BY <1>1, <1>3, <2>1, <2>2 DEF Speaking, VoiceTypes
  <2>. QED
    BY <1>3, <2>1, <2>3 DEF Speaking
<1>. QED
  BY <1>4, <1>5, <1>6, <1>7, <1>8 DEF Voice!ProcessLevel

LEMMA FirstRunMeans ==
  ASSUME MinimumVoiced \in Nat
  PROVE  /\ Voice!SpeechIsTheFirstRun <=> FirstRun(frames, start)
         /\ Voice!SpeechIsTheFirstRun' <=> FirstRun(frames', start')
BY DEF Voice!SpeechIsTheFirstRun, Voice!RunAt, Voice!Total, FirstRun, Run, Voiced

\* A run is confirmed by the frame that completes it, and is then the attack.
LEMMA FirstRunHolds ==
  ASSUME VoiceInv, NEW l \in Levels, Voice!ProcessLevel(l)
  PROVE  Voice!SpeechIsTheFirstRun'
<1> DEFINE n == Len(frames)
<1>1. /\ VoiceTypes /\ Attacking /\ Speaking /\ Voice!SpeechIsTheFirstRun
      /\ None \notin Int /\ attack \in 0..MinimumVoiced - 1
      /\ MinimumVoiced \in Nat \ {0} /\ EndSilence \in Nat \ {0}
  BY VoiceAssumption DEF VoiceInv, VoiceTypes, VoiceAssumption, Voice!VadAssumption
<1>2. Voice!Frame(l)
  BY DEF Voice!ProcessLevel, Voice!Sustain, Voice!Pause, Voice!EndSpeech, Voice!Attack,
         Voice!StartSpeech, Voice!Quiet
<1>3. /\ n \in Nat /\ Len(frames') = n + 1
      /\ \A i \in 1..n : Voiced(frames', i) <=> Voiced(frames, i)
      /\ Voiced(frames', n + 1) <=> l >= threshold
      /\ l \in Nat /\ threshold \in Nat
  BY <1>1, <1>2, OneMoreFrame
<1> HIDE DEF n
<1>4. FirstRun(frames, start)
  BY <1>1, FirstRunMeans
<1>5. \A s \in Nat : Run(frames', s) <=>
        s + MinimumVoiced <= n + 1 /\ \A i \in s + 1..s + MinimumVoiced : Voiced(frames', i)
  BY <1>3 DEF Run
\* The runs that there were, and the one that ends with this frame.
<1>6. ASSUME NEW s \in Nat, s + MinimumVoiced <= n
      PROVE  Run(frames', s) <=> Run(frames, s)
  <2>1. s + MinimumVoiced \in Nat /\ \A i \in s + 1..s + MinimumVoiced : i \in 1..n
    BY <1>1, <1>3, <1>6
  <2>2. \A i \in s + 1..s + MinimumVoiced : Voiced(frames', i) <=> Voiced(frames, i)
    BY <1>3, <2>1
  <2>3. s + MinimumVoiced <= n + 1
    BY <1>1, <1>3, <1>6
  <2>. QED
    BY <1>5, <1>6, <2>2, <2>3 DEF Run, n
<1>7. ASSUME NEW s \in Nat, Run(frames', s), ~ (s + MinimumVoiced <= n)
      PROVE  /\ s + MinimumVoiced = n + 1 /\ l >= threshold
             /\ start = None => s = n - attack /\ attack + 1 = MinimumVoiced
  <2>1. s + MinimumVoiced = n + 1
    BY <1>1, <1>3, <1>5, <1>7
  <2>2. Voiced(frames', n + 1)
    <3>1. s + MinimumVoiced \in s + 1..s + MinimumVoiced
      BY <1>1
    <3>. QED
      BY <1>5, <1>7, <2>1, <3>1
  <2>3. ASSUME start = None
        PROVE  s = n - attack /\ attack + 1 = MinimumVoiced
    <3>1. attack = n \/ ~ Voiced(frames, n - attack)
      BY <1>1, <2>3 DEF Attacking, n
    <3>2. CASE attack = n
      BY <1>1, <1>3, <2>1, <3>2
    <3>3. CASE attack # n /\ ~ Voiced(frames, n - attack)
      <4>1. n - attack \in 1..n
        BY <1>1, <1>3, <3>3 DEF Attacking, n
      <4>2. ~ Voiced(frames', n - attack)
        BY <1>3, <3>3, <4>1
      <4>3. ~ (n - attack \in s + 1..s + MinimumVoiced)
        BY <1>5, <1>7, <4>2
      <4>. QED
        BY <1>1, <1>3, <2>1, <4>1, <4>3
    <3>. QED
      BY <3>1, <3>2, <3>3
  <2>. QED
    BY <1>3, <2>1, <2>2, <2>3
<1>8. CASE start # None
  <2>1. start' = start /\ start \in Nat
    BY <1>1, <1>8
    DEF VoiceTypes, Voice!ProcessLevel, Voice!Sustain, Voice!Pause, Voice!EndSpeech,
        Voice!Attack, Voice!StartSpeech, Voice!Quiet
  <2>2. Run(frames, start) /\ start + MinimumVoiced <= n
    BY <1>4, <1>8 DEF FirstRun, Run, n
  <2>3. Run(frames', start')
    BY <1>6, <2>1, <2>2
  <2>4. ASSUME NEW s \in 0..Len(frames'), Run(frames', s)
        PROVE  start <= s
    <3>1. s \in Nat /\ s + MinimumVoiced \in Nat
      BY <1>1, <1>3
    <3>2. CASE s + MinimumVoiced <= n
      <4>1. Run(frames, s) /\ s \in 0..Len(frames)
        BY <1>1, <1>3, <1>6, <2>4, <3>1, <3>2 DEF n
      <4>. QED
        BY <1>4, <4>1 DEF FirstRun
    <3>3. CASE ~ (s + MinimumVoiced <= n)
      BY <1>1, <1>3, <1>7, <2>1, <2>2, <2>4, <3>1, <3>3
    <3>. QED
      BY <3>2, <3>3
  <2>. QED
    BY <1>1, <1>8, <2>1, <2>3, <2>4, FirstRunMeans DEF FirstRun
<1>9. CASE start = None
  <2>1. ASSUME NEW s \in 0..Len(frames'), Run(frames', s)
        PROVE  s = n - attack /\ attack + 1 = MinimumVoiced /\ l >= threshold
    <3>1. s \in Nat
      BY <1>3
    <3>2. ~ (s + MinimumVoiced <= n)
      <4> SUFFICES ASSUME s + MinimumVoiced <= n PROVE FALSE
        OBVIOUS
      <4>1. Run(frames, s) /\ s \in 0..Len(frames)
        BY <1>1, <1>3, <1>6, <2>1, <3>1 DEF n
      <4>. QED
        BY <1>4, <1>9, <4>1 DEF FirstRun
    <3>. QED
      BY <1>7, <1>9, <2>1, <3>1, <3>2
  <2>2. ~ active
    BY <1>1, <1>9 DEF Speaking
  <2>3. CASE Voice!StartSpeech(l)
    <3>1. /\ start' = Voice!FirstOfAttack /\ l >= threshold /\ attack + 1 >= MinimumVoiced
      BY <1>9, <2>3 DEF Voice!StartSpeech
    <3>2. start' = n - attack /\ attack + 1 = MinimumVoiced /\ start' \in Nat
      BY <1>1, <1>3, <3>1 DEF Voice!FirstOfAttack, Voice!Total, Attacking, n
    <3>3. ASSUME NEW i \in start' + 1..start' + MinimumVoiced
          PROVE  Voiced(frames', i)
      <4>1. i = n + 1 \/ i \in n - attack + 1..n
        BY <1>1, <1>3, <3>2, <3>3
      <4>2. i \in n - attack + 1..n => i \in 1..n /\ Voiced(frames, i)
        BY <1>1, <1>3 DEF Attacking, n
      <4>. QED
        BY <1>3, <3>1, <4>1, <4>2
    <3>4. Run(frames', start')
      BY <1>1, <1>3, <1>5, <3>2, <3>3
    <3>5. start' # None
      BY <1>1, <3>2
    <3>6. \A s \in 0..Len(frames') : Run(frames', s) => start' <= s
      BY <1>1, <1>3, <2>1, <3>2
    <3>. QED
      BY <1>1, <3>4, <3>5, <3>6, FirstRunMeans DEF FirstRun
  <2>4. CASE ~ Voice!StartSpeech(l)
    <3>1. start' = None /\ (l < threshold \/ attack + 1 < MinimumVoiced)
      BY <1>9, <2>2, <2>4
      DEF Voice!ProcessLevel, Voice!Sustain, Voice!Pause, Voice!EndSpeech, Voice!Attack,
          Voice!Quiet
    <3>2. \A s \in 0..Len(frames') : ~ Run(frames', s)
      BY <1>1, <1>3, <2>1, <3>1
    <3>. QED
      BY <1>1, <3>1, <3>2, FirstRunMeans DEF FirstRun
  <2>. QED
    BY <2>3, <2>4
<1>. QED
  BY <1>8, <1>9

\* The end of speech, with the pause that follows it.
Ended(heard, e, speaking) ==
  e # None =>
    /\ speaking => Len(heard) - e < EndSilence
    /\ ~ speaking => Len(heard) - e >= EndSilence
    /\ \A i \in e + 1..Len(heard) : i <= e + EndSilence => Silent(heard, i)

LEMMA EndedMeans ==
  ASSUME NEW heard, Len(heard) \in Nat, NEW e \in Nat \cup {None}, None \notin Int,
         EndSilence \in Nat
  PROVE  (e # None => \A i \in e + 1..Voice!AtMost(e + EndSilence, Len(heard)) : Silent(heard, i))
         <=> (e # None => \A i \in e + 1..Len(heard) : i <= e + EndSilence => Silent(heard, i))
BY DEF Voice!AtMost

LEMMA EndHolds ==
  ASSUME VoiceInv, NEW l \in Levels, Voice!ProcessLevel(l)
  PROVE  Voice!EndsInSilence'
<1> DEFINE n == Len(frames)
<1>1. /\ VoiceTypes /\ Speaking /\ Voice!EndsInSilence
      /\ None \notin Int /\ release \in 0..EndSilence - 1
      /\ EndSilence \in Nat \ {0} /\ end \in Nat \cup {None}
  BY VoiceAssumption DEF VoiceInv, VoiceTypes, VoiceAssumption, Voice!VadAssumption
<1>2. Voice!Frame(l)
  BY DEF Voice!ProcessLevel, Voice!Sustain, Voice!Pause, Voice!EndSpeech, Voice!Attack,
         Voice!StartSpeech, Voice!Quiet
<1>3. /\ n \in Nat /\ Len(frames') = n + 1
      /\ \A i \in 1..n : Silent(frames', i) <=> Silent(frames, i)
      /\ Silent(frames', n + 1) <=> l < Voice!ExitThreshold(threshold)
  BY <1>1, <1>2, OneMoreFrame
<1>4. Ended(frames, end, active)
  BY <1>1, <1>3, EndedMeans DEF Voice!EndsInSilence, Voice!Total, Ended, Silent
<1>5. end' \in Nat \cup {None}
  BY VoiceTypesHold DEF VoiceTypes
<1>6. SUFFICES Ended(frames', end', active')
  <2>1. (end' # None => \A i \in end' + 1..Voice!AtMost(end' + EndSilence, Len(frames')) : Silent(frames', i))
        <=> (end' # None => \A i \in end' + 1..Len(frames') : i <= end' + EndSilence => Silent(frames', i))
    <3>1. Len(frames') \in Nat /\ EndSilence \in Nat
      BY <1>1, <1>3
    <3>. QED
      BY <1>1, <1>5, <3>1, EndedMeans, Zenon
  <2>. QED
    BY <2>1 DEF Voice!EndsInSilence, Voice!Total, Ended, Silent
<1>7. CASE Voice!Sustain(l) \/ Voice!StartSpeech(l)
  <2>1. active' /\ end' = n + 1
    BY <1>7 DEF Voice!Sustain, Voice!StartSpeech, Voice!Total
  <2>. QED
    BY <1>1, <1>3, <2>1 DEF Ended
<1>8. CASE Voice!Pause(l) \/ Voice!EndSpeech(l)
  <2>1. /\ active /\ end' = end /\ l < Voice!ExitThreshold(threshold)
        /\ active' => release + 1 < EndSilence
        /\ ~ active' => release + 1 >= EndSilence
    BY <1>8 DEF Voice!Pause, Voice!EndSpeech
  <2>2. end \in Nat /\ end <= n /\ release = n - end
    BY <1>1, <2>1 DEF Speaking
  <2>3. /\ active' => Len(frames') - end' < EndSilence
        /\ ~ active' => Len(frames') - end' >= EndSilence
    BY <1>1, <1>3, <2>1, <2>2
  <2>4. ASSUME NEW i \in end + 1..n + 1
        PROVE  Silent(frames', i)
    <3>1. CASE i = n + 1
      BY <1>3, <2>1, <3>1
    <3>2. CASE i # n + 1
      <4>1. i \in end + 1..n /\ i \in 1..n /\ i <= end + EndSilence
        BY <1>1, <1>3, <2>2, <2>4, <3>2
      <4>2. Silent(frames, i)
        BY <1>1, <1>4, <2>2, <4>1 DEF Ended
      <4>. QED
        BY <1>3, <4>1, <4>2
    <3>. QED
      BY <3>1, <3>2
  <2>. QED
    BY <1>3, <2>1, <2>3, <2>4 DEF Ended
<1>9. CASE Voice!Attack(l) \/ Voice!Quiet(l)
  <2>1. ~ active /\ active' = active /\ end' = end
    BY <1>9 DEF Voice!Attack, Voice!Quiet
  <2>2. CASE end = None
    BY <2>1, <2>2 DEF Ended
  <2>3. CASE end # None
    <3>1. end \in Nat /\ end <= n /\ n - end >= EndSilence
      BY <1>1, <1>4, <2>1, <2>3 DEF Ended, Speaking
    <3>2. ASSUME NEW i \in end + 1..n + 1, i <= end + EndSilence
          PROVE  Silent(frames', i)
      <4>1. i \in end + 1..n /\ i \in 1..n
        BY <1>1, <1>3, <3>1, <3>2
      <4>2. Silent(frames, i)
        BY <1>4, <2>3, <3>2, <4>1 DEF Ended
      <4>. QED
        BY <1>3, <4>1, <4>2
    <3>3. Len(frames') - end >= EndSilence
      BY <1>1, <1>3, <3>1
    <3>. QED
      BY <1>3, <2>1, <3>2, <3>3 DEF Ended
  <2>. QED
    BY <2>2, <2>3
<1>. QED
  BY <1>7, <1>8, <1>9 DEF Voice!ProcessLevel

\* What the floor may be learned from.
QuietLevels(heard, first) ==
  {heard[i].level : i \in {j \in 1..Len(heard) : heard[j].level < heard[j].entry}}
  \cup ({first} \ {None})

LEMMA FloorMeans ==
  /\ Voice!NoiseIsOfQuietFrames <=>
       (noise # None =>
          \E low, high \in QuietLevels(frames, seed) : low <= noise /\ noise <= high)
  /\ Voice!NoiseIsOfQuietFrames' <=>
       (noise' # None =>
          \E low, high \in QuietLevels(frames', seed') : low <= noise' /\ noise' <= high)
BY DEF Voice!NoiseIsOfQuietFrames, Voice!Total, QuietLevels

LEMMA FloorHolds ==
  ASSUME VoiceInv, NEW l \in Levels, Voice!ProcessLevel(l)
  PROVE  Voice!NoiseIsOfQuietFrames'
<1> DEFINE n   == Len(frames)
           Old == QuietLevels(frames, seed)
           New == QuietLevels(frames', seed')
<1>1. /\ VoiceTypes /\ Voice!NoiseIsOfQuietFrames /\ None \notin Int
      /\ Levels \subseteq Sound /\ noise \in Sound \cup {None} /\ Sound \subseteq Int
  BY VoiceAssumption, LevelsAreBounded
  DEF VoiceInv, VoiceTypes, VoiceAssumption, Voice!VadAssumption, Sound
<1>2. Voice!Frame(l)
  BY DEF Voice!ProcessLevel, Voice!Sustain, Voice!Pause, Voice!EndSpeech, Voice!Attack,
         Voice!StartSpeech, Voice!Quiet
<1>3. /\ n \in Nat /\ frames \in Seq(Heard) /\ Len(frames') = n + 1 /\ seed' = seed
      /\ \A i \in 1..n : frames'[i] = frames[i]
      /\ frames'[n + 1] = [level |-> l, entry |-> threshold]
      /\ l \in Sound /\ threshold \in Sound
  BY <1>1, <1>2, OneMoreFrame DEF VoiceTypes
<1>4. Old \subseteq New
  BY <1>3 DEF QuietLevels
<1>5. l < threshold => l \in New
  <2> SUFFICES ASSUME l < threshold PROVE l \in New
    OBVIOUS
  <2>1. n + 1 \in 1..Len(frames')
    BY <1>3
  <2>2. frames'[n + 1].level = l /\ frames'[n + 1].level < frames'[n + 1].entry
    BY <1>3
  <2>. QED
    BY <2>1, <2>2 DEF QuietLevels
<1>6. Old \subseteq Int
  <2>1. \A i \in 1..n : frames[i] \in Heard
    BY <1>3, ElementOfSeq
  <2>2. \A h \in Heard : h.level \in Int
    BY <1>1 DEF Heard
  <2>3. seed \in Levels \cup {None}
    BY <1>1 DEF VoiceTypes
  <2>. QED
    BY <1>1, <2>1, <2>2, <2>3 DEF QuietLevels
<1>7. noise # None => \E low, high \in Old : low <= noise /\ noise <= high
  BY <1>1, FloorMeans
<1> HIDE DEF Old, New
<1>8. CASE noise' = noise
  BY <1>4, <1>7, <1>8, FloorMeans DEF New
<1>9. CASE l < threshold /\ Voice!Learn(l)
  <2>1. l \in New /\ noise' = Voice!Learned(l)
    BY <1>5, <1>9 DEF Voice!Learn
  <2>2. CASE noise = None
    <3>1. noise' = l /\ l <= l
      BY <1>1, <1>3, <2>1, <2>2 DEF Voice!Learned
    <3>. QED
      BY <2>1, <3>1, FloorMeans DEF New
  <2>3. CASE noise # None
    <3>1. noise \in Sound /\ noise' = Voice!Smooth(noise, l)
      BY <1>1, <2>1, <2>3 DEF Voice!Learned
    <3>ints. noise \in Int /\ l \in Int
      BY <1>1, <1>3, <3>1
    <3>2. /\ noise' \in Sound
          /\ l <= noise => l <= noise' /\ noise' <= noise
          /\ noise <= l => noise <= noise' /\ noise' <= l
      BY <1>3, <3>1, FloorLiesBetween
    <3>3. PICK low \in Old, high \in Old : low <= noise /\ noise <= high
      BY <1>7, <2>3
    <3>4. low \in Int /\ high \in Int /\ low \in New /\ high \in New
      BY <1>4, <1>6, <3>3
    <3>5. CASE l <= noise
      <4>1. l <= noise' /\ noise' <= high
        <5>1. noise' \in Int /\ l <= noise' /\ noise' <= noise /\ noise <= high
          BY <1>1, <3>2, <3>3, <3>5
        <5>. QED
          BY <3>ints, <3>4, <5>1
      <4>. QED
        BY <2>1, <3>4, <4>1, FloorMeans DEF New
    <3>6. CASE noise <= l
      <4>1. low <= noise' /\ noise' <= l
        <5>1. noise' \in Int /\ low <= noise /\ noise <= noise' /\ noise' <= l
          BY <1>1, <3>2, <3>3, <3>6
        <5>. QED
          BY <3>ints, <3>4, <5>1
      <4>. QED
        BY <2>1, <3>4, <4>1, FloorMeans DEF New
    <3>. QED
      BY <3>ints, <3>5, <3>6
  <2>. QED
    BY <2>2, <2>3
<1>10. noise' = noise \/ (l < threshold /\ Voice!Learn(l))
  <2>1. CASE Voice!EndSpeech(l)
    <3>1. l < Voice!ExitThreshold(threshold) /\ Voice!Learn(l)
      BY <2>1 DEF Voice!EndSpeech
    <3>2. Voice!ExitThreshold(threshold) \in Int /\ Voice!ExitThreshold(threshold) <= threshold
      BY <1>1, <1>3, ExitIsLower
    <3>3. l < threshold
      BY <1>1, <1>3, <3>1, <3>2
    <3>. QED
      BY <3>1, <3>3
  <2>2. CASE ~ Voice!EndSpeech(l)
    BY <2>2 DEF Voice!ProcessLevel, Voice!Sustain, Voice!Pause, Voice!Attack,
                Voice!StartSpeech, Voice!Quiet
  <2>. QED
    BY <2>1, <2>2
<1>. QED
  BY <1>8, <1>9, <1>10

LEMMA VoiceInvHolds ==
  ASSUME VoiceInv, [Voice!VadNext]_vadVars
  PROVE  VoiceInv'
<1>1. CASE Voice!VadNext
  <2>1. PICK l \in Levels : Voice!ProcessLevel(l)
    BY <1>1 DEF Voice!VadNext
  <2>. QED
    BY <2>1, VoiceTypesHold, AttackHolds, SpeakingHolds, FirstRunHolds, EndHolds, FloorHolds
    DEF VoiceInv
<1>2. CASE UNCHANGED vadVars
  BY <1>2
  DEF vadVars, VoiceInv, VoiceTypes, Attacking, Speaking,
      Voice!SpeechIsTheFirstRun, Voice!RunAt, Voice!Total, Voice!EndsInSilence,
      Voice!NoiseIsOfQuietFrames
<1>. QED
  BY <1>1, <1>2

LEMMA TrimKeeps == VoiceInv => Voice!TrimKeepsSpeech
<1> SUFFICES ASSUME VoiceInv, Voice!SpeechDetected PROVE Voice!TrimKeepsSpeech
  BY DEF Voice!TrimKeepsSpeech
<1>1. /\ PreRoll \in Nat /\ PostRoll \in Nat /\ None \notin Int /\ Len(frames) \in Nat
  BY VoiceAssumption, LenProperties
  DEF VoiceAssumption, Voice!VadAssumption, VoiceInv, VoiceTypes
<1>2. start \in Nat /\ end \in Nat /\ start < end /\ end <= Len(frames)
  BY <1>1 DEF VoiceInv, VoiceTypes, Speaking, Voice!SpeechDetected
<1>. QED
  BY <1>1, <1>2
  DEF Voice!TrimKeepsSpeech, Voice!TrimStart, Voice!TrimEnd, Voice!AtLeast, Voice!AtMost,
      Voice!Total

\* Whatever is recorded, speech is taken to begin with the first run of voiced frames that
\* is long enough and to end before the first pause that is; the floor lies between
\* levels that were not speech, and what is trimmed off holds no speech.
THEOREM SpeechStaysFound == FairSpec => []SpeechIsFound
<1>1. Init => VoiceInv
  BY VoiceBegins DEF Init, NoVoice
<1>2. VoiceInv /\ [Next]_<<part, vars, levelVars, vadVars, phaseVars, textVars>> => VoiceInv'
  <2> SUFFICES ASSUME VoiceInv, [Next]_<<part, vars, levelVars, vadVars, phaseVars, textVars>>
               PROVE  VoiceInv'
    OBVIOUS
  <2>1. [Voice!VadNext]_vadVars
    BY DEF Next, vadVars
  <2>. QED
    BY <2>1, VoiceInvHolds
<1>3. VoiceInv => SpeechIsFound
  BY TrimKeeps DEF VoiceInv, SpeechIsFound
<1>. QED
  BY <1>1, <1>2, <1>3, PTL DEF FairSpec

-----------------------------------------------------------------------------
(***************************************************************************)
(* The suggestion of a calibration.  A percentile splits the sorted levels *)
(* of a phase: those before it are not above it, those behind it not       *)
(* below, so that the threshold, which lies between the two percentiles,   *)
(* has a known share of each phase on either side.                         *)
(***************************************************************************)
Place(length, p) == ((length - 1) * p) \div 100 + 1

\* What is known of a phase.
Phase(levels) ==
  levels \in Seq(Nat) /\ \A i, j \in 1..Len(levels) : i < j => levels[i] <= levels[j]

ReasonOf(quiet, voice, clipped) ==
  Calibration!Reason(Calibration!Percentile(quiet, 20), Calibration!Percentile(quiet, 50),
                     Calibration!Percentile(quiet, 95), Calibration!Percentile(voice, 50),
                     Calibration!Percentile(voice, 95), clipped)

ThresholdOf(quiet, voice) ==
  Calibration!Suggested(Calibration!Percentile(quiet, 95), Calibration!Percentile(voice, 50))

Suggestion(quiet, voice, clipped) ==
  [reason    |-> ReasonOf(quiet, voice, clipped),
   threshold |-> ThresholdOf(quiet, voice),
   canApply  |-> Calibration!CanApply(ReasonOf(quiet, voice, clipped), ThresholdOf(quiet, voice),
                                      Calibration!Percentile(quiet, 95), voice)]

PhaseInv ==
  /\ Phase(silence) /\ Phase(speech)
  /\ \/ calibration \in {Calibration!NoResult, Calibration!TooShort}
     \/ silence # <<>> /\ speech # <<>> /\ calibration = Suggestion(silence, speech, clipping)

LEMMA PhasesArePhases == ASSUME NEW s \in Calibration!Phases PROVE Phase(s)
<1>1. PhaseLevels \subseteq Nat
  <2>1. Calibration!MaxLevel \in Nat
    BY DEF Calibration!MaxLevel
  <2>. QED
    BY <2>1, PhaseAssumption DEF PhaseAssumption, Calibration!CalibrationAssumption
<1>2. PICK n \in Nat : s \in [1..n -> PhaseLevels]
  <2>1. PICK n \in 0..MaxPhase : s \in [1..n -> PhaseLevels]
    BY DEF Calibration!Phases
  <2>2. n \in Nat
    BY PhaseAssumption DEF PhaseAssumption, Calibration!CalibrationAssumption
  <2>. QED
    BY <2>1, <2>2
<1>3. s \in Seq(Nat)
  <2>1. s \in [1..n -> Nat]
    BY <1>1, <1>2
  <2>. QED
    BY <2>1, SeqDef
<1>. QED
  BY <1>3 DEF Phase, Calibration!Phases, Calibration!Sorted

LEMMA PlaceWithin ==
  ASSUME NEW n \in Nat \ {0}, NEW p \in {20, 50, 95}
  PROVE  Place(n, p) \in 1..n
<1>1. CASE p = 20
  BY <1>1 DEF Place
<1>2. CASE p = 50
  BY <1>2 DEF Place
<1>3. CASE p = 95
  BY <1>3 DEF Place
<1>. QED
  BY <1>1, <1>2, <1>3

\* Enough of the places lie behind the percentiles, and few enough.
LEMMA PlaceShares ==
  ASSUME NEW n \in Nat \ {0}
  PROVE  2 * (n - Place(n, 50) + 1) >= n /\ 20 * (n - Place(n, 95) - 1) <= n + 19
BY DEF Place

LEMMA PercentileSplits ==
  ASSUME NEW levels, Phase(levels), levels # <<>>, NEW p \in {20, 50, 95}
  PROVE  /\ Len(levels) \in Nat \ {0} /\ Calibration!Percentile(levels, p) \in Nat
         /\ \A i \in 1..Place(Len(levels), p) :
              levels[i] \in Nat /\ levels[i] <= Calibration!Percentile(levels, p)
         /\ \A i \in Place(Len(levels), p)..Len(levels) :
              levels[i] \in Nat /\ Calibration!Percentile(levels, p) <= levels[i]
<1> DEFINE m  == Place(Len(levels), p)
           at == Calibration!Percentile(levels, p)
<1>1. Len(levels) \in Nat \ {0}
  BY EmptySeq, LenProperties DEF Phase
<1>2. m \in 1..Len(levels)
  BY <1>1, PlaceWithin
<1>3. at = levels[m]
  BY DEF Calibration!Percentile, Place
<1>4. \A i \in 1..Len(levels) : levels[i] \in Nat
  BY ElementOfSeq DEF Phase
<1> HIDE DEF m, at
<1>5. ASSUME NEW i \in 1..m
      PROVE  levels[i] \in Nat /\ levels[i] <= at
  <2>1. i \in 1..Len(levels) /\ (i < m \/ i = m)
    BY <1>1, <1>2
  <2>2. i < m => levels[i] <= levels[m]
    BY <1>2, <2>1 DEF Phase
  <2>. QED
    BY <1>2, <1>3, <1>4, <2>1, <2>2
<1>6. ASSUME NEW i \in m..Len(levels)
      PROVE  levels[i] \in Nat /\ at <= levels[i]
  <2>1. i \in 1..Len(levels) /\ (m < i \/ i = m)
    BY <1>1, <1>2
  <2>2. m < i => levels[m] <= levels[i]
    BY <1>2, <2>1 DEF Phase
  <2>. QED
    BY <1>2, <1>3, <1>4, <2>1, <2>2
<1>. QED
  BY <1>1, <1>2, <1>3, <1>4, <1>5, <1>6 DEF m, at

\* How many levels reach a threshold, if it lies above or below a percentile.
LEMMA ShareAbove ==
  ASSUME NEW levels, Phase(levels), levels # <<>>, NEW t \in Nat,
         t <= Calibration!Percentile(levels, 50)
  PROVE  2 * Calibration!Voiced(levels, t) >= Len(levels)
<1> DEFINE n     == Len(levels)
           m     == Place(n, 50)
           Loud == {i \in 1..n : levels[i] >= t}
<1>1. /\ n \in Nat \ {0} /\ Calibration!Percentile(levels, 50) \in Nat
      /\ \A i \in m..n : levels[i] \in Nat /\ Calibration!Percentile(levels, 50) <= levels[i]
  BY PercentileSplits
<1>2. m \in 1..n
  BY <1>1, PlaceWithin
<1>3. m..n \subseteq Loud
  <2> SUFFICES ASSUME NEW i \in m..n PROVE i \in 1..n /\ levels[i] >= t
    OBVIOUS
  <2>1. levels[i] \in Nat /\ Calibration!Percentile(levels, 50) <= levels[i]
    BY <1>1
  <2>. QED
    BY <1>1, <1>2, <2>1
<1>4. IsFiniteSet(1..n) /\ Cardinality(m..n) = n - m + 1
  BY <1>1, <1>2, FS_Interval
<1>5. IsFiniteSet(Loud)
  BY <1>4, FS_Subset
<1>6. Cardinality(m..n) <= Cardinality(Loud) /\ Cardinality(Loud) \in Nat
  BY <1>3, <1>5, FS_Subset, FS_CardinalityType
<1>7. 2 * (n - m + 1) >= n
  BY <1>1, PlaceShares, Zenon
<1>8. Calibration!Voiced(levels, t) = Cardinality(Loud)
  BY DEF Calibration!Voiced, Calibration!Cardinality, Cardinality
<1> HIDE DEF m, Loud
<1>. QED
  BY <1>1, <1>2, <1>4, <1>6, <1>7, <1>8

LEMMA ShareBelow ==
  ASSUME NEW levels, Phase(levels), levels # <<>>, NEW t \in Nat,
         Calibration!Percentile(levels, 95) < t
  PROVE  20 * (Calibration!Voiced(levels, t) - 1) <= Len(levels) + 19
<1> DEFINE n     == Len(levels)
           m     == Place(n, 95)
           Loud == {i \in 1..n : levels[i] >= t}
<1>1. /\ n \in Nat \ {0} /\ Calibration!Percentile(levels, 95) \in Nat
      /\ \A i \in 1..m : levels[i] \in Nat /\ levels[i] <= Calibration!Percentile(levels, 95)
  BY PercentileSplits
<1>2. m \in 1..n
  BY <1>1, PlaceWithin
<1>3. Loud \subseteq m + 1..n
  <2> SUFFICES ASSUME NEW i \in 1..n, levels[i] >= t, i \in 1..m PROVE FALSE
    BY <1>1, <1>2
  <2>1. levels[i] \in Nat /\ levels[i] <= Calibration!Percentile(levels, 95)
    BY <1>1
  <2>. QED
    BY <1>1, <2>1
<1> HIDE DEF m, n
<1>4. IsFiniteSet(m + 1..n) /\ Cardinality(m + 1..n) = n - m
  <2>1. n \in Nat /\ m \in Nat /\ m <= n
    BY <1>1, <1>2
  <2>2. IsFiniteSet(m + 1..n)
    BY <2>1, FS_Interval
  <2>3. CASE m = n
    <3>1. m + 1..n = {}
      BY <2>1, <2>3
    <3>. QED
      BY <2>1, <2>2, <2>3, <3>1, FS_EmptySet
  <2>4. CASE m # n
    <3>1. m + 1 \in Int /\ n \in Int /\ m + 1 <= n /\ n - (m + 1) + 1 = n - m
      BY <2>1, <2>4
    <3>. QED
      BY <2>2, <3>1, FS_Interval
  <2>. QED
    BY <2>2, <2>3, <2>4
<1>5. Cardinality(Loud) <= n - m /\ Cardinality(Loud) \in Nat
  BY <1>3, <1>4, FS_Subset, FS_CardinalityType
<1>6. 20 * (n - m - 1) <= n + 19
  BY <1>1, PlaceShares, Zenon DEF m, n
<1>7. Calibration!Voiced(levels, t) = Cardinality(Loud)
  BY DEF Calibration!Voiced, Calibration!Cardinality, Cardinality, n
<1> HIDE DEF Loud
<1>. QED
  BY <1>1, <1>2, <1>5, <1>6, <1>7 DEF n

\* The threshold lies above the noise and not above the voice, if the voice is louder.
LEMMA SuggestedLiesBetween ==
  ASSUME NEW a \in Nat, NEW b \in Nat
  PROVE  /\ Calibration!Suggested(a, b) \in Nat
         /\ 1 <= Calibration!Suggested(a, b) /\ Calibration!Suggested(a, b) <= 10000
         /\ b > a + 100 => Calibration!Suggested(a, b) <= b
<1>1. CASE b <= a
  BY <1>1 DEF Calibration!Suggested, Calibration!AtMost
<1>2. CASE ~ (b <= a)
  <2> DEFINE q == (b - a) \div 4
  <2>1. q \in Nat /\ q <= b - a
    BY <1>2
  <2>2. Calibration!Suggested(a, b) = Calibration!AtMost(a + Calibration!AtLeast(q, 80), 10000)
    BY <1>2 DEF Calibration!Suggested
  <2> HIDE DEF q
  <2>. QED
    BY <1>2, <2>1, <2>2 DEF Calibration!AtMost, Calibration!AtLeast
<1>. QED
  BY <1>1, <1>2

LEMMA ReasonIsHigh ==
  ASSUME NEW a, NEW b, NEW c, NEW d, NEW e, NEW f,
         Calibration!Reason(a, b, c, d, e, f) \notin Calibration!Low
  PROVE  ~ f /\ ~ (d <= c + 100 \/ Calibration!SnrBelow(6, b, d))
<1>1. CASE f
  <2>1. Calibration!Reason(a, b, c, d, e, f) = "clipping"
    BY <1>1 DEF Calibration!Reason
  <2>. QED
    BY <2>1 DEF Calibration!Low
<1>2. CASE ~ f /\ (d <= c + 100 \/ Calibration!SnrBelow(6, b, d))
  <2>1. Calibration!Reason(a, b, c, d, e, f) = "no-speech"
    BY <1>2 DEF Calibration!Reason
  <2>. QED
    BY <2>1 DEF Calibration!Low
<1>. QED
  BY <1>1, <1>2

LEMMA PhaseInvHolds ==
  ASSUME PhaseInv, [Calibration!CalibrationNext]_phaseVars
  PROVE  PhaseInv'
<1>1. CASE UNCHANGED phaseVars
  BY <1>1 DEF phaseVars, PhaseInv, Phase
<1>2. CASE Calibration!Analyze
  <2>1. silence' = silence /\ speech' = speech /\ clipping' = clipping
    BY <1>2 DEF Calibration!Analyze, Calibration!inputs
  <2>2. CASE Len(silence) < MinPhase \/ Len(speech) < MinPhase
    <3>1. calibration' = Calibration!TooShort
      BY <1>2, <2>2 DEF Calibration!Analyze
    <3>. QED
      BY <2>1, <3>1 DEF PhaseInv, Phase, Calibration!TooShort
  <2>3. CASE ~ (Len(silence) < MinPhase \/ Len(speech) < MinPhase)
    <3>1. calibration' = Suggestion(silence, speech, clipping)
      BY <1>2, <2>3 DEF Calibration!Analyze, Suggestion, ReasonOf, ThresholdOf
    <3>2. silence # <<>> /\ speech # <<>>
      BY <2>3, PhaseAssumption, EmptySeq
      DEF PhaseAssumption, Calibration!CalibrationAssumption
    <3>. QED
      BY <2>1, <3>1, <3>2 DEF PhaseInv, Phase
  <2>. QED
    BY <2>2, <2>3
<1>. QED
  BY <1>1, <1>2 DEF Calibration!CalibrationNext

\* Before a recording is measured, nothing is said of it.
LEMMA NothingSuggested == ~ Calibration!Analyzed => SuggestionIsSound
BY DEF SuggestionIsSound, Calibration!SuggestionIsValid,
       Calibration!AppliedHearsTheVoice, Calibration!LowConfidenceIsNotApplied

LEMMA SuggestionInRange ==
  ASSUME calibration.threshold \in Nat, 1 <= calibration.threshold,
         calibration.threshold <= 10000
  PROVE  Calibration!SuggestionIsValid
BY DEF Calibration!SuggestionIsValid

LEMMA SuggestionSound == PhaseInv => SuggestionIsSound
<1> SUFFICES ASSUME PhaseInv PROVE SuggestionIsSound
  OBVIOUS
<1> DEFINE noise95  == Calibration!Percentile(silence, 95)
           noise50  == Calibration!Percentile(silence, 50)
           speech50 == Calibration!Percentile(speech, 50)
           t        == Calibration!Suggested(noise95, speech50)
<1>1. CASE calibration \in {Calibration!NoResult, Calibration!TooShort}
  <2>1. ~ Calibration!Analyzed
    BY <1>1 DEF Calibration!Analyzed, Calibration!NoResult, Calibration!TooShort
  <2>. QED
    BY <2>1, NothingSuggested, Zenon
<1>2. CASE silence # <<>> /\ speech # <<>> /\ calibration = Suggestion(silence, speech, clipping)
  <2>0. Phase(silence) /\ Phase(speech)
    BY DEF PhaseInv
  <2>1. noise95 \in Nat /\ speech50 \in Nat /\ Phase(silence) /\ Phase(speech)
    BY <1>2, <2>0, PercentileSplits
  <2> HIDE DEF noise95, noise50, speech50
  <2>2. t \in Nat /\ 1 <= t /\ t <= 10000 /\ (speech50 > noise95 + 100 => t <= speech50)
    BY <2>1, SuggestedLiesBetween
  <2>3. calibration.threshold = t
    BY <1>2 DEF Suggestion, ThresholdOf, noise95, speech50
  <2>4. ASSUME calibration.canApply
        PROVE  /\ t > noise95 /\ ~ clipping /\ speech50 > noise95 + 100
               /\ ~ Calibration!SnrBelow(6, noise50, speech50)
    <3>1. t > noise95 /\ Calibration!Reason(Calibration!Percentile(silence, 20), noise50,
             noise95, speech50, Calibration!Percentile(speech, 95), clipping)
             \notin Calibration!Low
      BY <1>2, <2>4 DEF Suggestion, ReasonOf, ThresholdOf, Calibration!CanApply, noise95, noise50, speech50
    <3>2. /\ ~ clipping /\ ~ (speech50 <= noise95 + 100)
          /\ ~ Calibration!SnrBelow(6, noise50, speech50)
      BY <3>1, ReasonIsHigh
    <3>3. speech50 > noise95 + 100
      BY <2>1, <3>2
    <3>. QED
      BY <3>1, <3>2, <3>3
  <2> HIDE DEF t
  <2>5. Calibration!SuggestionIsValid
    BY <2>2, <2>3, SuggestionInRange
  <2>6. ASSUME calibration.canApply
        PROVE  /\ 2 * Calibration!Voiced(speech, t) >= Len(speech)
               /\ 20 * (Calibration!Voiced(silence, t) - 1) <= Len(silence) + 19
    <3>1. t \in Nat /\ t <= speech50 /\ noise95 < t
      BY <2>1, <2>2, <2>4, <2>6
    <3>. QED
      BY <1>2, <2>1, <3>1, ShareAbove, ShareBelow DEF noise95, speech50
  <2>7. Calibration!AppliedHearsTheVoice
    BY <2>3, <2>6 DEF Calibration!AppliedHearsTheVoice
  <2>8. Calibration!LowConfidenceIsNotApplied
    BY <2>4 DEF Calibration!LowConfidenceIsNotApplied, noise95, noise50, speech50
  <2>. QED
    BY <2>5, <2>7, <2>8 DEF SuggestionIsSound
<1>. QED
  BY <1>1, <1>2 DEF PhaseInv

\* Whatever was recorded, in phases of any length, a suggestion is a valid threshold, and
\* one that may be applied is reached by at least half of the voice and by hardly any of
\* the noise, and was measured without clipping and with the voice well above the noise.
THEOREM SuggestionStaysSound == FairSpec => []SuggestionIsSound
<1>1. Init => PhaseInv
  <2> SUFFICES ASSUME Init PROVE PhaseInv
    OBVIOUS
  <2>1. NoPhases \/ Calibration!CalibrationInit
    BY DEF Init
  <2>2. Phase(<<>>)
    BY EmptySeq DEF Phase
  <2>3. Calibration!CalibrationInit => PhaseInv
    BY PhasesArePhases DEF Calibration!CalibrationInit, PhaseInv
  <2>. QED
    BY <2>1, <2>2, <2>3 DEF NoPhases, PhaseInv
<1>2. PhaseInv /\ [Next]_<<part, vars, levelVars, vadVars, phaseVars, textVars>> => PhaseInv'
  <2> SUFFICES ASSUME PhaseInv, [Next]_<<part, vars, levelVars, vadVars, phaseVars, textVars>>
               PROVE  PhaseInv'
    OBVIOUS
  <2>1. [Calibration!CalibrationNext]_phaseVars
    BY DEF Next, phaseVars
  <2>. QED
    BY <2>1, PhaseInvHolds
<1>. QED
  BY <1>1, <1>2, SuggestionSound, PTL DEF FairSpec

-----------------------------------------------------------------------------
(***************************************************************************)
(* The level of a frame.  Newton's iteration never falls below the root,   *)
(* and stops where the next estimate is not below; the mean of the squares *)
(* lies between the squares of the least and of the greatest magnitude.    *)
(***************************************************************************)

\* The next estimate is not below the root, rounded down.
LEMMA ImprovedStaysAbove ==
  ASSUME NEW v \in Nat, NEW e \in Nat \ {0}
  PROVE  /\ Frame!Improved(e, v) \in Nat
         /\ v < (Frame!Improved(e, v) + 1) * (Frame!Improved(e, v) + 1)
<1> DEFINE q == v \div e
           n == (e + q) \div 2
<1>1. q \in Nat /\ v < (q + 1) * e
  OBVIOUS
<1> HIDE DEF q
<1>2. n \in Nat /\ e + q + 1 <= 2 * (n + 1)
  BY <1>1
<1> HIDE DEF n
<1> DEFINE a == q + 1
           b == n + 1
<1>3. a \in Nat /\ b \in Nat /\ v < a * e /\ a + e <= 2 * b
  BY <1>1, <1>2 DEF a, b
<1> HIDE DEF a, b
<1>4. 4 * (a * e) <= (a + e) * (a + e)
  <2>1. (a + e) * (a + e) - 4 * (a * e) = (a - e) * (a - e)
    BY <1>3
  <2>2. (a - e) * (a - e) >= 0
    BY <1>3
  <2>. QED
    BY <1>3, <2>1, <2>2
<1>5. (a + e) * (a + e) <= (2 * b) * (2 * b)
  BY <1>3
<1>6. (2 * b) * (2 * b) = 4 * (b * b)
  BY <1>3
<1>7. v < b * b
  BY <1>3, <1>4, <1>5, <1>6
<1>. QED
  BY <1>2, <1>7 DEF Frame!Improved, q, n, b

\* An estimate that cannot be improved is not above the root.
LEMMA ConvergedIsBelow ==
  ASSUME NEW v \in Nat, NEW e \in Nat \ {0}, Frame!Improved(e, v) >= e
  PROVE  e * e <= v
<1> DEFINE q == v \div e
<1>1. q \in Nat /\ q * e <= v
  OBVIOUS
<1> HIDE DEF q
<1>2. (e + q) \div 2 >= e
  BY DEF Frame!Improved, q
<1>3. q >= e
  BY <1>1, <1>2
<1>4. e * e <= q * e
  BY <1>1, <1>3
<1>. QED
  BY <1>1, <1>4

\* What is known of an iteration for v, whether it began at v or nearby.
Near(v, e, n, l) ==
  /\ v \in Nat /\ e \in Nat /\ n \in Nat /\ l \in Nat \cup {Frame!Unknown}
  /\ v = 0 => e = 0 /\ n = 0
  /\ v # 0 => e # 0 /\ n = Frame!Improved(e, v)
  /\ v < 2 * (e + 1) * (e + 1)
  /\ l # Frame!Unknown => l = e /\ n >= e

Above(v, e) == v < (e + 1) * (e + 1)

LEMMA NearStays ==
  ASSUME Near(value, estimate, next, level), Frame!LevelNext
  PROVE  /\ Near(value', estimate', next', level')
         /\ Above(value, estimate) => Above(value', estimate')
<1> DEFINE v == value
           e == estimate
           n == next
<1>1. CASE Frame!Iterate
  <2>1. /\ level = Frame!Unknown /\ level' = level /\ value' = v
        /\ estimate' = n /\ next' = Frame!Improved(n, v) /\ n < e
    BY <1>1 DEF Frame!Iterate
  <2>2. v \in Nat \ {0} /\ e \in Nat \ {0} /\ n = Frame!Improved(e, v) /\ n \in Nat
    BY <2>1 DEF Near
  <2>3. v < (n + 1) * (n + 1)
    BY <2>2, ImprovedStaysAbove
  <2>4. n # 0
    <3>1. n = 0 => (n + 1) * (n + 1) = 1
      OBVIOUS
    <3>. QED
      BY <2>2, <2>3, <3>1
  <2>5. Frame!Improved(n, v) \in Nat
    BY <2>2, <2>4, ImprovedStaysAbove
  <2>6. v < 2 * (n + 1) * (n + 1)
    <3> DEFINE s == (n + 1) * (n + 1)
    <3>1. s \in Nat /\ 2 * (n + 1) * (n + 1) = 2 * s /\ v < s
      BY <2>2, <2>3
    <3>. QED
      BY <2>2, <3>1
  <2>. QED
    BY <2>1, <2>2, <2>3, <2>4, <2>5, <2>6 DEF Near, Above
<1>2. CASE Frame!Converged
  <2>1. level' = e /\ n >= e /\ value' = v /\ estimate' = e /\ next' = n
    BY <1>2 DEF Frame!Converged
  <2>. QED
    BY <2>1 DEF Near, Above
<1>. QED
  BY <1>1, <1>2 DEF Frame!LevelNext

LEMMA LevelFollows ==
  ASSUME NEW v, NEW e, NEW n, NEW l, Near(v, e, n, l), l # Frame!Unknown
  PROVE  /\ l \in Nat /\ l * l <= v /\ v < 2 * (l + 1) * (l + 1)
         /\ Above(v, e) => v < (l + 1) * (l + 1)
<1>1. l = e /\ l \in Nat /\ v \in Nat /\ n >= e
  BY DEF Near
<1>2. l * l <= v
  <2>1. CASE v = 0
    BY <1>1, <2>1 DEF Near
  <2>2. CASE v # 0
    BY <1>1, <2>2, ConvergedIsBelow DEF Near
  <2>. QED
    BY <2>1, <2>2
<1>. QED
  BY <1>1, <1>2 DEF Near, Above

-----------------------------------------------------------------------------
\* The sum of the squares of a frame, sample by sample.
SumUpTo(f, g, n) == IF n = 0 THEN 0 ELSE g[n - 1] + f[n] * f[n]

LEMMA SquareSumUnfolds ==
  ASSUME NEW f \in Seq(Int)
  PROVE  \E g \in [0..Len(f) -> Int] :
           /\ \A n \in 0..Len(f) : g[n] = SumUpTo(f, g, n)
           /\ Frame!SquareSum(f) = g[Len(f)]
<1> DEFINE step == [x \in (1..Len(f)) \X Int |-> x[2] + f[x[1]] * f[x[1]]]
           Solves(g) == g = [n \in 0..Len(f) |-> IF n = 0 THEN 0 ELSE g[n - 1] + f[n] * f[n]]
<1>1. Len(f) \in Nat /\ \A i \in 1..Len(f) : f[i] \in Int
  BY LenProperties, ElementOfSeq
<1>2. step \in [(1..Len(f)) \X Int -> Int]
  BY <1>1
<1>3. PICK g \in [0..Len(f) -> Int] :
        \A n \in 0..Len(f) : g[n] = IF n = 0 THEN 0 ELSE step[<<n, g[n - 1]>>]
  <2>1. 0 \in Int
    OBVIOUS
  <2> HIDE DEF step
  <2>2. HasSolution(Len(f), Int, 0, step)
    BY <1>1, <1>2, <2>1, RecursionHasSolution
  <2>. QED
    BY <2>2 DEF HasSolution
<1>4. \A n \in 1..Len(f) : step[<<n, g[n - 1]>>] = g[n - 1] + f[n] * f[n]
  <2> SUFFICES ASSUME NEW n \in 1..Len(f)
               PROVE  step[<<n, g[n - 1]>>] = g[n - 1] + f[n] * f[n]
    OBVIOUS
  <2>1. n - 1 \in 0..Len(f) /\ g[n - 1] \in Int
    BY <1>1
  <2>. QED
    BY <2>1
<1>5. Solves(g)
  <2> HIDE DEF step
  <2>1. \A n \in 0..Len(f) : g[n] = IF n = 0 THEN 0 ELSE g[n - 1] + f[n] * f[n]
    <3> SUFFICES ASSUME NEW n \in 0..Len(f)
                 PROVE  g[n] = IF n = 0 THEN 0 ELSE g[n - 1] + f[n] * f[n]
      OBVIOUS
    <3>1. g[n] = IF n = 0 THEN 0 ELSE step[<<n, g[n - 1]>>]
      BY <1>3
    <3>2. n # 0 => n \in 1..Len(f)
      BY <1>1
    <3>. QED
      BY <1>4, <3>1, <3>2
  <2>. QED
    BY <1>3, <2>1, Zenon
<1> DEFINE h == CHOOSE x : Solves(x)
<1>6. Solves(h)
  BY <1>5
<1>7. Frame!SquareSum(f) = h[Len(f)]
  BY DEF Frame!SquareSum
<1> HIDE DEF h
<1>8. ASSUME NEW k \in 0..Len(f)
      PROVE  h[k] = g[k]
  <2> DEFINE T == {n \in 0..Len(f) : h[n] = g[n]}
  <2>1. 0 \in T
    BY <1>1, <1>5, <1>6
  <2>2. ASSUME NEW n \in 1..Len(f), n - 1 \in T
        PROVE  n \in T
    <3>1. n \in 0..Len(f) /\ n # 0 /\ h[n - 1] = g[n - 1]
      BY <1>1, <2>2
    <3>2. h[n] = h[n - 1] + f[n] * f[n] /\ g[n] = g[n - 1] + f[n] * f[n]
      BY <1>5, <1>6, <3>1
    <3>. QED
      BY <3>1, <3>2
  <2>3. \A n \in 0..Len(f) : n \in T
    <3> HIDE DEF T
    <3>. QED
      BY <1>1, <2>1, <2>2, NumberInduction
  <2>. QED
    BY <2>3
<1>9. \A n \in 0..Len(f) : g[n] = SumUpTo(f, g, n)
  BY <1>5 DEF SumUpTo
<1>. QED
  BY <1>1, <1>7, <1>8, <1>9

LEMMA SquareOfMagnitude ==
  ASSUME NEW x \in Int
  PROVE  Frame!Magnitude(x) \in Nat /\ x * x = Frame!Magnitude(x) * Frame!Magnitude(x)
BY DEF Frame!Magnitude

LEMMA SquaresAreOrdered ==
  ASSUME NEW a \in Nat, NEW b \in Nat
  PROVE  a <= b => a * a <= b * b
OBVIOUS

\* The same, for an operator that the provers do not look into.
Squared(n) == n * n

LEMMA SquaredIsOrdered ==
  ASSUME NEW a \in Nat, NEW b \in Nat
  PROVE  Squared(b) \in Nat /\ (a <= b => Squared(a) <= Squared(b))
BY SquaresAreOrdered DEF Squared

\* The mean lies between the squares of bounds of the magnitudes.
LEMMA MeanIsBounded ==
  ASSUME NEW f \in Seq(Int), NEW low \in Nat, NEW high \in Nat,
         \A i \in 1..Len(f) : low <= Frame!Magnitude(f[i]) /\ Frame!Magnitude(f[i]) <= high
  PROVE  /\ Frame!Mean(f) \in Nat
         /\ Frame!Mean(f) <= high * high
         /\ f # <<>> => low * low <= Frame!Mean(f)
<1> DEFINE l == low * low
           h == high * high
<1>1. /\ Len(f) \in Nat /\ l \in Nat /\ h \in Nat
      /\ \A i \in 1..Len(f) : f[i] \in Int
  BY LenProperties, ElementOfSeq
<1>2. ASSUME NEW i \in 1..Len(f)
      PROVE  f[i] * f[i] \in Nat /\ l <= f[i] * f[i] /\ f[i] * f[i] <= h
  <2> DEFINE m == Frame!Magnitude(f[i])
  <2>1. m \in Nat /\ f[i] * f[i] = m * m /\ low <= m /\ m <= high
    BY <1>1, SquareOfMagnitude
  <2> HIDE DEF m, l, h
  <2>2. Squared(m) \in Nat /\ Squared(low) <= Squared(m) /\ Squared(m) <= Squared(high)
    BY <2>1, SquaredIsOrdered
  <2>. QED
    BY <2>1, <2>2, Zenon DEF Squared, l, h
<1> HIDE DEF l, h
<1>3. PICK g \in [0..Len(f) -> Int] :
        /\ \A n \in 0..Len(f) : g[n] = SumUpTo(f, g, n)
        /\ Frame!SquareSum(f) = g[Len(f)]
  BY SquareSumUnfolds
<1>4. \A n \in 0..Len(f) : g[n] \in Nat /\ n * l <= g[n] /\ g[n] <= n * h
  <2> DEFINE T == {n \in 0..Len(f) : g[n] \in Nat /\ n * l <= g[n] /\ g[n] <= n * h}
  <2>1. 0 \in T
    <3>1. g[0] = 0 /\ 0 \in 0..Len(f)
      BY <1>1, <1>3 DEF SumUpTo
    <3>. QED
      BY <1>1, <3>1
  <2>2. ASSUME NEW n \in 1..Len(f), n - 1 \in T
        PROVE  n \in T
    <3> DEFINE s == f[n] * f[n]
               r == g[n - 1]
    <3>1. n \in 0..Len(f) /\ g[n] = r + s
      BY <1>1, <1>3 DEF SumUpTo
    <3>2. r \in Nat /\ (n - 1) * l <= r /\ r <= (n - 1) * h
      BY <2>2
    <3>3. s \in Nat /\ l <= s /\ s <= h
      BY <1>2
    <3>4. (n - 1) * l + l = n * l /\ (n - 1) * h + h = n * h
      BY <1>1
    <3>5. n * l \in Nat /\ n * h \in Nat /\ (n - 1) * l \in Nat /\ (n - 1) * h \in Nat
      BY <1>1
    <3> HIDE DEF s, r
    <3>6. r + s \in Nat /\ n * l <= r + s /\ r + s <= n * h
      BY <1>1, <3>2, <3>3, <3>4, <3>5
    <3>. QED
      BY <3>1, <3>6
  <2>3. \A n \in 0..Len(f) : n \in T
    <3> HIDE DEF T
    <3>. QED
      BY <1>1, <2>1, <2>2, NumberInduction
  <2>. QED
    BY <2>3
<1>5. CASE f = <<>>
  BY <1>1, <1>5 DEF Frame!Mean, h, l
<1>6. CASE f # <<>>
  <2> DEFINE n == Len(f)
             s == Frame!SquareSum(f)
             q == s \div n
  <2>1. n \in Nat \ {0} /\ s \in Nat /\ n * l <= s /\ s <= n * h
    BY <1>1, <1>3, <1>4, <1>6, EmptySeq
  <2>2. Frame!Mean(f) = q
    BY <1>6 DEF Frame!Mean
  <2> HIDE DEF n, s
  <2>3. q \in Nat /\ q * n <= s /\ s < (q + 1) * n
    BY <2>1
  <2> HIDE DEF q
  <2>4. q <= h
    <3> SUFFICES ASSUME ~ (q <= h) PROVE FALSE
      OBVIOUS
    <3>1. (h + 1) * n <= q * n
      BY <1>1, <2>1, <2>3
    <3>2. (h + 1) * n = n * h + n
      BY <1>1, <2>1
    <3>. QED
      BY <1>1, <2>1, <2>3, <3>1, <3>2
  <2>5. l <= q
    <3> SUFFICES ASSUME ~ (l <= q) PROVE FALSE
      OBVIOUS
    <3>1. (q + 1) * n <= l * n
      BY <1>1, <2>1, <2>3
    <3>2. l * n = n * l
      BY <1>1, <2>1
    <3>. QED
      BY <1>1, <2>1, <2>3, <3>1, <3>2
  <2>. QED
    BY <2>2, <2>3, <2>4, <2>5 DEF l, h
<1>. QED
  BY <1>5, <1>6

-----------------------------------------------------------------------------
\* The powers of two, and the one that a live level begins with.
LEMMA PowersOfTwo ==
  /\ Frame!PowerOfTwo[0] = 1
  /\ \A k \in 0..30 : Frame!PowerOfTwo[k] \in Nat \ {0}
  /\ \A k \in 1..30 : Frame!PowerOfTwo[k] = 2 * Frame!PowerOfTwo[k - 1]
<1> DEFINE Solves(p) == p = [k \in 0..30 |-> IF k = 0 THEN 1 ELSE 2 * p[k - 1]]
           step == [x \in (1..30) \X (Nat \ {0}) |-> 2 * x[2]]
           P    == Frame!PowerOfTwo
<1>1. step \in [(1..30) \X (Nat \ {0}) -> Nat \ {0}]
  OBVIOUS
<1>2. PICK g \in [0..30 -> Nat \ {0}] :
        \A k \in 0..30 : g[k] = IF k = 0 THEN 1 ELSE step[<<k, g[k - 1]>>]
  <2>1. 1 \in Nat \ {0} /\ 30 \in Nat
    OBVIOUS
  <2> HIDE DEF step
  <2>2. HasSolution(30, Nat \ {0}, 1, step)
    BY <1>1, <2>1, RecursionHasSolution
  <2>. QED
    BY <2>2 DEF HasSolution
<1>3. \A k \in 1..30 : step[<<k, g[k - 1]>>] = 2 * g[k - 1]
  <2> SUFFICES ASSUME NEW k \in 1..30 PROVE step[<<k, g[k - 1]>>] = 2 * g[k - 1]
    OBVIOUS
  <2>1. g[k - 1] \in Nat \ {0}
    OBVIOUS
  <2>. QED
    BY <2>1
<1>4. Solves(g)
  <2> HIDE DEF step
  <2>1. \A k \in 0..30 : g[k] = IF k = 0 THEN 1 ELSE 2 * g[k - 1]
    <3> SUFFICES ASSUME NEW k \in 0..30 PROVE g[k] = IF k = 0 THEN 1 ELSE 2 * g[k - 1]
      OBVIOUS
    <3>1. k # 0 => k \in 1..30
      OBVIOUS
    <3>. QED
      BY <1>2, <1>3, <3>1
  <2>. QED
    BY <2>1, Zenon
<1>5. P = CHOOSE p : Solves(p)
  BY DEF Frame!PowerOfTwo
<1>6. Solves(P)
  BY <1>4, <1>5
<1> HIDE DEF P
<1>7. P[0] = 1 /\ \A k \in 1..30 : P[k] = 2 * P[k - 1]
  BY <1>6
<1> DEFINE T == {k \in 0..30 : P[k] \in Nat \ {0}}
<1>8. 0 \in T
  BY <1>7
<1>9. ASSUME NEW k \in 1..30, k - 1 \in T
      PROVE  k \in T
  <2>1. P[k] = 2 * P[k - 1] /\ P[k - 1] \in Nat \ {0} /\ k \in 0..30
    BY <1>7, <1>9
  <2>2. P[k] \in Nat \ {0}
    BY <2>1
  <2>. QED
    BY <2>1, <2>2
<1>10. \A k \in 0..30 : k \in T
  <2>1. 30 \in Nat
    OBVIOUS
  <2> HIDE DEF T
  <2>. QED
    BY <1>8, <1>9, <2>1, NumberInduction
<1>. QED
  BY <1>7, <1>10 DEF P

\* The square of a power, and the greatest square of a sample.
LEMMA SquaresOfPowers ==
  /\ \A j \in 0..15 : Frame!PowerOfTwo[2 * j] = Frame!PowerOfTwo[j] * Frame!PowerOfTwo[j]
  /\ Frame!PowerOfTwo[30] = Frame!MaxAmplitude * Frame!MaxAmplitude
<1> DEFINE P == Frame!PowerOfTwo
           T == {j \in 0..15 : P[2 * j] = P[j] * P[j]}
<1>1. /\ P[0] = 1
      /\ \A k \in 0..30 : P[k] \in Nat \ {0}
      /\ \A k \in 1..30 : P[k] = 2 * P[k - 1]
  BY PowersOfTwo
<1> HIDE DEF P
<1>2. 0 \in T
  <2>1. 2 * 0 = 0 /\ P[0] * P[0] = 1
    BY <1>1
  <2>. QED
    BY <1>1, <2>1
<1>3. ASSUME NEW j \in 1..15, j - 1 \in T
      PROVE  j \in T
  <2> DEFINE a == P[j - 1]
             b == P[2 * (j - 1)]
  <2>1. /\ j \in 1..30 /\ j - 1 \in 0..30
        /\ 2 * j \in 1..30 /\ 2 * j - 1 \in 1..30 /\ 2 * j - 2 = 2 * (j - 1) /\ (2 * j - 1) - 1 = 2 * (j - 1)
    OBVIOUS
  <2>2. a \in Nat /\ P[j] = 2 * a
    BY <1>1, <2>1
  <2>3. P[2 * j] = 2 * P[2 * j - 1] /\ P[2 * j - 1] = 2 * b
    BY <1>1, <2>1
  <2>4. b = a * a
    BY <1>3
  <2> HIDE DEF a, b
  <2>5. 2 * (2 * b) = (2 * a) * (2 * a)
    BY <2>2, <2>4
  <2>6. P[2 * j] = P[j] * P[j]
    BY <2>2, <2>3, <2>5
  <2>. QED
    BY <2>6
<1>4. \A j \in 0..15 : j \in T
  <2>1. 15 \in Nat
    OBVIOUS
  <2> HIDE DEF T
  <2>. QED
    BY <1>2, <1>3, <2>1, NumberInduction
<1>5. P[1] = 2 /\ P[2] = 4 /\ P[4] = 16 /\ P[8] = 256 /\ P[7] = 128
  <2>1. P[1] = 2 /\ P[2] = 4 /\ P[3] = 8
    BY <1>1
  <2>2. P[4] = 16 /\ P[5] = 32 /\ P[6] = 64
    BY <1>1, <2>1
  <2>3. P[7] = 128 /\ P[8] = 256
    BY <1>1, <2>2
  <2>. QED
    BY <2>1, <2>2, <2>3
<1>6. P[15] = Frame!MaxAmplitude
  <2>1. P[9] = 512 /\ P[10] = 1024 /\ P[11] = 2048
    BY <1>1, <1>5
  <2>2. P[12] = 4096 /\ P[13] = 8192 /\ P[14] = 16384
    BY <1>1, <2>1
  <2>. QED
    BY <1>1, <2>2 DEF Frame!MaxAmplitude
<1>7. P[30] = P[15] * P[15]
  <2>1. 15 \in T /\ 2 * 15 = 30
    BY <1>4
  <2>. QED
    BY <2>1
<1>. QED
  BY <1>4, <1>6, <1>7 DEF P

LEMMA LogarithmExists ==
  ASSUME NEW v \in Nat \ {0}, v <= Frame!MaxAmplitude * Frame!MaxAmplitude
  PROVE  /\ Frame!Log2(v) \in 0..30
         /\ v < 2 * Frame!PowerOfTwo[Frame!Log2(v)]
<1> DEFINE P == Frame!PowerOfTwo
           T == {k \in 0..30 : v \div 2 < P[k]}
<1>1. /\ P[0] = 1
      /\ \A k \in 0..30 : P[k] \in Nat \ {0}
      /\ \A k \in 1..30 : P[k] = 2 * P[k - 1]
      /\ v <= P[30]
  BY PowersOfTwo, SquaresOfPowers
<1> HIDE DEF P
<1>2. 30 \in T
  <2>1. v \div 2 < v /\ P[30] \in Nat
    BY <1>1
  <2>. QED
    BY <1>1, <2>1
<1>3. PICK k \in T : \A j \in T : k <= j
  <2>1. T \subseteq Nat
    OBVIOUS
  <2> HIDE DEF T
  <2>. QED
    BY <1>2, <2>1, LeastNumber
<1>4. k \in 0..30 /\ v \div 2 < P[k]
  BY <1>3
<1>5. P[k] <= v
  <2>1. CASE k = 0
    BY <1>1, <2>1
  <2>2. CASE k # 0
    <3>1. k - 1 \in 0..30 /\ k \in 1..30 /\ ~ (k <= k - 1)
      BY <1>4, <2>2
    <3>2. ~ (v \div 2 < P[k - 1])
      BY <1>3, <3>1
    <3>3. P[k - 1] \in Nat /\ P[k] = 2 * P[k - 1]
      BY <1>1, <3>1
    <3>. QED
      BY <3>2, <3>3
  <2>. QED
    BY <2>1, <2>2
<1> DEFINE m == Frame!Log2(v)
<1>6. m \in 0..30 /\ v \div 2 < P[m]
  BY <1>4, <1>5 DEF Frame!Log2, P
<1> HIDE DEF m
<1>7. v < 2 * P[m]
  BY <1>1, <1>6
<1>. QED
  BY <1>6, <1>7 DEF P, m

LEMMA NearbyIsNear ==
  ASSUME value \in Nat, value <= Frame!MaxAmplitude * Frame!MaxAmplitude,
         Frame!BeginsNearby, level = Frame!Unknown
  PROVE  Near(value, estimate, next, level)
<1>1. CASE value = 0
  <2>1. estimate = 0 /\ next = 0
    BY <1>1 DEF Frame!BeginsNearby
  <2>. QED
    BY <1>1, <2>1 DEF Near
<1>2. CASE value # 0
  <2> DEFINE P == Frame!PowerOfTwo
             k == Frame!Log2(value)
             j == (k + 1) \div 2
             e == estimate
  <2>1. k \in 0..30 /\ value < 2 * P[k]
    BY <1>2, LogarithmExists
  <2>2. e = P[j] /\ next = Frame!Improved(e, value)
    BY <1>2 DEF Frame!BeginsNearby
  <2>3. /\ \A i \in 0..30 : P[i] \in Nat \ {0}
        /\ \A i \in 1..30 : P[i] = 2 * P[i - 1]
        /\ \A i \in 0..15 : P[2 * i] = P[i] * P[i]
    BY PowersOfTwo, SquaresOfPowers
  <2> HIDE DEF P, k
  <2>4. j \in 0..15 /\ (k = 2 * j \/ (k + 1 = 2 * j /\ 2 * j \in 1..30 /\ 2 * j - 1 = k))
    BY <2>1
  <2> HIDE DEF j
  <2>5. e \in Nat \ {0} /\ P[2 * j] = e * e
    <3>1. j \in 0..30 /\ j \in 0..15
      BY <2>4
    <3>2. P[j] \in Nat \ {0} /\ P[2 * j] = P[j] * P[j]
      BY <2>3, <3>1
    <3>. QED
      BY <2>2, <3>2
  <2>6. value < 2 * (e * e)
    <3>1. CASE k = 2 * j
      BY <2>1, <2>5, <3>1
    <3>2. CASE k + 1 = 2 * j /\ 2 * j \in 1..30 /\ 2 * j - 1 = k
      <4>1. P[2 * j] = 2 * P[k]
        BY <2>3, <3>2
      <4>2. value < e * e /\ e * e \in Nat
        BY <2>1, <2>5, <4>1
      <4>. QED
        BY <4>2
    <3>. QED
      BY <2>4, <3>1, <3>2
  <2>7. value < 2 * (e + 1) * (e + 1)
    <3>1. 2 * (e + 1) * (e + 1) = 2 * (e * e) + 4 * e + 2 /\ e * e \in Nat
      BY <2>5
    <3>. QED
      BY <2>5, <2>6, <3>1
  <2>8. Frame!Improved(e, value) \in Nat
    BY <2>5, ImprovedStaysAbove
  <2>. QED
    BY <1>2, <2>2, <2>5, <2>7, <2>8 DEF Near
<1>. QED
  BY <1>1, <1>2

LEMMA ValueIsNear ==
  ASSUME value \in Nat, Frame!BeginsAtValue, level = Frame!Unknown
  PROVE  Near(value, estimate, next, level) /\ Above(value, estimate)
<1> DEFINE v == value
<1>1. estimate = v /\ next = IF v < 2 THEN v ELSE Frame!Improved(v, v)
  BY DEF Frame!BeginsAtValue
<1>2. v # 0 => Frame!Improved(v, v) \in Nat
  BY ImprovedStaysAbove
<1>3. v = 1 => Frame!Improved(v, v) = 1
  BY DEF Frame!Improved
<1>4. v < (v + 1) * (v + 1) /\ v < 2 * (v + 1) * (v + 1)
  <2>1. (v + 1) * (v + 1) = v * v + 2 * v + 1 /\ v * v \in Nat
    OBVIOUS
  <2>2. 2 * (v + 1) * (v + 1) = 2 * ((v + 1) * (v + 1))
    OBVIOUS
  <2>. QED
    BY <2>1, <2>2
<1>5. v = 0 \/ v = 1 \/ ~ (v < 2)
  OBVIOUS
<1>. QED
  BY <1>1, <1>2, <1>3, <1>4, <1>5 DEF Near, Above

-----------------------------------------------------------------------------
FrameInv ==
  /\ frame \in Seq(Int)
  /\ \A i \in 1..Len(frame) : Frame!Magnitude(frame[i]) <= Frame!MaxAmplitude
  /\ value = Frame!Mean(frame)
  /\ Near(value, estimate, next, level)
  /\ part = "live level" \/ Above(value, estimate)

LEMMA MeanIsNatural ==
  ASSUME NEW f \in Seq(Int),
         \A i \in 1..Len(f) : Frame!Magnitude(f[i]) <= Frame!MaxAmplitude
  PROVE  Frame!Mean(f) \in Nat /\ Frame!Mean(f) <= Frame!MaxAmplitude * Frame!MaxAmplitude
<1>1. \A i \in 1..Len(f) : f[i] \in Int
  BY ElementOfSeq
<1>2. \A i \in 1..Len(f) : 0 <= Frame!Magnitude(f[i])
  <2> SUFFICES ASSUME NEW i \in 1..Len(f) PROVE 0 <= Frame!Magnitude(f[i])
    OBVIOUS
  <2>1. Frame!Magnitude(f[i]) \in Nat
    BY <1>1, SquareOfMagnitude
  <2>. QED
    BY <2>1
<1>3. Frame!MaxAmplitude \in Nat
  BY DEF Frame!MaxAmplitude
<1>. QED
  BY <1>2, <1>3, MeanIsBounded

LEMMA FramesAreFrames ==
  ASSUME Frame!FrameInit
  PROVE  /\ frame \in Seq(Int)
         /\ \A i \in 1..Len(frame) : Frame!Magnitude(frame[i]) <= Frame!MaxAmplitude
         /\ value = Frame!Mean(frame) /\ level = Frame!Unknown
<1>1. Frame!MaxAmplitude \in Nat
  BY DEF Frame!MaxAmplitude
<1>2. Amplitudes \subseteq 0..Frame!MaxAmplitude /\ FrameSize \in Nat
  BY LevelAssumption DEF LevelAssumption, Frame!FrameAssumption
<1>3. \A x \in Frame!Samples : x \in Int /\ Frame!Magnitude(x) <= Frame!MaxAmplitude
  <2>1. ASSUME NEW a \in Amplitudes
        PROVE  /\ a \in Int /\ Frame!Magnitude(a) <= Frame!MaxAmplitude
               /\ -a \in Int /\ Frame!Magnitude(-a) <= Frame!MaxAmplitude
    BY <1>1, <1>2 DEF Frame!Magnitude
  <2>. QED
    BY <2>1 DEF Frame!Samples
<1>4. PICK n \in 0..FrameSize : frame \in [1..n -> Frame!Samples]
  BY DEF Frame!FrameInit
<1>5. n \in Nat
  BY <1>2
<1>6. frame \in [1..n -> Int]
  BY <1>3, <1>4
<1>7. frame \in Seq(Int)
  BY <1>5, <1>6, SeqDef
<1>8. Len(frame) = n
  BY <1>5, <1>6, <1>7, LenProperties
<1>. QED
  BY <1>3, <1>4, <1>7, <1>8 DEF Frame!FrameInit

LEMMA LevelWithin ==
  ASSUME FrameInv, level # Frame!Unknown, Above(value, estimate)
  PROVE  Frame!LevelWithinFrame
<1> DEFINE M == Frame!Magnitudes
           B == Frame!MaxAmplitude
<1>1. /\ level \in Nat /\ level * level <= value /\ value < (level + 1) * (level + 1)
  BY LevelFollows DEF FrameInv
<1>2. /\ frame \in Seq(Int) /\ Len(frame) \in Nat /\ DOMAIN frame = 1..Len(frame)
      /\ \A i \in 1..Len(frame) : frame[i] \in Int
  BY LenProperties, ElementOfSeq DEF FrameInv
<1>3. \A i \in 1..Len(frame) :
        Frame!Magnitude(frame[i]) \in M /\ Frame!Magnitude(frame[i]) \in Nat
  BY <1>2, SquareOfMagnitude DEF Frame!Magnitudes
<1>4. B \in Nat /\ M \subseteq 0..B
  <2>1. B \in Nat
    BY DEF Frame!MaxAmplitude
  <2>2. \A i \in 1..Len(frame) : Frame!Magnitude(frame[i]) <= B
    BY DEF FrameInv
  <2> HIDE DEF B
  <2>3. \A i \in 1..Len(frame) : Frame!Magnitude(frame[i]) \in 0..B
    BY <1>3, <2>1, <2>2
  <2>. QED
    BY <1>2, <2>1, <2>3 DEF Frame!Magnitudes
<1> HIDE DEF M, B
<1> DEFINE peak  == Frame!Peak
           least == IF frame = <<>> THEN 0 ELSE Frame!Min(M)
<1>5. peak \in Nat /\ \A m \in M : m <= peak
  <2> DEFINE S == {0} \cup M
  <2>1. S \subseteq 0..B /\ S # {}
    BY <1>4
  <2>2. \E x \in S : \A y \in S : y <= x
    <3> HIDE DEF S
    <3>. QED
      BY <1>4, <2>1, GreatestNumber
  <2>3. \E x \in S : \A y \in S : x >= y
    BY <2>2
  <2>4. peak = CHOOSE x \in S : \A y \in S : x >= y
    BY DEF Frame!Peak, Frame!Max, M
  <2>5. peak \in S /\ \A y \in S : peak >= y
    <3> HIDE DEF S, peak
    <3>. QED
      BY <2>3, <2>4
  <2>. QED
    BY <1>4, <2>1, <2>5
<1>6. least \in Nat /\ \A m \in M : least <= m
  <2>1. CASE frame = <<>>
    BY <1>4, <2>1
  <2>2. CASE frame # <<>>
    <3>1. 1 \in 1..Len(frame)
      BY <1>2, <2>2, EmptySeq
    <3>2. M \subseteq Nat /\ M # {}
      BY <1>3, <1>4, <3>1
    <3>3. \E x \in M : \A y \in M : x <= y
      BY <3>2, LeastNumber
    <3>4. least = CHOOSE x \in M : \A y \in M : x <= y
      BY <2>2 DEF Frame!Min
    <3>. QED
      BY <3>2, <3>3, <3>4
  <2>. QED
    BY <2>1, <2>2
<1> HIDE DEF peak, least
<1>7. value <= peak * peak /\ (frame # <<>> => least * least <= value)
  <2>1. \A i \in 1..Len(frame) :
          least <= Frame!Magnitude(frame[i]) /\ Frame!Magnitude(frame[i]) <= peak
    BY <1>3, <1>5, <1>6
  <2>2. value = Frame!Mean(frame)
    BY DEF FrameInv
  <2>. QED
    BY <1>2, <1>5, <1>6, <2>1, <2>2, MeanIsBounded
<1>8. value \in Nat
  BY DEF FrameInv, Near
<1>9. level <= peak
  <2> SUFFICES ASSUME ~ (level <= peak) PROVE FALSE
    OBVIOUS
  <2>1. peak + 1 \in Nat /\ peak + 1 <= level
    BY <1>1, <1>5
  <2>2. (peak + 1) * (peak + 1) <= level * level
    BY <1>1, <2>1, SquaresAreOrdered
  <2>3. (peak + 1) * (peak + 1) = peak * peak + 2 * peak + 1 /\ peak * peak \in Nat /\ level * level \in Nat
    BY <1>1, <1>5
  <2>. QED
    BY <1>1, <1>5, <1>7, <1>8, <2>2, <2>3
<1>10. ASSUME frame # <<>> PROVE Frame!Min(M) <= level
  <2>1. least = Frame!Min(M) /\ least * least <= value
    BY <1>7, <1>10 DEF least
  <2>2. least <= level
    <3> SUFFICES ASSUME ~ (least <= level) PROVE FALSE
      OBVIOUS
    <3>1. level + 1 \in Nat /\ level + 1 <= least
      BY <1>1, <1>6
    <3>2. (level + 1) * (level + 1) <= least * least
      BY <1>6, <3>1, SquaresAreOrdered
    <3>3. (level + 1) * (level + 1) \in Nat /\ least * least \in Nat
      BY <1>1, <1>6
    <3>. QED
      BY <1>1, <1>8, <2>1, <3>2, <3>3
  <2>. QED
    BY <2>1, <2>2
<1>. QED
  BY <1>9, <1>10 DEF Frame!LevelWithinFrame, peak, M

LEMMA FrameInvHolds ==
  ASSUME FrameInv, [Frame!LevelNext]_levelVars, part' = part
  PROVE  FrameInv'
<1>1. CASE UNCHANGED levelVars
  BY <1>1 DEF levelVars, FrameInv
<1>2. CASE Frame!LevelNext
  <2>1. frame' = frame /\ value' = value
    BY <1>2 DEF Frame!LevelNext, Frame!Iterate, Frame!Converged
  <2>2. /\ Near(value', estimate', next', level')
        /\ Above(value, estimate) => Above(value', estimate')
    BY <1>2, NearStays DEF FrameInv
  <2>. QED
    BY <2>1, <2>2 DEF FrameInv
<1>. QED
  BY <1>1, <1>2

\* Of frames of any length the level in a finished recording is the root of the mean
\* square, rounded down, and lies between the least and the greatest magnitude; that of a
\* live frame, of which neither is said, is at worst too low by the factor of the root of two.
THEOREM LevelStaysRight == FairSpec => []LevelIsRight
<1>1. Init => FrameInv
  <2> SUFFICES ASSUME Init PROVE FrameInv
    OBVIOUS
  <2>1. Frame!FrameInit /\ (Frame!BeginsAtValue \/ (part = "live level" /\ Frame!BeginsNearby))
    BY DEF Init, NoFrame
  <2>2. /\ frame \in Seq(Int)
        /\ \A i \in 1..Len(frame) : Frame!Magnitude(frame[i]) <= Frame!MaxAmplitude
        /\ value = Frame!Mean(frame) /\ level = Frame!Unknown
    BY <2>1, FramesAreFrames
  <2>3. value \in Nat /\ value <= Frame!MaxAmplitude * Frame!MaxAmplitude
    BY <2>2, MeanIsNatural
  <2>. QED
    BY <2>1, <2>2, <2>3, ValueIsNear, NearbyIsNear DEF FrameInv
<1>2. FrameInv /\ [Next]_<<part, vars, levelVars, vadVars, phaseVars, textVars>> => FrameInv'
  <2> SUFFICES ASSUME FrameInv, [Next]_<<part, vars, levelVars, vadVars, phaseVars, textVars>>
               PROVE  FrameInv'
    OBVIOUS
  <2>1. [Frame!LevelNext]_levelVars /\ part' = part
    BY DEF Next, levelVars
  <2>. QED
    BY <2>1, FrameInvHolds
<1>3. FrameInv => LevelIsRight
  <2> SUFFICES ASSUME FrameInv, level # Frame!Unknown PROVE LevelIsRight
    BY DEF LevelIsRight, Frame!LevelIsRoot, Frame!LevelWithinFrame, Frame!LiveLevelIsNear
  <2>1. /\ level * level <= value /\ value < 2 * (level + 1) * (level + 1)
        /\ Above(value, estimate) => value < (level + 1) * (level + 1)
    BY LevelFollows DEF FrameInv
  <2>2. part = "level" => Above(value, estimate)
    BY DEF FrameInv
  <2>3. part = "level" => Frame!LevelWithinFrame
    BY <2>2, LevelWithin
  <2>. QED
    BY <2>1, <2>2, <2>3
    DEF LevelIsRight, Frame!LevelIsRoot, Frame!LiveLevelIsNear
<1>. QED
  BY <1>1, <1>2, <1>3, PTL DEF FairSpec

-----------------------------------------------------------------------------
(***************************************************************************)
(* The cleanup of a text.  Its edits are spans that do not overlap; each   *)
(* says what it replaces, but one that removes a repeated word, and of all *)
(* tokens that say the same, the first is never removed.                   *)
(***************************************************************************)
HIDE CaptureAssumption DEF CaptureAssumption

Places(n) == [start : 0..n, end : 0..n, replacement : Seq(Cleanup!Characters),
              safe : BOOLEAN, priority : 0..5]

\* Edits of a text of n characters.
EditsOf(n, E) ==
  /\ IsFiniteSet(E) /\ E \subseteq Places(n)
  /\ \A e \in E : e.start < e.end

\* No two of them are of the same rule and place.
Distinct(E) ==
  \A a, b \in E : a.priority = b.priority /\ a.start = b.start /\ a.end = b.end => a = b

LEMMA PlaceFields ==
  ASSUME NEW n, NEW e \in Places(n)
  PROVE  /\ e.start \in 0..n /\ e.end \in 0..n /\ e.priority \in 0..5
         /\ e.replacement \in Seq(Cleanup!Characters) /\ e.safe \in BOOLEAN
BY DEF Places

\* One of finitely many edits comes after the others.
LEMMA LastEdit ==
  ASSUME NEW n \in Nat, NEW E, E \subseteq Places(n), E # {}
  PROVE  \E c \in E : \A d \in E : ~ Cleanup!Before(c, d)
<1> DEFINE P == {e.priority : e \in E}
<1>1. P \subseteq 0..5 /\ P # {}
  BY PlaceFields
<1>2. PICK p \in P : \A q \in P : q <= p
  <2> HIDE DEF P
  <2>1. 5 \in Nat
    OBVIOUS
  <2>. QED
    BY <1>1, <2>1, GreatestNumber
<1> DEFINE S == {e.start : e \in {x \in E : x.priority = p}}
<1>3. S \subseteq 0..n /\ S # {}
  BY PlaceFields
<1>4. PICK s \in S : \A q \in S : q <= s
  <2> HIDE DEF S
  <2>. QED
    BY <1>3, GreatestNumber
<1> DEFINE L == {e.end : e \in {x \in E : x.priority = p /\ x.start = s}}
<1>5. L \subseteq 0..n /\ L # {}
  BY PlaceFields
<1>6. PICK l \in L : \A q \in L : q <= l
  <2> HIDE DEF L
  <2>. QED
    BY <1>5, GreatestNumber
<1>7. PICK c \in E : c.priority = p /\ c.start = s /\ c.end = l
  BY <1>6
<1>8. ASSUME NEW d \in E
      PROVE  ~ Cleanup!Before(c, d)
  <2>1. /\ d.priority \in 0..5 /\ d.start \in 0..n /\ d.end \in 0..n
        /\ p \in 0..5 /\ s \in 0..n /\ l \in 0..n
    BY <1>7, PlaceFields
  <2>2. d.priority <= p
    BY <1>2
  <2>3. d.priority = p => d.start <= s
    BY <1>4
  <2>4. d.priority = p /\ d.start = s => d.end <= l
    BY <1>6
  <2>. QED
    BY <1>7, <2>1, <2>2, <2>3, <2>4 DEF Cleanup!Before
<1>. QED
  BY <1>8

\* What is selected of some edits.
Selects(E, kept) ==
  \A c \in E : c \in kept <=> ~ \E k \in kept : Cleanup!Before(k, c) /\ Cleanup!Overlaps(k, c)

HasSelection(E) == \E kept \in SUBSET E : Selects(E, kept)

LEMMA SelectionExists ==
  ASSUME NEW n \in Nat, NEW E, E \subseteq Places(n), IsFiniteSet(E)
  PROVE  HasSelection(E)
<1> DEFINE T == {m \in 0..Cardinality(E) : \A F \in SUBSET E : Cardinality(F) = m => HasSelection(F)}
<1>0. Cardinality(E) \in Nat
  BY FS_CardinalityType
<1>1. 0 \in T
  <2>1. HasSelection({})
    BY DEF HasSelection, Selects
  <2>2. \A F \in SUBSET E : Cardinality(F) = 0 => F = {}
    BY FS_Subset, FS_EmptySet
  <2>. QED
    BY <1>0, <2>1, <2>2
<1>2. ASSUME NEW m \in 1..Cardinality(E), m - 1 \in T
      PROVE  m \in T
  <2> SUFFICES ASSUME NEW F \in SUBSET E, Cardinality(F) = m
               PROVE  HasSelection(F)
    BY <1>0
  <2>1. IsFiniteSet(F) /\ F # {} /\ F \subseteq Places(n)
    BY <1>0, FS_Subset, FS_EmptySet
  <2>2. PICK c \in F : \A d \in F : ~ Cleanup!Before(c, d)
    BY <2>1, LastEdit
  <2> DEFINE G == F \ {c}
  <2>3. G \in SUBSET E /\ Cardinality(G) = m - 1
    BY <2>1, <2>2, FS_RemoveElement
  <2>4. PICK kept \in SUBSET G : Selects(G, kept)
    BY <1>2, <2>3 DEF HasSelection
  <2> DEFINE new == IF \E k \in kept : Cleanup!Before(k, c) /\ Cleanup!Overlaps(k, c)
                    THEN kept ELSE kept \cup {c}
  <2>5. new \in SUBSET F
    BY <2>2, <2>4
  <2>6. ASSUME NEW d \in F
        PROVE  d \in new <=> ~ \E k \in new : Cleanup!Before(k, d) /\ Cleanup!Overlaps(k, d)
    <3>1. ~ Cleanup!Before(c, d)
      BY <2>2
    <3>2. (\E k \in new : Cleanup!Before(k, d) /\ Cleanup!Overlaps(k, d))
            <=> \E k \in kept : Cleanup!Before(k, d) /\ Cleanup!Overlaps(k, d)
      BY <3>1
    <3>3. CASE d = c
      <4>1. c \notin kept
        BY <2>4
      <4>. QED
        BY <3>2, <3>3, <4>1
    <3>4. CASE d # c
      <4>1. d \in G /\ (d \in new <=> d \in kept)
        BY <3>4
      <4>. QED
        BY <2>4, <3>2, <4>1 DEF Selects
    <3>. QED
      BY <3>3, <3>4
  <2>7. Selects(F, new)
    <3> HIDE DEF new
    <3>. QED
      BY <2>6 DEF Selects
  <2>. QED
    BY <2>5, <2>7 DEF HasSelection
<1>3. Cardinality(E) \in T
  <2> HIDE DEF T
  <2>. QED
    BY <1>0, <1>1, <1>2, NumberInduction
<1>. QED
  BY <1>3

\* What is selected does not overlap.
LEMMA SelectedAreApart ==
  ASSUME NEW n \in Nat, NEW E, EditsOf(n, E), Distinct(E)
  PROVE  /\ Cleanup!Selected(E) \in SUBSET E
         /\ \A a, b \in Cleanup!Selected(E) : a # b => ~ Cleanup!Overlaps(a, b)
<1> DEFINE kept == Cleanup!Selected(E)
<1>1. kept \in SUBSET E /\ Selects(E, kept)
  <2>1. \E k \in SUBSET E : Selects(E, k)
    BY SelectionExists DEF EditsOf, HasSelection
  <2>2. kept = CHOOSE k \in SUBSET E : Selects(E, k)
    BY DEF Cleanup!Selected, Selects
  <2> HIDE DEF kept
  <2>. QED
    BY <2>1, <2>2
<1> HIDE DEF kept
<1>2. ASSUME NEW a \in kept, NEW b \in kept, a # b, Cleanup!Overlaps(a, b)
      PROVE  FALSE
  <2>1. a \in E /\ b \in E /\ a \in Places(n) /\ b \in Places(n)
    BY <1>1 DEF EditsOf
  <2>2. Cleanup!Overlaps(b, a)
    BY <1>2 DEF Cleanup!Overlaps
  <2>3. ~ Cleanup!Before(a, b) /\ ~ Cleanup!Before(b, a)
    BY <1>1, <1>2, <2>1, <2>2 DEF Selects
  <2>4. a.priority = b.priority /\ a.start = b.start /\ a.end = b.end
    <3>1. /\ a.priority \in 0..5 /\ a.start \in 0..n /\ a.end \in 0..n
          /\ b.priority \in 0..5 /\ b.start \in 0..n /\ b.end \in 0..n
      BY <2>1, PlaceFields
    <3>. QED
      BY <2>3, <3>1 DEF Cleanup!Before
  <2>. QED
    BY <1>2, <2>1, <2>4 DEF Distinct
<1>. QED
  BY <1>1, <1>2 DEF kept

\* The edits of E that begin before e.
Earlier(E, e) == {f \in E : f.start < e.start}

\* Edits that do not overlap, one after the other.
OneByOne(s, E) ==
  /\ s \in Seq(E) /\ Len(s) = Cardinality(E)
  /\ \A e \in E : \E i \in 1..Len(s) : s[i] = e
  /\ \A i, j \in 1..Len(s) : i < j => s[i].end <= s[j].start

LEMMA CountsAgree == \A F : Cleanup!Cardinality(F) = Cardinality(F)
BY DEF Cleanup!Cardinality, Cardinality

LEMMA EditsAreOrdered ==
  ASSUME NEW n \in Nat, NEW E, EditsOf(n, E), \A a, b \in E : a # b => ~ Cleanup!Overlaps(a, b)
  PROVE  OneByOne(Cleanup!InOrder(E), E)
<1> DEFINE m    == Cardinality(E)
           s    == Cleanup!InOrder(E)
           rank == [e \in E |-> Cardinality(Earlier(E, e)) + 1]
<1>1. m \in Nat
  BY FS_CardinalityType DEF EditsOf
<1>2. \A e \in E : e.start \in 0..n /\ e.end \in 0..n /\ e.start < e.end
  BY PlaceFields DEF EditsOf
<1>3. ASSUME NEW a \in E, NEW b \in E, a.start < b.start
      PROVE  rank[a] < rank[b] /\ a.end <= b.start
  <2>1. a.end <= b.start
    BY <1>2, <1>3 DEF Cleanup!Overlaps
  <2>2. Earlier(E, a) \cup {a} \subseteq Earlier(E, b) /\ a \notin Earlier(E, a)
    BY <1>2, <1>3 DEF Earlier
  <2>3. IsFiniteSet(Earlier(E, b)) /\ IsFiniteSet(Earlier(E, a))
    BY FS_Subset DEF EditsOf, Earlier
  <2>4. Cardinality(Earlier(E, a) \cup {a}) = Cardinality(Earlier(E, a)) + 1
    BY <2>2, <2>3, FS_AddElement
  <2>5. Cardinality(Earlier(E, a)) + 1 <= Cardinality(Earlier(E, b))
    BY <2>2, <2>3, <2>4, FS_Subset
  <2>6. Cardinality(Earlier(E, a)) \in Nat /\ Cardinality(Earlier(E, b)) \in Nat
    BY <2>3, FS_CardinalityType
  <2>. QED
    BY <2>1, <2>5, <2>6
<1>4. ASSUME NEW a \in E, NEW b \in E, a # b
      PROVE  a.start < b.start \/ b.start < a.start
  BY <1>2, <1>4 DEF Cleanup!Overlaps
<1>5. rank \in [E -> 1..m]
  <2> SUFFICES ASSUME NEW e \in E PROVE Cardinality(Earlier(E, e)) + 1 \in 1..m
    OBVIOUS
  <2>1. Earlier(E, e) \subseteq E \ {e}
    BY <1>2 DEF Earlier
  <2>2. IsFiniteSet(E \ {e}) /\ Cardinality(E \ {e}) = m - 1
    BY FS_RemoveElement DEF EditsOf
  <2>3. Cardinality(Earlier(E, e)) <= m - 1 /\ Cardinality(Earlier(E, e)) \in Nat
    BY <2>1, <2>2, FS_Subset, FS_CardinalityType
  <2>. QED
    BY <1>1, <2>3
<1>6. \A a, b \in E : a # b => rank[a] # rank[b]
  <2> SUFFICES ASSUME NEW a \in E, NEW b \in E, a # b PROVE rank[a] # rank[b]
    OBVIOUS
  <2>1. rank[a] \in Nat /\ rank[b] \in Nat
    BY <1>1, <1>5
  <2>2. rank[a] < rank[b] \/ rank[b] < rank[a]
    <3> HIDE DEF rank
    <3>. QED
      BY <1>3, <1>4
  <2>. QED
    BY <2>1, <2>2
<1>7. \A i \in 1..m : \E e \in E : rank[e] = i
  <2> HIDE DEF rank
  <2>1. rank \in Injection(E, 1..m)
    BY <1>5, <1>6 DEF Injection, IsInjective
  <2>2. IsFiniteSet(1..m) /\ Cardinality(1..m) = m
    BY <1>1, FS_Interval
  <2>3. rank \in Surjection(E, 1..m)
    BY <2>1, <2>2, FS_Injection
  <2>. QED
    BY <2>3 DEF Surjection
<1>8. ASSUME NEW i \in 1..m
      PROVE  s[i] \in E /\ rank[s[i]] = i
  <2> DEFINE Fits(e) == Cardinality({f \in E : f.start < e.start}) = i - 1
  <2>1. \A e \in E : Fits(e) <=> rank[e] = i
    <3> SUFFICES ASSUME NEW e \in E PROVE Fits(e) <=> rank[e] = i
      OBVIOUS
    <3>1. IsFiniteSet(Earlier(E, e))
      BY FS_Subset DEF EditsOf, Earlier
    <3>2. Cardinality(Earlier(E, e)) \in Nat
      BY <3>1, FS_CardinalityType
    <3>3. rank[e] = Cardinality(Earlier(E, e)) + 1
      OBVIOUS
    <3>. QED
      BY <3>2, <3>3 DEF Earlier
  <2>2. s[i] = CHOOSE e \in E : Fits(e)
    BY CountsAgree DEF Cleanup!InOrder
  <2>3. \E e \in E : Fits(e)
    BY <1>7, <2>1
  <2> DEFINE c == CHOOSE e \in E : Fits(e)
  <2>4. c \in E /\ Fits(c)
    <3> HIDE DEF Fits
    <3>. QED
      BY <2>3
  <2>5. s[i] = c
    BY <2>2
  <2>6. rank[c] = i
    <3> HIDE DEF Fits, rank, c
    <3>. QED
      BY <2>1, <2>4, Zenon
  <2> HIDE DEF rank, s, c
  <2>. QED
    BY <2>4, <2>5, <2>6
<1>9. s \in Seq(E) /\ Len(s) = m
  <2> DEFINE Nth(i) == CHOOSE e \in E : Cleanup!Cardinality({f \in E : f.start < e.start}) = i - 1
  <2>0. s = [i \in 1..m |-> Nth(i)]
    BY CountsAgree DEF Cleanup!InOrder
  <2>1. s = [i \in 1..m |-> s[i]]
    <3> HIDE DEF Nth, s, m
    <3>. QED
      BY <2>0
  <2>2. s \in [1..m -> E]
    <3> HIDE DEF s
    <3>. QED
      BY <1>8, <2>1
  <2> HIDE DEF s
  <2>. QED
    BY <1>1, <2>2
<1>10. ASSUME NEW e \in E
       PROVE  \E i \in 1..Len(s) : s[i] = e
  <2> DEFINE i == rank[e]
  <2>1. i \in 1..m
    BY <1>5
  <2>2. s[i] \in E /\ rank[s[i]] = i
    BY <1>8, <2>1
  <2> HIDE DEF rank, s
  <2>3. s[i] = e
    BY <1>6, <2>2
  <2>. QED
    BY <1>9, <2>1, <2>3
<1>11. ASSUME NEW i \in 1..Len(s), NEW j \in 1..Len(s), i < j
       PROVE  s[i].end <= s[j].start
  <2>1. s[i] \in E /\ s[j] \in E /\ rank[s[i]] = i /\ rank[s[j]] = j /\ i \in 1..m /\ j \in 1..m
    BY <1>8, <1>9
  <2> HIDE DEF rank, s
  <2>2. s[i] # s[j] /\ ~ (s[j].start < s[i].start)
    BY <1>3, <1>11, <2>1
  <2>. QED
    BY <1>3, <1>4, <2>1, <2>2
<1>. QED
  BY <1>9, <1>10, <1>11 DEF OneByOne

-----------------------------------------------------------------------------
\* The letters are told from everything that the rules for blanks and punctuation touch.
LEMMA Characters ==
  /\ Cleanup!Characters \cap {"nl"} # {} /\ "nl" \notin Cleanup!Horizontal \cup Cleanup!Punctuation
  /\ "nl" \notin Cleanup!Letters
  /\ Cleanup!Letters \cap (Cleanup!Blank \cup Cleanup!Punctuation) = {}
  /\ Cleanup!Horizontal \subseteq Cleanup!Blank
  /\ Cleanup!Collapsible \subseteq Cleanup!Punctuation \cap Cleanup!Characters
  /\ Cleanup!Lower \subseteq Cleanup!Letters /\ Cleanup!Upper \subseteq Cleanup!Letters
  /\ Cleanup!Letters \subseteq Cleanup!Characters
  /\ Cleanup!Lower \cap Cleanup!Upper = {}
  /\ \A c \in Cleanup!Lower : Cleanup!Capital[c] \in Cleanup!Upper
  /\ " " \in Cleanup!Characters /\ " " \notin Cleanup!Letters
BY DEF Cleanup!Characters, Cleanup!Horizontal, Cleanup!Blank, Cleanup!Lower, Cleanup!Upper,
       Cleanup!Letters, Cleanup!Terminators, Cleanup!Collapsible, Cleanup!Punctuation,
       Cleanup!Opening, Cleanup!Capital

Text(t) == t \in Seq(Cleanup!Characters)

LEMMA TextMeans ==
  ASSUME NEW t, Text(t)
  PROVE  Len(t) \in Nat /\ \A i \in 1..Len(t) : t[i] \in Cleanup!Characters
BY LenProperties, ElementOfSeq DEF Text

\* The characters of t from i + 1 to j.
LEMMA Cutout ==
  ASSUME NEW t, Text(t), NEW i \in 0..Len(t), NEW j \in i..Len(t)
  PROVE  /\ Text(SubSeq(t, i + 1, j)) /\ Len(SubSeq(t, i + 1, j)) = j - i
         /\ \A k \in i + 1..j : k - i \in 1..j - i /\ SubSeq(t, i + 1, j)[k - i] = t[k]
         /\ \A k \in 1..j - i : SubSeq(t, i + 1, j)[k] = t[i + k]
<1> DEFINE u == SubSeq(t, i + 1, j)
<1>1. Len(t) \in Nat /\ i \in Nat /\ j \in Nat
  BY TextMeans
<1>2. \A k \in i + 1..j : t[k] \in Cleanup!Characters
  BY <1>1, TextMeans
<1>3. i + 1 \in Int /\ j \in Int
  BY <1>1
<1>4. /\ u \in Seq(Cleanup!Characters)
      /\ Len(u) = IF i + 1 <= j THEN j - (i + 1) + 1 ELSE 0
      /\ \A k \in 1..j - (i + 1) + 1 : u[k] = t[(i + 1) + k - 1]
  <2> HIDE DEF u
  <2> SUFFICES u = SubSeq(t, i + 1, j) => <1>4!1 /\ <1>4!2 /\ <1>4!3
    BY DEF u
  <2>. QED
    BY <1>2, <1>3, SubSeqProperties
<1> HIDE DEF u
<1>5. Len(u) = j - i
  BY <1>1, <1>4
<1>6. \A k \in 1..j - i : u[k] = t[i + k]
  <2> SUFFICES ASSUME NEW k \in 1..j - i PROVE u[k] = t[i + k]
    OBVIOUS
  <2>1. k \in 1..j - (i + 1) + 1 /\ (i + 1) + k - 1 = i + k
    BY <1>1
  <2>. QED
    BY <1>4, <2>1
<1>7. \A k \in i + 1..j : k - i \in 1..j - i /\ i + (k - i) = k
  BY <1>1
<1>8. \A k \in i + 1..j : u[k - i] = t[k]
  BY <1>6, <1>7
<1>. QED
  BY <1>4, <1>5, <1>6, <1>7, <1>8 DEF Text, u

\* Part of a text.
Part(n, s) == s.start \in 0..n /\ s.end \in 0..n /\ s.start < s.end

LEMMA RunMeans ==
  ASSUME NEW t, NEW chars, NEW r \in Cleanup!Runs(t, chars)
  PROVE  /\ Part(Len(t), r) /\ r = [start |-> r.start, end |-> r.end]
         /\ \A i \in r.start + 1..r.end : t[i] \in chars
         /\ r.start = 0 \/ t[r.start] \notin chars
         /\ r.end = Len(t) \/ t[r.end + 1] \notin chars
BY DEF Cleanup!Runs, Part

Token(t, a) ==
  /\ Part(Len(t), a)
  /\ \A i \in a.start + 1..a.end : t[i] \notin Cleanup!Blank
  /\ a.start = 0 \/ t[a.start] \in Cleanup!Blank
  /\ a.end = Len(t) \/ t[a.end + 1] \in Cleanup!Blank

LEMMA TokenMeans ==
  ASSUME NEW t, Text(t), NEW a \in Cleanup!TokenSpans(t)
  PROVE  Token(t, a)
<1>1. a \in Cleanup!Runs(t, Cleanup!Characters \ Cleanup!Blank)
  BY DEF Cleanup!TokenSpans
<1>2. Len(t) \in Nat /\ \A i \in 1..Len(t) : t[i] \in Cleanup!Characters
  BY TextMeans
<1>3. Part(Len(t), a) /\ a.start \in Int /\ a.end \in Int
  BY <1>1, RunMeans DEF Part
<1>4. a.start # 0 => a.start \in 1..Len(t)
  BY <1>2, <1>3 DEF Part
<1>5. a.end # Len(t) => a.end + 1 \in 1..Len(t)
  BY <1>2, <1>3 DEF Part
<1>. QED
  BY <1>1, <1>2, <1>3, <1>4, <1>5, RunMeans DEF Token

\* The word of a token has all of its letters.
LEMMA WordMeans ==
  ASSUME NEW t, Text(t), NEW a \in Cleanup!TokenSpans(t), Cleanup!HasWord(t, a)
  PROVE  LET w == Cleanup!Word(t, a)
         IN /\ a.start <= w.start /\ w.start < w.end /\ w.end <= a.end
            /\ w.start \in 0..Len(t) /\ w.end \in 0..Len(t)
            /\ \A i \in a.start + 1..a.end : t[i] \in Cleanup!Letters => w.start < i /\ i <= w.end
<1> DEFINE inner == {i \in a.start + 1..a.end : t[i] \notin Cleanup!Punctuation}
           n     == Len(t)
<1>1. n \in Nat /\ a.start \in 0..n /\ a.end \in 0..n /\ a.start < a.end
  BY TokenMeans, TextMeans DEF Token, Part
<1>2. \A i \in a.start + 1..a.end : t[i] \in Cleanup!Letters => i \in inner
  BY Characters
<1>3. inner # {}
  BY <1>2 DEF Cleanup!HasWord
<1>4. inner \subseteq 0..n /\ inner \subseteq Nat /\ inner \subseteq a.start + 1..a.end
  BY <1>1
<1>5. Cleanup!Word(t, a) = [start |-> Cleanup!Min(inner) - 1, end |-> Cleanup!Max(inner)]
  BY DEF Cleanup!Word
<1> HIDE DEF inner
<1>6. Cleanup!Min(inner) \in inner /\ \A i \in inner : Cleanup!Min(inner) <= i
  <2>1. \E m \in inner : \A i \in inner : m <= i
    BY <1>3, <1>4, LeastNumber
  <2>. QED
    BY <2>1 DEF Cleanup!Min
<1>7. Cleanup!Max(inner) \in inner /\ \A i \in inner : i <= Cleanup!Max(inner)
  <2>1. \E m \in inner : \A i \in inner : i <= m
    BY <1>1, <1>3, <1>4, GreatestNumber
  <2>2. \E m \in inner : \A i \in inner : m >= i
    BY <1>4, <2>1
  <2>3. Cleanup!Max(inner) \in inner /\ \A i \in inner : Cleanup!Max(inner) >= i
    BY <2>2 DEF Cleanup!Max
  <2>. QED
    BY <1>4, <2>3
<1> DEFINE l == Cleanup!Min(inner)
           m == Cleanup!Max(inner)
<1>8. l \in a.start + 1..a.end /\ m \in a.start + 1..a.end /\ l <= m
  BY <1>4, <1>6, <1>7
<1>9. \A i \in a.start + 1..a.end : t[i] \in Cleanup!Letters => l <= i /\ i <= m
  BY <1>2, <1>6, <1>7
<1> HIDE DEF l, m
<1>10. \A i \in a.start + 1..a.end : l <= i => l - 1 < i
  BY <1>1, <1>8
<1>11. a.start <= l - 1 /\ l - 1 < m /\ m <= a.end /\ l - 1 \in 0..n /\ m \in 0..n
  BY <1>1, <1>8
<1>12. Cleanup!Word(t, a).start = l - 1 /\ Cleanup!Word(t, a).end = m
  BY <1>5 DEF l, m
<1>. QED
  BY <1>9, <1>10, <1>11, <1>12

\* b repeats a: nothing but blanks between them, and the same word, which e removes.
Repeats(t, e, a, b) ==
  /\ a \in Cleanup!TokenSpans(t) /\ b \in Cleanup!TokenSpans(t)
  /\ Cleanup!HasWord(t, a) /\ Cleanup!HasWord(t, b)
  /\ Cleanup!IgnoreCase(Cleanup!Within(t, Cleanup!Word(t, a)))
       = Cleanup!IgnoreCase(Cleanup!Within(t, Cleanup!Word(t, b)))
  /\ e.start = a.end /\ a.end < b.start /\ e.end = Cleanup!Word(t, b).end
  /\ \A i \in a.end + 1..b.start : t[i] \in Cleanup!Horizontal

\* What takes the place of the text from character s + 1 on.
Instead(t, p, s) ==
  IF p = 3 THEN <<t[s + 1]>>
  ELSE IF p = 4 THEN <<" ">>
  ELSE IF p = 5 THEN <<Cleanup!Capital[t[s + 1]]>>
  ELSE <<>>

IsSafe(p) == p \in {0, 2}

\* An edit is what its rule makes of its place.
Shaped(t, e, s, l, p) ==
  e = [start |-> s, end |-> l, replacement |-> Instead(t, p, s), safe |-> IsSafe(p), priority |-> p]

\* What a rule looked for at the place of e.
Founded(t, e) ==
  /\ e.priority \in {0, 2, 4} => \A i \in e.start + 1..e.end : t[i] \in Cleanup!Horizontal
  /\ e.priority = 1 => \E a, b \in Cleanup!TokenSpans(t) : Repeats(t, e, a, b)
  /\ e.priority = 3 => /\ t[e.start + 1] \in Cleanup!Collapsible
                       /\ \A i \in e.start + 1..e.end : t[i] = t[e.start + 1]
  /\ e.priority = 5 => e.end = e.start + 1 /\ t[e.end] \in Cleanup!Lower

\* What is known of an edit that is suggested.
Known(t, e) ==
  /\ Part(Len(t), e) /\ e.priority \in 0..5
  /\ Shaped(t, e, e.start, e.end, e.priority) /\ Founded(t, e)

LEMMA EditIsShaped ==
  ASSUME NEW t, NEW r, NEW p, NEW with, NEW safe, Instead(t, p, r.start) = with, IsSafe(p) = safe
  PROVE  Shaped(t, Cleanup!Edit(r, with, safe, p), r.start, r.end, p)
BY DEF Shaped, Cleanup!Edit

LEMMA WhichAreSafe ==
  /\ IsSafe(0) = TRUE /\ IsSafe(1) = FALSE /\ IsSafe(2) = TRUE
  /\ IsSafe(3) = FALSE /\ IsSafe(4) = FALSE /\ IsSafe(5) = FALSE
BY DEF IsSafe

LEMMA ShapeIsKnown ==
  ASSUME NEW t, NEW e, NEW s \in 0..Len(t), NEW l \in 0..Len(t), s < l, NEW p \in 0..5,
         Shaped(t, e, s, l, p), Founded(t, e)
  PROVE  Known(t, e)
<1>1. e.start = s /\ e.end = l /\ e.priority = p
  BY DEF Shaped
<1>2. Part(Len(t), e) /\ e.priority \in 0..5
  BY <1>1 DEF Part
<1>3. Shaped(t, e, e.start, e.end, e.priority)
  BY <1>1
<1>. QED
  BY <1>2, <1>3 DEF Known

\* An edit of a run of blanks.
LEMMA BlanksAreKnown ==
  ASSUME NEW t, Text(t), NEW r \in Cleanup!Runs(t, Cleanup!Horizontal), NEW p \in {0, 2, 4},
         NEW e, Shaped(t, e, r.start, r.end, p)
  PROVE  Known(t, e)
<1>1. Part(Len(t), r) /\ \A i \in r.start + 1..r.end : t[i] \in Cleanup!Horizontal
  BY RunMeans
<1>2. e.start = r.start /\ e.end = r.end /\ e.priority = p
  BY DEF Shaped
<1>3. Founded(t, e)
  BY <1>1, <1>2 DEF Founded
<1>. QED
  BY <1>1, <1>3, ShapeIsKnown DEF Part

LEMMA RepeatsAreKnown ==
  ASSUME NEW t, Text(t), NEW e \in Cleanup!RepeatedWords(t)
  PROVE  Known(t, e)
<1>1. PICK pair \in Cleanup!Adjacent(t) :
        /\ Cleanup!HasWord(t, pair[1]) /\ Cleanup!HasWord(t, pair[2])
        /\ Cleanup!IgnoreCase(Cleanup!Within(t, Cleanup!Word(t, pair[1])))
             = Cleanup!IgnoreCase(Cleanup!Within(t, Cleanup!Word(t, pair[2])))
        /\ ~ Cleanup!Contains(SubSeq(t, pair[1].end + 1, pair[2].start), "nl")
        /\ e = Cleanup!Edit([start |-> pair[1].end, end |-> Cleanup!Word(t, pair[2]).end],
                            <<>>, FALSE, 1)
  BY DEF Cleanup!RepeatedWords
<1> DEFINE a == pair[1]
           b == pair[2]
           w == Cleanup!Word(t, b)
           n == Len(t)
<1>2. /\ a \in Cleanup!TokenSpans(t) /\ b \in Cleanup!TokenSpans(t)
      /\ a.end < b.start /\ \A i \in a.end + 1..b.start : t[i] \in Cleanup!Blank
  BY DEF Cleanup!Adjacent
<1>3. n \in Nat /\ Part(n, a) /\ Part(n, b)
  BY <1>2, TextMeans, TokenMeans DEF Token
<1>4. b.start <= w.start /\ w.start < w.end /\ w.start \in 0..n /\ w.end \in 0..n
  BY <1>1, <1>2, WordMeans
<1>5. e = [start |-> a.end, end |-> w.end, replacement |-> <<>>, safe |-> FALSE, priority |-> 1]
  BY <1>1 DEF Cleanup!Edit
<1>6. ASSUME NEW i \in a.end + 1..b.start
      PROVE  t[i] \in Cleanup!Horizontal
  <2> DEFINE between == SubSeq(t, a.end + 1, b.start)
             k       == i - a.end
  <2>1. a.end \in 0..n /\ b.start \in a.end..n
    BY <1>2, <1>3 DEF Part
  <2> HIDE DEF a, b
  <2>2. k \in 1..b.start - a.end /\ between[k] = t[i] /\ Len(between) = b.start - a.end
    BY <2>1, Cutout
  <2>3. ~ Cleanup!Contains(between, "nl")
    BY <1>1 DEF a, b
  <2>4. between[k] # "nl"
    BY <2>2, <2>3 DEF Cleanup!Contains
  <2>. QED
    BY <1>2, <2>2, <2>4 DEF Cleanup!Blank
<1>7. /\ Cleanup!HasWord(t, a) /\ Cleanup!HasWord(t, b)
      /\ Cleanup!IgnoreCase(Cleanup!Within(t, Cleanup!Word(t, a)))
           = Cleanup!IgnoreCase(Cleanup!Within(t, w))
  BY <1>1
<1>8. Part(n, [start |-> a.end, end |-> w.end])
  BY <1>2, <1>3, <1>4 DEF Part
<1> HIDE DEF a, b, w
<1>9. e.start = a.end /\ e.end = w.end /\ e.priority = 1
  BY <1>5
<1>10. Repeats(t, e, a, b)
  BY <1>2, <1>6, <1>7, <1>9 DEF Repeats, w
<1>11. Founded(t, e)
  BY <1>2, <1>9, <1>10 DEF Founded
<1>12. Shaped(t, e, a.end, w.end, 1)
  <2>1. Instead(t, 1, a.end) = <<>>
    BY DEF Instead
  <2>. QED
    BY <1>5, <2>1, WhichAreSafe DEF Shaped
<1>13. a.end \in 0..n /\ w.end \in 0..n /\ a.end < w.end
  BY <1>8 DEF Part
<1>. QED
  BY <1>11, <1>12, <1>13, ShapeIsKnown

LEMMA CandidatesAreKnown ==
  ASSUME NEW t, Text(t), NEW e \in Cleanup!Candidates(t)
  PROVE  Known(t, e)
<1>1. CASE e \in Cleanup!OuterWhitespace(t)
  <2>1. PICK r \in Cleanup!Runs(t, Cleanup!Horizontal) : e = Cleanup!Edit(r, <<>>, TRUE, 0)
    BY <1>1 DEF Cleanup!OuterWhitespace
  <2>2. Shaped(t, e, r.start, r.end, 0)
    <3>1. Instead(t, 0, r.start) = <<>>
      BY DEF Instead
    <3>. QED
      BY <2>1, <3>1, WhichAreSafe, EditIsShaped
  <2>. QED
    BY <2>2, BlanksAreKnown
<1>2. CASE e \in Cleanup!RepeatedWords(t)
  BY <1>2, RepeatsAreKnown
<1>3. CASE e \in Cleanup!PunctuationSpacing(t)
  <2>1. PICK r \in Cleanup!Runs(t, Cleanup!Horizontal) : e = Cleanup!Edit(r, <<>>, TRUE, 2)
    BY <1>3 DEF Cleanup!PunctuationSpacing
  <2>2. Shaped(t, e, r.start, r.end, 2)
    <3>1. Instead(t, 2, r.start) = <<>>
      BY DEF Instead
    <3>. QED
      BY <2>1, <3>1, WhichAreSafe, EditIsShaped
  <2>. QED
    BY <2>2, BlanksAreKnown
<1>4. CASE e \in Cleanup!RepeatedWhitespace(t)
  <2>1. PICK r \in Cleanup!Runs(t, Cleanup!Horizontal) : e = Cleanup!Edit(r, <<" ">>, FALSE, 4)
    BY <1>4 DEF Cleanup!RepeatedWhitespace
  <2>2. Shaped(t, e, r.start, r.end, 4)
    <3>1. Instead(t, 4, r.start) = <<" ">>
      BY DEF Instead
    <3>. QED
      BY <2>1, <3>1, WhichAreSafe, EditIsShaped
  <2>. QED
    BY <2>2, BlanksAreKnown
<1>5. CASE e \in Cleanup!RepeatedPunctuation(t)
  <2>0. PICK c \in Cleanup!Collapsible :
          \E r \in Cleanup!Runs(t, {c}) : e = Cleanup!Edit(r, <<c>>, FALSE, 3)
    BY <1>5 DEF Cleanup!RepeatedPunctuation
  <2>1. PICK r \in Cleanup!Runs(t, {c}) : e = Cleanup!Edit(r, <<c>>, FALSE, 3)
    BY <2>0
  <2>2. Part(Len(t), r) /\ \A i \in r.start + 1..r.end : t[i] = c
    BY <2>1, RunMeans
  <2>3. t[r.start + 1] = c
    BY <2>2, TextMeans DEF Part
  <2>4. Shaped(t, e, r.start, r.end, 3)
    <3>1. Instead(t, 3, r.start) = <<c>>
      BY <2>3 DEF Instead
    <3>. QED
      BY <2>1, <3>1, WhichAreSafe, EditIsShaped
  <2>5. e.start = r.start /\ e.end = r.end /\ e.priority = 3
    BY <2>4 DEF Shaped
  <2>6. Founded(t, e)
    BY <2>2, <2>3, <2>5 DEF Founded
  <2>. QED
    BY <2>2, <2>4, <2>6, ShapeIsKnown DEF Part
<1>6. CASE e \in Cleanup!SentenceCase(t)
  <2>1. PICK i \in 1..Len(t) :
          /\ t[i] \in Cleanup!Lower
          /\ e = Cleanup!Edit([start |-> i - 1, end |-> i], <<Cleanup!Capital[t[i]]>>, FALSE, 5)
    BY <1>6 DEF Cleanup!SentenceCase
  <2> DEFINE s == i - 1
             r == [start |-> s, end |-> i]
  <2>2. s \in 0..Len(t) /\ i \in 0..Len(t) /\ s + 1 = i /\ s < i
    BY TextMeans
  <2> HIDE DEF s
  <2>3. r.start = s /\ r.end = i /\ Instead(t, 5, s) = <<Cleanup!Capital[t[i]]>>
    BY <2>2 DEF Instead
  <2> HIDE DEF r
  <2>4. e = Cleanup!Edit(r, <<Cleanup!Capital[t[i]]>>, FALSE, 5)
    BY <2>1 DEF r, s
  <2>5. Shaped(t, e, s, i, 5)
    BY <2>3, <2>4, WhichAreSafe, EditIsShaped
  <2>6. e.start = s /\ e.end = i /\ e.priority = 5
    BY <2>5 DEF Shaped
  <2>7. Founded(t, e)
    <3>1. e.end = e.start + 1 /\ t[e.end] \in Cleanup!Lower
      BY <2>1, <2>2, <2>6
    <3>2. e.priority \notin {0, 2, 4} /\ e.priority # 1 /\ e.priority # 3
      BY <2>6
    <3>. QED
      BY <3>1, <3>2, Zenon DEF Founded
  <2>. QED
    BY <2>2, <2>5, <2>7, ShapeIsKnown
<1>. QED
  BY <1>1, <1>2, <1>3, <1>4, <1>5, <1>6 DEF Cleanup!Candidates

LEMMA OneCharacter == \A c \in Cleanup!Characters : <<c>> \in Seq(Cleanup!Characters)
OBVIOUS

LEMMA KnownIsPlaced ==
  ASSUME NEW t, Text(t), NEW e, Known(t, e)
  PROVE  e \in Places(Len(t)) /\ e.start < e.end
<1>1. Part(Len(t), e) /\ e.priority \in 0..5 /\ Shaped(t, e, e.start, e.end, e.priority)
  BY DEF Known
<1>2. Instead(t, e.priority, e.start) \in Seq(Cleanup!Characters)
  <2>1. CASE e.priority = 3
    <3>1. t[e.start + 1] \in Cleanup!Characters
      BY <2>1, Characters DEF Known, Founded
    <3>2. Instead(t, e.priority, e.start) = <<t[e.start + 1]>>
      BY <2>1 DEF Instead
    <3>. QED
      BY <3>1, <3>2
  <2>2. CASE e.priority = 4
    <3>1. Instead(t, e.priority, e.start) = <<" ">>
      BY <2>2 DEF Instead
    <3>2. <<" ">> \in Seq(Cleanup!Characters)
      BY Characters, OneCharacter, Zenon
    <3>. QED
      BY <3>1, <3>2, Zenon
  <2>3. CASE e.priority = 5
    <3>1. Cleanup!Capital[t[e.start + 1]] \in Cleanup!Characters
      BY <2>3, Characters DEF Known, Founded
    <3>2. Instead(t, e.priority, e.start) = <<Cleanup!Capital[t[e.start + 1]]>>
      BY <2>3 DEF Instead
    <3>. QED
      BY <3>1, <3>2
  <2>4. CASE e.priority \notin {3, 4, 5}
    <3>1. Instead(t, e.priority, e.start) = <<>>
      BY <2>4 DEF Instead
    <3>. QED
      BY <3>1
  <2>. QED
    BY <2>1, <2>2, <2>3, <2>4
<1>3. IsSafe(e.priority) \in BOOLEAN
  BY DEF IsSafe
<1>. QED
  BY <1>1, <1>2, <1>3 DEF Shaped, Places, Part

LEMMA CandidatesAreEdits ==
  ASSUME NEW t, Text(t)
  PROVE  EditsOf(Len(t), Cleanup!Candidates(t)) /\ Distinct(Cleanup!Candidates(t))
<1> DEFINE C == Cleanup!Candidates(t)
           n == Len(t)
<1>1. \A e \in C : Known(t, e) /\ e \in Places(n) /\ e.start < e.end
  BY CandidatesAreKnown, KnownIsPlaced
<1> HIDE DEF C
<1>2. Distinct(C)
  <2> SUFFICES ASSUME NEW a \in C, NEW b \in C,
                      a.priority = b.priority /\ a.start = b.start /\ a.end = b.end
               PROVE  a = b
    BY DEF Distinct
  <2>1. Shaped(t, a, a.start, a.end, a.priority) /\ Shaped(t, b, b.start, b.end, b.priority)
    BY <1>1 DEF Known
  <2>. QED
    BY <2>1 DEF Shaped
<1>3. IsFiniteSet(C)
  <2> DEFINE D == (0..5) \X ((0..n) \X (0..n))
             f == [e \in C |-> <<e.priority, <<e.start, e.end>> >>]
  <2>1. n \in Int
    BY TextMeans
  <2>2. IsFiniteSet(D)
    <3>1. IsFiniteSet(0..5) /\ IsFiniteSet(0..n)
      <4> HIDE DEF n
      <4>1. 0 \in Int /\ 5 \in Int
        OBVIOUS
      <4>. QED
        BY <2>1, <4>1, FS_Interval, Zenon
    <3>2. IsFiniteSet((0..n) \X (0..n))
      BY <3>1, FS_Product
    <3>. QED
      BY <3>1, <3>2, FS_Product
  <2>3. f \in [C -> D]
    <3>1. \A e \in C : e.priority \in 0..5 /\ e.start \in 0..n /\ e.end \in 0..n
      BY <1>1, PlaceFields
    <3>. QED
      BY <3>1
  <2>4. \A a, b \in C : f[a] = f[b] => a = b
    BY <1>2 DEF Distinct
  <2>5. f \in Injection(C, D)
    <3> HIDE DEF f, D
    <3>. QED
      BY <2>3, <2>4 DEF Injection, IsInjective
  <2> HIDE DEF f, D
  <2>. QED
    BY <2>2, <2>5, FS_Injection
<1>. QED
  BY <1>1, <1>2, <1>3 DEF C, EditsOf

\* The edits of the report on a text.
EditsFor(t) == Cleanup!InOrder(Cleanup!Selected(Cleanup!Candidates(t)))

\* What is known of the edits of a report: each of them, and all together.
Reported(t, s) ==
  /\ \A i \in 1..Len(s) : Known(t, s[i])
  /\ \A i, j \in 1..Len(s) : i < j => s[i].end <= s[j].start
  /\ s \in Seq(Places(Len(t)))

LEMMA EditsAreReported ==
  ASSUME NEW t, Text(t)
  PROVE  Reported(t, EditsFor(t))
<1> DEFINE n == Len(t)
           C == Cleanup!Candidates(t)
           E == Cleanup!Selected(C)
           s == Cleanup!InOrder(E)
<1>1. n \in Nat /\ EditsOf(n, C) /\ Distinct(C)
  BY TextMeans, CandidatesAreEdits
<1>2. E \in SUBSET C /\ \A a, b \in E : a # b => ~ Cleanup!Overlaps(a, b)
  <2> HIDE DEF n, C
  <2>. QED
    BY <1>1, SelectedAreApart
<1>3. EditsOf(n, E)
  <2> HIDE DEF C, E
  <2>. QED
    BY <1>1, <1>2, FS_Subset DEF EditsOf
<1>4. OneByOne(s, E)
  <2> HIDE DEF n, C, E
  <2>. QED
    BY <1>1, <1>2, <1>3, EditsAreOrdered
<1>5. \A e \in E : Known(t, e) /\ e \in Places(n)
  BY <1>2, CandidatesAreKnown, KnownIsPlaced
<1> HIDE DEF E
<1>6. s \in Seq(E) /\ \A i, j \in 1..Len(s) : i < j => s[i].end <= s[j].start
  BY <1>4 DEF OneByOne
<1> HIDE DEF s
<1>7. \A i \in 1..Len(s) : s[i] \in E
  BY <1>6, ElementOfSeq
<1>8. s \in Seq(Places(n))
  BY <1>5, <1>6, SeqMonotonic
<1>. QED
  BY <1>5, <1>6, <1>7, <1>8 DEF Reported, EditsFor, s, E

LEMMA ReportMeans ==
  ASSUME NEW t, Text(t)
  PROVE  /\ Cleanup!Applicable(t, EditsFor(t))
         /\ Cleanup!Report(t).edits = EditsFor(t)
         /\ Cleanup!Report(t).suggested = Cleanup!Applied(t, EditsFor(t))
<1> DEFINE s == EditsFor(t)
<1>1. Reported(t, s)
  BY EditsAreReported
<1> HIDE DEF s
<1>2. Len(t) \in Nat /\ Len(s) \in Nat /\ DOMAIN s = 1..Len(s)
  BY <1>1, TextMeans, LenProperties DEF Reported
<1>3. ASSUME NEW i \in DOMAIN s
      PROVE  /\ s[i].start <= s[i].end /\ s[i].end <= Len(t)
             /\ i > 1 => s[i - 1].end <= s[i].start
  <2>1. Part(Len(t), s[i])
    BY <1>1, <1>2 DEF Reported, Known
  <2>2. i > 1 => i - 1 \in 1..Len(s) /\ i - 1 < i
    BY <1>2
  <2>. QED
    BY <1>1, <1>2, <2>1, <2>2 DEF Reported, Part
<1>4. Cleanup!Applicable(t, s)
  BY <1>3 DEF Cleanup!Applicable
<1>. QED
  BY <1>4 DEF Cleanup!Report, EditsFor, s

LEMMA FieldsOfEdit ==
  ASSUME NEW e, NEW s, NEW l, NEW r, NEW f, NEW p,
         e = [start |-> s, end |-> l, replacement |-> r, safe |-> f, priority |-> p]
  PROVE  e.safe = f /\ e.replacement = r
OBVIOUS

\* No edit touches a newline, and a safe one only removes blanks.
LEMMA KnownIsHarmless ==
  ASSUME NEW t, Text(t), NEW e, Known(t, e)
  PROVE  /\ \A i \in e.start + 1..e.end : t[i] # "nl"
         /\ e.safe => e.replacement = <<>> /\ \A i \in e.start + 1..e.end : t[i] \in Cleanup!Horizontal
<1>1. /\ Part(Len(t), e) /\ e.priority \in 0..5 /\ Founded(t, e)
      /\ Shaped(t, e, e.start, e.end, e.priority)
  BY DEF Known
<1> DEFINE safe == IsSafe(e.priority)
           with == Instead(t, e.priority, e.start)
<1>2. e.safe = safe /\ e.replacement = with
  <2>1. e = [start |-> e.start, end |-> e.end, replacement |-> with, safe |-> safe,
             priority |-> e.priority]
    BY <1>1 DEF Shaped
  <2> HIDE DEF safe, with
  <2>. QED
    BY <2>1, FieldsOfEdit
<1>4. safe => e.replacement = <<>> /\ \A i \in e.start + 1..e.end : t[i] \in Cleanup!Horizontal
  <2> SUFFICES ASSUME e.priority \in {0, 2}
               PROVE  e.replacement = <<>> /\ \A i \in e.start + 1..e.end : t[i] \in Cleanup!Horizontal
    BY DEF IsSafe
  <2>1. with = <<>>
    BY DEF Instead
  <2>2. \A i \in e.start + 1..e.end : t[i] \in Cleanup!Horizontal
    BY <1>1 DEF Founded
  <2> HIDE DEF safe, with
  <2>. QED
    BY <1>2, <2>1, <2>2
<1>3. ASSUME NEW i \in e.start + 1..e.end
      PROVE  t[i] # "nl"
  <2>1. CASE e.priority \in {0, 2, 4}
    BY <1>1, <2>1, Characters DEF Founded
  <2>2. CASE e.priority = 1
    <3>1. PICK a, b \in Cleanup!TokenSpans(t) : Repeats(t, e, a, b)
      BY <1>1, <2>2 DEF Founded
    <3> DEFINE w == Cleanup!Word(t, b)
    <3>2. /\ e.start = a.end /\ e.end = w.end /\ Cleanup!HasWord(t, b)
          /\ \A k \in a.end + 1..b.start : t[k] \in Cleanup!Horizontal
      BY <3>1 DEF Repeats
    <3>3. Token(t, b) /\ Token(t, a) /\ w.end <= b.end /\ w.end \in 0..Len(t)
      BY <3>2, WordMeans, TokenMeans
    <3> HIDE DEF w
    <3>4. i \in a.end + 1..b.start \/ i \in b.start + 1..b.end
      BY <1>3, <3>2, <3>3, TextMeans DEF Token, Part
    <3>5. CASE i \in a.end + 1..b.start
      BY <3>2, <3>5, Characters
    <3>6. CASE i \in b.start + 1..b.end
      <4>1. t[i] \notin Cleanup!Blank
        BY <3>3, <3>6 DEF Token
      <4>. QED
        BY <4>1 DEF Cleanup!Blank
    <3>. QED
      BY <3>4, <3>5, <3>6
  <2>3. CASE e.priority = 3
    BY <1>1, <2>3, Characters DEF Founded
  <2>4. CASE e.priority = 5
    <3>1. i = e.end
      BY <1>1, <2>4, TextMeans DEF Founded, Part
    <3>. QED
      BY <1>1, <2>4, <3>1, Characters DEF Founded
  <2>. QED
    BY <1>1, <2>1, <2>2, <2>3, <2>4
<1> HIDE DEF safe
<1>. QED
  BY <1>2, <1>3, <1>4

\* The span of an edit, as the properties have it.
LEMMA WithinMeans ==
  ASSUME NEW t, Text(t), NEW e, Part(Len(t), e)
  PROVE  \A i \in 1..Len(Cleanup!Within(t, e)) :
           \E k \in e.start + 1..e.end : Cleanup!Within(t, e)[i] = t[k]
<1> DEFINE u == Cleanup!Within(t, e)
<1>1. e.start \in 0..Len(t) /\ e.end \in e.start..Len(t) /\ Len(t) \in Nat
  BY TextMeans DEF Part
<1>2. Len(u) = e.end - e.start /\ \A k \in 1..e.end - e.start : u[k] = t[e.start + k]
  BY <1>1, Cutout DEF Cleanup!Within
<1> HIDE DEF u
<1>3. ASSUME NEW i \in 1..Len(u)
      PROVE  e.start + i \in e.start + 1..e.end /\ u[i] = t[e.start + i]
  BY <1>1, <1>2
<1>. QED
  BY <1>3 DEF u

-----------------------------------------------------------------------------
(***************************************************************************)
(* What a text says: its letters, one after the other.                     *)
(***************************************************************************)

\* What character i adds to what is said, of the characters with places in S.
Adds(t, S, i) ==
  IF i \in S /\ t[i] \in Cleanup!Letters THEN <<Cleanup!InCapitals(t[i])>> ELSE <<>>

\* g[i] is what the first i characters say, of those with places in S.
Spoken(t, S, g) ==
  /\ g \in [0..Len(t) -> Seq(Cleanup!Upper)] /\ g[0] = <<>>
  /\ \A i \in 1..Len(t) : g[i] = g[i - 1] \o Adds(t, S, i)

\* What the characters of t from i + 1 to j say.
Says(t, i, j) == Cleanup!Said(SubSeq(t, i + 1, j))

LEMMA Joined ==
  ASSUME NEW U, NEW x \in Seq(U), NEW y \in Seq(U), NEW z \in Seq(U)
  PROVE  /\ x \o y \in Seq(U) /\ (x \o y) \o z = x \o (y \o z)
         /\ x \o <<>> = x /\ <<>> \o x = x
<1>1. (x \o y) \o z = x \o (y \o z)
  BY ConcatAssociative
<1>2. x \o y \in Seq(U)
  BY ConcatProperties
<1>3. x \o <<>> = x /\ <<>> \o x = x
  BY ConcatEmptySeq, Zenon
<1>. QED
  BY <1>1, <1>2, <1>3

\* The same, for an operator that the provers do not look into.
Follow(x, y) == x \o y

LEMMA Follows ==
  \A U : \A x, y, z \in Seq(U) : Follow(Follow(x, y), z) = Follow(x, Follow(y, z))
<1> SUFFICES ASSUME NEW U, NEW x \in Seq(U), NEW y \in Seq(U), NEW z \in Seq(U)
             PROVE  Follow(Follow(x, y), z) = Follow(x, Follow(y, z))
  OBVIOUS
<1>1. (x \o y) \o z = x \o (y \o z)
  BY Joined
<1>. QED
  BY <1>1, Zenon DEF Follow

LEMMA LettersInCapitals ==
  \A c \in Cleanup!Characters :
    /\ Cleanup!InCapitals(c) \in Cleanup!Characters
    /\ c \in Cleanup!Letters <=> Cleanup!InCapitals(c) \in Cleanup!Upper
    /\ Cleanup!InCapitals(Cleanup!InCapitals(c)) = Cleanup!InCapitals(c)
BY DEF Cleanup!InCapitals, Cleanup!Characters, Cleanup!Letters, Cleanup!Lower, Cleanup!Upper,
       Cleanup!Capital, Cleanup!Blank, Cleanup!Horizontal, Cleanup!Punctuation, Cleanup!Opening,
       Cleanup!Terminators, Cleanup!Collapsible

LEMMA AddsLetters ==
  ASSUME NEW t, Text(t), NEW S, NEW i \in 1..Len(t)
  PROVE  Adds(t, S, i) \in Seq(Cleanup!Upper)
<1>1. t[i] \in Cleanup!Characters
  BY TextMeans
<1>2. CASE i \in S /\ t[i] \in Cleanup!Letters
  <2>1. Cleanup!InCapitals(t[i]) \in Cleanup!Upper
    BY <1>1, <1>2, LettersInCapitals
  <2>. QED
    BY <1>2, <2>1 DEF Adds
<1>3. CASE ~ (i \in S /\ t[i] \in Cleanup!Letters)
  <2>1. Adds(t, S, i) = <<>>
    BY <1>3 DEF Adds
  <2>. QED
    BY <2>1, EmptySeq
<1>. QED
  BY <1>2, <1>3

LEMMA SpokenExists ==
  ASSUME NEW t, Text(t), NEW S
  PROVE  \E g : Spoken(t, S, g)
<1> DEFINE U    == Seq(Cleanup!Upper)
           n    == Len(t)
           step == [x \in (1..n) \X U |-> x[2] \o Adds(t, S, x[1])]
<1>1. n \in Nat /\ <<>> \in U
  BY TextMeans, EmptySeq
<1>2. step \in [(1..n) \X U -> U]
  <2> SUFFICES ASSUME NEW x \in (1..n) \X U PROVE x[2] \o Adds(t, S, x[1]) \in U
    OBVIOUS
  <2>1. x[1] \in 1..n /\ x[2] \in U
    OBVIOUS
  <2>2. Adds(t, S, x[1]) \in U
    BY <2>1, AddsLetters
  <2>. QED
    BY <2>1, <2>2, ConcatProperties
<1>3. PICK g \in [0..n -> U] :
        \A k \in 0..n : g[k] = IF k = 0 THEN <<>> ELSE step[<<k, g[k - 1]>>]
  <2> HIDE DEF step, U, n
  <2>1. HasSolution(n, U, <<>>, step)
    BY <1>1, <1>2, RecursionHasSolution
  <2>. QED
    BY <2>1 DEF HasSolution
<1>4. ASSUME NEW i \in 1..n
      PROVE  g[i] = g[i - 1] \o Adds(t, S, i)
  <2>1. i \in 0..n /\ i # 0 /\ i - 1 \in 0..n
    BY <1>1
  <2>2. g[i - 1] \in U
    BY <2>1, <1>3
  <2>3. step[<<i, g[i - 1]>>] = g[i - 1] \o Adds(t, S, i)
    BY <2>2
  <2> HIDE DEF step
  <2>. QED
    BY <1>3, <2>1, <2>3
<1>5. g[0] = <<>>
  <2> HIDE DEF step
  <2>1. 0 \in 0..n
    BY <1>1
  <2>. QED
    BY <1>3, <2>1, Zenon
<1>. QED
  BY <1>3, <1>4, <1>5 DEF Spoken

LEMMA SaidMeans ==
  ASSUME NEW t, Text(t), NEW S, 1..Len(t) \subseteq S, NEW g, Spoken(t, S, g)
  PROVE  Cleanup!Said(t) = g[Len(t)]
<1> DEFINE n == Len(t)
           New(i) == IF t[i] \in Cleanup!Letters THEN <<Cleanup!InCapitals(t[i])>> ELSE <<>>
           Solves(f) == f = [i \in 0..n |-> IF i = 0 THEN <<>> ELSE f[i - 1] \o New(i)]
           h == CHOOSE f : Solves(f)
<1>1. n \in Nat
  BY TextMeans
<1>2. Cleanup!Said(t) = h[n]
  BY DEF Cleanup!Said
<1>3. \A i \in 1..n : Adds(t, S, i) = New(i)
  BY DEF Adds
<1>4. Solves(g)
  <2>1. \A i \in 0..n : g[i] = IF i = 0 THEN <<>> ELSE g[i - 1] \o New(i)
    <3> SUFFICES ASSUME NEW i \in 0..n PROVE g[i] = IF i = 0 THEN <<>> ELSE g[i - 1] \o New(i)
      OBVIOUS
    <3>1. i # 0 => i \in 1..n
      BY <1>1
    <3> HIDE DEF New
    <3>. QED
      BY <1>3, <3>1 DEF Spoken
  <2> HIDE DEF New
  <2>2. g \in [0..n -> Seq(Cleanup!Upper)]
    BY DEF Spoken
  <2>. QED
    BY <2>1, <2>2, Zenon
<1> HIDE DEF New
<1>5. Solves(h)
  BY <1>4
<1> HIDE DEF h
<1>6. \A k \in 0..n : k \in {i \in 0..n : h[i] = g[i]}
  <2> DEFINE T == {i \in 0..n : h[i] = g[i]}
  <2>1. 0 \in T
    BY <1>1, <1>4, <1>5
  <2>2. ASSUME NEW i \in 1..n, i - 1 \in T
        PROVE  i \in T
    <3>1. i \in 0..n /\ i # 0 /\ h[i - 1] = g[i - 1]
      BY <1>1, <2>2
    <3>2. h[i] = h[i - 1] \o New(i)
      BY <1>5, <3>1
    <3>3. g[i] = g[i - 1] \o New(i)
      BY <1>4, <3>1
    <3>. QED
      BY <3>1, <3>2, <3>3
  <2> HIDE DEF T
  <2>3. \A k \in 0..n : k \in T
    BY <1>1, <2>1, <2>2, NumberInduction
  <2>. QED
    BY <2>3 DEF T
<1>. QED
  BY <1>1, <1>2, <1>6

LEMMA SaidIsSpoken ==
  ASSUME NEW t, Text(t)
  PROVE  /\ Cleanup!Said(t) \in Seq(Cleanup!Upper)
         /\ \E g : Spoken(t, 1..Len(t), g) /\ Cleanup!Said(t) = g[Len(t)]
<1>1. PICK g : Spoken(t, 1..Len(t), g)
  BY SpokenExists
<1>2. Cleanup!Said(t) = g[Len(t)]
  BY <1>1, SaidMeans
<1>3. g[Len(t)] \in Seq(Cleanup!Upper)
  BY <1>1, TextMeans DEF Spoken
<1>. QED
  BY <1>1, <1>2, <1>3

\* Of a part that counts, everything is said.
LEMMA SpokenGoesOn ==
  ASSUME NEW t, Text(t), NEW S, NEW g, Spoken(t, S, g),
         NEW i \in 0..Len(t), NEW j \in i..Len(t), i + 1..j \subseteq S
  PROVE  g[j] = g[i] \o Says(t, i, j)
<1> DEFINE u == SubSeq(t, i + 1, j)
           n == j - i
<1>0. Len(t) \in Nat /\ i \in Nat /\ j \in Nat /\ n \in Nat
  BY TextMeans
<1>1. Text(u) /\ Len(u) = n /\ \A k \in 1..n : u[k] = t[i + k]
  BY Cutout
<1>2. PICK h : Spoken(u, 1..n, h) /\ Cleanup!Said(u) = h[n]
  <2> HIDE DEF u, n
  <2>. QED
    BY <1>1, SaidIsSpoken
<1> HIDE DEF u
<1>3. h \in [0..n -> Seq(Cleanup!Upper)] /\ h[0] = <<>>
      /\ \A k \in 1..n : h[k] = h[k - 1] \o Adds(u, 1..n, k)
  BY <1>1, <1>2 DEF Spoken
<1>4. \A k \in 0..n : k \in {m \in 0..n : g[i + m] = g[i] \o h[m]}
  <2> DEFINE W == {m \in 0..n : g[i + m] = g[i] \o h[m]}
  <2>0. g[i] \in Seq(Cleanup!Upper)
    BY DEF Spoken
  <2>1. 0 \in W
    <3>1. g[i] \o <<>> = g[i]
      BY <2>0, ConcatEmptySeq
    <3>2. i + 0 = i /\ 0 \in 0..n
      BY <1>0
    <3>. QED
      BY <1>3, <3>1, <3>2
  <2>2. ASSUME NEW k \in 1..n, k - 1 \in W
        PROVE  k \in W
    <3>1. i + k \in 1..Len(t) /\ i + k \in i + 1..j /\ (i + k) - 1 = i + (k - 1) /\ k \in 0..n /\ k - 1 \in 0..n
      BY <1>0
    <3>2. g[i + k] = g[i + (k - 1)] \o Adds(t, S, i + k)
      BY <3>1 DEF Spoken
    <3>3. Adds(t, S, i + k) = Adds(u, 1..n, k)
      BY <1>1, <3>1 DEF Adds
    <3>4. g[i + (k - 1)] = g[i] \o h[k - 1]
      BY <2>2
    <3>5. h[k] = h[k - 1] \o Adds(u, 1..n, k)
      BY <1>3
    <3>6. h[k - 1] \in Seq(Cleanup!Upper) /\ Adds(u, 1..n, k) \in Seq(Cleanup!Upper)
      BY <1>1, <1>3, <3>1, AddsLetters
    <3>7. (g[i] \o h[k - 1]) \o Adds(u, 1..n, k) = g[i] \o (h[k - 1] \o Adds(u, 1..n, k))
      <4> DEFINE x == g[i]
                 y == h[k - 1]
                 z == Adds(u, 1..n, k)
      <4>1. x \in Seq(Cleanup!Upper) /\ y \in Seq(Cleanup!Upper) /\ z \in Seq(Cleanup!Upper)
        BY <2>0, <3>6
      <4> HIDE DEF x, y, z
      <4>2. Follow(Follow(x, y), z) = Follow(x, Follow(y, z))
        BY <4>1, Follows
      <4>. QED
        BY <4>2, Zenon DEF Follow, x, y, z
    <3>8. g[i + k] = g[i] \o h[k]
      BY <3>2, <3>3, <3>4, <3>5, <3>7, Zenon
    <3>. QED
      BY <3>1, <3>8
  <2> HIDE DEF W, n
  <2>3. \A k \in 0..n : k \in W
    BY <1>0, <2>1, <2>2, NumberInduction
  <2>. QED
    BY <2>3 DEF W
<1>5. n \in 0..n /\ i + n = j
  BY <1>0
<1>6. Cleanup!Said(u) = Says(t, i, j)
  BY Zenon DEF Says, u
<1> HIDE DEF n
<1>7. g[i + n] = g[i] \o h[n]
  BY <1>4, <1>5, Zenon
<1>. QED
  BY <1>2, <1>5, <1>6, <1>7, Zenon

\* Of a part without letters that count, nothing is said.
LEMMA SpokenPauses ==
  ASSUME NEW t, Text(t), NEW S, NEW g, Spoken(t, S, g),
         NEW i \in 0..Len(t), NEW j \in i..Len(t),
         \A k \in i + 1..j : k \notin S \/ t[k] \notin Cleanup!Letters
  PROVE  g[j] = g[i]
<1> DEFINE n == j - i
           W == {m \in 0..n : g[i + m] = g[i]}
<1>0. Len(t) \in Nat /\ i \in Nat /\ j \in Nat /\ n \in Nat
  BY TextMeans
<1>1. 0 \in W
  BY <1>0
<1>2. ASSUME NEW k \in 1..n, k - 1 \in W
      PROVE  k \in W
  <2>1. i + k \in 1..Len(t) /\ i + k \in i + 1..j /\ (i + k) - 1 = i + (k - 1) /\ k \in 0..n
    BY <1>0
  <2>2. g[i + k] = g[i + (k - 1)] \o Adds(t, S, i + k)
    BY <2>1 DEF Spoken
  <2>3. Adds(t, S, i + k) = <<>>
    BY <2>1 DEF Adds
  <2>4. g[i + (k - 1)] = g[i] /\ g[i] \in Seq(Cleanup!Upper)
    BY <1>2 DEF Spoken
  <2>5. g[i] \o <<>> = g[i]
    BY <2>4, ConcatEmptySeq
  <2>6. g[i + k] = g[i]
    BY <2>2, <2>3, <2>4, <2>5, Zenon
  <2>. QED
    BY <2>1, <2>6
<1>3. \A k \in 0..n : k \in W
  <2> HIDE DEF W, n
  <2>. QED
    BY <1>0, <1>1, <1>2, NumberInduction
<1>4. n \in 0..n /\ i + n = j
  BY <1>0
<1>. QED
  BY <1>3, <1>4

\* What is said stays said.
LEMMA SpokenStays ==
  ASSUME NEW t, Text(t), NEW S, NEW g, Spoken(t, S, g), NEW i \in 0..Len(t)
  PROVE  \E w \in Seq(Cleanup!Upper) : g[Len(t)] = Follow(g[i], w)
<1> DEFINE n == Len(t) - i
           U == Seq(Cleanup!Upper)
           W == {m \in 0..n : \E w \in U : g[i + m] = g[i] \o w}
<1>0. Len(t) \in Nat /\ i \in Nat /\ n \in Nat /\ g[i] \in U
  BY TextMeans DEF Spoken
<1>1. 0 \in W
  <2>1. <<>> \in U /\ g[i] \o <<>> = g[i]
    BY <1>0, EmptySeq, Joined
  <2>2. i + 0 = i /\ 0 \in 0..n
    BY <1>0
  <2>3. g[i + 0] = g[i] \o <<>>
    BY <2>1, <2>2, Zenon
  <2>. QED
    BY <2>1, <2>2, <2>3
<1>2. ASSUME NEW k \in 1..n, k - 1 \in W
      PROVE  k \in W
  <2>1. i + k \in 1..Len(t) /\ (i + k) - 1 = i + (k - 1) /\ k \in 0..n
    BY <1>0
  <2>2. g[i + k] = g[i + (k - 1)] \o Adds(t, S, i + k)
    BY <2>1 DEF Spoken
  <2>3. PICK w \in U : g[i + (k - 1)] = g[i] \o w
    BY <1>2
  <2> DEFINE a == Adds(t, S, i + k)
  <2>4. a \in U
    BY <2>1, AddsLetters
  <2> HIDE DEF a
  <2>5. w \o a \in U /\ (g[i] \o w) \o a = g[i] \o (w \o a)
    <3> DEFINE x == g[i]
    <3>1. x \in U
      BY <1>0
    <3> HIDE DEF x
    <3>2. w \o a \in U
      BY <2>4, Joined
    <3>3. Follow(Follow(x, w), a) = Follow(x, Follow(w, a))
      BY <2>4, <3>1, Follows
    <3>. QED
      BY <3>2, <3>3, Zenon DEF Follow, x
  <2>6. g[i + k] = g[i] \o (w \o a)
    BY <2>2, <2>3, <2>5, Zenon DEF a
  <2>. QED
    BY <2>1, <2>5, <2>6
<1>3. \A k \in 0..n : k \in W
  <2> HIDE DEF W, n
  <2>. QED
    BY <1>0, <1>1, <1>2, NumberInduction
<1>4. n \in 0..n /\ i + n = Len(t)
  BY <1>0
<1>5. n \in W
  BY <1>3, <1>4, Zenon
<1>6. \E w \in U : g[i + n] = g[i] \o w
  BY <1>5
<1>. QED
  BY <1>4, <1>6, Zenon DEF Follow

\* A text without letters says nothing.
LEMMA NothingSaid ==
  ASSUME NEW t, Text(t), \A k \in 1..Len(t) : t[k] \notin Cleanup!Letters
  PROVE  Cleanup!Said(t) = <<>>
<1> DEFINE n == Len(t)
<1>1. n \in Nat
  BY TextMeans
<1>2. PICK g : Spoken(t, 1..n, g) /\ Cleanup!Said(t) = g[n]
  BY SaidIsSpoken
<1>3. 0 \in 0..n /\ n \in 0..n /\ g[0] = <<>> /\ \A k \in 0 + 1..n : t[k] \notin Cleanup!Letters
  BY <1>1, <1>2 DEF Spoken
<1> HIDE DEF n
<1>4. g[n] = g[0]
  BY <1>2, <1>3, SpokenPauses DEF n
<1>. QED
  BY <1>2, <1>3, <1>4

LEMMA OneLong ==
  /\ \A c : Len(<<c>>) = 1 /\ \A k \in 1..Len(<<c>>) : <<c>>[k] = c
  /\ \A U : \A u \in Seq(U) : Len(u) = 1 => u = <<u[1]>>
OBVIOUS

LEMMA OneOther ==
  ASSUME NEW c, c \notin Cleanup!Letters, NEW u, u = <<c>>
  PROVE  \A k \in 1..Len(u) : u[k] \notin Cleanup!Letters
BY OneLong, Zenon

LEMMA SameLength ==
  ASSUME NEW m \in Nat, NEW n \in Nat, 1..m = 1..n
  PROVE  m = n
<1>1. m \in Nat /\ n \in Nat /\ (m # 0 => m \in 1..n) /\ (n # 0 => n \in 1..m)
  <2>1. (m # 0 => m \in 1..m) /\ (n # 0 => n \in 1..n)
    OBVIOUS
  <2>. QED
    BY <2>1
<1>. QED
  BY <1>1

LEMMA LetterSaid ==
  ASSUME NEW c \in Cleanup!Letters
  PROVE  Text(<<c>>) /\ Cleanup!Said(<<c>>) = <<Cleanup!InCapitals(c)>>
<1> DEFINE t == <<c>>
<1>0. c \in Cleanup!Characters
  BY Characters
<1>1. Text(t) /\ Len(t) = 1 /\ t[1] = c
  <2>1. Text(t)
    BY <1>0, OneCharacter, Zenon DEF Text
  <2>. QED
    BY <2>1
<1> HIDE DEF t
<1>2. PICK g : Spoken(t, 1..1, g) /\ Cleanup!Said(t) = g[1]
  BY <1>1, SaidIsSpoken
<1>3. g[1] = g[0] \o Adds(t, 1..1, 1) /\ g[0] = <<>>
  <2>1. 1 \in 1..Len(t) /\ 1 - 1 = 0
    BY <1>1
  <2>2. g[1] = g[1 - 1] \o Adds(t, 1..1, 1) /\ g[0] = <<>>
    BY <1>2, <2>1, Zenon DEF Spoken
  <2>. QED
    BY <2>1, <2>2, Zenon
<1>4. Adds(t, 1..1, 1) = <<Cleanup!InCapitals(c)>>
  BY <1>1 DEF Adds
<1>5. <<>> \o <<Cleanup!InCapitals(c)>> = <<Cleanup!InCapitals(c)>>
  OBVIOUS
<1>6. g[1] = <<Cleanup!InCapitals(c)>>
  BY <1>3, <1>4, <1>5, Zenon
<1>. QED
  BY <1>1, <1>2, <1>6, Zenon DEF t

\* Two texts that follow each other say what they say in turn.
LEMMA SaidJoins ==
  ASSUME NEW u, Text(u), NEW v, Text(v)
  PROVE  Text(u \o v) /\ Cleanup!Said(u \o v) = Cleanup!Said(u) \o Cleanup!Said(v)
<1> DEFINE t == u \o v
           m == Len(u)
           n == Len(t)
<1>0. Len(u) \in Nat /\ Len(v) \in Nat
  BY TextMeans
<1>1. Text(t) /\ n = m + Len(v)
  BY ConcatProperties DEF Text
<1>2. SubSeq(t, 0 + 1, m) = u
  BY <1>0 DEF Text
<1>3. SubSeq(t, m + 1, n) = v
  BY <1>0, <1>1 DEF Text
<1>4. m \in 0..n /\ 0 \in 0..n /\ m \in 0..n /\ n \in m..n /\ m \in Nat /\ n \in Nat
  BY <1>0, <1>1
<1> HIDE DEF t
<1>5. PICK g : Spoken(t, 1..n, g) /\ Cleanup!Said(t) = g[n]
  BY <1>1, SaidIsSpoken
<1>6. g[m] = g[0] \o Cleanup!Said(u)
  <2> DEFINE i == 0
             j == m
             K == 1..n
  <2>1. i \in 0..n /\ j \in i..n /\ i + 1..j \subseteq K
    BY <1>4
  <2>2. SubSeq(t, i + 1, j) = u
    BY <1>2
  <2>3. Spoken(t, K, g)
    BY <1>5
  <2> HIDE DEF i, j, K
  <2>4. g[j] = g[i] \o Says(t, i, j)
    BY <1>1, <2>1, <2>3, SpokenGoesOn
  <2>. QED
    BY <2>2, <2>4, Zenon DEF Says, i, j
<1>7. g[n] = g[m] \o Cleanup!Said(v)
  <2> DEFINE i == m
             j == n
             K == 1..n
  <2>1. i \in 0..n /\ j \in i..n /\ i + 1..j \subseteq K
    BY <1>4
  <2>2. SubSeq(t, i + 1, j) = v
    BY <1>3
  <2>3. Spoken(t, K, g)
    BY <1>5
  <2> HIDE DEF i, j, K
  <2>4. g[j] = g[i] \o Says(t, i, j)
    BY <1>1, <2>1, <2>3, SpokenGoesOn
  <2>. QED
    BY <2>2, <2>4, Zenon DEF Says, i, j
<1>8. g[0] = <<>> /\ Cleanup!Said(u) \in Seq(Cleanup!Upper)
  BY <1>5, SaidIsSpoken DEF Spoken
<1>9. <<>> \o Cleanup!Said(u) = Cleanup!Said(u)
  BY <1>8, Joined
<1>10. Cleanup!Said(t) = Cleanup!Said(u) \o Cleanup!Said(v)
  BY <1>5, <1>6, <1>7, <1>8, <1>9, Zenon
<1>. QED
  BY <1>1, <1>10 DEF t

\* Texts that are alike but for the case say the same.
LEMMA SaidInAnyCase ==
  ASSUME NEW u, Text(u), NEW v, Text(v), Cleanup!IgnoreCase(u) = Cleanup!IgnoreCase(v)
  PROVE  Cleanup!Said(u) = Cleanup!Said(v)
<1> DEFINE n == Len(u)
<1>1. n \in Nat /\ Len(v) \in Nat /\ DOMAIN u = 1..Len(u) /\ DOMAIN v = 1..Len(v)
  BY TextMeans, LenProperties DEF Text
<1>2. 1..Len(u) = 1..Len(v)
  <2>1. DOMAIN Cleanup!IgnoreCase(u) = DOMAIN u /\ DOMAIN Cleanup!IgnoreCase(v) = DOMAIN v
    BY DEF Cleanup!IgnoreCase
  <2>. QED
    BY <1>1, <2>1
<1>3. Len(v) = n
  BY <1>1, <1>2, SameLength
<1>4. \A k \in 1..n : Cleanup!InCapitals(u[k]) = Cleanup!InCapitals(v[k])
  <2> SUFFICES ASSUME NEW k \in 1..n PROVE Cleanup!InCapitals(u[k]) = Cleanup!InCapitals(v[k])
    OBVIOUS
  <2>1. Cleanup!IgnoreCase(u)[k] = Cleanup!InCapitals(u[k])
    BY <1>1 DEF Cleanup!IgnoreCase
  <2>2. Cleanup!IgnoreCase(v)[k] = Cleanup!InCapitals(v[k])
    BY <1>1, <1>3 DEF Cleanup!IgnoreCase
  <2>. QED
    BY <2>1, <2>2
<1>5. \A k \in 1..n : Adds(u, 1..n, k) = Adds(v, 1..n, k)
  <2> SUFFICES ASSUME NEW k \in 1..n PROVE Adds(u, 1..n, k) = Adds(v, 1..n, k)
    OBVIOUS
  <2>1. u[k] \in Cleanup!Characters /\ v[k] \in Cleanup!Characters
    BY <1>3, TextMeans
  <2>2. u[k] \in Cleanup!Letters <=> v[k] \in Cleanup!Letters
    BY <1>4, <2>1, LettersInCapitals
  <2>. QED
    BY <1>4, <2>2 DEF Adds
<1>6. PICK g : Spoken(u, 1..n, g) /\ Cleanup!Said(u) = g[n]
  BY SaidIsSpoken
<1>7. Spoken(v, 1..n, g)
  BY <1>3, <1>5, <1>6 DEF Spoken
<1>8. Cleanup!Said(v) = g[n]
  <2>1. 1..Len(v) \subseteq 1..n
    BY <1>3
  <2>2. Cleanup!Said(v) = g[Len(v)]
    BY <1>7, <2>1, SaidMeans
  <2>. QED
    BY <1>3, <2>2
<1>. QED
  BY <1>6, <1>8

LEMMA WithinIsText ==
  ASSUME NEW t, Text(t), NEW a, a.start \in 0..Len(t), a.end \in 0..Len(t), a.start <= a.end
  PROVE  Text(Cleanup!Within(t, a)) /\ Cleanup!Within(t, a) = SubSeq(t, a.start + 1, a.end)
         /\ a.end \in a.start..Len(t)
<1>1. a.end \in a.start..Len(t)
  BY TextMeans
<1>. QED
  BY <1>1, Cutout DEF Cleanup!Within

\* The word of a token says what the token says.
LEMMA WordSaid ==
  ASSUME NEW t, Text(t), NEW a \in Cleanup!TokenSpans(t), Cleanup!HasWord(t, a)
  PROVE  Cleanup!Said(Cleanup!Within(t, Cleanup!Word(t, a))) = Cleanup!Said(Cleanup!Within(t, a))
<1> DEFINE w == Cleanup!Word(t, a)
           n == Len(t)
<1>1. /\ a.start <= w.start /\ w.start < w.end /\ w.end <= a.end
      /\ w.start \in 0..Len(t) /\ w.end \in 0..Len(t)
      /\ \A i \in a.start + 1..a.end : t[i] \in Cleanup!Letters => w.start < i /\ i <= w.end
  BY WordMeans
<1>2. n \in Nat /\ a.start \in 0..n /\ a.end \in 0..n /\ a.start < a.end
  BY TokenMeans, TextMeans DEF Token, Part
<1> HIDE DEF w
<1>3. PICK g : Spoken(t, 1..n, g)
  BY SpokenExists
<1>4. g[a.end] = g[a.start] \o Cleanup!Said(Cleanup!Within(t, a))
  <2>1. a.start + 1..a.end \subseteq 1..n /\ a.end \in a.start..n
    BY <1>2
  <2> DEFINE i == a.start
             j == a.end
  <2>2. i \in 0..n /\ j \in i..n /\ i + 1..j \subseteq 1..n
    BY <1>2, <2>1
  <2> HIDE DEF i, j
  <2> DEFINE K == 1..n
  <2>3. Spoken(t, K, g) /\ i + 1..j \subseteq K
    BY <1>3, <2>2
  <2> HIDE DEF K
  <2>4. g[j] = g[i] \o Says(t, i, j)
    BY <2>2, <2>3, SpokenGoesOn
  <2>. QED
    BY <2>4, Zenon DEF i, j, Says, Cleanup!Within
<1>5. g[w.end] = g[w.start] \o Cleanup!Said(Cleanup!Within(t, w))
  <2>1. w.start + 1..w.end \subseteq 1..n /\ w.end \in w.start..n
    BY <1>1, <1>2
  <2> DEFINE i == w.start
             j == w.end
  <2>2. i \in 0..n /\ j \in i..n /\ i + 1..j \subseteq 1..n
    BY <1>1, <2>1
  <2> HIDE DEF i, j
  <2> DEFINE K == 1..n
  <2>3. Spoken(t, K, g) /\ i + 1..j \subseteq K
    BY <1>3, <2>2
  <2> HIDE DEF K
  <2>4. g[j] = g[i] \o Says(t, i, j)
    BY <2>2, <2>3, SpokenGoesOn
  <2>. QED
    BY <2>4, Zenon DEF i, j, Says, Cleanup!Within
<1>6. g[w.start] = g[a.start]
  <2>1. w.start \in a.start..n
    BY <1>1, <1>2
  <2>2. \A k \in a.start + 1..w.start : t[k] \notin Cleanup!Letters
    BY <1>1, <1>2
  <2> DEFINE i == a.start
             j == w.start
  <2>3. i \in 0..n /\ j \in i..n /\ \A k \in i + 1..j : t[k] \notin Cleanup!Letters
    BY <1>2, <2>1, <2>2
  <2> HIDE DEF i, j
  <2>4. g[j] = g[i]
    BY <1>3, <2>3, SpokenPauses
  <2>. QED
    BY <2>4 DEF i, j
<1>7. g[a.end] = g[w.end]
  <2>1. a.end \in w.end..n
    BY <1>1, <1>2
  <2>2. \A k \in w.end + 1..a.end : t[k] \notin Cleanup!Letters
    BY <1>1, <1>2
  <2> DEFINE i == w.end
             j == a.end
  <2>3. i \in 0..n /\ j \in i..n /\ \A k \in i + 1..j : t[k] \notin Cleanup!Letters
    BY <1>1, <2>1, <2>2
  <2> HIDE DEF i, j
  <2>4. g[j] = g[i]
    BY <1>3, <2>3, SpokenPauses
  <2>. QED
    BY <2>4 DEF i, j
<1> DEFINE x == g[a.start]
           y == Cleanup!Said(Cleanup!Within(t, a))
           z == Cleanup!Said(Cleanup!Within(t, w))
<1>8. x \in Seq(Cleanup!Upper) /\ y \in Seq(Cleanup!Upper) /\ z \in Seq(Cleanup!Upper)
  <2>1. x \in Seq(Cleanup!Upper)
    BY <1>2, <1>3 DEF Spoken
  <2>2. Text(Cleanup!Within(t, a)) /\ Text(Cleanup!Within(t, w))
    <3>1. a.start <= a.end /\ w.start <= w.end
      BY <1>1, <1>2
    <3>. QED
      BY <1>1, <1>2, <3>1, WithinIsText
  <2>. QED
    BY <2>1, <2>2, SaidIsSpoken
<1>9. x \o y = x \o z
  BY <1>4, <1>5, <1>6, <1>7, Zenon
<1> HIDE DEF x, y, z
<1>10. y = z
  BY <1>8, <1>9, ConcatSimplifications
<1>. QED
  BY <1>10 DEF y, z, w

\* Only a repeated word is no longer said.
LEMMA EditSaysTheSame ==
  ASSUME NEW t, Text(t), NEW e, Known(t, e), e.priority # 1
  PROVE  /\ Text(e.replacement)
         /\ Cleanup!Said(Cleanup!Within(t, e)) = Cleanup!Said(e.replacement)
<1> DEFINE u    == Cleanup!Within(t, e)
           with == e.replacement
<1>1. /\ Part(Len(t), e) /\ e.priority \in 0..5 /\ Founded(t, e)
      /\ e.start \in 0..Len(t) /\ e.end \in 0..Len(t) /\ e.start <= e.end /\ e.start < e.end
  BY TextMeans DEF Known, Part
<1>2. e.replacement = Instead(t, e.priority, e.start)
  <2>1. Shaped(t, e, e.start, e.end, e.priority)
    BY DEF Known
  <2>. QED
    BY <2>1 DEF Shaped
<1>3. Text(with)
  <2>1. e \in Places(Len(t))
    BY KnownIsPlaced
  <2>. QED
    BY <2>1, PlaceFields DEF Text
<1>4. Text(u) /\ Len(u) = e.end - e.start /\ u = SubSeq(t, e.start + 1, e.end)
      /\ \A k \in 1..e.end - e.start : u[k] = t[e.start + k] /\ e.start + k \in e.start + 1..e.end
  <2>1. e.end \in e.start..Len(t) /\ u = SubSeq(t, e.start + 1, e.end)
    BY <1>1, WithinIsText
  <2>2. \A k \in 1..e.end - e.start : e.start + k \in e.start + 1..e.end
    BY <1>1, TextMeans
  <2> HIDE DEF u
  <2>. QED
    BY <1>1, <2>1, <2>2, Cutout
<1> HIDE DEF u
<1>5. CASE e.priority \in {0, 2, 4}
  <2>1. \A k \in 1..Len(u) : u[k] \notin Cleanup!Letters
    BY <1>1, <1>4, <1>5, Characters DEF Founded
  <2>2. \A k \in 1..Len(with) : with[k] \notin Cleanup!Letters
    <3>1. CASE e.priority = 4
      <4>1. Instead(t, e.priority, e.start) = <<" ">>
        BY <3>1 DEF Instead
      <4>. QED
        BY <1>2, <4>1, OneOther, Characters, Zenon
    <3>2. CASE e.priority # 4
      <4>1. with = <<>>
        BY <1>2, <1>5, <3>2 DEF Instead
      <4>. QED
        BY <4>1
    <3>. QED
      BY <3>1, <3>2
  <2>3. Cleanup!Said(u) = <<>>
    BY <1>4, <2>1, NothingSaid
  <2> HIDE DEF with
  <2>4. Cleanup!Said(with) = <<>>
    BY <1>3, <2>2, NothingSaid
  <2>. QED
    BY <1>3, <2>3, <2>4, Zenon DEF u, with
<1>6. CASE e.priority = 3
  <2>1. t[e.start + 1] \in Cleanup!Collapsible /\ with = <<t[e.start + 1]>>
    BY <1>1, <1>2, <1>6 DEF Founded, Instead
  <2> DEFINE c == t[e.start + 1]
  <2>0. c \notin Cleanup!Letters /\ with = <<c>>
    BY <2>1, Characters
  <2>2. \A k \in 1..Len(u) : u[k] \notin Cleanup!Letters
    <3>1. \A i \in e.start + 1..e.end : t[i] = c
      BY <1>1, <1>6 DEF Founded
    <3> HIDE DEF c
    <3>2. \A k \in 1..Len(u) : u[k] = c
      BY <1>4, <3>1
    <3>. QED
      BY <2>0, <3>2
  <2> HIDE DEF c, with
  <2>3. \A k \in 1..Len(with) : with[k] \notin Cleanup!Letters
    BY <2>0, OneOther
  <2>4. Cleanup!Said(u) = <<>>
    BY <1>4, <2>2, NothingSaid
  <2> HIDE DEF with
  <2>5. Cleanup!Said(with) = <<>>
    BY <1>3, <2>3, NothingSaid
  <2>. QED
    BY <1>3, <2>4, <2>5, Zenon DEF u, with
<1>7. CASE e.priority = 5
  <2>1. e.end = e.start + 1 /\ t[e.end] \in Cleanup!Lower /\ with = <<Cleanup!Capital[t[e.start + 1]]>>
    BY <1>1, <1>2, <1>7 DEF Founded, Instead
  <2> DEFINE c == t[e.end]
  <2>2. with = <<Cleanup!InCapitals(c)>> /\ c \in Cleanup!Letters /\ Cleanup!InCapitals(c) \in Cleanup!Letters
    BY <2>1, Characters DEF Cleanup!InCapitals
  <2>3. u = <<c>>
    <3>1. e.end - e.start = 1 /\ 1 \in 1..e.end - e.start
      BY <1>1, <2>1, TextMeans
    <3>2. Len(u) = 1
      BY <1>4, <3>1
    <3>3. u[1] = t[e.start + 1]
      BY <1>4, <3>1, Zenon
    <3>4. u[1] = c
      BY <2>1, <3>3
    <3>. QED
      BY <1>4, <3>2, <3>4, OneLong, Zenon DEF Text
  <2>4. c \in Cleanup!Characters
    BY <2>2, Characters
  <2>5. Cleanup!Said(u) = <<Cleanup!InCapitals(c)>>
    BY <2>2, <2>3, LetterSaid
  <2>6. Cleanup!Said(with) = <<Cleanup!InCapitals(Cleanup!InCapitals(c))>>
    BY <2>2, LetterSaid
  <2>7. Cleanup!InCapitals(Cleanup!InCapitals(c)) = Cleanup!InCapitals(c)
    BY <2>4, LettersInCapitals
  <2>. QED
    BY <1>3, <2>5, <2>6, <2>7 DEF u
<1>. QED
  BY <1>1, <1>5, <1>6, <1>7

-----------------------------------------------------------------------------
(***************************************************************************)
(* What the suggested text says.                                           *)
(***************************************************************************)

\* The part of t between the edits k - 1 and k.
Copied(t, s, k) == SubSeq(t, Cleanup!Cursor(s, k - 1) + 1, s[k].start)

LEMMA EditsInOrder ==
  ASSUME NEW t, Text(t), NEW s, Reported(t, s), NEW k \in 1..Len(s)
  PROVE  /\ s[k].start \in 0..Len(t) /\ s[k].end \in 0..Len(t) /\ s[k].start < s[k].end
         /\ Text(s[k].replacement)
         /\ Cleanup!Cursor(s, k) = s[k].end
         /\ Cleanup!Cursor(s, k - 1) \in 0..Len(t) /\ s[k].start \in Cleanup!Cursor(s, k - 1)..Len(t)
<1>1. Known(t, s[k]) /\ Len(s) \in Nat /\ Len(t) \in Nat
  BY TextMeans, LenProperties DEF Reported
<1>2. /\ s[k].start \in 0..Len(t) /\ s[k].end \in 0..Len(t) /\ s[k].start < s[k].end
      /\ Text(s[k].replacement)
  BY <1>1, KnownIsPlaced, PlaceFields DEF Text
<1>3. Cleanup!Cursor(s, k) = s[k].end
  BY DEF Cleanup!Cursor
<1>4. CASE k = 1
  <2>1. Cleanup!Cursor(s, k - 1) = 0
    BY <1>4 DEF Cleanup!Cursor
  <2>. QED
    BY <1>1, <1>2, <1>3, <2>1
<1>5. CASE k # 1
  <2>1. k - 1 \in 1..Len(s) /\ k - 1 < k /\ k - 1 # 0
    BY <1>1, <1>5
  <2>2. Cleanup!Cursor(s, k - 1) = s[k - 1].end
    BY <2>1 DEF Cleanup!Cursor
  <2>3. s[k - 1].end <= s[k].start
    BY <2>1 DEF Reported
  <2>4. s[k - 1].end \in 0..Len(t)
    BY <2>1, KnownIsPlaced, PlaceFields DEF Reported
  <2>. QED
    BY <1>1, <1>2, <1>3, <2>2, <2>3, <2>4
<1>. QED
  BY <1>4, <1>5

LEMMA LastCursor ==
  ASSUME NEW t, Text(t), NEW s, Reported(t, s)
  PROVE  Len(s) \in Nat /\ Cleanup!Cursor(s, Len(s)) \in 0..Len(t)
<1>1. Len(s) \in Nat /\ Len(t) \in Nat
  BY TextMeans, LenProperties DEF Reported
<1>2. CASE Len(s) = 0
  BY <1>1, <1>2 DEF Cleanup!Cursor
<1>3. CASE Len(s) # 0
  <2>1. Len(s) \in 1..Len(s)
    BY <1>1, <1>3
  <2>. QED
    BY <1>1, <2>1, EditsInOrder
<1>. QED
  BY <1>2, <1>3

\* h[k] is the suggested text as far as edit k.
Builds(t, s, h) ==
  /\ h \in [0..Len(s) -> Seq(Cleanup!Characters)] /\ h[0] = <<>>
  /\ \A k \in 1..Len(s) : h[k] = (h[k - 1] \o Copied(t, s, k)) \o s[k].replacement

LEMMA AppliedMeans ==
  ASSUME NEW t, Text(t), NEW s, Reported(t, s)
  PROVE  \E h : /\ Builds(t, s, h)
                /\ Cleanup!Applied(t, s)
                     = h[Len(s)] \o SubSeq(t, Cleanup!Cursor(s, Len(s)) + 1, Len(t))
<1> DEFINE C    == Seq(Cleanup!Characters)
           n    == Len(s)
           New(i, o) == o \o SubSeq(t, Cleanup!Cursor(s, i - 1) + 1, s[i].start) \o s[i].replacement
           step == [x \in (1..n) \X C |-> New(x[1], x[2])]
           Solves(f) == f = [k \in 0..n |-> IF k = 0 THEN <<>> ELSE New(k, f[k - 1])]
           h == CHOOSE f : Solves(f)
<1>0. n \in Nat /\ <<>> \in C
  BY LastCursor, EmptySeq
<1>1. Cleanup!Applied(t, s) = h[n] \o SubSeq(t, Cleanup!Cursor(s, n) + 1, Len(t))
  BY DEF Cleanup!Applied
<1>2. ASSUME NEW k \in 1..n, NEW o \in C
      PROVE  New(k, o) \in C
  <2> DEFINE p == SubSeq(t, Cleanup!Cursor(s, k - 1) + 1, s[k].start)
             q == s[k].replacement
  <2>1. p \in C /\ q \in C
    <3>1. /\ Cleanup!Cursor(s, k - 1) \in 0..Len(t) /\ s[k].start \in Cleanup!Cursor(s, k - 1)..Len(t)
          /\ Text(s[k].replacement)
      BY EditsInOrder
    <3>2. Text(p)
      BY <3>1, Cutout
    <3>. QED
      BY <3>1, <3>2 DEF Text
  <2> HIDE DEF p, q
  <2>2. (o \o p) \o q \in C
    BY <2>1, ConcatProperties
  <2>. QED
    BY <2>2 DEF p, q
<1>3. step \in [(1..n) \X C -> C]
  <2> SUFFICES ASSUME NEW x \in (1..n) \X C PROVE New(x[1], x[2]) \in C
    OBVIOUS
  <2>1. x[1] \in 1..n /\ x[2] \in C
    OBVIOUS
  <2> HIDE DEF New
  <2>. QED
    BY <1>2, <2>1
<1> HIDE DEF New
<1>4. PICK g \in [0..n -> C] : \A k \in 0..n : g[k] = IF k = 0 THEN <<>> ELSE step[<<k, g[k - 1]>>]
  <2> HIDE DEF step, C, n
  <2>1. HasSolution(n, C, <<>>, step)
    BY <1>0, <1>3, RecursionHasSolution
  <2>. QED
    BY <2>1 DEF HasSolution
<1>5. ASSUME NEW k \in 0..n
      PROVE  g[k] = IF k = 0 THEN <<>> ELSE New(k, g[k - 1])
  <2>1. k # 0 => k \in 1..n /\ k - 1 \in 0..n
    BY <1>0
  <2>2. k # 0 => g[k - 1] \in C
    BY <1>4, <2>1
  <2>3. k # 0 => step[<<k, g[k - 1]>>] = New(k, g[k - 1])
    BY <2>1, <2>2
  <2> HIDE DEF step
  <2>. QED
    BY <1>4, <2>3
<1>6. Solves(g)
  <2> HIDE DEF step
  <2>. QED
    BY <1>4, <1>5, Zenon
<1>7. Solves(h)
  BY <1>6
<1> HIDE DEF h, step
<1>8. \A k \in 0..n : k \in {i \in 0..n : h[i] \in C}
  <2> DEFINE T == {i \in 0..n : h[i] \in C}
  <2>1. 0 \in T
    <3>1. 0 \in 0..n
      BY <1>0
    <3>2. h[0] = <<>>
      BY <1>7, <3>1
    <3>. QED
      BY <1>0, <3>1, <3>2
  <2>2. ASSUME NEW i \in 1..n, i - 1 \in T
        PROVE  i \in T
    <3>1. i \in 0..n /\ i # 0 /\ h[i - 1] \in C
      BY <1>0, <2>2
    <3>2. h[i] = New(i, h[i - 1])
      BY <1>7, <3>1
    <3> HIDE DEF C
    <3>3. h[i] \in C
      BY <1>2, <3>1, <3>2
    <3>. QED
      BY <3>1, <3>3
  <2> HIDE DEF T
  <2>3. \A k \in 0..n : k \in T
    BY <1>0, <2>1, <2>2, NumberInduction
  <2>. QED
    BY <2>3 DEF T
<1>9. Builds(t, s, h)
  <2>1. \A k \in 0..n : h[k] = IF k = 0 THEN <<>> ELSE New(k, h[k - 1])
    BY <1>7
  <2>2. DOMAIN h = 0..n /\ h = [k \in 0..n |-> h[k]]
    BY <1>7
  <2>3. h \in [0..n -> C]
    BY <1>8, <2>2
  <2>4. h[0] = <<>>
    <3>1. 0 \in 0..n
      BY <1>0
    <3>. QED
      BY <2>1, <3>1, Zenon
  <2>5. ASSUME NEW k \in 1..n
        PROVE  h[k] = (h[k - 1] \o Copied(t, s, k)) \o s[k].replacement
    <3>1. k \in 0..n /\ k # 0
      BY <1>0
    <3>. QED
      BY <2>1, <3>1 DEF New, Copied
  <2>. QED
    BY <2>3, <2>4, <2>5 DEF Builds
<1>. QED
  BY <1>1, <1>9

\* The places of t that no repeated word was removed from.
Kept(t, s) ==
  {i \in 1..Len(t) :
     \A k \in 1..Len(s) : s[k].priority = 1 => ~ (s[k].start < i /\ i <= s[k].end)}

\* Between two edits everything is kept, and of an edit that removes no word too.
LEMMA KeptBetween ==
  ASSUME NEW t, Text(t), NEW s, Reported(t, s), NEW k \in 1..Len(s)
  PROVE  /\ Cleanup!Cursor(s, k - 1) + 1..s[k].start \subseteq Kept(t, s)
         /\ s[k].priority # 1 => s[k].start + 1..s[k].end \subseteq Kept(t, s)
         /\ s[k].priority = 1 => \A i \in s[k].start + 1..s[k].end : i \notin Kept(t, s)
<1>0. Len(s) \in Nat /\ Len(t) \in Nat
  BY LastCursor, TextMeans
<1>1. /\ s[k].start \in 0..Len(t) /\ s[k].end \in 0..Len(t) /\ s[k].start < s[k].end
      /\ Cleanup!Cursor(s, k - 1) \in 0..Len(t) /\ s[k].start \in Cleanup!Cursor(s, k - 1)..Len(t)
  BY EditsInOrder
<1>2. ASSUME NEW m \in 1..Len(s)
      PROVE  /\ m < k => s[m].end <= Cleanup!Cursor(s, k - 1)
             /\ k < m => s[k].end <= s[m].start
             /\ s[m].start \in 0..Len(t) /\ s[m].end \in 0..Len(t) /\ s[m].start < s[m].end
  <2>1. s[m].start \in 0..Len(t) /\ s[m].end \in 0..Len(t) /\ s[m].start < s[m].end
    BY EditsInOrder
  <2>2. k < m => s[k].end <= s[m].start
    BY DEF Reported
  <2>3. ASSUME m < k
        PROVE  s[m].end <= Cleanup!Cursor(s, k - 1)
    <3>1. k - 1 \in 1..Len(s) /\ k - 1 # 0
      BY <1>0, <2>3
    <3>2. Cleanup!Cursor(s, k - 1) = s[k - 1].end
      BY <3>1 DEF Cleanup!Cursor
    <3>3. CASE m = k - 1
      BY <2>1, <3>2, <3>3
    <3>4. CASE m < k - 1
      <4>1. s[m].end <= s[k - 1].start
        BY <3>1, <3>4 DEF Reported
      <4>2. s[k - 1].start < s[k - 1].end /\ s[k - 1].start \in 0..Len(t) /\ s[k - 1].end \in 0..Len(t)
        BY <3>1, EditsInOrder
      <4>. QED
        BY <2>1, <3>2, <4>1, <4>2
    <3>. QED
      BY <1>0, <2>3, <3>3, <3>4
  <2>. QED
    BY <2>1, <2>2, <2>3
<1>3. ASSUME NEW i \in Cleanup!Cursor(s, k - 1) + 1..s[k].start
      PROVE  i \in Kept(t, s)
  <2>1. i \in 1..Len(t)
    BY <1>0, <1>1
  <2>2. ASSUME NEW m \in 1..Len(s)
        PROVE  ~ (s[m].start < i /\ i <= s[m].end)
    <3>1. s[m].start \in 0..Len(t) /\ s[m].end \in 0..Len(t)
      BY <1>2
    <3>2. CASE m < k
      <4>1. s[m].end <= Cleanup!Cursor(s, k - 1)
        BY <1>2, <3>2
      <4>. QED
        BY <1>0, <1>1, <3>1, <4>1
    <3>3. CASE m >= k
      <4>1. s[k].start <= s[m].start
        BY <1>0, <1>1, <1>2, <3>3
      <4>. QED
        BY <1>0, <1>1, <3>1, <4>1
    <3>. QED
      BY <1>0, <3>2, <3>3
  <2>. QED
    BY <2>1, <2>2 DEF Kept
<1>4. ASSUME NEW i \in s[k].start + 1..s[k].end, s[k].priority # 1
      PROVE  i \in Kept(t, s)
  <2>1. i \in 1..Len(t)
    BY <1>0, <1>1
  <2>2. ASSUME NEW m \in 1..Len(s), s[m].priority = 1
        PROVE  ~ (s[m].start < i /\ i <= s[m].end)
    <3>1. m # k
      BY <1>4, <2>2
    <3>. QED
      BY <1>0, <1>1, <1>2, <1>4, <3>1
  <2>. QED
    BY <2>1, <2>2 DEF Kept
<1>5. ASSUME NEW i \in s[k].start + 1..s[k].end, s[k].priority = 1
      PROVE  i \notin Kept(t, s)
  BY <1>0, <1>1, <1>5 DEF Kept
<1>. QED
  BY <1>3, <1>4, <1>5

\* After the last edit too.
LEMMA KeptAfter ==
  ASSUME NEW t, Text(t), NEW s, Reported(t, s)
  PROVE  Cleanup!Cursor(s, Len(s)) + 1..Len(t) \subseteq Kept(t, s)
<1>0. Len(s) \in Nat /\ Len(t) \in Nat /\ Cleanup!Cursor(s, Len(s)) \in 0..Len(t)
  BY LastCursor, TextMeans
<1>1. ASSUME NEW i \in Cleanup!Cursor(s, Len(s)) + 1..Len(t), NEW m \in 1..Len(s)
      PROVE  ~ (s[m].start < i /\ i <= s[m].end)
  <2>1. Len(s) \in 1..Len(s) /\ Len(s) # 0
    BY <1>0
  <2>2. Cleanup!Cursor(s, Len(s)) = s[Len(s)].end
    BY <2>1 DEF Cleanup!Cursor
  <2>3. s[m].end \in 0..Len(t)
    BY EditsInOrder
  <2>4. CASE m = Len(s)
    BY <1>0, <2>2, <2>3, <2>4
  <2>5. CASE m < Len(s)
    <3>1. s[m].end <= s[Len(s)].start
      BY <2>1, <2>5 DEF Reported
    <3>2. s[Len(s)].start < s[Len(s)].end /\ s[Len(s)].start \in 0..Len(t) /\ s[Len(s)].end \in 0..Len(t)
      BY <2>1, EditsInOrder
    <3>. QED
      BY <1>0, <2>2, <2>3, <3>1, <3>2
  <2>. QED
    BY <1>0, <2>4, <2>5
<1>2. ASSUME NEW i \in Cleanup!Cursor(s, Len(s)) + 1..Len(t)
      PROVE  i \in Kept(t, s)
  <2>1. i \in 1..Len(t)
    BY <1>0
  <2>. QED
    BY <1>1, <2>1 DEF Kept
<1>. QED
  BY <1>2

\* The suggested text says what the text says without its repeated words.
LEMMA AppliedSays ==
  ASSUME NEW t, Text(t), NEW s, Reported(t, s), NEW g, Spoken(t, Kept(t, s), g)
  PROVE  Text(Cleanup!Applied(t, s)) /\ Cleanup!Said(Cleanup!Applied(t, s)) = g[Len(t)]
<1> DEFINE n == Len(s)
           c(k) == Cleanup!Cursor(s, k)
           K    == Kept(t, s)
<1>0. n \in Nat /\ Len(t) \in Nat /\ c(n) \in 0..Len(t) /\ Len(t) \in c(n)..Len(t)
  BY LastCursor, TextMeans
<1>10. Spoken(t, K, g)
  OBVIOUS
<1> HIDE DEF K
<1>1. PICK h : /\ Builds(t, s, h)
               /\ Cleanup!Applied(t, s) = h[n] \o SubSeq(t, Cleanup!Cursor(s, n) + 1, Len(t))
  BY AppliedMeans
<1> DEFINE W == {k \in 0..n : Text(h[k]) /\ Cleanup!Said(h[k]) = g[c(k)]}
<1>2. 0 \in W
  <2>1. h[0] = <<>> /\ c(0) = 0 /\ g[0] = <<>>
    BY <1>1, <1>10 DEF Builds, Cleanup!Cursor, Spoken
  <2>2. Text(<<>>) /\ Len(<<>>) = 0
    BY EmptySeq DEF Text
  <2>3. Cleanup!Said(<<>>) = <<>>
    <3>1. \A k \in 1..Len(<<>>) : <<>>[k] \notin Cleanup!Letters
      BY <2>2
    <3>. QED
      BY <2>2, <3>1, NothingSaid
  <2>4. 0 \in 0..n
    BY <1>0
  <2> HIDE DEF c
  <2>. QED
    BY <2>1, <2>2, <2>3, <2>4
<1>3. ASSUME NEW k \in 1..n, k - 1 \in W
      PROVE  k \in W
  <2> DEFINE i == c(k - 1)
             p == s[k].start
             q == s[k].end
             a == h[k - 1]
             b == Copied(t, s, k)
             r == s[k].replacement
  <2>1. /\ p \in 0..Len(t) /\ q \in 0..Len(t) /\ p < q /\ Text(r)
        /\ c(k) = q /\ i \in 0..Len(t) /\ p \in i..Len(t)
    BY EditsInOrder
  <2>2. k \in 0..n /\ h[k] = (a \o b) \o r /\ Text(a) /\ Cleanup!Said(a) = g[i]
    <3>1. k \in 0..n
      BY <1>0
    <3>2. h[k] = (a \o b) \o r
      BY <1>1 DEF Builds
    <3>3. Text(a) /\ Cleanup!Said(a) = g[i]
      BY <1>3
    <3>. QED
      BY <3>1, <3>2, <3>3
  <2>3. b = SubSeq(t, i + 1, p)
    BY DEF Copied
  <2>4. i + 1..p \subseteq K
    BY KeptBetween DEF K
  <2>5. Known(t, s[k])
    BY DEF Reported
  <2> HIDE DEF i, p, a, b, c
  <2>6. Text(b)
    BY <2>1, <2>3, Cutout
  <2>7. g[p] = g[i] \o Cleanup!Said(b)
    <3>1. i \in 0..Len(t) /\ p \in i..Len(t) /\ i + 1..p \subseteq K /\ Spoken(t, K, g)
      BY <1>10, <2>1, <2>4
    <3>2. g[p] = g[i] \o Says(t, i, p)
      BY <3>1, SpokenGoesOn
    <3>. QED
      BY <2>3, <3>2, Zenon DEF Says
  <2>8. Text(a \o b) /\ Cleanup!Said(a \o b) = g[p]
    <3>1. Text(a \o b) /\ Cleanup!Said(a \o b) = Cleanup!Said(a) \o Cleanup!Said(b)
      BY <2>2, <2>6, SaidJoins
    <3>. QED
      BY <2>2, <2>7, <3>1, Zenon
  <2>9. g[q] = g[p] \o Cleanup!Said(r)
    <3>1. q \in p..Len(t)
      BY <2>1
    <3>2. CASE s[k].priority = 1
      <4>1. \A m \in p + 1..q : m \notin K
        BY <3>2, KeptBetween DEF p, K
      <4> HIDE DEF q
      <4>2. g[q] = g[p]
        BY <1>10, <2>1, <3>1, <4>1, SpokenPauses
      <4>3. r = <<>>
        <5>1. Shaped(t, s[k], s[k].start, s[k].end, s[k].priority)
          BY <2>5 DEF Known
        <5>2. r = Instead(t, s[k].priority, s[k].start)
          BY <5>1 DEF Shaped
        <5>. QED
          BY <3>2, <5>2 DEF Instead
      <4>4. Cleanup!Said(<<>>) = <<>>
        <5>1. Text(<<>>) /\ \A m \in 1..Len(<<>>) : <<>>[m] \notin Cleanup!Letters
          BY EmptySeq DEF Text
        <5>. QED
          BY <5>1, NothingSaid
      <4>5. g[p] \in Seq(Cleanup!Upper)
        BY <2>1 DEF Spoken
      <4>6. g[p] \o <<>> = g[p]
        BY <4>5, Joined
      <4> HIDE DEF r
      <4>. QED
        BY <4>2, <4>3, <4>4, <4>6, Zenon
    <3>3. CASE s[k].priority # 1
      <4>1. p + 1..q \subseteq K
        BY <3>3, KeptBetween DEF p, K
      <4>2. Cleanup!Said(Cleanup!Within(t, s[k])) = Cleanup!Said(r)
        BY <2>5, <3>3, EditSaysTheSame
      <4>3. Cleanup!Within(t, s[k]) = SubSeq(t, p + 1, q)
        BY DEF p, Cleanup!Within
      <4> HIDE DEF q
      <4>4. g[q] = g[p] \o Says(t, p, q)
        <5>1. p \in 0..Len(t) /\ q \in p..Len(t) /\ p + 1..q \subseteq K /\ Spoken(t, K, g)
          BY <1>10, <2>1, <3>1, <4>1
        <5>. QED
          BY <5>1, SpokenGoesOn
      <4>. QED
        BY <4>2, <4>3, <4>4, Zenon DEF Says
    <3>. QED
      BY <3>2, <3>3
  <2> HIDE DEF q, r
  <2>10. Text((a \o b) \o r) /\ Cleanup!Said((a \o b) \o r) = Cleanup!Said(a \o b) \o Cleanup!Said(r)
    <3> DEFINE ab == a \o b
    <3>1. Text(ab)
      BY <2>8
    <3> HIDE DEF ab
    <3>2. Text(ab \o r) /\ Cleanup!Said(ab \o r) = Cleanup!Said(ab) \o Cleanup!Said(r)
      BY <2>1, <3>1, SaidJoins
    <3>. QED
      BY <3>2 DEF ab
  <2>11. Text(h[k]) /\ Cleanup!Said(h[k]) = g[c(k)]
    BY <2>1, <2>2, <2>8, <2>9, <2>10, Zenon
  <2>. QED
    BY <2>2, <2>11
<1>4. n \in W
  <2> HIDE DEF W
  <2>1. \A k \in 0..n : k \in W
    BY <1>0, <1>2, <1>3, NumberInduction
  <2>. QED
    BY <1>0, <2>1
<1> DEFINE z == SubSeq(t, c(n) + 1, Len(t))
           y == h[n]
           j == c(n)
<1>5. Text(y) /\ Cleanup!Said(y) = g[j]
  BY <1>4
<1>6. Text(z) /\ g[Len(t)] = g[j] \o Cleanup!Said(z)
  <2>1. j + 1..Len(t) \subseteq K
    BY KeptAfter DEF K
  <2>2. z = SubSeq(t, j + 1, Len(t))
    OBVIOUS
  <2>3. j \in 0..Len(t) /\ Len(t) \in j..Len(t)
    BY <1>0
  <2> HIDE DEF j, z
  <2>4. Text(z)
    BY <2>2, <2>3, Cutout
  <2>5. g[Len(t)] = g[j] \o Cleanup!Said(z)
    <3>1. g[Len(t)] = g[j] \o Says(t, j, Len(t))
      BY <1>10, <2>1, <2>3, SpokenGoesOn
    <3>. QED
      BY <2>2, <3>1, Zenon DEF Says
  <2>. QED
    BY <2>4, <2>5
<1>7. Cleanup!Applied(t, s) = y \o z
  BY <1>1
<1> HIDE DEF y, z, j
<1>8. Text(y \o z) /\ Cleanup!Said(y \o z) = Cleanup!Said(y) \o Cleanup!Said(z)
  BY <1>5, <1>6, SaidJoins
<1>. QED
  BY <1>5, <1>6, <1>7, <1>8, Zenon

-----------------------------------------------------------------------------
\* Tokens with a character in common are the same.
LEMMA TokensAreApart ==
  ASSUME NEW t, Text(t), NEW a \in Cleanup!TokenSpans(t), NEW b \in Cleanup!TokenSpans(t),
         NEW i, i \in a.start + 1..a.end, i \in b.start + 1..b.end
  PROVE  a.start = b.start /\ a.end = b.end
<1>1. Token(t, a) /\ Token(t, b) /\ Len(t) \in Nat
  BY TokenMeans, TextMeans
<1>2. /\ a.start \in 0..Len(t) /\ a.end \in 0..Len(t) /\ b.start \in 0..Len(t) /\ b.end \in 0..Len(t)
      /\ i \in Nat
  BY <1>1 DEF Token, Part
<1>3. ~ (a.start < b.start) /\ ~ (b.start < a.start)
  <2>1. a.start < b.start => b.start # 0 /\ b.start \in a.start + 1..a.end
    BY <1>2
  <2>2. b.start < a.start => a.start # 0 /\ a.start \in b.start + 1..b.end
    BY <1>2
  <2>. QED
    BY <1>1, <2>1, <2>2 DEF Token
<1>4. ~ (a.end < b.end) /\ ~ (b.end < a.end)
  <2>1. a.end < b.end => a.end # Len(t) /\ a.end + 1 \in b.start + 1..b.end
    BY <1>2
  <2>2. b.end < a.end => b.end # Len(t) /\ b.end + 1 \in a.start + 1..a.end
    BY <1>2
  <2>. QED
    BY <1>1, <2>1, <2>2 DEF Token
<1>. QED
  BY <1>2, <1>3, <1>4

\* A repeated word is removed only after its like.
LEMMA RepeatedAfter ==
  ASSUME NEW t, Text(t), NEW s, Reported(t, s), NEW b \in Cleanup!TokenSpans(t),
         NEW i \in b.start + 1..b.end, i \notin Kept(t, s)
  PROVE  \E a \in Cleanup!TokenSpans(t) :
           /\ a.start < b.start
           /\ Cleanup!Said(Cleanup!Within(t, a)) = Cleanup!Said(Cleanup!Within(t, b))
<1>1. Token(t, b) /\ Len(t) \in Nat
  BY TokenMeans, TextMeans
<1>2. i \in 1..Len(t)
  BY <1>1 DEF Token, Part
<1>3. PICK k \in 1..Len(s) : s[k].priority = 1 /\ s[k].start < i /\ i <= s[k].end
  BY <1>2 DEF Kept
<1>4. Known(t, s[k])
  BY DEF Reported
<1>5. PICK a \in Cleanup!TokenSpans(t), c \in Cleanup!TokenSpans(t) : Repeats(t, s[k], a, c)
  BY <1>3, <1>4 DEF Known, Founded
<1> DEFINE w == Cleanup!Word(t, c)
<1>6. /\ Cleanup!HasWord(t, a) /\ Cleanup!HasWord(t, c)
      /\ s[k].start = a.end /\ a.end < c.start /\ s[k].end = w.end
      /\ \A m \in a.end + 1..c.start : t[m] \in Cleanup!Horizontal
      /\ Cleanup!IgnoreCase(Cleanup!Within(t, Cleanup!Word(t, a)))
           = Cleanup!IgnoreCase(Cleanup!Within(t, w))
  BY <1>5 DEF Repeats
<1>7. w.start < w.end /\ w.end <= c.end /\ w.start \in 0..Len(t) /\ w.end \in 0..Len(t)
  BY <1>6, WordMeans
<1>8. Token(t, a) /\ Token(t, c)
  BY TokenMeans
<1>9. i \in c.start + 1..c.end
  <2>1. i \notin a.end + 1..c.start
    <3>1. t[i] \notin Cleanup!Blank
      BY <1>1 DEF Token
    <3>. QED
      BY <1>6, <3>1, Characters
  <2>2. a.end \in Int /\ c.start \in Int /\ c.end \in Int /\ w.end \in Int /\ i \in Int
    BY <1>1, <1>2, <1>7, <1>8 DEF Token, Part
  <2>3. a.end < i /\ i <= w.end
    BY <1>3, <1>6
  <2> HIDE DEF w
  <2>4. ~ (i <= c.start)
    BY <2>1, <2>2, <2>3
  <2>. QED
    BY <1>7, <2>2, <2>3, <2>4
<1>10. b.start = c.start /\ b.end = c.end
  BY <1>9, TokensAreApart
<1>11. Cleanup!Said(Cleanup!Within(t, a)) = Cleanup!Said(Cleanup!Within(t, c))
  <2> DEFINE v == Cleanup!Word(t, a)
  <2>1. v.start < v.end /\ v.start \in 0..Len(t) /\ v.end \in 0..Len(t)
    BY <1>6, WordMeans
  <2>2. Cleanup!Said(Cleanup!Within(t, v)) = Cleanup!Said(Cleanup!Within(t, a))
        /\ Cleanup!Said(Cleanup!Within(t, w)) = Cleanup!Said(Cleanup!Within(t, c))
    BY <1>6, WordSaid
  <2>3. Cleanup!IgnoreCase(Cleanup!Within(t, v)) = Cleanup!IgnoreCase(Cleanup!Within(t, w))
    BY <1>6
  <2> HIDE DEF v, w
  <2>4. v.start <= v.end /\ w.start <= w.end
    BY <1>1, <1>7, <2>1
  <2>5. Text(Cleanup!Within(t, v)) /\ Text(Cleanup!Within(t, w))
    BY <1>7, <2>1, <2>4, WithinIsText
  <2>. QED
    BY <2>2, <2>3, <2>5, SaidInAnyCase
<1>12. Cleanup!Within(t, b) = Cleanup!Within(t, c)
  BY <1>10 DEF Cleanup!Within
<1>13. a.start < b.start
  BY <1>1, <1>6, <1>8, <1>10 DEF Token, Part
<1>. QED
  BY <1>11, <1>12, <1>13

LEMMA PartOfWhole ==
  ASSUME NEW U, NEW all \in Seq(U), NEW y \in Seq(U), NEW i \in Nat, i + Len(y) <= Len(all),
         \A k \in 1..Len(y) : all[i + k] = y[k]
  PROVE  SubSeq(all, i + 1, i + Len(y)) = y
<1> DEFINE m  == Len(y)
           lo == i + 1
           hi == i + m
           u  == SubSeq(all, lo, hi)
<1>1. m \in Nat /\ Len(all) \in Nat
  BY LenProperties
<1>2. lo \in Int /\ hi \in Int /\ \A k \in lo..hi : all[k] \in U
  <2>1. \A k \in lo..hi : k \in 1..Len(all)
    BY <1>1
  <2>. QED
    BY <1>1, <2>1, ElementOfSeq
<1>3. u \in Seq(U) /\ Len(u) = m /\ \A k \in 1..m : u[k] = all[i + k]
  <2> HIDE DEF lo, hi
  <2>1. /\ SubSeq(all, lo, hi) \in Seq(U)
        /\ Len(SubSeq(all, lo, hi)) = IF lo <= hi THEN hi - lo + 1 ELSE 0
        /\ \A k \in 1..hi - lo + 1 : SubSeq(all, lo, hi)[k] = all[lo + k - 1]
    BY <1>2, SubSeqProperties
  <2>2. lo = i + 1 /\ hi = i + m
    BY DEF lo, hi
  <2> HIDE DEF u, m
  <2>3. Len(u) = m
    BY <1>1, <2>1, <2>2 DEF u
  <2>4. ASSUME NEW k \in 1..m
        PROVE  u[k] = all[i + k]
    <3>1. k \in 1..hi - lo + 1 /\ lo + k - 1 = i + k
      BY <1>1, <2>2
    <3>. QED
      BY <2>1, <3>1 DEF u
  <2>. QED
    BY <2>1, <2>3, <2>4 DEF u
<1> HIDE DEF u, lo, hi
<1>4. u = y
  BY <1>3, SeqEqual
<1>. QED
  BY <1>4 DEF u, lo, hi

LEMMA MiddlePart ==
  ASSUME NEW U, NEW x \in Seq(U), NEW y \in Seq(U), NEW z \in Seq(U),
         NEW xy, xy = x \o y, NEW all, all = xy \o z
  PROVE  /\ Len(x) \in 0..Len(all) - Len(y)
         /\ SubSeq(all, Len(x) + 1, Len(x) + Len(y)) = y
<1> DEFINE i == Len(x)
           m == Len(y)
<1>1. i \in Nat /\ m \in Nat /\ Len(z) \in Nat
  BY LenProperties
<1>2. /\ all \in Seq(U) /\ Len(all) = (i + m) + Len(z)
      /\ \A k \in 1..m : all[i + k] = y[k]
  <2>1. xy \in Seq(U) /\ Len(xy) = i + m /\ \A k \in 1..m : xy[i + k] = y[k]
    <3>1. xy \in Seq(U) /\ Len(xy) = i + m
      BY ConcatProperties
    <3>2. \A k \in 1..i + m : xy[k] = IF k <= i THEN x[k] ELSE y[k - i]
      BY ConcatProperties
    <3>3. \A k \in 1..m : i + k \in 1..i + m /\ ~ (i + k <= i) /\ (i + k) - i = k
      BY <1>1
    <3> HIDE DEF i, m
    <3>. QED
      BY <3>1, <3>2, <3>3
  <2> HIDE DEF i, m
  <2>2. /\ xy \o z \in Seq(U) /\ Len(xy \o z) = Len(xy) + Len(z)
        /\ \A k \in 1..Len(xy) + Len(z) : (xy \o z)[k] = IF k <= Len(xy) THEN xy[k] ELSE z[k - Len(xy)]
    BY <2>1, ConcatProperties
  <2>3. \A k \in 1..m : i + k \in 1..(i + m) + Len(z) /\ i + k <= i + m
    BY <1>1
  <2>5. \A k \in 1..m : all[i + k] = xy[i + k]
    BY <2>1, <2>2, <2>3
  <2>. QED
    BY <2>1, <2>2, <2>5
<1> HIDE DEF i
<1>3. i \in 0..Len(all) - m /\ i + m <= Len(all)
  BY <1>1, <1>2
<1>4. SubSeq(all, i + 1, i + m) = y
  BY <1>1, <1>2, <1>3, PartOfWhole, Zenon
<1>. QED
  BY <1>3, <1>4 DEF i

\* What a token says is still said, in one piece.
LEMMA TokensSurvive ==
  ASSUME NEW t, Text(t), NEW s, Reported(t, s), NEW token \in Cleanup!TokenSpans(t)
  PROVE  LET word == Cleanup!Said(Cleanup!Within(t, token))
             all  == Cleanup!Said(Cleanup!Applied(t, s))
         IN \E i \in 0..Len(all) - Len(word) : SubSeq(all, i + 1, i + Len(word)) = word
<1> DEFINE word  == Cleanup!Said(Cleanup!Within(t, token))
           all   == Cleanup!Said(Cleanup!Applied(t, s))
           Alike == {b \in Cleanup!TokenSpans(t) : Cleanup!Said(Cleanup!Within(t, b)) = word}
           Starts == {b.start : b \in Alike}
           n == Len(t)
<1>0. n \in Nat
  BY TextMeans
<1>1. \A b \in Cleanup!TokenSpans(t) : b.start \in 0..n /\ b.end \in 0..n /\ b.start < b.end
  BY TokenMeans DEF Token, Part
<1>2. Starts \subseteq Nat /\ Starts # {}
  BY <1>0, <1>1
<1>3. PICK m \in Starts : \A x \in Starts : m <= x
  <2> HIDE DEF Starts
  <2>. QED
    BY <1>2, LeastNumber
<1>4. PICK b \in Alike : b.start = m
  BY <1>3
<1>5. /\ b \in Cleanup!TokenSpans(t) /\ Cleanup!Said(Cleanup!Within(t, b)) = word
      /\ b.start \in 0..n /\ b.end \in 0..n /\ b.start < b.end
  BY <1>1, <1>4
<1>6. ASSUME NEW i \in b.start + 1..b.end
      PROVE  i \in Kept(t, s)
  <2> SUFFICES ASSUME i \notin Kept(t, s) PROVE FALSE
    OBVIOUS
  <2> HIDE DEF word, n
  <2>1. PICK a \in Cleanup!TokenSpans(t) :
          /\ a.start < b.start
          /\ Cleanup!Said(Cleanup!Within(t, a)) = Cleanup!Said(Cleanup!Within(t, b))
    BY <1>5, <1>6, RepeatedAfter
  <2>2. a \in Alike
    BY <1>5, <2>1
  <2>3. a.start \in Starts
    BY <2>2
  <2>4. b.start <= a.start
    BY <1>3, <1>4, <2>3
  <2>. QED
    BY <1>0, <1>1, <1>5, <2>1, <2>4
<1>7. PICK g : Spoken(t, Kept(t, s), g)
  BY SpokenExists
<1>8. all = g[n]
  BY <1>7, AppliedSays
<1> DEFINE p == b.start
           q == b.end
<1>9. p \in 0..n /\ q \in p..n /\ q \in 0..n /\ p + 1..q \subseteq Kept(t, s)
  BY <1>0, <1>5, <1>6
<1>10. Cleanup!Said(SubSeq(t, p + 1, q)) = word
  BY <1>5 DEF Cleanup!Within
<1> HIDE DEF p, q, word, all, Starts, Alike
<1>11. g[q] = g[p] \o word
  <2> DEFINE K == Kept(t, s)
  <2>0. p \in 0..Len(t) /\ q \in p..Len(t) /\ p + 1..q \subseteq K /\ Spoken(t, K, g)
    BY <1>7, <1>9
  <2> HIDE DEF K
  <2>1. g[q] = g[p] \o Says(t, p, q)
    BY <2>0, SpokenGoesOn
  <2>. QED
    BY <1>10, <2>1, Zenon DEF Says
<1>12. PICK z \in Seq(Cleanup!Upper) : g[n] = g[q] \o z
  <2>1. \E z \in Seq(Cleanup!Upper) : g[n] = Follow(g[q], z)
    BY <1>7, <1>9, SpokenStays
  <2>. QED
    BY <2>1, Zenon DEF Follow
<1>13. g[p] \in Seq(Cleanup!Upper) /\ word \in Seq(Cleanup!Upper)
  <2>1. g[p] \in Seq(Cleanup!Upper)
    BY <1>7, <1>9 DEF Spoken
  <2>2. Text(SubSeq(t, p + 1, q))
    BY <1>9, Cutout
  <2>. QED
    BY <1>10, <2>1, <2>2, SaidIsSpoken
<1> DEFINE x  == g[p]
           xy == g[q]
<1>14. x \in Seq(Cleanup!Upper) /\ xy = x \o word /\ all = xy \o z
  BY <1>8, <1>11, <1>12, <1>13, Zenon
<1> HIDE DEF x, xy
<1>15. \E i \in 0..Len(all) - Len(word) : SubSeq(all, i + 1, i + Len(word)) = word
  <2>1. word \in Seq(Cleanup!Upper) /\ z \in Seq(Cleanup!Upper)
    BY <1>12, <1>13
  <2>2. x \in Seq(Cleanup!Upper) /\ xy = x \o word /\ all = xy \o z
    BY <1>14
  <2>. QED
    <3> DEFINE i == Len(x)
    <3>1. i \in 0..Len(all) - Len(word)
      BY <2>1, <2>2, MiddlePart
    <3>2. SubSeq(all, i + 1, i + Len(word)) = word
      BY <2>1, <2>2, MiddlePart
    <3> HIDE DEF i
    <3>. QED
      BY <3>1, <3>2
<1>. QED
  BY <1>15 DEF word, all

TextInv == Text(text) /\ report \in {Cleanup!NoReport, Cleanup!Report(text)}

LEMMA TextsAreTexts == ASSUME NEW t \in Cleanup!Texts PROVE Text(t)
<1>1. MaxLength \in Nat /\ Alphabet \subseteq Cleanup!Characters
  BY TextAssumption DEF TextAssumption, Cleanup!CleanupAssumption
<1>2. PICK n \in 0..MaxLength : t \in [1..n -> Alphabet]
  BY DEF Cleanup!Texts
<1>3. n \in Nat /\ t \in [1..n -> Cleanup!Characters]
  BY <1>1, <1>2
<1>. QED
  BY <1>3 DEF Text

\* What a report promises, of a text of any length.
LEMMA ReportIsSafe ==
  ASSUME Text(text), report = Cleanup!Report(text)
  PROVE  CleanupIsSafe
<1> DEFINE s == EditsFor(text)
<1>1. /\ report.edits = s /\ Cleanup!Applicable(text, s)
      /\ report.suggested = Cleanup!Applied(text, s)
  BY ReportMeans
<1>2. Reported(text, s)
  BY EditsAreReported
<1> HIDE DEF s
<1>3. Cleanup!EditsApply
  BY <1>1 DEF Cleanup!EditsApply
<1>4. ASSUME NEW e \in Cleanup!Edits
      PROVE  /\ Known(text, e)
             /\ \A i \in 1..Len(Cleanup!Within(text, e)) :
                  \E k \in e.start + 1..e.end : Cleanup!Within(text, e)[i] = text[k]
  <2>1. DOMAIN s = 1..Len(s)
    BY <1>2, LenProperties DEF Reported
  <2>2. \E i \in DOMAIN s : e = s[i]
    BY <1>1 DEF Cleanup!Edits, Cleanup!ToSet
  <2>3. Known(text, e)
    BY <1>2, <2>1, <2>2 DEF Reported
  <2>4. Part(Len(text), e)
    BY <2>3 DEF Known
  <2>. QED
    BY <2>3, <2>4, WithinMeans
<1>5. Cleanup!NewlinesArePreserved
  <2> SUFFICES ASSUME NEW e \in Cleanup!Edits PROVE ~ Cleanup!Contains(Cleanup!Within(text, e), "nl")
    BY DEF Cleanup!NewlinesArePreserved
  <2>1. \A i \in e.start + 1..e.end : text[i] # "nl"
    BY <1>4, KnownIsHarmless
  <2>. QED
    BY <1>4, <2>1 DEF Cleanup!Contains
<1>6. Cleanup!SafeEditsOnlyRemoveBlanks
  <2> SUFFICES ASSUME NEW e \in Cleanup!Edits, e.safe
               PROVE  /\ e.replacement = <<>>
                      /\ \A c \in Cleanup!ToSet(Cleanup!Within(text, e)) : c \in Cleanup!Horizontal
    BY Zenon DEF Cleanup!SafeEditsOnlyRemoveBlanks
  <2>1. Known(text, e)
    BY <1>4
  <2>2. e.replacement = <<>> /\ \A i \in e.start + 1..e.end : text[i] \in Cleanup!Horizontal
    BY <2>1, KnownIsHarmless, Zenon
  <2> DEFINE u == Cleanup!Within(text, e)
  <2>3. DOMAIN u = 1..Len(u)
    <3>1. e.start \in 0..Len(text) /\ e.end \in 0..Len(text) /\ e.start <= e.end
      BY <2>1, TextMeans DEF Known, Part
    <3>2. Text(u)
      BY <3>1, WithinIsText
    <3> HIDE DEF u
    <3>. QED
      BY <3>2, LenProperties DEF Text
  <2>4. \A i \in 1..Len(u) : \E k \in e.start + 1..e.end : u[i] = text[k]
    BY <1>4
  <2> HIDE DEF u
  <2>5. \A c \in Cleanup!ToSet(u) : c \in Cleanup!Horizontal
    BY <2>2, <2>3, <2>4 DEF Cleanup!ToSet
  <2>. QED
    BY <2>2, <2>5 DEF u
<1>7. Cleanup!WordsSurvive
  BY <1>1, <1>2, TokensSurvive DEF Cleanup!WordsSurvive
<1>. QED
  BY <1>3, <1>5, <1>6, <1>7 DEF CleanupIsSafe

LEMMA NoReportIsSafe ==
  ASSUME report = Cleanup!NoReport
  PROVE  CleanupIsSafe
<1>1. report.edits = <<>> /\ DOMAIN report.edits = {}
  BY DEF Cleanup!NoReport
<1>2. Cleanup!Edits = {}
  BY <1>1 DEF Cleanup!Edits, Cleanup!ToSet
<1>3. Cleanup!EditsApply
  BY <1>1 DEF Cleanup!EditsApply, Cleanup!Applicable
<1>4. Cleanup!WordsSurvive
  BY DEF Cleanup!WordsSurvive
<1>. QED
  BY <1>2, <1>3, <1>4
  DEF CleanupIsSafe, Cleanup!NewlinesArePreserved, Cleanup!SafeEditsOnlyRemoveBlanks

\* The edits of a report, for a text of any length, can be applied together; none touches
\* a newline; those that need no review only remove blanks; and every word of the text is
\* still said by the suggestion, in one piece, if only by the word that it repeated.
THEOREM CleanupStaysSafe == FairSpec => []CleanupIsSafe
<1>1. Init => TextInv
  <2> SUFFICES ASSUME Init PROVE TextInv
    OBVIOUS
  <2>1. NoText \/ Cleanup!CleanupInit
    BY DEF Init
  <2>2. Text(<<>>)
    BY EmptySeq DEF Text
  <2>. QED
    BY <2>1, <2>2, TextsAreTexts DEF NoText, Cleanup!CleanupInit, TextInv
<1>2. TextInv /\ [Next]_<<part, vars, levelVars, vadVars, phaseVars, textVars>> => TextInv'
  <2> SUFFICES ASSUME TextInv, [Next]_<<part, vars, levelVars, vadVars, phaseVars, textVars>>
               PROVE  TextInv'
    OBVIOUS
  <2>1. Cleanup!Check \/ UNCHANGED textVars
    BY DEF Next
  <2>2. CASE Cleanup!Check
    BY <2>2 DEF Cleanup!Check, TextInv
  <2>3. CASE UNCHANGED textVars
    BY <2>3 DEF textVars, TextInv
  <2>. QED
    BY <2>1, <2>2, <2>3
<1>3. TextInv => CleanupIsSafe
  BY ReportIsSafe, NoReportIsSafe DEF TextInv
<1>. QED
  BY <1>1, <1>2, <1>3, PTL DEF FairSpec
=============================================================================
