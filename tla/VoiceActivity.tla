---------------------------- MODULE VoiceActivity ----------------------------
(***************************************************************************)
(* The detector of speech (StreamingVad in src/vad.rs), frame by frame,    *)
(* and the interval that a recording is trimmed to.  A live detector       *)
(* starts without a noise floor, that of a finished recording with a low   *)
(* percentile of its levels, which is one of them.  The statistics that    *)
(* are only shown are left out.                                            *)
(*                                                                         *)
(* Frames are numbered from 0, as in the code; frame i is frames[i + 1].   *)
(***************************************************************************)
EXTENDS Integers, Sequences

CONSTANTS
  Levels,         \* levels of a frame, at most MaxLevel
  RmsThreshold,   \* VadConfig::rms_threshold
  MinimumVoiced,  \* VadConfig::minimum_voiced_frames
  EndSilence,     \* END_SILENCE_FRAMES
  PreRoll,        \* PRE_ROLL_FRAMES
  PostRoll,       \* POST_ROLL_FRAMES
  MaxFrames,      \* bound of a recording
  None

MaxLevel == 65535

VadAssumption ==
  /\ Levels \subseteq 0..MaxLevel
  /\ RmsThreshold \in Nat /\ 1 <= RmsThreshold /\ RmsThreshold <= 10000
  /\ MinimumVoiced \in Nat \ {0}
  /\ EndSilence \in Nat \ {0}
  /\ PreRoll \in Nat /\ PostRoll \in Nat
  /\ MaxFrames \in Nat
  /\ None \notin Int

VARIABLES
  frames,               \* history: level and entry threshold of each frame so far
  seed,                 \* history: the noise floor at the start
  noise, threshold,     \* the noise floor, and the entry threshold that follows from it
  attack, attackStart,  \* voiced frames in a row before speech, and the first of them
  release,              \* quiet frames in a row during speech
  active,
  start, end            \* first frame of the first speech, end of the last one

vars == <<frames, seed, noise, threshold, attack, attackStart, release, active, start, end>>

AtLeast(a, b) == IF a < b THEN b ELSE a
AtMost(a, b)  == IF a < b THEN a ELSE b

Total == Len(frames)

-----------------------------------------------------------------------------

\* threshold_for, in saturating arithmetic
ThresholdFor(floor) ==
  AtLeast(RmsThreshold, AtMost(AtMost(AtMost(2 * floor, MaxLevel) + 80, MaxLevel),
                               AtMost(4 * RmsThreshold, MaxLevel)))

ExitThreshold(entry) == AtMost(3 * entry, MaxLevel) \div 4

\* smooth, with the shift that update_noise chooses: a shift rounds down.
Smooth(current, sample) ==
  current + (sample - current) \div (IF sample <= current THEN 8 ELSE 32)

\* update_noise
Learned(level) == IF noise = None THEN level ELSE Smooth(noise, level)

Learn(level) == noise' = Learned(level) /\ threshold' = ThresholdFor(Learned(level))

VadInit ==
  /\ frames = <<>>
  /\ seed \in Levels \cup {None} /\ noise = seed
  /\ threshold = ThresholdFor(IF seed = None THEN 0 ELSE seed)
  /\ attack = 0 /\ attackStart = None
  /\ release = 0 /\ active = FALSE
  /\ start = None /\ end = None

-----------------------------------------------------------------------------
(***************************************************************************)
(* process_level, by what it decides about a frame.                        *)
(***************************************************************************)

Frame(level) ==
  /\ Total < MaxFrames
  /\ frames' = Append(frames, [level |-> level, entry |-> threshold])
  /\ UNCHANGED seed

\* Mutant: pauses add up.
Sustain_KeepsRelease(level) ==
  /\ active /\ level >= ExitThreshold(threshold)
  /\ Frame(level)
  /\ end' = Total + 1
  /\ UNCHANGED <<noise, threshold, attack, attackStart, release, active, start>>

\* Speech goes on.
Sustain(level) ==
  /\ active /\ level >= ExitThreshold(threshold)
  /\ Frame(level)
  /\ release' = 0
  /\ end' = Total + 1
  /\ UNCHANGED <<noise, threshold, attack, attackStart, active, start>>

\* A pause within speech.
Pause(level) ==
  /\ active /\ level < ExitThreshold(threshold)
  /\ release + 1 < EndSilence
  /\ Frame(level)
  /\ release' = release + 1
  /\ UNCHANGED <<noise, threshold, attack, attackStart, active, start, end>>

\* The pause is the end of the speech; its last frame is noise.
EndSpeech(level) ==
  /\ active /\ level < ExitThreshold(threshold)
  /\ release + 1 >= EndSilence
  /\ Frame(level)
  /\ active' = FALSE /\ release' = 0
  /\ Learn(level)
  /\ UNCHANGED <<attack, attackStart, start, end>>

FirstOfAttack == IF attack = 0 THEN Total ELSE attackStart

\* Mutant: what may become speech teaches the noise floor.
Attack_Learns(level) ==
  /\ ~ active /\ level >= threshold
  /\ attack + 1 < MinimumVoiced
  /\ Frame(level)
  /\ attack' = attack + 1 /\ attackStart' = FirstOfAttack
  /\ Learn(level)
  /\ UNCHANGED <<release, active, start, end>>

\* It may become speech.
Attack(level) ==
  /\ ~ active /\ level >= threshold
  /\ attack + 1 < MinimumVoiced
  /\ Frame(level)
  /\ attack' = attack + 1 /\ attackStart' = FirstOfAttack
  /\ UNCHANGED <<noise, threshold, release, active, start, end>>

\* It is speech.
StartSpeech(level) ==
  /\ ~ active /\ level >= threshold
  /\ attack + 1 >= MinimumVoiced
  /\ Frame(level)
  /\ active' = TRUE
  /\ start' = IF start = None THEN FirstOfAttack ELSE start
  /\ end' = Total + 1
  /\ attack' = 0 /\ attackStart' = None
  /\ UNCHANGED <<noise, threshold, release>>

\* Mutant: voiced frames need not be in a row.
Quiet_KeepsAttack(level) ==
  /\ ~ active /\ level < threshold
  /\ Frame(level)
  /\ Learn(level)
  /\ UNCHANGED <<attack, attackStart, release, active, start, end>>

\* It is noise.
Quiet(level) ==
  /\ ~ active /\ level < threshold
  /\ Frame(level)
  /\ attack' = 0 /\ attackStart' = None
  /\ Learn(level)
  /\ UNCHANGED <<release, active, start, end>>

ProcessLevel(level) ==
  \/ Sustain(level) \/ Pause(level) \/ EndSpeech(level)
  \/ Attack(level) \/ StartSpeech(level) \/ Quiet(level)

VadNext == \E level \in Levels : ProcessLevel(level)

VadSpec == VadInit /\ [][VadNext]_vars

-----------------------------------------------------------------------------
\* finish: what the recording is trimmed to, if there was speech at all.
SpeechDetected == start # None /\ end # None

TrimStart == AtLeast(start - PreRoll, 0)

\* Mutant: the last frames are assumed to be there.
TrimEnd_Unbounded == end + PostRoll

TrimEnd == AtMost(end + PostRoll, Total)

-----------------------------------------------------------------------------
(***************************************************************************)
(* Properties.                                                             *)
(***************************************************************************)

\* The frames s, ..., s + MinimumVoiced - 1 are all voiced.
RunAt(s) ==
  /\ s >= 0 /\ s + MinimumVoiced <= Total
  /\ \A i \in s + 1..s + MinimumVoiced : frames[i].level >= frames[i].entry

\* Speech begins with the first confirmed run, neither earlier nor later, however
\* the threshold moved in between.
SpeechIsTheFirstRun ==
  /\ start # None => RunAt(start)
  /\ \A s \in 0..Total : RunAt(s) => start # None /\ start <= s

\* A pause is not the end: between the last voiced frame and the end of speech there
\* were EndSilence quiet frames in a row, and fewer as long as speech goes on.
EndsInSilence ==
  end # None =>
    /\ IF active THEN Total - end < EndSilence ELSE Total - end >= EndSilence
    /\ \A i \in end + 1..AtMost(end + EndSilence, Total) :
         frames[i].level < ExitThreshold(frames[i].entry)

\* The floor is learned from what is not speech: it never leaves the range of the
\* frames below the entry threshold (vad.rs:67-70).
NoiseIsOfQuietFrames ==
  LET quiet == {frames[i].level : i \in {j \in 1..Total : frames[j].level < frames[j].entry}}
               \cup ({seed} \ {None})
  IN noise # None => \E low, high \in quiet : low <= noise /\ noise <= high

\* What is kept lies within the recording and contains all of the speech.
TrimKeepsSpeech ==
  SpeechDetected =>
    /\ 0 <= TrimStart /\ TrimStart <= start /\ start < end
    /\ end <= TrimEnd /\ TrimEnd <= Total
=============================================================================
