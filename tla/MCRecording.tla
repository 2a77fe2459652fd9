----------------------------- MODULE MCRecording -----------------------------
(***************************************************************************)
(* What becomes of a recording: it is captured, the levels of its frames   *)
(* are measured, its speech is found with a threshold that a calibration   *)
(* may have suggested, and its text is cleaned up.  The five are checked   *)
(* one at a time: `part` says which, the others stay where they begin.     *)
(***************************************************************************)
EXTENDS AudioCapture

CONSTANTS
  Amplitudes, FrameSize,
  Levels, RmsThreshold, MinimumVoiced, EndSilence, PreRoll, PostRoll, MaxFrames, None,
  PhaseLevels, MinPhase, MaxPhase,
  Alphabet, MaxLength

VARIABLES
  part,
  frame, value, estimate, next, level,
  frames, seed, noise, threshold, attack, attackStart, release, active, start, end,
  silence, speech, clipping, calibration,
  text, report

levelVars  == <<frame, value, estimate, next, level>>
vadVars    == <<frames, seed, noise, threshold, attack, attackStart, release, active, start, end>>
phaseVars  == <<silence, speech, clipping, calibration>>
textVars   == <<text, report>>

Frame       == INSTANCE FrameLevel
Voice       == INSTANCE VoiceActivity
Calibration == INSTANCE MicrophoneCalibration WITH result <- calibration
Cleanup     == INSTANCE TextCleanup

ASSUME LevelAssumption == Frame!FrameAssumption
ASSUME VoiceAssumption == Voice!VadAssumption
ASSUME PhaseAssumption == Calibration!CalibrationAssumption
ASSUME TextAssumption  == Cleanup!CleanupAssumption

-----------------------------------------------------------------------------
\* What is not checked stays as it is for an empty frame, recording, phase or text.
NoFrame  == frame = <<>> /\ Frame!FrameInit /\ Frame!BeginsAtValue
NoVoice  == seed = None /\ Voice!VadInit
NoPhases == silence = <<>> /\ speech = <<>> /\ clipping = FALSE /\ calibration = Calibration!NoResult
NoText   == text = <<>> /\ report = Cleanup!NoReport

Init ==
  /\ CaptureInit
  /\ \/ part = "capture"     /\ NoFrame /\ NoVoice /\ NoPhases /\ NoText
     \/ part = "level"       /\ Frame!FrameInit /\ Frame!BeginsAtValue
                             /\ NoVoice /\ NoPhases /\ NoText
     \/ part = "live level"  /\ Frame!FrameInit /\ Frame!BeginsNearby
                             /\ NoVoice /\ NoPhases /\ NoText
     \/ part = "speech"      /\ Voice!VadInit /\ NoFrame /\ NoPhases /\ NoText
     \/ part = "calibration" /\ Calibration!CalibrationInit /\ NoFrame /\ NoVoice /\ NoText
     \/ part = "cleanup"     /\ Cleanup!CleanupInit /\ NoFrame /\ NoVoice /\ NoPhases

Next ==
  /\ UNCHANGED part
  /\ \/ /\ part = "capture" /\ CaptureNext
        /\ UNCHANGED <<levelVars, vadVars, phaseVars, textVars>>
     \/ /\ part \in {"level", "live level"} /\ Frame!LevelNext
        /\ UNCHANGED <<vars, vadVars, phaseVars, textVars>>
     \/ /\ part = "speech" /\ Voice!VadNext
        /\ UNCHANGED <<vars, levelVars, phaseVars, textVars>>
     \/ /\ part = "calibration" /\ Calibration!CalibrationNext
        /\ UNCHANGED <<vars, levelVars, vadVars, textVars>>
     \/ /\ part = "cleanup" /\ Cleanup!Check
        /\ UNCHANGED <<vars, levelVars, vadVars, phaseVars>>

\* The threads of a capture are scheduled, and the recorder heeds an interrupt.
Fairness ==
  /\ WF_vars(part = "capture" /\ ReaderSteps)
  /\ WF_vars(part = "capture" /\ OwnerContinues)
  /\ WF_vars(part = "capture" /\ recorder = "interrupted" /\ Exit)

FairSpec ==
  Init /\ [][Next]_<<part, vars, levelVars, vadVars, phaseVars, textVars>> /\ Fairness

-----------------------------------------------------------------------------
\* integer_sqrt of vad.rs is the root of the mean square, rounded down, and lies
\* between the least and the greatest magnitude; that of audio.rs is never above the
\* root, and at worst too low by the factor of the root of two (and may then lie below
\* the least magnitude: it is 256 for samples that are all 300).
LevelIsRight ==
  /\ part = "level" => Frame!LevelIsRoot /\ Frame!LevelWithinFrame
  /\ Frame!LiveLevelIsNear

\* The detector and its state agree with a direct look at the levels of the recording:
\* speech begins with the first confirmed run and ends before a long enough pause, the
\* noise floor is learned from what is not speech, and trimming keeps all speech.
SpeechIsFound ==
  /\ Voice!SpeechIsTheFirstRun /\ Voice!EndsInSilence
  /\ Voice!NoiseIsOfQuietFrames /\ Voice!TrimKeepsSpeech

\* Whatever was recorded, a suggested threshold is valid, and one that may be applied
\* hears the voice, not the noise, and was measured with confidence.
SuggestionIsSound ==
  /\ Calibration!SuggestionIsValid /\ Calibration!AppliedHearsTheVoice
  /\ Calibration!LowConfidenceIsNotApplied

\* The edits of all rules apply together and lose no word and no line; what is done
\* without a review only removes blanks.
CleanupIsSafe ==
  /\ Cleanup!EditsApply /\ Cleanup!NewlinesArePreserved
  /\ Cleanup!SafeEditsOnlyRemoveBlanks /\ Cleanup!WordsSurvive
=============================================================================
