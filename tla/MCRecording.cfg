\* A capture of three frames with a pipe and a channel that are soon full; frames of up
\* to three samples; recordings of up to seven frames: silence, a noisy room, a voice, a
\* loud voice; phases of up to five frames, with levels beyond the cap of a suggestion;
\* texts of up to five characters.
SPECIFICATION FairSpec
CONSTANTS
  Halves = 7
  PipeSize = 3
  ChannelSize = 1
  Amplitudes = {0, 1, 3, 7, 90, 999}
  FrameSize = 3
  Levels = {0, 200, 450, 1300}
  RmsThreshold = 300
  MinimumVoiced = 2
  EndSilence = 2
  PreRoll = 1
  PostRoll = 1
  MaxFrames = 7
  None = none
  PhaseLevels = {0, 300, 1200, 12000, 26000}
  MinPhase = 4
  MaxPhase = 5
  Alphabet = {"a", "A", "b", " ", "nl", ",", "."}
  MaxLength = 5
INVARIANTS TailIsKept NothingIsLeft LevelIsRight SpeechIsFound SuggestionIsSound CleanupIsSafe
PROPERTIES CallsReturn
\* Each of them ends.
CHECK_DEADLOCK FALSE
