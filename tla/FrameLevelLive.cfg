\* Frames of a live recording, of up to three samples, against the root.
SPECIFICATION LiveSpec
CONSTANTS
  Amplitudes = {0, 1, 3, 7, 90, 999}
  FrameSize = 3
INVARIANT LevelIsRoot
\* One frame.
CHECK_DEADLOCK FALSE
