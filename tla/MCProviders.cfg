\* A recording of two frames, a service that sends anything, one packet number; one
\* request; a command with one helper.
SPECIFICATION FairSpec
CONSTANTS
  Packets = {1}
  NoPacket = 0
  Texts = {ta}
  Blank = blank
  NoText = none
  MaxFrames = 2
  Frames = 2
  MaxInbound = 1
INVARIANTS TextIsOfTheWholeRecording RequestsLeaveNothing
PROPERTIES RefreshIsNoReplay IsHonest RequestsAreHonest AttemptsEnd
\* An attempt that has returned does nothing more.
CHECK_DEADLOCK FALSE
