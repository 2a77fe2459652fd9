\* One provider beside the default one, two process IDs and one edit by hand; four
\* panels; three messages; four states of which one shares its icon with a daemon that
\* does not run, and a channel that is soon full; two texts the user may copy.
SPECIFICATION FairSpec
CONSTANTS
  Mock = Mock
  Ids = {Mock, cloud}
  None = None
  Absent = Absent
  Torn = Torn
  Pids = {p1, p2}
  MaxEdits = 1
  Panels = {p1, p2, p3, p4}
  NoFile = NoFile
  MaxMessages = 3
  States = {"idle", "listening", "finalizing", "failed"}
  QueueSize = 1
  MaxSignals = 2
  Old = Old
  Copies = {c1, c2}
  Dictation = Dictation
  Empty = Empty
  Image = Image
INVARIANTS ConfigurationIsKept WindowsAreSingle LastWordStays ClipboardIsTheUsers
PROPERTIES WritingIsSafe StateIsShown
\* Panels, messages and insertions come to an end.
CHECK_DEADLOCK FALSE
