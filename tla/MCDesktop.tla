------------------------------ MODULE MCDesktop ------------------------------
(***************************************************************************)
(* The programs beside the daemon, and what they share with it and with    *)
(* the user: the configuration file, the guard of the settings panel, the  *)
(* window of messages, the tray and the clipboard.  They are checked one   *)
(* at a time: `part` says which, the others stay where they begin.         *)
(***************************************************************************)
EXTENDS ConfigFile

CONSTANTS
  Panels, NoFile,
  MaxMessages,
  States, QueueSize, MaxSignals,
  Old, Copies, Dictation, Empty, Image

VARIABLES
  part,
  guardFile, panelStep, seen, unclean, robbed, panelsOverlapped,
  sent, recording, endedAt, state, messageStep, pidFile, windows, overlapped, unrecorded, assured,
  daemon, signals, listener, heard, queue, loop, presented, shown, shownBefore, desktop,
  mode, restore, bridge, backend, pc, clipboard, previous, chord, committed, pasted,
  before, copied, refused, theirs, restored

guardVars     == <<guardFile, panelStep, seen, unclean, robbed, panelsOverlapped>>
overlayVars   == <<sent, recording, endedAt, state, messageStep, pidFile, windows,
                   overlapped, unrecorded, assured>>
trayVars      == <<daemon, signals, listener, heard, queue, loop, presented, shown,
                   shownBefore, desktop>>
insertionVars == <<mode, restore, bridge, backend, pc, clipboard, previous, chord, committed,
                   pasted, before, copied, refused, theirs, restored>>

Guard == INSTANCE InstanceGuard WITH
  file <- guardFile, step <- panelStep, overlapped <- panelsOverlapped

Overlay == INSTANCE OverlayWindow WITH step <- messageStep

Tray == INSTANCE Tray WITH next <- presented, previous <- shownBefore

Insertion == INSTANCE DesktopInsertion

ASSUME PanelsAssumption    == Guard!GuardAssumption
ASSUME MessagesAssumption  == Overlay!OverlayAssumption
ASSUME SignalsAssumption   == Tray!TrayAssumption
ASSUME ClipboardAssumption == Insertion!InsertionAssumption

-----------------------------------------------------------------------------
NoSettings  == FileInit /\ pid = CHOOSE p \in Pids : TRUE
NoTray      == daemon = "idle" /\ Tray!TrayInit /\ shown = daemon
NoInsertion == mode = "copy" /\ restore = FALSE /\ bridge = "absent" /\ clipboard = Empty
               /\ Insertion!InsertionInit

Init ==
  /\ Guard!GuardInit /\ Overlay!OverlayInit
  /\ \/ part = "configuration" /\ FileInit /\ NoTray /\ NoInsertion
     \/ part \in {"panels", "overlay"} /\ NoSettings /\ NoTray /\ NoInsertion
     \/ part = "tray" /\ Tray!TrayInit /\ NoSettings /\ NoInsertion
     \/ part = "insertion" /\ Insertion!InsertionInit /\ NoSettings /\ NoTray

Next ==
  /\ UNCHANGED part
  /\ \/ /\ part = "configuration" /\ FileNext
        /\ UNCHANGED <<guardVars, overlayVars, trayVars, insertionVars>>
     \/ /\ part = "panels" /\ Guard!GuardNext
        /\ UNCHANGED <<vars, overlayVars, trayVars, insertionVars>>
     \/ /\ part = "overlay" /\ Overlay!OverlayNext
        /\ UNCHANGED <<vars, guardVars, trayVars, insertionVars>>
     \/ /\ part = "tray" /\ Tray!TrayNext
        /\ UNCHANGED <<vars, guardVars, overlayVars, insertionVars>>
     \/ /\ part = "insertion" /\ Insertion!InsertionNext
        /\ UNCHANGED <<vars, guardVars, overlayVars, trayVars>>

\* Both threads of the tray run on, and five seconds pass.
Fairness ==
  /\ WF_trayVars(part = "tray" /\ Tray!Listener)
  /\ WF_trayVars(part = "tray" /\ Tray!Main)

FairSpec ==
  /\ Init /\ [][Next]_<<part, vars, guardVars, overlayVars, trayVars, insertionVars>>
  /\ Fairness

-----------------------------------------------------------------------------
\* An update that was acknowledged stays in the file, and is what a reported reload made
\* the daemon run on; the daemon only ever runs on what was validated.
ConfigurationIsKept == AckedSurvives /\ ReloadedIsCurrent /\ DaemonRunsOnValid

\* Nobody finds half a file that was whole, the configuration does not change under a
\* recording, and a save leaves no temporary file, whoever is killed at which step.
WritingIsSafe == WholeStaysWhole /\ ConfigHoldsWhileBusy /\ SaveLeavesNoTemp

\* A settings panel is alone: if it was not started together with another, and also then
\* unless one removed the file of another as stale; and a file without its panel was left
\* by one that was killed or could not write it.  Each message of the overlay whose process
\* ends well gets a window, the only one that was recorded if messages do not come at once.
WindowsAreSingle ==
  /\ Guard!OneAtATime /\ Guard!OneUnlessRobbed /\ Guard!ClosedLeavesNothing
  /\ Overlay!MessageHasWindow /\ Overlay!OneWindowIfApart

\* No level comes after the end of its recording: a message that is sent since is there to
\* stay, and the last one does if they do not come at once.
LastWordStays == Overlay!LastWordStays

\* The state in which the daemon stays is what the tray shows in the end, and the desktop
\* draws all of it, whatever signals were lost and whichever daemon ended in between.
StateIsShown == Tray!StateIsShown

\* A refusal of the bridge is never got around.  If the user copies nothing meanwhile, what
\* is pasted is the dictation, and a clipboard that is reported as restored is as before;
\* and what the user copies after the text was written and before it is compared stays.
\* (A copy between reading and writing, or between comparing and restoring, is lost.)
ClipboardIsTheUsers ==
  /\ Insertion!RefusalHolds /\ Insertion!RestoredIsAsBefore /\ Insertion!ImageIsKept
  /\ Insertion!PastesTheDictation /\ Insertion!CopyAfterWriteStays
=============================================================================
