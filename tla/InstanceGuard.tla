---------------------------- MODULE InstanceGuard ----------------------------
(***************************************************************************)
(* The file that keeps a second settings panel from opening                *)
(* (InstanceGuard in src/bin/voxtype-settings.rs).  It holds the process   *)
(* ID of the panel; one left behind by a panel that was killed is removed. *)
(***************************************************************************)
EXTENDS FiniteSets, Naturals

CONSTANTS
  Panels,    \* processes, each with an ID of its own
  NoFile

GuardAssumption == IsFiniteSet(Panels) /\ NoFile \notin [by : Panels, written : BOOLEAN]

VARIABLES
  file,      \* NoFile, or who created it, and whether its ID is in it
  step,      \* of each panel
  seen,      \* the ID it read
  unclean,   \* history: the panels that were killed, or could not write their ID
  robbed,    \* history: one removed the file of another that had not ended
  overlapped \* history: two panels were in acquire at once

vars == <<file, step, seen, unclean, robbed, overlapped>>

history == <<unclean, robbed, overlapped>>

GuardInit ==
  /\ file = NoFile
  /\ step = [p \in Panels |-> "new"] /\ seen = [p \in Panels |-> p]
  /\ unclean = {} /\ robbed = FALSE /\ overlapped = FALSE

At(p, s) == step[p] = s
Goes(p, s) == step' = [step EXCEPT ![p] = s]

Lives(p) == step[p] \notin {"new", "gone"}

Acquiring(p) == step[p] \in {"reading", "looking", "removing", "creating", "writing"}

Start(p) ==
  /\ At(p, "new")
  /\ Goes(p, "reading")
  /\ overlapped' = (overlapped \/ \E q \in Panels : Acquiring(q))
  /\ UNCHANGED <<file, seen, unclean, robbed>>

\* A file without an ID is passed over.
Read(p) ==
  /\ At(p, "reading")
  /\ IF file # NoFile /\ file.written
     THEN Goes(p, "looking") /\ seen' = [seen EXCEPT ![p] = file.by]
     ELSE Goes(p, "creating") /\ UNCHANGED seen
  /\ UNCHANGED <<file, history>>

\* Mutant: /proc is asked for the name, which it cuts off.
IsPanel_ByName(p) == FALSE

\* The command line of the process names the settings program.
IsPanel(p) == Lives(p)

Look(p) ==
  /\ At(p, "looking")
  /\ Goes(p, IF IsPanel(seen[p]) THEN "gone" ELSE "removing")
  /\ UNCHANGED <<file, seen, history>>

\* Whatever file is there now.
Remove(p) ==
  /\ At(p, "removing")
  /\ file' = NoFile
  /\ robbed' = (robbed \/ (file # NoFile /\ Lives(file.by)))
  /\ Goes(p, "creating")
  /\ UNCHANGED <<seen, unclean, overlapped>>

\* Mutant: the file need not be new.
Create_OrOpen(p) ==
  /\ At(p, "creating")
  /\ file' = [by |-> p, written |-> FALSE] /\ Goes(p, "writing")
  /\ UNCHANGED <<seen, history>>

\* create_new
Create(p) ==
  /\ At(p, "creating")
  /\ IF file = NoFile THEN file' = [by |-> p, written |-> FALSE] /\ Goes(p, "writing")
                      ELSE Goes(p, "gone") /\ UNCHANGED file
  /\ UNCHANGED <<seen, history>>

\* To what was created, even if it was removed.
Write(p) ==
  /\ At(p, "writing")
  /\ file' = IF file = [by |-> p, written |-> FALSE] THEN [by |-> p, written |-> TRUE] ELSE file
  /\ Goes(p, "running")
  /\ UNCHANGED <<seen, history>>

\* There is no runtime directory, or the file cannot be created or written; what was
\* created stays, without an ID.
Fails(p) ==
  /\ step[p] \in {"reading", "creating", "writing"}
  /\ Goes(p, "gone")
  /\ unclean' = IF At(p, "writing") THEN unclean \cup {p} ELSE unclean
  /\ UNCHANGED <<file, seen, robbed, overlapped>>

\* Mutant: main exits without dropping the guard.
Close_ByExit(p) ==
  /\ At(p, "running")
  /\ Goes(p, "gone")
  /\ UNCHANGED <<file, seen, history>>

\* drop
Close(p) ==
  /\ At(p, "running")
  /\ file' = NoFile /\ Goes(p, "gone")
  /\ UNCHANGED <<seen, history>>

Kill(p) ==
  /\ Lives(p)
  /\ Goes(p, "gone") /\ unclean' = unclean \cup {p}
  /\ UNCHANGED <<file, seen, robbed, overlapped>>

GuardNext ==
  \E p \in Panels :
    \/ Start(p) \/ Read(p) \/ Look(p) \/ Remove(p) \/ Create(p) \/ Write(p)
    \/ Fails(p) \/ Close(p) \/ Kill(p)

GuardSpec == GuardInit /\ [][GuardNext]_vars

-----------------------------------------------------------------------------
(***************************************************************************)
(* Properties.                                                             *)
(***************************************************************************)

AtMostOne == \A p, q \in Panels : At(p, "running") /\ At(q, "running") => p = q

\* "the settings panel is already open": panels that are started one after the other
\* never run together, whichever of them are killed or fail, and at whatever step.
OneAtATime == ~ overlapped => AtMostOne

\* Nor do panels that start together, unless one that has judged a file to be stale
\* removes the file that another has put in its place meanwhile.
OneUnlessRobbed == ~ robbed => AtMostOne

\* A file without its panel, which every later one has to judge, was left by one that was
\* killed or could not write it; a panel that closes, or fails before, leaves none.
ClosedLeavesNothing == file # NoFile /\ ~ Lives(file.by) => file.by \in unclean
=============================================================================
