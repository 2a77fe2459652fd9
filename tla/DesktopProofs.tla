---------------------------- MODULE DesktopProofs ----------------------------
(***************************************************************************)
(* Proofs about MCDesktop: the programs beside the daemon, for any number  *)
(* of panels, messages, process IDs and edits, any providers and any texts *)
(* that a user may copy.  Each program has an invariant of its own.        *)
(***************************************************************************)
EXTENDS MCDesktop, FiniteSetTheorems, TLAPS

-----------------------------------------------------------------------------
(***************************************************************************)
(* The configuration file.                                                 *)
(***************************************************************************)

\* Whatever the default profile may be, there is one: no update and no edit takes it away.
Usable(c) == c \in Configurations /\ c.default \in DOMAIN c.profiles

FileSteps ==
  {"down", "opening", "creating", "filling", "reading", "up",
   "answered", "staged", "saved", "reloading"}

FileTypes ==
  /\ file \in {Absent, Torn} \/ Usable(file)
  /\ next = None \/ Usable(next)
  /\ acked = None \/ Usable(acked)
  /\ config \in Configurations \cup {None}
  /\ step \in [Programs -> FileSteps]
  /\ busy \in BOOLEAN /\ edited \in BOOLEAN

\* What a program knows in each of its steps.
ProgramsInStep ==
  /\ At("settings", "staged") => next # None
  /\ step["settings"] \in {"saved", "reloading"} \/ reply = "reloaded" => acked # None
  /\ step["settings"] \notin {"answered", "down"} => reply # "reloaded"
  /\ busy => At("daemon", "up")

FileInv ==
  FileTypes /\ ProgramsInStep /\ AckedSurvives /\ ReloadedIsCurrent /\ DaemonRunsOnValid

-----------------------------------------------------------------------------
(***************************************************************************)
(* The guard of the settings panel.                                        *)
(***************************************************************************)

PanelSteps ==
  {"new", "reading", "looking", "removing", "creating", "writing", "running", "gone"}

GuardTypes ==
  /\ guardFile \in [by : Panels, written : BOOLEAN] \cup {NoFile}
  /\ panelStep \in [Panels -> PanelSteps]
  /\ seen \in [Panels -> Panels]
  /\ unclean \in SUBSET Panels
  /\ <<robbed, panelsOverlapped>> \in BOOLEAN \X BOOLEAN

FileOf(p, written) == guardFile = [by |-> p, written |-> written]

\* As long as no panel removed the file of another that had not ended, it is that of
\* whoever created it last.
CreatorKeepsFile ==
  ~ robbed => \A p \in Panels : panelStep[p] \in {"writing", "running"}
                                  => \E written \in BOOLEAN : FileOf(p, written)

\* A file belongs to a panel that runs or will, or did not end well.
FileHasCreator ==
  guardFile # NoFile =>
    panelStep[guardFile.by] \in {"writing", "running"} \/ guardFile.by \in unclean

\* As long as only one panel at a time is about to open, it judges a panel that runs by
\* its own file, and finds it.
OneAcquires ==
  ~ panelsOverlapped =>
    /\ \A p, q \in Panels : Guard!Acquiring(p) /\ Guard!Acquiring(q) => p = q
    /\ \A p \in Panels : panelStep[p] = "running" =>
         /\ FileOf(p, TRUE)
         /\ \A q \in Panels : /\ panelStep[q] = "looking" => seen[q] = p
                              /\ panelStep[q] \notin {"removing", "writing"}
    /\ \A p \in Panels : panelStep[p] = "writing" => FileOf(p, FALSE)

GuardInv == GuardTypes /\ CreatorKeepsFile /\ FileHasCreator /\ OneAcquires

-----------------------------------------------------------------------------
(***************************************************************************)
(* The window of messages.                                                 *)
(***************************************************************************)

MessageSteps ==
  {"none", "writing", "looking", "opening", "truncating", "recording", "ended", "lost"}

OverlayTypes ==
  /\ sent \in Nat /\ endedAt \in Nat /\ recording \in BOOLEAN
  /\ messageStep \in [Overlay!Messages -> MessageSteps]
  /\ overlapped \in BOOLEAN /\ assured \in BOOLEAN

\* Messages are numbered as they are sent; as long as one process at a time runs, it is
\* that of the last one.
MessagesInOrder ==
  /\ endedAt <= sent
  /\ \A n \in Overlay!Messages : n > sent => messageStep[n] = "none"
  /\ ~ overlapped => \A n \in Overlay!Messages : ~ Overlay!Ended(n) => n = sent

\* As long as one process at a time runs, the window is the one in the file, except
\* while the file is written anew; or one whose process has failed.
WindowIsRecorded ==
  ~ overlapped =>
    /\ \A n \in Overlay!Messages :
         /\ messageStep[n] = "opening" => windows \ unrecorded = {}
         /\ messageStep[n] \in {"truncating", "recording"} => windows \ unrecorded \subseteq {n}
    /\ \/ windows \ unrecorded \subseteq {pidFile}
       \/ \E n \in Overlay!Messages : messageStep[n] \in {"truncating", "recording"}

OverlayInv ==
  /\ OverlayTypes /\ MessagesInOrder /\ WindowIsRecorded
  /\ Overlay!MessageHasWindow /\ Overlay!LastWordStays

-----------------------------------------------------------------------------
(***************************************************************************)
(* The clipboard.                                                          *)
(***************************************************************************)

\* Before anything is inserted the clipboard is the user's.
Untouched ==
  pc \in {"idle", "armed"} =>
    /\ clipboard # Dictation /\ pasted = Insertion!Nothing /\ ~ committed /\ ~ refused /\ ~ theirs
    /\ copied = {} => clipboard = before

\* A refusal ends the insertion, before anything is inserted.
RefusalEnds ==
  refused => pc = "failed" /\ ~ chord /\ clipboard # Dictation /\ pasted = Insertion!Nothing /\ ~ committed

\* Until the text is written the clipboard is that of the beginning; then the snapshot
\* is, if there is to be one.
SnapshotIsBefore ==
  copied = {} =>
    /\ pc \in {"reading", "listing", "writing"} => clipboard = before
    /\ restore /\ pc \in {"writing", "pasting", "waiting", "comparing", "restoring"}
         => previous = before /\ before # Image
    /\ pc \in {"pasting", "waiting"} => clipboard = Dictation

\* Which step each history goes with.
StepsInOrder ==
  /\ chord => pc = "waiting"
  /\ pc \in {"reading", "listing"} => restore
  /\ pc \in {"pasting", "waiting", "comparing", "restoring"} => ~ refused
  /\ pc \in {"reading", "listing", "writing"} => ~ theirs /\ ~ refused /\ pasted = Insertion!Nothing
  /\ pc = "restoring" => restore /\ ~ theirs
  /\ restored => pc = "done"

ClipboardInv ==
  /\ Untouched /\ RefusalEnds /\ SnapshotIsBefore /\ StepsInOrder
  /\ Insertion!RestoredIsAsBefore /\ Insertion!ImageIsKept
  /\ Insertion!PastesTheDictation /\ Insertion!CopyAfterWriteStays

-----------------------------------------------------------------------------
(***************************************************************************)
(* What an update, an edit and a load make of a configuration.             *)
(***************************************************************************)

LEMMA MapsHave ==
  ASSUME NEW values, NEW f
  PROVE  f \in Maps(values) <=> /\ DOMAIN f \subseteq Ids
                                /\ f \in [DOMAIN f -> values]
BY DEF Maps

LEMMA WithIsMap ==
  ASSUME NEW values, NEW f \in Maps(values), NEW id \in Ids, NEW v \in values
  PROVE  With(f, id, v) \in Maps(values) /\ DOMAIN With(f, id, v) = DOMAIN f \cup {id}
<1>1. DOMAIN f \subseteq Ids /\ f \in [DOMAIN f -> values]
  BY MapsHave
<1>2. /\ DOMAIN With(f, id, v) = DOMAIN f \cup {id}
      /\ With(f, id, v) \in [DOMAIN f \cup {id} -> values]
  BY <1>1 DEF With
<1> QED BY <1>1, <1>2, MapsHave

LEMMA WithoutIsMap ==
  ASSUME NEW values, NEW f \in Maps(values), NEW id
  PROVE  Without(f, id) \in Maps(values) /\ DOMAIN Without(f, id) = DOMAIN f \ {id}
<1>1. DOMAIN f \subseteq Ids /\ f \in [DOMAIN f -> values]
  BY MapsHave
<1>2. /\ DOMAIN Without(f, id) = DOMAIN f \ {id}
      /\ Without(f, id) \in [DOMAIN f \ {id} -> values]
  BY <1>1 DEF Without
<1> QED BY <1>1, <1>2, MapsHave

\* The default configuration is one, and valid.
LEMMA DefaultIsUsable == Usable(DefaultConfig)
<1>1. [id \in {Mock} |-> <<Mock>>] \in Maps(Seq(Ids))
  <2>1. <<Mock>> \in Seq(Ids)
    BY ConfigurationAssumption
  <2>2. /\ DOMAIN [id \in {Mock} |-> <<Mock>>] = {Mock}
        /\ [id \in {Mock} |-> <<Mock>>] \in [{Mock} -> Seq(Ids)]
    BY <2>1
  <2> QED BY <2>2, ConfigurationAssumption, MapsHave
<1>2. [id \in {Mock} |-> "mock"] \in Maps(ProviderConfigs)
  BY ConfigurationAssumption, MapsHave DEF ProviderConfigs
<1>3. [id \in {} |-> 1] \in Maps(Limits \ {None})
  BY MapsHave
<1>4. DefaultConfig \in Configurations
  BY <1>1, <1>2, <1>3, ConfigurationAssumption
  DEF DefaultConfig, Configurations, AudioConfigs
<1> QED BY <1>4 DEF Usable, DefaultConfig

\* An update makes a configuration of one.
LEMMA AppliedIsTyped ==
  ASSUME NEW c \in Configurations, NEW update \in Updates
  PROVE  Applied(update, c) \in Configurations
<1>0. /\ c.default \in Ids /\ c.profiles \in Maps(Seq(Ids))
      /\ c.providers \in Maps(ProviderConfigs) /\ c.quotas \in Maps(Limits \ {None})
      /\ c.audio \in AudioConfigs
  BY DEF Configurations
<1>1. CASE update \in CreateUpdates
  <2>1. /\ update.kind = "create" /\ update.id \in Ids /\ update.provider \in ProviderConfigs
        /\ <<update.id>> \in Seq(Ids)
    BY <1>1 DEF CreateUpdates, ProviderConfigs
  <2>2. /\ With(c.providers, update.id, update.provider) \in Maps(ProviderConfigs)
        /\ With(c.profiles, update.id, <<update.id>>) \in Maps(Seq(Ids))
    BY <1>0, <2>1, WithIsMap
  <2>3. Created(update, c) \in Configurations
    BY <2>1, <2>2 DEF Created, Configurations
  <2> QED BY <2>1, <2>3 DEF Applied
<1>2. CASE update \in GeneralUpdates
  <2>1. update.kind = "general" /\ update.default \in Ids /\ update.audio \in AudioConfigs
    BY <1>2 DEF GeneralUpdates
  <2>2. GeneralSaved(update, c) \in Configurations
    BY <2>1 DEF GeneralSaved, Configurations
  <2> QED BY <2>1, <2>2 DEF Applied
<1>3. CASE update \in ProviderUpdates
  <2>1. update.kind = "provider" /\ update.id \in Ids /\ update.provider \in ProviderConfigs
    BY <1>3 DEF ProviderUpdates, ProviderConfigs
  <2>2. With(c.providers, update.id, update.provider) \in Maps(ProviderConfigs)
    BY <1>0, <2>1, WithIsMap
  <2>3. ProviderSaved(update, c) \in Configurations
    BY <2>1, <2>2 DEF ProviderSaved, Configurations
  <2> QED BY <2>1, <2>3 DEF Applied
<1>4. CASE update \in QuotaUpdates
  <2>1. update.kind = "quota" /\ update.id \in Ids /\ update.limit \in Limits
    BY <1>4 DEF QuotaUpdates
  <2>2. /\ update.limit = None => Without(c.quotas, update.id) \in Maps(Limits \ {None})
        /\ update.limit # None
             => With(c.quotas, update.id, update.limit) \in Maps(Limits \ {None})
    BY <1>0, <2>1, WithIsMap, WithoutIsMap
  <2>3. QuotaSaved(update, c) \in Configurations
    BY <2>1, <2>2 DEF QuotaSaved, Configurations
  <2> QED BY <2>1, <2>3 DEF Applied
<1> QED BY <1>1, <1>2, <1>3, <1>4 DEF Updates

\* What was accepted can be used.
LEMMA AcceptedIsUsable ==
  ASSUME NEW update \in Updates, Usable(file), Accepted(update)
  PROVE  Usable(Applied(update, file))
BY AppliedIsTyped DEF Usable, Accepted, Valid

\* An edit may break a configuration, but leaves it one, with the same default.
LEMMA EditIsUsable ==
  ASSUME NEW c, Usable(c), NEW d \in EditsOf(c)
  PROVE  Usable(d)
<1>0. /\ c \in Configurations /\ c.default \in Ids /\ c.profiles \in Maps(Seq(Ids))
      /\ c.providers \in Maps(ProviderConfigs) /\ c.default \in DOMAIN c.profiles
  BY DEF Configurations, Usable
<1>1. CASE d = DefaultConfig
  BY <1>1, DefaultIsUsable
<1>2. ASSUME NEW id \in DOMAIN c.providers, d = [c EXCEPT !.providers = Without(@, id)]
      PROVE  Usable(d)
  <2>1. Without(c.providers, id) \in Maps(ProviderConfigs)
    BY <1>0, WithoutIsMap
  <2> QED BY <1>0, <1>2, <2>1 DEF Usable, Configurations
<1>3. ASSUME NEW id \in Ids,
             d = [c EXCEPT !.profiles = With(@, c.default, Append(@[c.default], id))]
      PROVE  Usable(d)
  <2>1. c.profiles[c.default] \in Seq(Ids)
    BY <1>0, MapsHave
  <2>2. Append(c.profiles[c.default], id) \in Seq(Ids)
    BY <2>1
  <2>3. PICK route \in Seq(Ids) : route = Append(c.profiles[c.default], id)
    BY <2>2, Zenon
  <2>4. /\ With(c.profiles, c.default, route) \in Maps(Seq(Ids))
        /\ DOMAIN With(c.profiles, c.default, route) = DOMAIN c.profiles \cup {c.default}
    <3>1. \A f \in Maps(Seq(Ids)) : \A i \in Ids : \A v \in Seq(Ids) :
            /\ With(f, i, v) \in Maps(Seq(Ids))
            /\ DOMAIN With(f, i, v) = DOMAIN f \cup {i}
      BY WithIsMap
    <3>2. c.profiles \in Maps(Seq(Ids)) /\ c.default \in Ids /\ route \in Seq(Ids)
      BY <1>0, <2>3
    <3> QED BY <3>1, <3>2, Zenon
  <2>5. d = [c EXCEPT !.profiles = With(c.profiles, c.default, route)]
    BY <1>0, <1>3, <2>3 DEF Configurations
  <2> QED BY <1>0, <2>4, <2>5 DEF Usable, Configurations
<1> QED BY <1>1, <1>2, <1>3 DEF EditsOf

-----------------------------------------------------------------------------
(***************************************************************************)
(* The file keeps its invariant.                                           *)
(***************************************************************************)

LEMMA FileBegins == FileInit => FileInv
<1> SUFFICES ASSUME FileInit PROVE FileInv
  OBVIOUS
<1> USE DEF FileInit
<1>1. busy \in BOOLEAN /\ edited \in BOOLEAN /\ ~ busy
  BY Zenon
<1>2. step \in [Programs -> FileSteps] /\ \A p \in Programs : step[p] = "down"
  BY DEF FileSteps
<1>3. FileTypes
  BY <1>1, <1>2 DEF FileTypes
<1>4. reply # "reloaded"
  BY FileAssumption
<1>5. ProgramsInStep
  BY <1>1, <1>2, <1>4 DEF ProgramsInStep, At, Programs
<1> QED
  BY <1>3, <1>4, <1>5 DEF FileInv, AckedSurvives, ReloadedIsCurrent, DaemonRunsOnValid

\* A program goes on, the other stays where it is.
LEMMA StepMoves ==
  ASSUME FileTypes, NEW p \in Programs, NEW s \in FileSteps, Goes(p, s)
  PROVE  /\ step' \in [Programs -> FileSteps]
         /\ step'[p] = s /\ \A q \in Programs : q # p => step'[q] = step[q]
BY DEF FileTypes, Goes

\* Both do at once.
LEMMA BothMove ==
  ASSUME FileTypes, NEW s \in FileSteps, NEW t \in FileSteps,
         step' = [step EXCEPT !["daemon"] = s, !["settings"] = t]
  PROVE  step' \in [Programs -> FileSteps] /\ step'["daemon"] = s /\ step'["settings"] = t
BY DEF FileTypes, Programs

\* A load that fails changes nothing but the steps and what the panel is told.
LEMMA FailureStep ==
  ASSUME FileInv, NEW p \in Programs, Failure(p), ~ At(p, "up"),
         UNCHANGED <<file, next, config, busy, acked, edited>>
  PROVE  FileInv' /\ step'["settings"] \in {step["settings"], "answered"}
<1> USE DEF FileInv
<1>1. CASE p = "settings" /\ Answer("error")
  <2>1. /\ step' \in [Programs -> FileSteps] /\ step'["settings"] = "answered"
        /\ step'["daemon"] = step["daemon"] /\ reply' = "error"
    BY <1>1, StepMoves DEF Answer, Programs, FileSteps
  <2> QED
    BY <2>1 DEF FileTypes, ProgramsInStep, AckedSurvives, ReloadedIsCurrent, DaemonRunsOnValid, At
<1>2. CASE /\ Reloaded(p, "stale")
           /\ step' = [step EXCEPT ![p] = FailedAt, !["settings"] = "answered"]
  <2>1. p = "daemon" /\ reply' = "stale" /\ ~ busy
    BY <1>2 DEF Reloaded, ProgramsInStep
  <2>2. step' \in [Programs -> FileSteps] /\ step'["settings"] = "answered"
    BY <1>2, <2>1, BothMove DEF FailedAt, FileSteps
  <2> QED
    BY <2>1, <2>2
    DEF FileTypes, ProgramsInStep, AckedSurvives, ReloadedIsCurrent, DaemonRunsOnValid, At
<1>3. CASE p = "daemon" /\ UNCHANGED reply /\ Goes(p, FailedAt)
  <2>1. /\ step' \in [Programs -> FileSteps] /\ step'["settings"] = step["settings"]
        /\ ~ busy
    BY <1>3, StepMoves DEF FailedAt, ProgramsInStep, Programs, FileSteps
  <2> QED
    BY <1>3, <2>1
    DEF FileTypes, ProgramsInStep, AckedSurvives, ReloadedIsCurrent, DaemonRunsOnValid, At
<1> QED
  BY <1>1, <1>2, <1>3 DEF Failure

\* A program in the middle of a load, and what it may do to the file.
LEMMA LoadMoves ==
  ASSUME FileInv, NEW p \in Programs, ~ At(p, "up"),
         step[p] \notin {"staged", "saved", "reloading", "answered", "down"},
         NEW s \in {"creating", "filling", "reading"}, Goes(p, s),
         UNCHANGED <<next, config, busy, reply, acked, edited>>,
         file' \in {Absent, Torn} \/ Usable(file'),
         acked # None /\ ~ edited => file' = file
  PROVE  FileInv'
<1> USE DEF FileInv
<1>1. /\ step' \in [Programs -> FileSteps] /\ step'[p] = s
      /\ \A q \in Programs : q # p => step'[q] = step[q]
  BY StepMoves DEF FileSteps
<1>2. FileTypes'
  BY <1>1 DEF FileTypes
<1>3. ProgramsInStep'
  BY <1>1 DEF ProgramsInStep, Programs, At
<1>4. AckedSurvives' /\ ReloadedIsCurrent' /\ DaemonRunsOnValid'
  BY DEF AckedSurvives, ReloadedIsCurrent, DaemonRunsOnValid
<1> QED BY <1>2, <1>3, <1>4

\* A load that creates the file finds none, so the last acknowledged update was edited
\* away; and it writes only into what it created.
LEMMA LoadStep ==
  ASSUME FileInv, NEW p \in Programs, Load(p)
  PROVE  FileInv'
<1> USE DEF FileInv
<1>1. acked # None /\ ~ edited => file \notin {Absent, Torn}
  BY FileAssumption DEF AckedSurvives, FileTypes, Usable
<1>2. CASE Exists(p)
  BY <1>2, LoadMoves DEF Exists, At, FileTypes
<1>3. CASE CreateNew(p)
  <2>1. CASE file = Absent
    BY <1>1, <1>3, <2>1, LoadMoves DEF CreateNew, At
  <2>2. CASE file # Absent
    BY <1>3, <2>2, FailureStep DEF CreateNew, At
  <2> QED BY <2>1, <2>2
<1>4. CASE WriteDefault(p)
  <2>1. CASE Failure(p) /\ UNCHANGED file
    BY <1>4, <2>1, FailureStep DEF WriteDefault, At
  <2>2. CASE /\ file' = (IF file = Torn THEN DefaultConfig ELSE file) /\ Goes(p, "reading")
             /\ UNCHANGED reply
    <3>1. file' \in {Absent, Torn} \/ Usable(file')
      BY <2>2, DefaultIsUsable DEF FileTypes
    <3>2. acked # None /\ ~ edited => file' = file
      BY <1>1, <2>2
    <3> QED BY <1>4, <2>2, <3>1, <3>2, LoadMoves DEF WriteDefault, At
  <2> QED BY <1>4, <2>1, <2>2 DEF WriteDefault
<1> QED BY <1>2, <1>3, <1>4 DEF Load

\* What the daemon runs on is read from the file, which has what was saved.
LEMMA ReadByDaemonStep ==
  ASSUME FileInv, ReadByDaemon
  PROVE  FileInv'
<1> USE DEF FileInv
<1>1. "daemon" \in Programs /\ step["daemon"] = "reading" /\ ~ busy
  BY DEF ReadByDaemon, At, Programs, ProgramsInStep
<1>2. UNCHANGED <<file, temps, next, busy, acked, edited>>
  BY DEF ReadByDaemon
<1>3. CASE ~ Loads
  BY <1>1, <1>2, <1>3, FailureStep DEF ReadByDaemon, At
<1>4. CASE Loads
  <2>1. config' = file /\ Valid(file) /\ file \in Configurations
    BY <1>4 DEF ReadByDaemon, Loads, IsWhole, FileTypes, Usable
  <2>2. CASE /\ Reloaded("daemon", "reloaded")
             /\ step' = [step EXCEPT !["daemon"] = "up", !["settings"] = "answered"]
    <3>1. /\ step["settings"] = "reloading" /\ reply' = "reloaded"
          /\ step' \in [Programs -> FileSteps] /\ step'["settings"] = "answered"
      BY <2>2, BothMove DEF Reloaded, At, FileSteps
    <3>2. FileTypes' /\ ProgramsInStep'
      BY <1>1, <1>2, <2>1, <3>1 DEF FileTypes, ProgramsInStep, At
    <3>3. AckedSurvives' /\ ReloadedIsCurrent' /\ DaemonRunsOnValid'
      BY <1>2, <2>1, <3>1 DEF AckedSurvives, ReloadedIsCurrent, DaemonRunsOnValid, ProgramsInStep
    <3> QED BY <3>2, <3>3
  <2>3. CASE Goes("daemon", "up") /\ UNCHANGED reply
    <3>1. step' \in [Programs -> FileSteps] /\ step'["settings"] = step["settings"]
      BY <1>1, <2>3, StepMoves DEF Programs, FileSteps
    <3>2. FileTypes' /\ ProgramsInStep'
      BY <1>1, <1>2, <2>1, <2>3, <3>1 DEF FileTypes, ProgramsInStep, At
    <3>3. AckedSurvives' /\ ReloadedIsCurrent' /\ DaemonRunsOnValid'
      BY <1>2, <2>1, <2>3 DEF AckedSurvives, ReloadedIsCurrent, DaemonRunsOnValid, ProgramsInStep
    <3> QED BY <3>2, <3>3
  <2> QED BY <1>4, <2>2, <2>3 DEF ReadByDaemon
<1> QED BY <1>3, <1>4

LEMMA DaemonStep ==
  ASSUME FileInv, StartDaemon \/ Work \/ ReloadByCommand
  PROVE  FileInv'
<1> USE DEF FileInv
<1>1. UNCHANGED <<file, next, config, reply, acked, edited>>
  BY DEF StartDaemon, Work, ReloadByCommand
<1>2. \/ step' = step /\ busy' \in BOOLEAN /\ At("daemon", "up")
      \/ Goes("daemon", "opening") /\ ~ busy /\ ~ busy'
  <2>1. CASE StartDaemon
    BY <2>1 DEF StartDaemon, ProgramsInStep, At
  <2>2. CASE Work
    <3>1. step' = step /\ At("daemon", "up")
      BY <2>2 DEF Work
    <3>2. busy' \in BOOLEAN
      BY <2>2, Zenon DEF Work
    <3> QED BY <3>1, <3>2, Zenon
  <2>3. CASE ReloadByCommand
    BY <2>3 DEF ReloadByCommand, MayReload
  <2> QED BY <2>1, <2>2, <2>3
<1>3. /\ step' \in [Programs -> FileSteps] /\ step'["settings"] = step["settings"]
      /\ busy' \in BOOLEAN /\ (busy' => step'["daemon"] = "up")
  <2>1. CASE step' = step /\ busy' \in BOOLEAN /\ At("daemon", "up")
    BY <2>1 DEF FileTypes, At
  <2>2. CASE Goes("daemon", "opening") /\ ~ busy /\ ~ busy'
    <3>1. step' \in [Programs -> FileSteps] /\ step'["settings"] = step["settings"]
      BY <2>2, StepMoves DEF Programs, FileSteps
    <3>2. busy' \in BOOLEAN
      BY DEF StartDaemon, Work, ReloadByCommand, FileTypes
    <3> QED BY <2>2, <3>1, <3>2
  <2> QED BY <1>2, <2>1, <2>2
<1>4. FileTypes' /\ ProgramsInStep'
  BY <1>1, <1>3 DEF FileTypes, ProgramsInStep, At
<1> QED
  BY <1>1, <1>4 DEF AckedSurvives, ReloadedIsCurrent, DaemonRunsOnValid

\* What the panel does on its own, up to the moment at which the file is replaced.
LEMMA PanelStep ==
  ASSUME FileInv, NEW s \in FileSteps, Goes("settings", s), s \notin {"saved", "reloading"},
         UNCHANGED <<file, config, busy, acked, edited>>,
         reply' = "reloaded" => reply = "reloaded" /\ s \in {"answered", "down"},
         next' = None \/ Usable(next'),
         s = "staged" => next' # None
  PROVE  FileInv'
<1> USE DEF FileInv
<1>1. /\ step' \in [Programs -> FileSteps] /\ step'["settings"] = s
      /\ step'["daemon"] = step["daemon"]
  BY StepMoves DEF Programs
<1>2. FileTypes'
  BY <1>1 DEF FileTypes
<1>3. ProgramsInStep'
  BY <1>1 DEF ProgramsInStep, At
<1>4. AckedSurvives' /\ ReloadedIsCurrent' /\ DaemonRunsOnValid'
  BY DEF AckedSurvives, ReloadedIsCurrent, DaemonRunsOnValid
<1> QED BY <1>2, <1>3, <1>4

LEMMA RequestStep ==
  ASSUME FileInv, StartSettings \/ Receive \/ ReadBySettings \/ ReplaceFails \/ KillSettings
  PROVE  FileInv'
<1> USE DEF FileInv
<1>0. None # "reloaded" /\ (next = None \/ Usable(next))
  BY FileAssumption DEF FileTypes
<1>1. CASE StartSettings
  <2>1. Goes("settings", "answered") /\ UNCHANGED <<file, config, busy, acked, edited, reply, next>>
    BY <1>1 DEF StartSettings
  <2>2. "answered" \in FileSteps
    BY DEF FileSteps
  <2> QED BY <1>0, <2>1, <2>2, PanelStep
<1>2. CASE Receive
  BY <1>0, <1>2, PanelStep DEF Receive, FileSteps
<1>3. CASE ReplaceFails
  BY <1>0, <1>3, PanelStep DEF ReplaceFails, Answer, FileSteps
<1>4. CASE KillSettings
  BY <1>0, <1>4, PanelStep DEF KillSettings, FileSteps
<1>5. CASE ReadBySettings
  <2>1. UNCHANGED <<file, config, busy, acked, edited>> /\ At("settings", "reading")
    BY <1>5 DEF ReadBySettings
  <2>2. CASE UNCHANGED next /\ (Answer("error") \/ Answer("looked"))
    BY <1>0, <2>1, <2>2, PanelStep DEF Answer, FileSteps
  <2>3. CASE ~ (UNCHANGED next /\ (Answer("error") \/ Answer("looked")))
    <3>1. PICK update \in Updates :
            /\ Loads /\ Accepted(update) /\ next' = Applied(update, file)
            /\ Goes("settings", "staged") /\ UNCHANGED reply
      BY <1>5, <2>3 DEF ReadBySettings, Requests
    <3>2. Usable(file)
      BY <3>1 DEF Loads, IsWhole, FileTypes
    <3>3. Usable(next') /\ next' # None
      BY <3>1, <3>2, AcceptedIsUsable, FileAssumption DEF Usable
    <3>4. reply # "reloaded"
      BY <2>1 DEF ProgramsInStep, At
    <3> QED BY <2>1, <3>1, <3>3, <3>4, PanelStep DEF FileSteps
  <2> QED BY <2>2, <2>3
<1> QED BY <1>1, <1>2, <1>3, <1>4, <1>5

LEMMA ReplaceStep ==
  ASSUME FileInv, Replace
  PROVE  FileInv'
<1> USE DEF FileInv
<1>1. /\ step["settings"] = "staged" /\ next # None /\ Usable(next)
      /\ file' = next /\ acked' = next /\ next' = None /\ ~ edited'
      /\ UNCHANGED <<config, busy, reply>>
  BY DEF Replace, At, ProgramsInStep, FileTypes
<1>2. /\ step' \in [Programs -> FileSteps] /\ step'["settings"] = "saved"
      /\ step'["daemon"] = step["daemon"]
  BY StepMoves DEF Replace, Programs, FileSteps
<1>3. reply # "reloaded"
  BY <1>1 DEF ProgramsInStep
<1>4. edited' \in BOOLEAN
  BY Zenon DEF Replace
<1>5. FileTypes'
  BY <1>1, <1>2, <1>4 DEF FileTypes
<1>6. ProgramsInStep'
  BY <1>1, <1>2, <1>3 DEF ProgramsInStep, At
<1>7. AckedSurvives' /\ ReloadedIsCurrent' /\ DaemonRunsOnValid'
  BY <1>1, <1>3 DEF AckedSurvives, ReloadedIsCurrent, DaemonRunsOnValid
<1> QED BY <1>5, <1>6, <1>7

LEMMA AskReloadStep ==
  ASSUME FileInv, AskReload
  PROVE  FileInv'
<1> USE DEF FileInv
<1>1. At("settings", "saved") /\ UNCHANGED <<file, next, config, busy, acked, edited>>
  BY DEF AskReload
<1>2. CASE ~ MayReload
  BY <1>1, <1>2, PanelStep DEF AskReload, Answer, FileSteps, FileTypes
<1>3. CASE MayReload
  <2>1. /\ step' \in [Programs -> FileSteps] /\ step'["settings"] = "reloading"
        /\ UNCHANGED reply /\ ~ busy
    BY <1>3, BothMove DEF AskReload, MayReload, FileSteps
  <2>2. FileTypes' /\ ProgramsInStep'
    BY <1>1, <2>1 DEF FileTypes, ProgramsInStep, At
  <2> QED
    BY <1>1, <2>1, <2>2 DEF AckedSurvives, ReloadedIsCurrent, DaemonRunsOnValid
<1> QED BY <1>2, <1>3

LEMMA KillDaemonStep ==
  ASSUME FileInv, KillDaemon
  PROVE  FileInv'
<1> USE DEF FileInv
<1>1. config' = None /\ ~ busy' /\ UNCHANGED <<file, next, acked, edited>>
  BY DEF KillDaemon
<1>2. busy' \in BOOLEAN
  BY Zenon DEF KillDaemon
<1>3. CASE At("settings", "reloading")
  <2>1. /\ step' \in [Programs -> FileSteps] /\ step'["settings"] = "answered"
        /\ reply' = "stale"
    BY <1>3, BothMove DEF KillDaemon, FileSteps
  <2>2. FileTypes' /\ ProgramsInStep'
    BY <1>1, <1>2, <2>1 DEF FileTypes, ProgramsInStep, At
  <2> QED
    BY <1>1, <2>1, <2>2 DEF AckedSurvives, ReloadedIsCurrent, DaemonRunsOnValid
<1>4. CASE ~ At("settings", "reloading")
  <2>1. /\ step' \in [Programs -> FileSteps] /\ step'["settings"] = step["settings"]
        /\ UNCHANGED reply
    BY <1>4, StepMoves DEF KillDaemon, FileSteps, Programs
  <2>2. FileTypes' /\ ProgramsInStep'
    BY <1>1, <1>2, <2>1 DEF FileTypes, ProgramsInStep, At
  <2> QED
    BY <1>1, <2>1, <2>2 DEF AckedSurvives, ReloadedIsCurrent, DaemonRunsOnValid
<1> QED BY <1>3, <1>4

LEMMA EditStep ==
  ASSUME FileInv, UserEdits
  PROVE  FileInv'
<1> USE DEF FileInv
<1>1. edited' /\ UNCHANGED <<step, next, config, busy, reply, acked>>
  BY DEF UserEdits
<1>2. edited' \in BOOLEAN
  BY Zenon DEF UserEdits
<1>3. file' = Absent \/ Usable(file')
  BY EditIsUsable DEF UserEdits, IsWhole, FileTypes
<1>4. FileTypes' /\ ProgramsInStep'
  BY <1>1, <1>2, <1>3 DEF FileTypes, ProgramsInStep, At
<1> QED
  BY <1>1, <1>4 DEF AckedSurvives, ReloadedIsCurrent, DaemonRunsOnValid

LEMMA FileKept == FileInv /\ (FileNext \/ UNCHANGED vars) => FileInv'
<1> SUFFICES ASSUME FileInv, FileNext \/ UNCHANGED vars PROVE FileInv'
  OBVIOUS
<1>1. CASE UNCHANGED vars
  BY <1>1 DEF vars, FileInv, FileTypes, ProgramsInStep, AckedSurvives, ReloadedIsCurrent,
              DaemonRunsOnValid, At
<1>2. CASE FileNext
  <2>1. "settings" \in Programs /\ "daemon" \in Programs
    BY DEF Programs
  <2>2. CASE Daemon
    BY <2>1, <2>2, LoadStep, ReadByDaemonStep, DaemonStep DEF Daemon
  <2>3. CASE Settings \/ KillSettings
    BY <2>1, <2>3, LoadStep, RequestStep, ReplaceStep, AskReloadStep DEF Settings
  <2> QED BY <1>2, <2>2, <2>3, KillDaemonStep, EditStep DEF FileNext
<1> QED BY <1>1, <1>2

\* Nobody makes half of a file that was whole.
LEMMA WholeStep ==
  ASSUME FileInv, FileNext, IsWhole(file)
  PROVE  file' # Torn
<1> USE DEF FileInv, IsWhole
<1>0. file # Torn /\ DefaultConfig # Torn
  BY DefaultIsUsable, FileAssumption DEF Usable
<1>1. ASSUME NEW p \in Programs, Load(p) PROVE file' # Torn
  BY <1>0, <1>1 DEF Load, Exists, CreateNew, WriteDefault
<1>2. CASE Replace
  BY <1>2, FileAssumption DEF Replace, ProgramsInStep, FileTypes, Usable
<1>3. CASE UserEdits
  <2>1. file' = Absent \/ Usable(file')
    BY <1>3, EditIsUsable DEF UserEdits, FileTypes
  <2> QED BY <2>1, FileAssumption DEF Usable
<1>4. CASE file' = file
  BY <1>0, <1>4
<1>5. (\E p \in Programs : Load(p)) \/ Replace \/ UserEdits \/ file' = file
  BY DEF FileNext, Daemon, Settings, Programs, ReadByDaemon, StartDaemon, Work, ReloadByCommand,
         ReadBySettings, StartSettings, Receive, ReplaceFails, AskReload, KillSettings, KillDaemon
<1> QED BY <1>1, <1>2, <1>3, <1>4, <1>5

\* The daemon only reads in a step in which it does not work.
LEMMA BusyStep ==
  ASSUME FileInv, FileNext, busy, busy'
  PROVE  config' = config
<1>1. ~ ReadByDaemon
  BY DEF FileInv, ProgramsInStep, ReadByDaemon, At
<1>2. ~ KillDaemon
  BY DEF KillDaemon
<1> QED
  BY <1>1, <1>2
  DEF FileNext, Daemon, Settings, Load, Exists, CreateNew, WriteDefault, StartDaemon, Work,
      ReloadByCommand, ReadBySettings, StartSettings, Receive, ReplaceFails, Replace, AskReload,
      KillSettings, UserEdits

\* Once its file is written, the panel goes on by replacing the configuration, or by
\* failing to, or not at all.
LEMMA StagedStep ==
  ASSUME FileInv, FileNext, At("settings", "staged"),
         step'["settings"] \notin {"staged", "down"}
  PROVE  temps' \subseteq temps \ {pid}
<1> USE DEF FileInv
<1>1. CASE ReplaceFails \/ Replace
  BY <1>1 DEF ReplaceFails, Replace
<1>2. CASE Daemon
  <2>1. ASSUME NEW s \in FileSteps, Goes("daemon", s) PROVE FALSE
    BY <2>1, StepMoves DEF Programs, At
  <2>2. ASSUME Failure("daemon") PROVE FALSE
    BY <2>1, <2>2 DEF Failure, Reloaded, FailedAt, FileSteps, At
  <2>3. CASE Load("daemon")
    BY <2>1, <2>2, <2>3 DEF Load, Exists, CreateNew, WriteDefault, FileSteps
  <2>4. CASE ReadByDaemon
    BY <2>1, <2>2, <2>4 DEF ReadByDaemon, Reloaded, FileSteps, At
  <2>5. CASE StartDaemon \/ ReloadByCommand
    BY <2>1, <2>5 DEF StartDaemon, ReloadByCommand, FileSteps
  <2>6. CASE Work
    BY <2>6 DEF Work, At
  <2> QED BY <1>2, <2>3, <2>4, <2>5, <2>6 DEF Daemon
<1>3. CASE KillSettings
  BY <1>3, StepMoves DEF KillSettings, Programs, FileSteps
<1>4. CASE KillDaemon
  BY <1>4, StepMoves DEF KillDaemon, Programs, FileSteps, At
<1>5. CASE UserEdits
  BY <1>5 DEF UserEdits, At
<1>6. CASE Load("settings") \/ ReadBySettings \/ StartSettings \/ Receive \/ AskReload
  BY <1>6
  DEF Load, Exists, CreateNew, WriteDefault, ReadBySettings, StartSettings, Receive, AskReload, At
<1> QED BY <1>1, <1>2, <1>3, <1>4, <1>5, <1>6 DEF FileNext, Settings

-----------------------------------------------------------------------------
(***************************************************************************)
(* The guard keeps its invariant.                                          *)
(***************************************************************************)

LEMMA GuardBegins == Guard!GuardInit => GuardInv
BY DEF Guard!GuardInit, GuardInv, GuardTypes, CreatorKeepsFile, FileHasCreator, OneAcquires,
       PanelSteps, Guard!Acquiring

\* A panel's step says where it stands, and those of the others stay.
LEMMA PanelMoves ==
  ASSUME GuardTypes, NEW p \in Panels, NEW s, Guard!Goes(p, s)
  PROVE  panelStep'[p] = s /\ \A q \in Panels : q # p => panelStep'[q] = panelStep[q]
BY DEF GuardTypes, Guard!Goes

\* What a file that is there says.
LEMMA FileFields ==
  ASSUME GuardTypes
  PROVE  /\ \A p \in Panels : \A written \in BOOLEAN :
              FileOf(p, written) => /\ guardFile.by = p /\ guardFile.written = written
                                    /\ guardFile # NoFile
         /\ guardFile # NoFile => /\ FileOf(guardFile.by, guardFile.written)
                                  /\ guardFile.by \in Panels /\ guardFile.written \in BOOLEAN
BY PanelsAssumption DEF GuardTypes, FileOf, Guard!GuardAssumption

LEMMA GuardTypesKept ==
  ASSUME GuardTypes, Guard!GuardNext
  PROVE  GuardTypes'
<1>1. PICK p \in Panels :
        \/ Guard!Start(p) \/ Guard!Read(p) \/ Guard!Look(p) \/ Guard!Remove(p)
        \/ Guard!Create(p) \/ Guard!Write(p) \/ Guard!Fails(p) \/ Guard!Close(p) \/ Guard!Kill(p)
  BY DEF Guard!GuardNext
<1> USE DEF GuardTypes, Guard!Goes, Guard!history, PanelSteps
<1>2. CASE Guard!Start(p)
  BY <1>2 DEF Guard!Start
<1>3. CASE Guard!Read(p)
  <2>1. guardFile # NoFile => guardFile.by \in Panels
    BY FileFields
  <2> QED BY <1>3, <2>1 DEF Guard!Read
<1>4. CASE Guard!Look(p)
  BY <1>4 DEF Guard!Look
<1>5. CASE Guard!Remove(p)
  <2>1. robbed' \in BOOLEAN
    BY <1>5, Zenon DEF Guard!Remove
  <2> QED BY <1>5, <2>1 DEF Guard!Remove
<1>6. CASE Guard!Create(p)
  <2>1. [by |-> p, written |-> FALSE] \in [by : Panels, written : BOOLEAN]
    OBVIOUS
  <2>2. guardFile' \in [by : Panels, written : BOOLEAN] \cup {NoFile}
    BY <1>6, <2>1 DEF Guard!Create
  <2>3. panelStep' \in [Panels -> PanelSteps]
    BY <1>6 DEF Guard!Create
  <2> QED BY <1>6, <2>2, <2>3 DEF Guard!Create
<1>7. CASE Guard!Write(p)
  BY <1>7 DEF Guard!Write
<1>8. CASE Guard!Close(p)
  BY <1>8 DEF Guard!Close
<1>9. CASE Guard!Kill(p)
  BY <1>9 DEF Guard!Kill
<1>10. CASE Guard!Fails(p)
  BY <1>10 DEF Guard!Fails
<1> QED
  BY <1>1, <1>2, <1>3, <1>4, <1>5, <1>6, <1>7, <1>8, <1>9, <1>10

LEMMA CreatorStep ==
  ASSUME GuardInv, Guard!GuardNext
  PROVE  CreatorKeepsFile'
<1>1. PICK p \in Panels :
        \/ Guard!Start(p) \/ Guard!Read(p) \/ Guard!Look(p) \/ Guard!Remove(p)
        \/ Guard!Create(p) \/ Guard!Write(p) \/ Guard!Fails(p) \/ Guard!Close(p) \/ Guard!Kill(p)
  BY DEF Guard!GuardNext
<1> SUFFICES ASSUME ~ robbed', NEW q \in Panels, panelStep'[q] \in {"writing", "running"}
             PROVE  \E written \in BOOLEAN : FileOf(q, written)'
  BY DEF CreatorKeepsFile
<1> USE DEF GuardInv, FileOf
<1>2. \A s : Guard!Goes(p, s)
              => panelStep'[p] = s /\ (q # p => panelStep'[q] = panelStep[q])
  BY PanelMoves
<1>3. ~ robbed
  BY <1>1 DEF Guard!Start, Guard!Read, Guard!Look, Guard!Remove, Guard!Create, Guard!Write,
              Guard!Fails, Guard!Close, Guard!Kill, Guard!history
<1>4. ASSUME guardFile' = guardFile, panelStep[q] \in {"writing", "running"}
      PROVE  \E written \in BOOLEAN : FileOf(q, written)'
  BY <1>3, <1>4 DEF CreatorKeepsFile
<1>5. CASE Guard!Start(p)
  BY <1>2, <1>4, <1>5 DEF Guard!Start
<1>6. CASE Guard!Read(p)
  BY <1>2, <1>4, <1>6 DEF Guard!Read
<1>7. CASE Guard!Look(p)
  BY <1>2, <1>4, <1>7 DEF Guard!Look
<1>8. CASE Guard!Remove(p)
  <2>1. guardFile # NoFile => ~ Guard!Lives(guardFile.by)
    BY <1>8 DEF Guard!Remove
  <2>2. panelStep[q] \notin {"writing", "running"}
    BY <1>3, <2>1, FileFields DEF CreatorKeepsFile, Guard!Lives
  <2> QED BY <1>2, <1>8, <2>2 DEF Guard!Remove
<1>9. CASE Guard!Create(p)
  <2>1. CASE guardFile = NoFile
    <3>1. panelStep[q] \notin {"writing", "running"}
      BY <1>3, <2>1, FileFields DEF CreatorKeepsFile
    <3>2. q = p
      BY <1>2, <1>9, <2>1, <3>1 DEF Guard!Create
    <3> QED BY <1>9, <2>1, <3>2 DEF Guard!Create
  <2>2. CASE guardFile # NoFile
    BY <1>2, <1>4, <1>9, <2>2 DEF Guard!Create
  <2> QED BY <2>1, <2>2
<1>10. CASE Guard!Write(p)
  <2>1. panelStep[q] \in {"writing", "running"}
    BY <1>2, <1>10 DEF Guard!Write, Guard!At
  <2>2. PICK written \in BOOLEAN : FileOf(q, written)
    BY <1>3, <2>1 DEF CreatorKeepsFile
  <2>3. CASE guardFile = [by |-> p, written |-> FALSE]
    <3>1. guardFile' = [by |-> p, written |-> TRUE]
      BY <1>10, <2>3 DEF Guard!Write
    <3>2. p = q
      BY <2>2, <2>3
    <3> QED BY <3>1, <3>2
  <2>4. CASE guardFile # [by |-> p, written |-> FALSE]
    <3>1. guardFile' = guardFile
      BY <1>10, <2>4 DEF Guard!Write
    <3> QED BY <2>2, <3>1
  <2> QED BY <2>3, <2>4
<1>11. CASE Guard!Close(p)
  <2>1. q # p /\ panelStep[q] \in {"writing", "running"} /\ panelStep[p] = "running"
    BY <1>2, <1>11 DEF Guard!Close, Guard!At
  <2>2. guardFile.by = p /\ guardFile.by = q
    BY <1>3, <2>1, FileFields DEF CreatorKeepsFile
  <2> QED BY <2>1, <2>2
<1>12. CASE Guard!Kill(p)
  BY <1>2, <1>4, <1>12 DEF Guard!Kill
<1>13. CASE Guard!Fails(p)
  BY <1>2, <1>4, <1>13 DEF Guard!Fails
<1> QED
  BY <1>1, <1>5, <1>6, <1>7, <1>8, <1>9, <1>10, <1>11, <1>12, <1>13

LEMMA FileStep ==
  ASSUME GuardInv, Guard!GuardNext
  PROVE  FileHasCreator'
<1>1. PICK p \in Panels :
        \/ Guard!Start(p) \/ Guard!Read(p) \/ Guard!Look(p) \/ Guard!Remove(p)
        \/ Guard!Create(p) \/ Guard!Write(p) \/ Guard!Fails(p) \/ Guard!Close(p) \/ Guard!Kill(p)
  BY DEF Guard!GuardNext
<1> DEFINE Kept(by) == panelStep[by] \in {"writing", "running"} \/ by \in unclean
           KeptNext(by) == panelStep'[by] \in {"writing", "running"} \/ by \in unclean'
<1> SUFFICES ASSUME guardFile' # NoFile PROVE KeptNext(guardFile'.by)
  BY DEF FileHasCreator
<1> USE DEF GuardInv
<1>2. \A s : Guard!Goes(p, s)
              => panelStep'[p] = s /\ \A q \in Panels : q # p => panelStep'[q] = panelStep[q]
  BY PanelMoves
<1>3. unclean \subseteq unclean'
  BY <1>1 DEF Guard!Start, Guard!Read, Guard!Look, Guard!Remove, Guard!Create, Guard!Write,
              Guard!Fails, Guard!Close, Guard!Kill, Guard!history
<1>4. ASSUME guardFile' = guardFile, panelStep[p] \notin {"writing", "running"},
             NEW s, Guard!Goes(p, s)
      PROVE  KeptNext(guardFile'.by)
  <2>1. guardFile.by \in Panels /\ Kept(guardFile.by)
    BY <1>4, FileFields DEF FileHasCreator
  <2> QED BY <1>2, <1>3, <1>4, <2>1
<1>5. CASE Guard!Start(p)
  BY <1>4, <1>5 DEF Guard!Start, Guard!At
<1>6. CASE Guard!Read(p)
  BY <1>4, <1>6 DEF Guard!Read, Guard!At
<1>7. CASE Guard!Look(p)
  BY <1>4, <1>7 DEF Guard!Look, Guard!At
<1>8. CASE Guard!Remove(p)
  BY <1>8 DEF Guard!Remove
<1>9. CASE Guard!Create(p)
  <2>1. CASE guardFile = NoFile
    <3>1. guardFile'.by = p /\ panelStep'[p] = "writing"
      BY <1>2, <1>9, <2>1 DEF Guard!Create
    <3> QED BY <3>1
  <2>2. CASE guardFile # NoFile
    BY <1>4, <1>9, <2>2 DEF Guard!Create, Guard!At
  <2> QED BY <2>1, <2>2
<1>10. CASE Guard!Write(p)
  <2>1. panelStep'[p] = "running" /\ \A q \in Panels : q # p => panelStep'[q] = panelStep[q]
    BY <1>2, <1>10 DEF Guard!Write
  <2>2. CASE guardFile' = guardFile
    <3>1. guardFile.by \in Panels /\ Kept(guardFile.by)
      BY <2>2, FileFields DEF FileHasCreator
    <3> QED BY <1>3, <2>1, <2>2, <3>1
  <2>3. CASE guardFile' = [by |-> p, written |-> TRUE]
    <3>1. guardFile'.by = p
      BY <2>3
    <3> QED BY <2>1, <3>1
  <2> QED BY <1>10, <2>2, <2>3 DEF Guard!Write
<1>11. CASE Guard!Close(p)
  BY <1>11 DEF Guard!Close
<1>12. CASE Guard!Kill(p) \/ Guard!Fails(p)
  <2>1. guardFile' = guardFile /\ Guard!Goes(p, "gone")
        /\ (panelStep[p] \in {"writing", "running"} => p \in unclean')
    BY <1>12 DEF Guard!Kill, Guard!Fails, Guard!At
  <2>2. guardFile.by \in Panels /\ Kept(guardFile.by)
    BY <2>1, FileFields DEF FileHasCreator
  <2> QED BY <1>2, <1>3, <2>1, <2>2
<1> QED
  BY <1>1, <1>5, <1>6, <1>7, <1>8, <1>9, <1>10, <1>11, <1>12

LEMMA AcquiresStep ==
  ASSUME GuardInv, Guard!GuardNext
  PROVE  OneAcquires'
<1>1. PICK p \in Panels :
        \/ Guard!Start(p) \/ Guard!Read(p) \/ Guard!Look(p) \/ Guard!Remove(p)
        \/ Guard!Create(p) \/ Guard!Write(p) \/ Guard!Fails(p) \/ Guard!Close(p) \/ Guard!Kill(p)
  BY DEF Guard!GuardNext
<1> SUFFICES ASSUME ~ panelsOverlapped'
             PROVE
               /\ \A q, r \in Panels : Guard!Acquiring(q)' /\ Guard!Acquiring(r)' => q = r
               /\ \A q \in Panels : panelStep'[q] = "running" =>
                    /\ FileOf(q, TRUE)'
                    /\ \A r \in Panels : /\ panelStep'[r] = "looking" => seen'[r] = q
                                         /\ panelStep'[r] \notin {"removing", "writing"}
               /\ \A q \in Panels : panelStep'[q] = "writing" => FileOf(q, FALSE)'
  BY DEF OneAcquires
<1> USE DEF GuardInv, Guard!Acquiring
<1>2. \A s : Guard!Goes(p, s)
              => panelStep'[p] = s /\ \A q \in Panels : q # p => panelStep'[q] = panelStep[q]
  BY PanelMoves
<1>3. ~ panelsOverlapped
  BY <1>1 DEF Guard!Start, Guard!Read, Guard!Look, Guard!Remove, Guard!Create, Guard!Write,
              Guard!Fails, Guard!Close, Guard!Kill, Guard!history
<1>4. /\ \A q, r \in Panels : Guard!Acquiring(q) /\ Guard!Acquiring(r) => q = r
      /\ \A q \in Panels : panelStep[q] = "running" =>
           /\ FileOf(q, TRUE)
           /\ \A r \in Panels : /\ panelStep[r] = "looking" => seen[r] = q
                                /\ panelStep[r] \notin {"removing", "writing"}
      /\ \A q \in Panels : panelStep[q] = "writing" => FileOf(q, FALSE)
  BY <1>3 DEF OneAcquires
<1>5. CASE Guard!Start(p)
  <2>1. /\ panelStep'[p] = "reading" /\ UNCHANGED <<guardFile, seen>>
        /\ \A q \in Panels : ~ Guard!Acquiring(q)
    BY <1>2, <1>5 DEF Guard!Start
  <2> QED BY <1>2, <1>4, <1>5, <2>1 DEF Guard!Start, FileOf
<1>6. CASE Guard!Read(p)
  <2>1. Guard!Acquiring(p) /\ UNCHANGED guardFile
    BY <1>6 DEF Guard!Read, Guard!At
  <2>2. CASE guardFile # NoFile /\ guardFile.written
    <3>1. panelStep'[p] = "looking" /\ seen' = [seen EXCEPT ![p] = guardFile.by]
      BY <1>2, <1>6, <2>2 DEF Guard!Read
    <3>2. \A q \in Panels : panelStep'[q] # "writing"
      BY <1>2, <1>4, <1>6, <2>1, <3>1 DEF Guard!Read
    <3>3. \A q \in Panels : panelStep[q] = "running" => seen'[p] = q
      BY <1>4, <3>1, FileFields DEF GuardTypes
    <3> QED BY <1>2, <1>4, <1>6, <2>1, <3>1, <3>2, <3>3 DEF Guard!Read, FileOf
  <2>3. CASE ~ (guardFile # NoFile /\ guardFile.written)
    <3>1. panelStep'[p] = "creating" /\ UNCHANGED seen
      BY <1>2, <1>6, <2>3 DEF Guard!Read
    <3> QED BY <1>2, <1>4, <1>6, <2>1, <3>1 DEF Guard!Read, FileOf
  <2> QED BY <2>2, <2>3
<1>7. CASE Guard!Look(p)
  <2>1. Guard!Acquiring(p) /\ UNCHANGED <<guardFile, seen>>
    BY <1>7 DEF Guard!Look, Guard!At
  <2>2. CASE Guard!Lives(seen[p])
    <3>1. panelStep'[p] = "gone"
      BY <1>2, <1>7, <2>2 DEF Guard!Look, Guard!IsPanel
    <3> QED BY <1>2, <1>4, <1>7, <2>1, <3>1 DEF Guard!Look, FileOf
  <2>3. CASE ~ Guard!Lives(seen[p])
    <3>1. panelStep'[p] = "removing"
      BY <1>2, <1>7, <2>3 DEF Guard!Look, Guard!IsPanel
    <3>2. \A q \in Panels : panelStep[q] # "running"
      BY <1>4, <1>7, <2>3 DEF Guard!Look, Guard!At, Guard!Lives
    <3> QED BY <1>2, <1>4, <1>7, <2>1, <3>1, <3>2 DEF Guard!Look, FileOf
  <2> QED BY <2>2, <2>3
<1>8. CASE Guard!Remove(p)
  <2>1. Guard!Acquiring(p) /\ panelStep'[p] = "creating"
    BY <1>2, <1>8 DEF Guard!Remove, Guard!At
  <2>2. \A q \in Panels : panelStep[q] # "running"
    BY <1>4, <1>8 DEF Guard!Remove, Guard!At
  <2> QED BY <1>2, <1>4, <1>8, <2>1, <2>2 DEF Guard!Remove, FileOf
<1>9. CASE Guard!Create(p)
  <2>1. Guard!Acquiring(p)
    BY <1>9 DEF Guard!Create, Guard!At
  <2>2. CASE guardFile = NoFile
    <3>1. panelStep'[p] = "writing" /\ FileOf(p, FALSE)'
      BY <1>2, <1>9, <2>2 DEF Guard!Create, FileOf
    <3>2. \A q \in Panels : panelStep[q] # "running"
      BY <1>4, <2>2, FileFields
    <3> QED BY <1>2, <1>4, <1>9, <2>1, <3>1, <3>2 DEF Guard!Create
  <2>3. CASE guardFile # NoFile
    <3>1. panelStep'[p] = "gone" /\ UNCHANGED <<guardFile, seen>>
      BY <1>2, <1>9, <2>3 DEF Guard!Create
    <3> QED BY <1>2, <1>4, <1>9, <2>1, <3>1 DEF Guard!Create, FileOf
  <2> QED BY <2>2, <2>3
<1>10. CASE Guard!Write(p)
  <2>1. /\ Guard!Acquiring(p) /\ panelStep'[p] = "running" /\ FileOf(p, FALSE)
        /\ \A q \in Panels : panelStep[q] # "running"
    BY <1>2, <1>4, <1>10 DEF Guard!Write, Guard!At
  <2>2. FileOf(p, TRUE)' /\ UNCHANGED seen
    BY <1>10, <2>1 DEF Guard!Write, FileOf
  <2> QED BY <1>2, <1>4, <1>10, <2>1, <2>2 DEF Guard!Write
<1>11. CASE Guard!Close(p)
  <2>1. panelStep'[p] = "gone" /\ panelStep[p] = "running"
    BY <1>2, <1>11 DEF Guard!Close, Guard!At
  <2>2. \A q \in Panels : panelStep[q] = "running" => q = p
    BY <1>4, <2>1, FileFields
  <2> QED BY <1>2, <1>4, <1>11, <2>1, <2>2 DEF Guard!Close
<1>12. CASE Guard!Kill(p) \/ Guard!Fails(p)
  BY <1>2, <1>4, <1>12 DEF Guard!Kill, Guard!Fails, FileOf
<1> QED
  BY <1>1, <1>5, <1>6, <1>7, <1>8, <1>9, <1>10, <1>11, <1>12

LEMMA GuardStep == GuardInv /\ (Guard!GuardNext \/ UNCHANGED guardVars) => GuardInv'
<1>1. CASE GuardInv /\ Guard!GuardNext
  BY <1>1, GuardTypesKept, CreatorStep, FileStep, AcquiresStep DEF GuardInv
<1>2. CASE GuardInv /\ UNCHANGED guardVars
  BY <1>2 DEF guardVars, GuardInv, GuardTypes, CreatorKeepsFile, FileHasCreator, OneAcquires,
              FileOf, Guard!Acquiring
<1> QED BY <1>1, <1>2

LEMMA GuardHolds ==
  GuardInv => Guard!OneAtATime /\ Guard!OneUnlessRobbed /\ Guard!ClosedLeavesNothing
<1> SUFFICES ASSUME GuardInv
             PROVE  Guard!OneAtATime /\ Guard!OneUnlessRobbed /\ Guard!ClosedLeavesNothing
  OBVIOUS
<1> USE DEF GuardInv, Guard!AtMostOne, Guard!At
<1>1. Guard!OneAtATime
  BY FileFields DEF OneAcquires, Guard!OneAtATime
<1>2. Guard!OneUnlessRobbed
  BY FileFields DEF CreatorKeepsFile, Guard!OneUnlessRobbed
<1>3. Guard!ClosedLeavesNothing
  <2>1. guardFile # NoFile => guardFile.by \in Panels
    BY FileFields
  <2> QED BY <2>1 DEF FileHasCreator, Guard!ClosedLeavesNothing, Guard!Lives
<1> QED BY <1>1, <1>2, <1>3

-----------------------------------------------------------------------------
(***************************************************************************)
(* So does the overlay.                                                    *)
(***************************************************************************)

LEMMA OverlayBegins == Overlay!OverlayInit => OverlayInv
<1> SUFFICES ASSUME Overlay!OverlayInit PROVE OverlayInv
  OBVIOUS
<1> USE DEF Overlay!OverlayInit
<1>1. OverlayTypes
  <2>1. sent \in Nat /\ endedAt \in Nat
    OBVIOUS
  <2>2. recording \in BOOLEAN /\ overlapped \in BOOLEAN /\ assured \in BOOLEAN
    BY Zenon
  <2>3. messageStep \in [Overlay!Messages -> MessageSteps]
    BY DEF MessageSteps
  <2> QED BY <2>1, <2>2, <2>3 DEF OverlayTypes
<1>2. MessagesInOrder
  BY DEF MessagesInOrder, Overlay!Ended
<1>3. WindowIsRecorded
  BY DEF WindowIsRecorded, Overlay!Ended
<1>4. Overlay!MessageHasWindow
  BY DEF Overlay!MessageHasWindow
<1>5. Overlay!LastWordStays
  BY DEF Overlay!LastWordStays, Overlay!Written
<1> QED BY <1>1, <1>2, <1>3, <1>4, <1>5 DEF OverlayInv

\* The process of a message moves, those of the others stay.
LEMMA ProcessMoves ==
  ASSUME OverlayTypes, NEW n \in Overlay!Messages, NEW s,
         messageStep' = [messageStep EXCEPT ![n] = s]
  PROVE  messageStep'[n] = s
         /\ \A m \in Overlay!Messages : m # n => messageStep'[m] = messageStep[m]
BY DEF OverlayTypes

\* What a message changes, whatever it says.
LEMMA SendStep ==
  ASSUME OverlayInv, Overlay!Sends, UNCHANGED <<windows, pidFile, unrecorded, assured, state>>
  PROVE  /\ sent' = sent + 1 /\ sent + 1 \in Overlay!Messages
         /\ messageStep' \in [Overlay!Messages -> MessageSteps] /\ overlapped' \in BOOLEAN
         /\ \A n \in Overlay!Messages : n > sent' => messageStep'[n] = "none"
         /\ ~ overlapped' => \A n \in Overlay!Messages : ~ Overlay!Ended(n)' => n = sent'
         /\ WindowIsRecorded' /\ Overlay!MessageHasWindow'
         /\ \A n \in Overlay!Messages : Overlay!Written(n)' <=> Overlay!Written(n)
         /\ ~ Overlay!Written(sent)'
<1> USE DEF OverlayInv, Overlay!Sends
<1>1. sent' = sent + 1 /\ sent + 1 \in Overlay!Messages /\ sent \in Nat
  BY MessagesAssumption DEF Overlay!Messages, Overlay!OverlayAssumption, OverlayTypes
<1>2. messageStep' \in [Overlay!Messages -> MessageSteps]
  BY <1>1 DEF OverlayTypes, MessageSteps
<1>3. overlapped' \in BOOLEAN
  BY Zenon DEF OverlayTypes
<1>4. messageStep'[sent + 1] = "writing"
      /\ \A m \in Overlay!Messages : m # sent + 1 => messageStep'[m] = messageStep[m]
  BY <1>1, ProcessMoves
<1>5. messageStep[sent + 1] = "none"
  BY <1>1 DEF MessagesInOrder
<1>6. \A n \in Overlay!Messages : n > sent' => messageStep'[n] = "none"
  <2> SUFFICES ASSUME NEW n \in Overlay!Messages, n > sent' PROVE messageStep'[n] = "none"
    OBVIOUS
  <2>1. n \in Nat /\ n > sent /\ n # sent + 1
    BY <1>1 DEF Overlay!Messages
  <2> QED BY <1>4, <2>1 DEF MessagesInOrder
<1>7. ~ overlapped' => ~ overlapped /\ \A n \in Overlay!Messages : Overlay!Ended(n)
  BY Zenon
<1>8. ~ overlapped' => \A n \in Overlay!Messages : ~ Overlay!Ended(n)' => n = sent'
  BY <1>1, <1>4, <1>7 DEF Overlay!Ended
<1>9. WindowIsRecorded'
  <2> SUFFICES ASSUME ~ overlapped' PROVE WindowIsRecorded'
    BY DEF WindowIsRecorded
  <2>1. windows \ unrecorded \subseteq {pidFile}
    BY <1>7 DEF WindowIsRecorded, Overlay!Ended
  <2> QED BY <1>4, <1>7, <2>1 DEF WindowIsRecorded, Overlay!Ended
<1>10. Overlay!MessageHasWindow'
  BY DEF Overlay!MessageHasWindow
<1>11. \A n \in Overlay!Messages : Overlay!Written(n)' <=> Overlay!Written(n)
  BY <1>4, <1>5 DEF Overlay!Written
<1>12. ~ Overlay!Written(sent)'
  BY <1>1, <1>4 DEF Overlay!Written
<1> QED BY <1>1, <1>2, <1>3, <1>6, <1>8, <1>9, <1>10, <1>11, <1>12

LEMMA OverlayDaemonStep ==
  ASSUME OverlayInv, Overlay!Start \/ Overlay!End \/ Overlay!Message
  PROVE  OverlayInv'
<1> USE DEF OverlayInv, Overlay!screen
<1>1. UNCHANGED <<windows, pidFile, unrecorded, assured, state>>
  BY DEF Overlay!Start, Overlay!End, Overlay!Message
<1>2. Overlay!Sends \/ Overlay!SaysNothing
  BY DEF Overlay!Start, Overlay!End, Overlay!Message
<1>3. /\ sent \in Nat /\ endedAt \in Nat /\ endedAt <= sent
      /\ \A n \in Overlay!Messages : n \in Nat
  BY DEF OverlayTypes, MessagesInOrder, Overlay!Messages
<1>4. /\ recording' \in BOOLEAN
      /\ recording' \/ endedAt' = sent \/ (recording' = recording /\ endedAt' = endedAt)
      /\ endedAt' \in {endedAt, sent}
  BY Zenon DEF Overlay!Start, Overlay!End, Overlay!Message, OverlayTypes
<1>5. CASE Overlay!Sends
  <2>1. OverlayTypes' /\ MessagesInOrder' /\ WindowIsRecorded' /\ Overlay!MessageHasWindow'
    <3>1. endedAt' \in Nat /\ endedAt' <= sent' /\ sent' \in Nat
      BY <1>1, <1>3, <1>4, <1>5, SendStep
    <3>2. assured' \in BOOLEAN
      BY <1>1 DEF OverlayTypes
    <3>3. Overlay!Messages' = Overlay!Messages
      BY DEF Overlay!Messages
    <3> QED
      BY <1>1, <1>4, <1>5, <3>1, <3>2, <3>3, SendStep DEF OverlayTypes, MessagesInOrder
  <2>2. Overlay!LastWordStays'
    <3> SUFFICES ASSUME ~ recording'
                 PROVE  /\ (\E n \in Overlay!Messages : n > endedAt' /\ Overlay!Written(n)')
                             => state' # Overlay!NoMessage
                        /\ ~ overlapped' /\ sent' > endedAt' /\ Overlay!Written(sent)'
                             => state' = sent'
      BY DEF Overlay!LastWordStays, Overlay!Messages, Overlay!NoMessage
    <3>1. ~ Overlay!Written(sent)'
      BY <1>1, <1>5, SendStep
    <3>2. ASSUME NEW n \in Overlay!Messages, n > endedAt', Overlay!Written(n)'
          PROVE  state' # Overlay!NoMessage
      <4>1. Overlay!Written(n)
        BY <1>1, <1>5, <3>2, SendStep
      <4>2. n <= sent
        BY <1>3, <4>1 DEF MessagesInOrder, Overlay!Written
      <4>3. recording' = recording /\ endedAt' = endedAt
        BY <1>3, <1>4, <3>2, <4>2
      <4> QED BY <1>1, <3>2, <4>1, <4>3 DEF Overlay!LastWordStays
    <3> QED BY <3>1, <3>2
  <2> QED BY <2>1, <2>2
<1>6. CASE Overlay!SaysNothing
  <2>1. UNCHANGED <<sent, messageStep, overlapped>>
    BY <1>6 DEF Overlay!SaysNothing
  <2>2. OverlayTypes' /\ MessagesInOrder' /\ WindowIsRecorded' /\ Overlay!MessageHasWindow'
    BY <1>1, <1>3, <1>4, <2>1
    DEF OverlayTypes, MessagesInOrder, WindowIsRecorded, Overlay!MessageHasWindow,
        Overlay!Ended, Overlay!Messages
  <2>3. Overlay!LastWordStays'
    <3>1. CASE recording'
      BY <3>1 DEF Overlay!LastWordStays
    <3>2. CASE recording' = recording /\ endedAt' = endedAt
      BY <1>1, <2>1, <3>2 DEF Overlay!LastWordStays, Overlay!Written, Overlay!Messages
    <3>3. CASE endedAt' = sent
      <4>1. \A n \in Overlay!Messages : n > sent => ~ Overlay!Written(n)
        BY DEF MessagesInOrder, Overlay!Written
      <4> QED
        BY <1>1, <1>3, <2>1, <3>3, <4>1
        DEF Overlay!LastWordStays, Overlay!Written, Overlay!Messages
    <3> QED BY <1>4, <3>1, <3>2, <3>3
  <2> QED BY <2>2, <2>3
<1> QED BY <1>2, <1>5, <1>6

LEMMA ProcessStep ==
  ASSUME OverlayInv, NEW n \in Overlay!Messages,
         \/ Overlay!WriteState(n) \/ Overlay!Look(n) \/ Overlay!Open(n)
         \/ Overlay!Truncate(n) \/ Overlay!Record(n) \/ Overlay!Fails(n)
  PROVE  OverlayInv'
<1> USE DEF OverlayInv
<1>1. UNCHANGED <<sent, recording, endedAt, overlapped>>
  BY DEF Overlay!WriteState, Overlay!Look, Overlay!Open, Overlay!Truncate, Overlay!Record,
         Overlay!Fails, Overlay!daemon, Overlay!history
<1>2. PICK s \in MessageSteps \ {"none", "writing"} : messageStep' = [messageStep EXCEPT ![n] = s]
  BY DEF Overlay!WriteState, Overlay!Look, Overlay!Open, Overlay!Truncate, Overlay!Record,
         Overlay!Fails, MessageSteps
<1>3. messageStep'[n] = s
      /\ \A m \in Overlay!Messages : m # n => messageStep'[m] = messageStep[m]
  BY <1>2, ProcessMoves
<1>4. ~ Overlay!Ended(n)
  BY DEF Overlay!WriteState, Overlay!Look, Overlay!Open, Overlay!Truncate, Overlay!Record,
         Overlay!Fails, Overlay!Ended
<1>5. n \in Nat /\ n # 0 /\ n <= sent /\ (~ overlapped => n = sent)
  BY <1>4 DEF MessagesInOrder, Overlay!Ended, Overlay!Messages, OverlayTypes
<1>6. OverlayTypes'
  <2>1. assured' \in BOOLEAN
    BY Zenon DEF Overlay!WriteState, Overlay!Look, Overlay!Open, Overlay!Truncate, Overlay!Record,
           Overlay!Fails, Overlay!history, OverlayTypes
  <2> QED BY <1>1, <1>2, <2>1 DEF OverlayTypes, Overlay!Messages
<1>7. MessagesInOrder'
  BY <1>1, <1>3, <1>4, <1>5 DEF MessagesInOrder, Overlay!Ended, Overlay!Messages
<1>8. Overlay!LastWordStays'
  <2> SUFFICES ASSUME ~ recording, ~ recording'
               PROVE  /\ (\E m \in Overlay!Messages : m > endedAt /\ Overlay!Written(m)')
                           => state' # 0
                      /\ ~ overlapped /\ sent > endedAt /\ Overlay!Written(sent)'
                           => state' = sent
    BY <1>1 DEF Overlay!LastWordStays, Overlay!Messages, Overlay!NoMessage
  <2>1. CASE Overlay!WriteState(n)
    <3>1. state' = n
      BY <2>1 DEF Overlay!WriteState
    <3> QED BY <1>5, <3>1
  <2>2. CASE ~ Overlay!WriteState(n)
    <3>1. state' = state
      BY <2>2 DEF Overlay!Look, Overlay!Open, Overlay!Truncate, Overlay!Record, Overlay!Fails
    <3>2. Overlay!Written(n)' => Overlay!Written(n)
      <4>1. CASE Overlay!Fails(n)
        <5>1. messageStep'[n] = IF messageStep[n] = "writing" THEN "lost" ELSE "ended"
          BY <4>1, ProcessMoves DEF Overlay!Fails
        <5> QED BY <1>4, <5>1 DEF Overlay!Written, Overlay!Ended
      <4>2. CASE ~ Overlay!Fails(n)
        BY <2>2, <4>2
        DEF Overlay!Look, Overlay!Open, Overlay!Truncate, Overlay!Record, Overlay!Written
      <4> QED BY <4>1, <4>2
    <3>3. \A m \in Overlay!Messages : Overlay!Written(m)' => Overlay!Written(m)
      BY <1>3, <3>2 DEF Overlay!Written
    <3>4. ~ overlapped => sent \in Overlay!Messages
      BY <1>5
    <3> QED
      BY <1>1, <3>1, <3>3, <3>4 DEF Overlay!LastWordStays, Overlay!NoMessage
  <2> QED BY <2>1, <2>2
<1>9. ASSUME ~ overlapped
      PROVE
        /\ \A m \in Overlay!Messages : m # n => Overlay!Ended(m)
        /\ messageStep[n] = "opening" => windows \ unrecorded = {}
        /\ messageStep[n] \in {"truncating", "recording"} => windows \ unrecorded \subseteq {n}
        /\ messageStep[n] \notin {"truncating", "recording"}
             => windows \ unrecorded \subseteq {pidFile}
  <2>1. \A m \in Overlay!Messages : m # n => Overlay!Ended(m)
    BY <1>5, <1>9 DEF MessagesInOrder
  <2> QED BY <1>9, <2>1 DEF WindowIsRecorded, Overlay!Ended
<1>10. CASE Overlay!WriteState(n)
  <2>1. messageStep[n] = "writing" /\ messageStep'[n] = "looking"
        /\ UNCHANGED <<windows, pidFile, unrecorded, assured>>
    BY <1>10, ProcessMoves DEF Overlay!WriteState, Overlay!screen, Overlay!history
  <2>2. WindowIsRecorded'
    BY <1>1, <1>3, <1>9, <2>1 DEF WindowIsRecorded, Overlay!Ended, Overlay!Messages
  <2> QED BY <1>6, <1>7, <1>8, <2>1, <2>2 DEF Overlay!MessageHasWindow
<1>11. CASE Overlay!Look(n)
  <2>1. messageStep[n] = "looking" /\ UNCHANGED <<windows, unrecorded>>
    BY <1>11 DEF Overlay!Look
  <2>2. CASE pidFile \in windows
    <3>1. messageStep'[n] = "ended" /\ UNCHANGED pidFile
      BY <1>11, <2>2, ProcessMoves DEF Overlay!Look, Overlay!Runs
    <3>2. WindowIsRecorded'
      BY <1>1, <1>3, <1>9, <2>1, <3>1 DEF WindowIsRecorded, Overlay!Ended, Overlay!Messages
    <3>3. windows' # {}
      BY <2>1, <2>2
    <3> QED BY <1>6, <1>7, <1>8, <3>2, <3>3 DEF Overlay!MessageHasWindow
  <2>3. CASE pidFile \notin windows
    <3>1. messageStep'[n] = "opening" /\ UNCHANGED assured
      BY <1>11, <2>3, ProcessMoves DEF Overlay!Look, Overlay!Runs
    <3>2. ~ overlapped => windows \ unrecorded = {}
      BY <1>9, <2>1, <2>3
    <3>3. WindowIsRecorded'
      BY <1>1, <1>3, <1>9, <2>1, <3>1, <3>2
      DEF WindowIsRecorded, Overlay!Ended, Overlay!Messages
    <3> QED BY <1>6, <1>7, <1>8, <2>1, <3>1, <3>3 DEF Overlay!MessageHasWindow
  <2> QED BY <2>2, <2>3
<1>12. CASE Overlay!Open(n)
  <2>1. messageStep[n] = "opening" /\ messageStep'[n] = "truncating"
        /\ windows' = windows \cup {n} /\ UNCHANGED unrecorded
    BY <1>12, ProcessMoves DEF Overlay!Open
  <2>2. WindowIsRecorded'
    BY <1>1, <1>3, <1>9, <2>1 DEF WindowIsRecorded, Overlay!Ended, Overlay!Messages
  <2> QED BY <1>6, <1>7, <1>8, <2>1, <2>2 DEF Overlay!MessageHasWindow
<1>13. CASE Overlay!Truncate(n)
  <2>1. messageStep[n] = "truncating" /\ messageStep'[n] = "recording"
        /\ UNCHANGED <<windows, unrecorded, assured>>
    BY <1>13, ProcessMoves DEF Overlay!Truncate, Overlay!history
  <2>2. WindowIsRecorded'
    BY <1>1, <1>3, <1>9, <2>1 DEF WindowIsRecorded, Overlay!Ended, Overlay!Messages
  <2> QED BY <1>6, <1>7, <1>8, <2>1, <2>2 DEF Overlay!MessageHasWindow
<1>14. CASE Overlay!Record(n)
  <2>1. messageStep[n] = "recording" /\ messageStep'[n] = "ended" /\ pidFile' = n
        /\ UNCHANGED <<windows, unrecorded, assured>>
    BY <1>14, ProcessMoves DEF Overlay!Record, Overlay!history
  <2>2. WindowIsRecorded'
    BY <1>1, <1>3, <1>9, <2>1 DEF WindowIsRecorded, Overlay!Ended, Overlay!Messages
  <2> QED BY <1>6, <1>7, <1>8, <2>1, <2>2 DEF Overlay!MessageHasWindow
<1>15. CASE Overlay!Fails(n)
  <2>1. /\ UNCHANGED <<windows, pidFile, assured>>
        /\ messageStep'[n] \in {"lost", "ended"} /\ unrecorded \subseteq unrecorded'
        /\ messageStep[n] \in {"truncating", "recording"} => n \in unrecorded'
    <3>1. messageStep'[n] = IF messageStep[n] = "writing" THEN "lost" ELSE "ended"
      BY <1>15, ProcessMoves DEF Overlay!Fails, OverlayTypes
    <3> QED BY <1>15, <3>1 DEF Overlay!Fails, Overlay!screen
  <2>2. ~ overlapped => windows \ unrecorded' \subseteq {pidFile}
    BY <1>9, <2>1
  <2>3. WindowIsRecorded'
    BY <1>1, <1>3, <1>9, <2>1, <2>2 DEF WindowIsRecorded, Overlay!Ended, Overlay!Messages
  <2> QED BY <1>6, <1>7, <1>8, <2>1, <2>3 DEF Overlay!MessageHasWindow
<1> QED
  BY <1>10, <1>11, <1>12, <1>13, <1>14, <1>15

LEMMA OverlayStep == OverlayInv /\ (Overlay!OverlayNext \/ UNCHANGED overlayVars) => OverlayInv'
<1> SUFFICES ASSUME OverlayInv, Overlay!OverlayNext \/ UNCHANGED overlayVars
             PROVE  OverlayInv'
  OBVIOUS
<1> USE DEF OverlayInv
<1>1. ASSUME UNCHANGED <<sent, recording, endedAt, messageStep, pidFile, overlapped>>
      PROVE  OverlayTypes' \/ assured' \notin BOOLEAN
  BY <1>1 DEF OverlayTypes, Overlay!Messages
<1>2. ASSUME UNCHANGED <<sent, recording, endedAt, messageStep, pidFile, overlapped>>
      PROVE  MessagesInOrder'
  BY <1>2 DEF MessagesInOrder, Overlay!Messages, Overlay!Ended
<1>3. CASE UNCHANGED overlayVars
  BY <1>1, <1>2, <1>3
  DEF overlayVars, OverlayTypes, WindowIsRecorded, Overlay!MessageHasWindow, Overlay!Ended,
      Overlay!Messages, Overlay!LastWordStays, Overlay!Written
<1>4. CASE Overlay!Telemetry
  <2>1. recording' /\ UNCHANGED <<sent, recording, endedAt, messageStep, pidFile, windows,
                                  overlapped, unrecorded, assured>>
    BY <1>4 DEF Overlay!Telemetry, Overlay!daemon, Overlay!screen, Overlay!history
  <2> QED
    BY <1>1, <1>2, <2>1
    DEF OverlayTypes, WindowIsRecorded, Overlay!MessageHasWindow, Overlay!Ended,
        Overlay!Messages, Overlay!LastWordStays
<1>5. CASE Overlay!Quit
  <2>1. /\ windows' \ unrecorded' \subseteq windows \ unrecorded
        /\ ~ assured' /\ assured' \in BOOLEAN
        /\ UNCHANGED <<sent, recording, endedAt, state, messageStep, pidFile, overlapped>>
    BY <1>5 DEF Overlay!Quit, Overlay!daemon
  <2>2. OverlayTypes' /\ MessagesInOrder' /\ Overlay!MessageHasWindow'
    BY <1>1, <1>2, <2>1 DEF Overlay!MessageHasWindow
  <2>3. WindowIsRecorded'
    BY <2>1 DEF WindowIsRecorded, Overlay!Ended, Overlay!Messages
  <2>4. Overlay!LastWordStays'
    BY <2>1 DEF Overlay!LastWordStays, Overlay!Written, Overlay!Messages
  <2> QED BY <2>2, <2>3, <2>4
<1> QED
  BY <1>3, <1>4, <1>5, OverlayDaemonStep, ProcessStep DEF Overlay!OverlayNext

LEMMA AtMostOneWindow ==
  ASSUME NEW w, NEW S, S \subseteq {w}
  PROVE  Overlay!Cardinality(S) <= 1
<1>1. Overlay!Cardinality(S) = Cardinality(S)
  BY Zenon DEF Overlay!Cardinality, Cardinality
<1>2. IsFiniteSet({w}) /\ Cardinality({w}) = 1
  BY FS_Singleton
<1>3. Cardinality(S) <= Cardinality({w})
  BY <1>2, FS_Subset
<1> QED BY <1>1, <1>2, <1>3

LEMMA OverlayHolds == OverlayInv => Overlay!MessageHasWindow /\ Overlay!OneWindowIfApart
<1> SUFFICES ASSUME OverlayInv, ~ overlapped
             PROVE  Overlay!Cardinality(windows \ unrecorded) <= 1
  BY DEF OverlayInv, Overlay!OneWindowIfApart
<1>1. CASE windows \ unrecorded \subseteq {pidFile}
  BY <1>1, AtMostOneWindow
<1>2. CASE \E n \in Overlay!Messages : messageStep[n] \in {"truncating", "recording"}
  <2>1. \E n : windows \ unrecorded \subseteq {n}
    BY <1>2 DEF OverlayInv, WindowIsRecorded
  <2> QED BY <2>1, AtMostOneWindow
<1> QED BY <1>1, <1>2 DEF OverlayInv, WindowIsRecorded

-----------------------------------------------------------------------------
(***************************************************************************)
(* And an insertion.                                                       *)
(***************************************************************************)

LEMMA ClipboardBegins == Insertion!InsertionInit => ClipboardInv
<1> SUFFICES ASSUME Insertion!InsertionInit PROVE ClipboardInv
  OBVIOUS
<1> USE DEF Insertion!InsertionInit
<1>1. Old # Dictation /\ Empty # Dictation /\ Image # Dictation
  BY ClipboardAssumption DEF Insertion!InsertionAssumption
<1> QED
  BY <1>1
  DEF ClipboardInv, Untouched, RefusalEnds, SnapshotIsBefore, StepsInOrder,
      Insertion!RestoredIsAsBefore, Insertion!ImageIsKept, Insertion!PastesTheDictation,
      Insertion!CopyAfterWriteStays, Insertion!Nothing

LEMMA UserStep ==
  ASSUME ClipboardInv, Insertion!UserCopies
  PROVE  ClipboardInv'
<1> USE DEF ClipboardInv, Insertion!Done, Insertion!config, Insertion!history
<1>1. PICK c \in Copies : clipboard' = c /\ copied' = copied \cup {c}
  BY DEF Insertion!UserCopies
<1>2. copied' # {} /\ clipboard' \in Copies /\ clipboard' # Dictation
  BY <1>1, ClipboardAssumption DEF Insertion!InsertionAssumption
<1>3. UNCHANGED <<pc, pasted, committed, refused, chord, restored, restore, backend, before, previous>>
      /\ pc \notin {"done", "failed", "cancelled"}
  BY DEF Insertion!UserCopies
<1>4. theirs' = (theirs \/ pc \in {"pasting", "waiting", "comparing"})
  BY DEF Insertion!UserCopies
<1>5. Untouched' /\ RefusalEnds'
  BY <1>2, <1>3, <1>4 DEF Untouched, RefusalEnds
<1>6. SnapshotIsBefore' /\ StepsInOrder'
  BY <1>2, <1>3, <1>4 DEF SnapshotIsBefore, StepsInOrder
<1>7. /\ Insertion!RestoredIsAsBefore' /\ Insertion!ImageIsKept'
      /\ Insertion!PastesTheDictation' /\ Insertion!CopyAfterWriteStays'
  BY <1>2, <1>3
  DEF Insertion!RestoredIsAsBefore, Insertion!ImageIsKept, Insertion!PastesTheDictation,
      Insertion!CopyAfterWriteStays
<1> QED BY <1>5, <1>6, <1>7

LEMMA EnvironmentStep ==
  ASSUME ClipboardInv, Insertion!AppPastes \/ Insertion!BridgeChanges \/ UNCHANGED insertionVars
  PROVE  ClipboardInv'
<1> USE DEF ClipboardInv, Untouched, RefusalEnds, SnapshotIsBefore, StepsInOrder,
            Insertion!RestoredIsAsBefore, Insertion!ImageIsKept, Insertion!PastesTheDictation,
            Insertion!CopyAfterWriteStays, Insertion!config, Insertion!history
<1>1. CASE Insertion!AppPastes
  BY <1>1 DEF Insertion!AppPastes
<1>2. CASE Insertion!BridgeChanges
  BY <1>2 DEF Insertion!BridgeChanges
<1>3. CASE UNCHANGED insertionVars
  BY <1>3 DEF insertionVars
<1> QED BY <1>1, <1>2, <1>3

\* A refusal leaves nothing to fall back to, so no insertion that was armed is refused.
LEMMA ArmStep ==
  ASSUME ClipboardInv, Insertion!Arm \/ Insertion!Cancel \/ Insertion!CommitByFcitx
  PROVE  ClipboardInv'
<1> USE DEF ClipboardInv, Untouched, RefusalEnds, SnapshotIsBefore, StepsInOrder,
            Insertion!RestoredIsAsBefore, Insertion!ImageIsKept, Insertion!PastesTheDictation,
            Insertion!CopyAfterWriteStays, Insertion!config, Insertion!history
<1>1. CASE Insertion!Arm
  <2>1. refused' => Insertion!Selected(bridge) = Insertion!Nothing
    BY <1>1 DEF Insertion!Arm, Insertion!Selected, Insertion!MayFallBack
  <2> QED BY <1>1, <2>1 DEF Insertion!Arm
<1>2. CASE Insertion!Cancel
  BY <1>2 DEF Insertion!Cancel
<1>3. CASE Insertion!CommitByFcitx
  BY <1>3 DEF Insertion!CommitByFcitx
<1> QED BY <1>1, <1>2, <1>3

\* Until the chord is sent.
LEMMA BeforePasteStep ==
  ASSUME ClipboardInv,
         \/ Insertion!CopyOnly \/ Insertion!Insert \/ Insertion!InsertDiagnostic
         \/ Insertion!ReadText \/ Insertion!ListTypes \/ Insertion!WriteText
  PROVE  ClipboardInv'
<1> USE DEF ClipboardInv, Untouched, RefusalEnds, SnapshotIsBefore, StepsInOrder,
            Insertion!RestoredIsAsBefore, Insertion!ImageIsKept, Insertion!PastesTheDictation,
            Insertion!CopyAfterWriteStays, Insertion!config, Insertion!history
<1>1. /\ Dictation \notin Copies \cup {Old, Empty, Image}
      /\ Image \notin Copies \cup {Old, Empty}
  BY ClipboardAssumption DEF Insertion!InsertionAssumption
<1>2. CASE Insertion!CopyOnly
  BY <1>1, <1>2 DEF Insertion!CopyOnly
<1>3. CASE Insertion!Insert
  BY <1>3 DEF Insertion!Insert
<1>4. CASE Insertion!InsertDiagnostic
  BY <1>4 DEF Insertion!InsertDiagnostic
<1>5. CASE Insertion!ReadText
  BY <1>1, <1>5 DEF Insertion!ReadText, Insertion!Texts
<1>6. CASE Insertion!ListTypes
  BY <1>1, <1>6 DEF Insertion!ListTypes
<1>7. CASE Insertion!WriteText
  BY <1>1, <1>7 DEF Insertion!WriteText
<1> QED BY <1>2, <1>3, <1>4, <1>5, <1>6, <1>7

\* And from then on.
LEMMA AfterPasteStep ==
  ASSUME ClipboardInv,
         Insertion!SendChord \/ Insertion!Delay \/ Insertion!Compare \/ Insertion!Restore
  PROVE  ClipboardInv'
<1> USE DEF ClipboardInv, Untouched, RefusalEnds, SnapshotIsBefore, StepsInOrder,
            Insertion!RestoredIsAsBefore, Insertion!ImageIsKept, Insertion!PastesTheDictation,
            Insertion!CopyAfterWriteStays, Insertion!config, Insertion!history
<1>1. Dictation \notin Copies
  BY ClipboardAssumption DEF Insertion!InsertionAssumption
<1>2. CASE Insertion!SendChord
  BY <1>2 DEF Insertion!SendChord
<1>3. CASE Insertion!Delay
  BY <1>3 DEF Insertion!Delay
<1>4. CASE Insertion!Compare
  BY <1>1, <1>4 DEF Insertion!Compare
<1>5. CASE Insertion!Restore
  <2>1. CASE clipboard' = previous /\ restored' = TRUE
    BY <1>5, <2>1 DEF Insertion!Restore
  <2>2. CASE UNCHANGED <<clipboard, restored>>
    BY <1>5, <2>2 DEF Insertion!Restore
  <2> QED BY <1>5, <2>1, <2>2 DEF Insertion!Restore
<1> QED BY <1>2, <1>3, <1>4, <1>5

LEMMA ClipboardStep ==
  ClipboardInv /\ (Insertion!InsertionNext \/ UNCHANGED insertionVars) => ClipboardInv'
BY UserStep, EnvironmentStep, ArmStep, BeforePasteStep, AfterPasteStep
   DEF Insertion!InsertionNext, Insertion!Adapter

LEMMA ClipboardHolds ==
  ClipboardInv => /\ Insertion!RefusalHolds /\ Insertion!RestoredIsAsBefore /\ Insertion!ImageIsKept
                  /\ Insertion!PastesTheDictation /\ Insertion!CopyAfterWriteStays
BY DEF ClipboardInv, RefusalEnds, Insertion!RefusalHolds

-----------------------------------------------------------------------------
(***************************************************************************)
(* Theorems.                                                               *)
(***************************************************************************)

DesktopInv == FileInv /\ GuardInv /\ OverlayInv /\ ClipboardInv

desktopVars == <<part, vars, guardVars, overlayVars, trayVars, insertionVars>>

\* Each program keeps its invariant, whichever of them the run is about.
LEMMA DesktopStep == DesktopInv /\ [Next]_desktopVars => DesktopInv'
<1> SUFFICES ASSUME DesktopInv, [Next]_desktopVars PROVE DesktopInv'
  OBVIOUS
<1>1. /\ FileNext \/ UNCHANGED vars
      /\ Guard!GuardNext \/ UNCHANGED guardVars
      /\ Overlay!OverlayNext \/ UNCHANGED overlayVars
      /\ Insertion!InsertionNext \/ UNCHANGED insertionVars
  BY DEF Next, desktopVars
<1> QED
  BY <1>1, FileKept, GuardStep, OverlayStep, ClipboardStep DEF DesktopInv

LEMMA DesktopHolds == FairSpec => []DesktopInv
<1>1. Init => DesktopInv
  BY FileBegins, GuardBegins, OverlayBegins, ClipboardBegins
  DEF Init, NoSettings, NoInsertion, DesktopInv
<1> QED
  BY <1>1, DesktopStep, PTL DEF FairSpec, desktopVars

\* For any number of providers, process IDs and edits: an acknowledged update stays in the
\* file, a reported reload is one of what was saved, and the daemon runs on what is valid.
THEOREM ConfigurationStays == FairSpec => []ConfigurationIsKept
<1>1. DesktopInv => ConfigurationIsKept
  BY DEF DesktopInv, FileInv, ConfigurationIsKept
<1> QED BY <1>1, DesktopHolds, PTL

\* For any number of panels and messages: a panel is alone unless one removed the file of
\* another that had not ended, a file without its panel was left by one that was killed or
\* could not write it, and processes of messages that end well leave a window, the only
\* recorded one if they do not come at once.
THEOREM WindowsStaySingle == FairSpec => []WindowsAreSingle
<1>1. DesktopInv => WindowsAreSingle
  BY GuardHolds, OverlayHolds DEF DesktopInv, WindowsAreSingle
<1> QED BY <1>1, DesktopHolds, PTL

\* Whatever the user copies, and as often: a refusal is never got around; a copy made after
\* the text was written and before the comparison stays; and without copies the dictation is
\* what is pasted, and a clipboard that is reported as restored is as before.
THEOREM ClipboardStaysTheUsers == FairSpec => []ClipboardIsTheUsers
<1>1. DesktopInv => ClipboardIsTheUsers
  BY ClipboardHolds DEF DesktopInv, ClipboardIsTheUsers
<1> QED BY <1>1, DesktopHolds, PTL

\* For any number of process IDs and edits: no step of any program makes half of a file
\* that was whole, replaces the configuration of a daemon that works, or ends a save and
\* leaves its temporary file.
THEOREM WritingStaysSafe == FairSpec => WritingIsSafe
<1>1. DesktopInv /\ [Next]_desktopVars => [IsWhole(file) => file' # Torn]_vars
  BY WholeStep DEF DesktopInv, Next, desktopVars
<1>2. DesktopInv /\ [Next]_desktopVars => [busy /\ busy' => config' = config]_vars
  BY BusyStep DEF DesktopInv, Next, desktopVars
<1>3. DesktopInv /\ [Next]_desktopVars
      => [At("settings", "staged") /\ step'["settings"] \notin {"staged", "down"}
            => temps' \subseteq temps \ {pid}]_vars
  BY StagedStep DEF DesktopInv, Next, desktopVars
<1> QED
  BY <1>1, <1>2, <1>3, DesktopHolds, PTL
  DEF FairSpec, desktopVars, WritingIsSafe, WholeStaysWhole, ConfigHoldsWhileBusy, SaveLeavesNoTemp

\* For any number of messages and recordings: no level comes after the end of a recording,
\* and the last message since then stays if they do not come at once.
THEOREM LastWordAlwaysStays == FairSpec => []LastWordStays
<1>1. DesktopInv => LastWordStays
  BY DEF DesktopInv, OverlayInv, LastWordStays
<1> QED BY <1>1, DesktopHolds, PTL
=============================================================================
