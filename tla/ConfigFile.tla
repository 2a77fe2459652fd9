----------------------------- MODULE ConfigFile -----------------------------
(***************************************************************************)
(* The configuration file, which the daemon and the settings program both  *)
(* open, either of them creates, and the settings program replaces; a user *)
(* edits it by hand, and every program may be killed at any step.          *)
(* (src/config.rs, src/bin/voxtype-settings.rs, and of src/daemon.rs the   *)
(* loading and reloading.)                                                 *)
(***************************************************************************)
EXTENDS Configuration, Naturals, Sequences

CONSTANTS
  Absent, Torn,   \* what the file may be beside a configuration
  Pids,           \* process IDs a settings program may get
  MaxEdits        \* bound of what the user does to the file

ASSUME FileAssumption ==
  /\ MaxEdits \in Nat
  /\ Absent # Torn /\ None \notin {"error", "stale", "looked", "reloaded"}
  /\ Absent \notin Configurations /\ Torn \notin Configurations /\ None \notin Configurations

Programs == {"settings", "daemon"}
Look   == [kind |-> "look"]

VARIABLES
  file,       \* Absent, Torn or a configuration
  temps,      \* the pids in the names of temporary files
  step,       \* of each program, in load_or_create and after it
  pid,        \* of the settings program
  next,       \* what it is about to save
  config,     \* that of the daemon, None before its start
  busy,       \* the daemon is recording or recognizing
  reply,      \* that of the settings program: None, error, and what daemon_reloaded says
  acked,      \* history: what the last acknowledged update made of the file
  edited,     \* history: the user touched the file since it was last replaced
  edits

vars == <<file, temps, step, pid, next, config, busy, reply, acked, edited, edits>>

FileInit ==
  /\ file = Absent /\ temps = {}
  /\ step = [p \in Programs |-> "down"]
  /\ pid \in Pids /\ next = None
  /\ config = None /\ busy = FALSE
  /\ reply = None /\ acked = None /\ edited = FALSE /\ edits = 0

IsWhole(f) == f \notin {Absent, Torn}

-----------------------------------------------------------------------------
(***************************************************************************)
(* load_or_create, of either program.                                      *)
(***************************************************************************)

At(p, s) == step[p] = s
Goes(p, s) == step' = [step EXCEPT ![p] = s]

Answer(result) == Goes("settings", "answered") /\ reply' = result

Exists(p) ==
  /\ At(p, "opening")
  /\ Goes(p, IF file = Absent THEN "creating" ELSE "reading")
  /\ UNCHANGED <<file, temps, pid, next, config, busy, reply, acked, edited, edits>>

\* A load that failed ends the start of a daemon, but not a daemon that reloads.
FailedAt == IF config = None THEN "down" ELSE "up"

\* Of a reload that the settings program waits for, the result.
Reloaded(p, result) == p = "daemon" /\ At("settings", "reloading") /\ reply' = result

NoReload(p) == ~ (p = "daemon" /\ At("settings", "reloading"))

\* What the caller of a load that failed is told.
Failure(p) ==
  \/ p = "settings" /\ Answer("error")
  \/ /\ Reloaded(p, "stale")
     /\ step' = [step EXCEPT ![p] = FailedAt, !["settings"] = "answered"]
  \/ /\ p = "daemon" /\ NoReload(p) /\ UNCHANGED reply
     /\ Goes(p, FailedAt)

\* Mutant: the file is created without the demand that it be new.
CreateNew_Truncates(p) ==
  /\ At(p, "creating")
  /\ file' = Torn /\ Goes(p, "filling") /\ UNCHANGED reply
  /\ UNCHANGED <<temps, pid, next, config, busy, acked, edited, edits>>

CreateNew(p) ==
  /\ At(p, "creating")
  /\ IF file = Absent THEN file' = Torn /\ Goes(p, "filling") /\ UNCHANGED reply
                      ELSE Failure(p) /\ UNCHANGED file
  /\ UNCHANGED <<temps, pid, next, config, busy, acked, edited, edits>>

\* It is written to what was created, which may have been replaced meanwhile.
WriteDefault(p) ==
  /\ At(p, "filling")
  /\ \/ file' = (IF file = Torn THEN DefaultConfig ELSE file) /\ Goes(p, "reading") /\ UNCHANGED reply
     \/ Failure(p) /\ UNCHANGED file
  /\ UNCHANGED <<temps, pid, next, config, busy, acked, edited, edits>>

\* Mutant: what was read is not validated.
Loads_Unchecked == IsWhole(file)

Loads == IsWhole(file) /\ Valid(file)

\* load_with_wake, and the rest of reload_configuration
ReadByDaemon ==
  /\ At("daemon", "reading")
  /\ IF Loads
     THEN /\ config' = file
          /\ \/ /\ Reloaded("daemon", "reloaded")
                /\ step' = [step EXCEPT !["daemon"] = "up", !["settings"] = "answered"]
             \/ NoReload("daemon") /\ Goes("daemon", "up") /\ UNCHANGED reply
     ELSE Failure("daemon") /\ UNCHANGED config
  /\ UNCHANGED <<file, temps, pid, next, busy, acked, edited, edits>>

-----------------------------------------------------------------------------
(***************************************************************************)
(* The daemon.                                                             *)
(***************************************************************************)

StartDaemon ==
  /\ At("daemon", "down")
  /\ Goes("daemon", "opening")
  /\ UNCHANGED <<file, temps, pid, next, config, busy, reply, acked, edited, edits>>

Work ==
  /\ At("daemon", "up")
  /\ busy' = ~ busy
  /\ UNCHANGED <<file, temps, step, pid, next, config, reply, acked, edited, edits>>

\* Mutant: the configuration may be replaced at any time.
MayReload_Always == At("daemon", "up")

MayReload == At("daemon", "up") /\ ~ busy

\* reload_configuration, asked for by the command line
ReloadByCommand ==
  /\ MayReload
  /\ Goes("daemon", "opening")
  /\ UNCHANGED <<file, temps, pid, next, config, busy, reply, acked, edited, edits>>

-----------------------------------------------------------------------------
(***************************************************************************)
(* The settings program, which serves one request at a time.               *)
(***************************************************************************)

StartSettings ==
  /\ At("settings", "down")
  /\ Goes("settings", "answered") /\ pid' \in Pids
  /\ UNCHANGED <<file, temps, next, config, busy, reply, acked, edited, edits>>

Receive ==
  /\ At("settings", "answered")
  /\ Goes("settings", "opening") /\ reply' = None
  /\ UNCHANGED <<file, temps, pid, next, config, busy, acked, edited, edits>>

\* save_general and the others: the handler accepts the update, and save accepts the
\* configuration and finds no temporary file of its name.
Accepted(update) ==
  /\ ~ Refused(update, file)
  /\ Valid(Applied(update, file))
  /\ pid \notin temps

\* Look stands for the requests that only read: the state, a secret, the calibration.
Requests == Updates \cup {Look}

\* The end of the load, the rest of a handler, and save to its temporary file.
ReadBySettings ==
  /\ At("settings", "reading")
  /\ IF ~ Loads THEN Answer("error") /\ UNCHANGED <<next, temps>>
     ELSE \E request \in Requests :
            IF request = Look THEN Answer("looked") /\ UNCHANGED <<next, temps>>
            ELSE IF Accepted(request)
            THEN /\ next' = Applied(request, file) /\ temps' = temps \cup {pid}
                 /\ Goes("settings", "staged") /\ UNCHANGED reply
            ELSE Answer("error") /\ UNCHANGED <<next, temps>>
  /\ UNCHANGED <<file, pid, config, busy, acked, edited, edits>>

\* Mutant: nobody looks at the failure.
ReplaceFails_Unseen ==
  /\ At("settings", "staged")
  /\ Goes("settings", "saved") /\ temps' = temps \ {pid} /\ next' = None
  /\ acked' = next /\ edited' = FALSE
  /\ UNCHANGED <<file, pid, config, busy, reply, edits>>

\* Mutant: a failure leaves the temporary file.
ReplaceFails_Keeps ==
  /\ At("settings", "staged")
  /\ Answer("error") /\ next' = None
  /\ UNCHANGED <<file, temps, pid, config, busy, acked, edited, edits>>

\* The write, the synchronization or the renaming fails.
ReplaceFails ==
  /\ At("settings", "staged")
  /\ Answer("error") /\ temps' = temps \ {pid} /\ next' = None
  /\ UNCHANGED <<file, pid, config, busy, acked, edited, edits>>

Replace ==
  /\ At("settings", "staged")
  /\ file' = next /\ temps' = temps \ {pid} /\ next' = None
  /\ Goes("settings", "saved")
  /\ acked' = file' /\ edited' = FALSE
  /\ UNCHANGED <<pid, config, busy, reply, edits>>

\* Mutant: the reload is counted as done when it was asked for.
AskReload_Trusting ==
  /\ At("settings", "saved")
  /\ IF MayReload
     THEN step' = [step EXCEPT !["daemon"] = "opening", !["settings"] = "answered"] /\ reply' = "reloaded"
     ELSE Answer("stale")
  /\ UNCHANGED <<file, temps, pid, next, config, busy, acked, edited, edits>>

\* persist_and_reload
AskReload ==
  /\ At("settings", "saved") /\ (At("daemon", "up") \/ config = None)
  /\ IF MayReload
     THEN step' = [step EXCEPT !["daemon"] = "opening", !["settings"] = "reloading"] /\ UNCHANGED reply
     ELSE Answer("stale")
  /\ UNCHANGED <<file, temps, pid, next, config, busy, acked, edited, edits>>

-----------------------------------------------------------------------------
(***************************************************************************)
(* Kills, and the user.                                                    *)
(***************************************************************************)

KillSettings ==
  /\ ~ At("settings", "down")
  /\ Goes("settings", "down") /\ reply' = None /\ next' = None
  /\ UNCHANGED <<file, temps, pid, config, busy, acked, edited, edits>>

KillDaemon ==
  /\ ~ At("daemon", "down")
  /\ config' = None /\ busy' = FALSE
  /\ IF At("settings", "reloading")
     THEN step' = [step EXCEPT !["daemon"] = "down", !["settings"] = "answered"] /\ reply' = "stale"
     ELSE Goes("daemon", "down") /\ UNCHANGED reply
  /\ UNCHANGED <<file, temps, pid, next, acked, edited, edits>>

\* By hand: a provider is removed but not what refers to it, a fallback is added, or
\* the default is put back.
EditsOf(c) ==
  {[c EXCEPT !.providers = Without(@, id)] : id \in DOMAIN c.providers}
  \cup {[c EXCEPT !.profiles = With(@, c.default, Append(@[c.default], id))] : id \in Ids}
  \cup {DefaultConfig}

UserEdits ==
  /\ edits < MaxEdits
  /\ \/ IsWhole(file) /\ file' \in EditsOf(file)
     \/ file # Absent /\ (\A p \in Programs : ~ At(p, "filling")) /\ file' = Absent
  /\ edited' = TRUE /\ edits' = edits + 1
  /\ UNCHANGED <<temps, step, pid, next, config, busy, reply, acked>>

-----------------------------------------------------------------------------

Load(p) == Exists(p) \/ CreateNew(p) \/ WriteDefault(p)

Daemon == Load("daemon") \/ ReadByDaemon \/ StartDaemon \/ Work \/ ReloadByCommand

Settings ==
  \/ Load("settings") \/ ReadBySettings \/ StartSettings \/ Receive
  \/ ReplaceFails \/ Replace \/ AskReload

FileNext == Daemon \/ Settings \/ KillSettings \/ KillDaemon \/ UserEdits

FileSpec == FileInit /\ [][FileNext]_vars

-----------------------------------------------------------------------------
(***************************************************************************)
(* Properties.                                                             *)
(***************************************************************************)

\* Two programs that find no file, one that saves, and kills at every step: once the
\* file is whole, nobody finds half of one, except while a file is created that the
\* user had removed.
WholeStaysWhole == [][IsWhole(file) => file' # Torn]_vars

\* What was acknowledged is in the file until the user edits it or the next update
\* replaces it, whoever starts and whoever is killed.
AckedSurvives == acked # None /\ ~ edited => file = acked

\* A reload that was reported is one of what was saved.
ReloadedIsCurrent == reply = "reloaded" /\ ~ edited => config = None \/ config = acked

\* The daemon only ever runs on what was validated, whatever the user wrote: each route
\* names configured providers, each once.
DaemonRunsOnValid == config # None => Valid(config)

\* And not on another one in the middle of a recording or a recognition.
ConfigHoldsWhileBusy == [][busy /\ busy' => config' = config]_vars

\* A save that ends, whether it succeeds or fails, leaves no temporary file, which
\* would let the saves of a later program with this pid fail.
SaveLeavesNoTemp ==
  [][At("settings", "staged") /\ step'["settings"] \notin {"staged", "down"} => temps' \subseteq temps \ {pid}]_vars
=============================================================================
