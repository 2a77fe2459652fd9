------------------------- MODULE VoxTypeDaemonProofs -------------------------
(***************************************************************************)
(* What holds of the daemon for every number of sessions, every queue      *)
(* limit, every set of backends and configurations, and however its        *)
(* clients, its loop and its workers interleave.                           *)
(***************************************************************************)
EXTENDS VoxTypeDaemon, AppControllerProofs

(***************************************************************************)
(* Facts about the controller in the form in which the handlers use it.    *)
(***************************************************************************)

\* A command is built from a session of the daemon.
LEMMA CommandTyped ==
  ASSUME NEW k \in Targeted \cup {"start", "reset"}, NEW s \in MaybeSession
  PROVE  /\ Command(k, s) \in Commands
         /\ Command(k, s).kind = k /\ Command(k, s).session = s
BY DEF Command, Commands, MaybeSession

\* The state that a handler sets is a good one, and is the next state.
LEMMA SetToGood ==
  ASSUME NEW a, GoodApp(a), SetApp(a)
  PROVE  GoodApp(app)' /\ AppTypeOK' /\ machine' = a.machine
<1>1. a \in AppRecords
  BY DEF GoodApp
<1>2. app' = a
  BY <1>1 DEF AppRecords, SetApp, app
<1>3. GoodApp(app')
  BY <1>2
<1>4. /\ machine' = a.machine /\ events' = a.events
      /\ results' = a.results /\ wake' = a.wake
  BY DEF SetApp
<1>5. AppTypeOK'
  BY <1>1, <1>4 DEF AppTypeOK, AppRecords
<1>. QED
  BY <1>3, <1>4, <1>5 DEF GoodApp, app

\* A command that is applied moves the machine, one that is not changes nothing.
LEMMA AppliedMoves ==
  ASSUME NEW a, NEW c
  PROVE  /\ Applies(a, c) => Apply(a, c).machine = After(a.machine, c)
         /\ Applies(a, c) => a.machine.phase \in From[c.kind]
         /\ ~ Applies(a, c) => Apply(a, c) = a
BY DEF Apply, Applies, Accepts

\* Nothing of the controller changes.
LEMMA AppUnchanged ==
  ASSUME GoodApp(app), AppTypeOK, UNCHANGED appVars
  PROVE  GoodApp(app)' /\ AppTypeOK' /\ machine' = machine
BY DEF appVars, app, AppTypeOK, GoodApp

\* The loop takes the wake-up token.
LEMMA WokenIsGood ==
  ASSUME GoodApp(app), AppTypeOK, wake' = FALSE,
         UNCHANGED <<machine, events, results>>
  PROVE  GoodApp(app)' /\ AppTypeOK' /\ machine' = machine
<1>1. app \in AppRecords /\ app' \in AppRecords
  BY DEF GoodApp, AppTypeOK, AppRecords, app
<1>2. AppTypeOK'
  BY DEF AppTypeOK
<1>. QED
  BY <1>1, <1>2 DEF GoodApp, OnlyIssued, NewestIsCurrent, app

(***************************************************************************)
(* The inductive invariant.                                                *)
(***************************************************************************)
Inv ==
  /\ GoodApp(app)
  /\ TypeOK
  /\ MicrophoneOnlyInCapture
  /\ JobIsCurrent
  /\ NoOrphanWorker

\* The daemon starts in it.
LEMMA InitInv ==
  Init => Inv
<1> SUFFICES ASSUME Init PROVE Inv
  OBVIOUS
<1>1. GoodApp(app)
  BY InitialIsGood DEF Init, AppInit, app, InitialApp
<1>2. AppTypeOK
  BY <1>1 DEF GoodApp, AppRecords, AppTypeOK, app
<1>3. worker \in [Sessions -> WorkerStates] /\ inserted \in [Sessions -> Nat]
  BY DEF Init, WorkerStates
<1>4. loop \in LoopStates /\ quit \in BOOLEAN
  BY DEF Init, LoopStates
<1>5. history \in Seq(Sessions)
  BY DEF Init
<1>6. TypeOK
  BY <1>2, <1>3, <1>4, <1>5 DEF Init, TypeOK, MaybeSession, Arms
<1>. QED
  BY <1>1, <1>6 DEF Inv, Init, MicrophoneOnlyInCapture, JobIsCurrent,
     NoOrphanWorker, JobIsForThisSession

\* Shared by the steps: the machine's type, and a session is a number.
LEMMA InvFacts ==
  ASSUME Inv
  PROVE  /\ app.machine = machine /\ machine \in Machines
         /\ machine.session \in MaybeSession /\ machine.nextId \in Sessions
         /\ machine.phase \in Phases
         /\ NoSession \notin Sessions /\ NoSession \in MaybeSession
         /\ AppTypeOK
         /\ WellFormed(machine)
BY MaxIdAssumption DEF Inv, TypeOK, AppTypeOK, Machines, MaybeSession, Sessions,
   NoSession, app, GoodApp

(***************************************************************************)
(* The steps.  Each lemma settles one handler, or one kind of step of the  *)
(* loop.                                                                   *)
(***************************************************************************)

\* What Start and the command after it make of a good controller.
LEMMA StartedIsGood ==
  ASSUME Inv, CanStart
  PROVE  /\ GoodApp(Started)
         /\ Started.machine.phase = "preparing"
         /\ Started.machine.session \in Sessions
         /\ job = NoSession
<1>1. Command("start", NoSession) \in Commands /\ Command("start", NoSession).kind = "start"
  BY CommandTyped, InvFacts
<1>2. GoodApp(Started)
  BY <1>1, ApplyIsGood DEF Inv, Started
<1>3. Applies(app, Command("start", NoSession))
  BY DEF CanStart
<1>4. Started.machine = After(machine, Command("start", NoSession))
  BY <1>3, AppliedMoves, InvFacts DEF Started
<1>5. Started.machine.phase = "preparing" /\ Started.machine.session = machine.nextId
  BY <1>1, <1>4 DEF After, Target
<1>6. machine.phase # "finalizing"
  BY <1>1, <1>3, AppliedMoves, InvFacts DEF From, Terminal
<1>. QED
  BY <1>2, <1>5, <1>6, InvFacts DEF Inv, JobIsCurrent, JobIsForThisSession

\* Arming and disarming leave the addon with a session, or with none.
LEMMA SelectsTyped ==
  ASSUME TypeOK, NEW s \in Sessions, NEW b, Selects(s, b)
  PROVE  target' \in MaybeSession /\ adrift' \in BOOLEAN
BY DEF Selects, TypeOK, MaybeSession

LEMMA DisarmsTyped ==
  ASSUME TypeOK, Disarms(armed) \/ Disarmed(armed)
  PROVE  target' \in MaybeSession /\ adrift' \in BOOLEAN
BY DEF Disarms, Disarmed, TypeOK, MaybeSession

LEMMA StartKeepsInv ==
  ASSUME Inv, StartHandler
  PROVE  Inv'
<1>1. CanStart
  BY DEF StartHandler, StartUnarmed, StartWithoutCapture, StartCapture
<1> DEFINE s == Started.machine.session
<1>2. /\ GoodApp(Started) /\ s \in Sessions /\ job = NoSession
      /\ Started.machine.phase = "preparing" /\ recording = NoSession
  BY <1>1, StartedIsGood DEF CanStart
<1>3. GoodApp(Apply(Started, Command("fail", s)))
  BY <1>2, CommandTyped, ApplyIsGood DEF Targeted, MaybeSession
<1>4. GoodApp(Apply(Started, Command("capture_ready", s)))
  BY <1>2, CommandTyped, ApplyIsGood DEF Targeted, MaybeSession
<1>5. CASE StartUnarmed
  <2>1. GoodApp(app)' /\ AppTypeOK'
    BY <1>3, <1>5, SetToGood DEF StartUnarmed
  <2>2. target' \in MaybeSession /\ adrift' \in BOOLEAN
    BY <1>2, <1>5, SelectsTyped DEF StartUnarmed, Inv
  <2>. QED
    BY <1>2, <1>5, <2>1, <2>2
    DEF StartUnarmed, Inv, TypeOK, MicrophoneOnlyInCapture, JobIsCurrent,
        NoOrphanWorker, daemonVars, threads
<1>6. CASE StartWithoutCapture
  <2>1. GoodApp(app)' /\ AppTypeOK'
    BY <1>3, <1>6, SetToGood DEF StartWithoutCapture
  <2>2. target' \in MaybeSession /\ adrift' \in BOOLEAN /\ armed' \in Arms
    BY <1>2, <1>6, SelectsTyped DEF StartWithoutCapture, Inv, MaybeSession, Arms
  <2>. QED
    BY <1>2, <1>6, <2>1, <2>2
    DEF StartWithoutCapture, Inv, TypeOK, MicrophoneOnlyInCapture, JobIsCurrent,
        NoOrphanWorker, threads
<1>7. CASE StartCapture
  <2>1. /\ GoodApp(app)' /\ AppTypeOK'
        /\ machine' = Apply(Started, Command("capture_ready", s)).machine
    BY <1>4, <1>7, SetToGood DEF StartCapture
  <2>2. machine'.session = s /\ machine'.phase \in {"preparing", "listening"}
    <3>1. CASE Applies(Started, Command("capture_ready", s))
      <4>1. machine' = After(Started.machine, Command("capture_ready", s))
        BY <2>1, <3>1, AppliedMoves
      <4>. QED
        BY <4>1 DEF After, Target, Command
    <3>2. CASE ~ Applies(Started, Command("capture_ready", s))
      BY <1>2, <2>1, <3>2, AppliedMoves
    <3>. QED
      BY <3>1, <3>2
  <2>3. target' \in MaybeSession /\ adrift' \in BOOLEAN /\ armed' \in Arms
    BY <1>2, <1>7, SelectsTyped DEF StartCapture, Inv, Arms
  <2>4. recording' \in MaybeSession /\ pcm' \subseteq Sessions
    BY <1>2, <1>7 DEF StartCapture, Inv, TypeOK, MaybeSession
  <2>5. TypeOK'
    BY <1>7, <2>1, <2>3, <2>4 DEF StartCapture, Inv, TypeOK, threads
  <2>6. MicrophoneOnlyInCapture'
    BY <1>2, <1>7, <2>2, InvFacts DEF StartCapture, MicrophoneOnlyInCapture
  <2>. QED
    BY <1>2, <1>7, <2>1, <2>5, <2>6
    DEF StartCapture, Inv, JobIsCurrent, NoOrphanWorker, threads
<1>. QED
  BY <1>5, <1>6, <1>7 DEF StartHandler

\* The commands that the handlers build for the current session.
LEMMA CurrentCommandIsGood ==
  ASSUME Inv, NEW k \in Targeted \cup {"start", "reset"}
  PROVE  /\ GoodApp(Apply(app, Command(k, machine.session)))
         /\ Applies(app, Command(k, machine.session)) =>
              /\ machine.phase \in From[k]
              /\ Apply(app, Command(k, machine.session)).machine
                   = After(machine, Command(k, machine.session))
<1>1. /\ Command(k, machine.session) \in Commands
      /\ Command(k, machine.session).kind = k
  BY CommandTyped, InvFacts
<1>. QED
  BY <1>1, ApplyIsGood, AppliedMoves, InvFacts DEF Inv

\* What Stop makes of the controller: a session that finalizes, and no job yet.
LEMMA StoppedIsGood ==
  ASSUME Inv, CanStop
  PROVE  /\ GoodApp(Stopped)
         /\ Stopped.machine.phase = "finalizing"
         /\ Stopped.machine.session = machine.session
         /\ machine.session \in Sessions
         /\ job = NoSession
<1>1. /\ GoodApp(Stopped) /\ machine.phase = "listening"
      /\ Stopped.machine = After(machine, Command("stop", machine.session))
  BY CurrentCommandIsGood DEF CanStop, Stopped, Targeted, From
<1>2. machine.session \in Sessions
  BY <1>1, InvFacts DEF WellFormed, MaybeSession
<1>3. job = NoSession
  BY <1>1 DEF Inv, JobIsCurrent, JobIsForThisSession
<1>. QED
  BY <1>1, <1>2, <1>3 DEF After, Target, Command

LEMMA StopKeepsInv ==
  ASSUME Inv, StopHandler, loop' \in LoopStates
  PROVE  Inv'
<1> DEFINE s == machine.session
<1>1. /\ GoodApp(Stopped) /\ s \in Sessions /\ job = NoSession
      /\ Stopped.machine.phase = "finalizing" /\ Stopped.machine.session = s
  BY StoppedIsGood
  DEF StopHandler, StopNothing, StopCaptureFails, StopWithoutJob, StopWithJob
<1>2. GoodApp(Apply(Stopped, Command("fail", s)))
  BY <1>1, CommandTyped, ApplyIsGood DEF Targeted, MaybeSession
<1>3. GoodApp(Apply(Stopped, Command("no_speech", s)))
  BY <1>1, CommandTyped, ApplyIsGood DEF Targeted, MaybeSession
<1>4. Disarms(armed) => target' \in MaybeSession /\ adrift' \in BOOLEAN
  BY DisarmsTyped DEF Inv
<1>5. CASE StopNothing
  <2>1. GoodApp(app)' /\ AppTypeOK'
    BY <1>1, <1>5, SetToGood DEF StopNothing
  <2>. QED
    BY <1>1, <1>5, <2>1
    DEF StopNothing, Inv, TypeOK, MicrophoneOnlyInCapture, JobIsCurrent,
        NoOrphanWorker, daemonVars, threads, desktop
<1>6. CASE StopCaptureFails
  <2>1. GoodApp(app)' /\ AppTypeOK'
    BY <1>2, <1>6, SetToGood DEF StopCaptureFails
  <2>. QED
    BY <1>1, <1>6, <2>1
    DEF StopCaptureFails, CaptureTaken, Inv, TypeOK, MaybeSession,
        MicrophoneOnlyInCapture, JobIsCurrent, NoOrphanWorker, threads
<1>7. CASE StopWithoutJob
  <2>1. GoodApp(app)' /\ AppTypeOK'
    BY <1>2, <1>3, <1>7, SetToGood DEF StopWithoutJob
  <2>2. /\ target' \in MaybeSession /\ adrift' \in BOOLEAN
        /\ armed' \in Arms /\ pcm' \subseteq Sessions
    BY <1>4, <1>7 DEF StopWithoutJob, CleanedUp, Arms, Inv, TypeOK
  <2>. QED
    BY <1>1, <1>7, <2>1, <2>2
    DEF StopWithoutJob, CaptureTaken, Inv, TypeOK, MaybeSession,
        MicrophoneOnlyInCapture, JobIsCurrent, NoOrphanWorker, threads
<1>8. CASE StopWithJob
  <2>1. GoodApp(app)' /\ AppTypeOK' /\ machine' = Stopped.machine
    BY <1>1, <1>8, SetToGood DEF StopWithJob
  <2>2. /\ worker' \in [Sessions -> WorkerStates]
        /\ \A t \in Sessions : t # s => worker'[t] = worker[t]
    BY <1>1, <1>8 DEF StopWithJob, Inv, TypeOK, WorkerStates
  <2>3. TypeOK'
    BY <1>1, <1>8, <2>1, <2>2
    DEF StopWithJob, CaptureTaken, Inv, TypeOK, MaybeSession, desktop
  <2>4. MicrophoneOnlyInCapture' /\ JobIsCurrent'
    BY <1>1, <1>8, <2>1
    DEF StopWithJob, CaptureTaken, MicrophoneOnlyInCapture, JobIsCurrent,
        JobIsForThisSession
  <2>5. NoOrphanWorker'
    BY <1>1, <1>8, <2>2, InvFacts DEF StopWithJob, Inv, NoOrphanWorker
  <2>. QED
    BY <2>1, <2>3, <2>4, <2>5 DEF Inv
<1>. QED
  BY <1>5, <1>6, <1>7, <1>8 DEF StopHandler

LEMMA CancelKeepsInv ==
  ASSUME Inv, CancelHandler, loop' \in LoopStates
  PROVE  Inv'
<1>1. GoodApp(app)' /\ AppTypeOK'
  BY CurrentCommandIsGood, SetToGood DEF CancelHandler, Targeted
<1>2. /\ target' \in MaybeSession /\ adrift' \in BOOLEAN
      /\ armed' \in Arms /\ pcm' \subseteq Sessions
  BY DisarmsTyped DEF CancelHandler, Arms, Inv, TypeOK
<1>3. cancelled' \subseteq Sessions
  BY DEF CancelHandler, Inv, TypeOK, MaybeSession
<1>. QED
  BY <1>1, <1>2, <1>3, InvFacts
  DEF CancelHandler, CaptureTaken, Inv, TypeOK, MaybeSession,
      MicrophoneOnlyInCapture, JobIsCurrent, NoOrphanWorker

LEMMA ResetKeepsInv ==
  ASSUME Inv, ResetHandler, loop' \in LoopStates
  PROVE  Inv'
<1>1. Command("reset", NoSession) \in Commands /\ Command("reset", NoSession).kind = "reset"
  BY CommandTyped, InvFacts
<1>2. GoodApp(app)' /\ AppTypeOK'
  BY <1>1, ApplyIsGood, SetToGood DEF ResetHandler, Inv
<1>3. machine.phase \in {"idle"} \cup Terminal
  BY <1>1, AppliedMoves, InvFacts DEF ResetHandler, From
<1>4. recording = NoSession /\ job = NoSession
  BY <1>3 DEF Terminal, Inv, MicrophoneOnlyInCapture, JobIsCurrent, JobIsForThisSession
<1>. QED
  BY <1>2, <1>4
  DEF ResetHandler, Inv, TypeOK, MicrophoneOnlyInCapture, JobIsCurrent,
      NoOrphanWorker, daemonVars, threads, desktop

LEMMA ConfigurationKeepsInv ==
  ASSUME Inv, ReloadConfiguration \/ ClearHistory, loop' \in LoopStates
  PROVE  Inv'
<1>1. GoodApp(app)' /\ AppTypeOK' /\ machine' = machine
  BY AppUnchanged, InvFacts DEF Inv, ReloadConfiguration, ClearHistory
<1>2. history \in Seq(Sessions) /\ config \in Configs /\ <<>> \in Seq(Sessions)
  BY DEF Inv, TypeOK
<1>3. history' \in Seq(Sessions) /\ config' \in Configs
  BY <1>2 DEF ReloadConfiguration, ClearHistory
<1>. QED
  BY <1>1, <1>3
  DEF ReloadConfiguration, ClearHistory, Inv, TypeOK, MicrophoneOnlyInCapture,
      JobIsCurrent, JobIsForThisSession, NoOrphanWorker, threads, desktop

LEMMA QuitKeepsInv ==
  ASSUME Inv, QuitHandler, loop' \in LoopStates
  PROVE  Inv'
<1>1. GoodApp(app)' /\ AppTypeOK' /\ machine' = machine
  <2>1. GoodApp(Notified(app))
    BY NotifiedIsGood DEF Notified, Inv
  <2>2. \A a \in AppRecords : Notified(a).machine = a.machine
    BY DEF Notified, AppRecords
  <2>. QED
    BY <2>1, <2>2, SetToGood, InvFacts DEF QuitHandler, Inv, GoodApp
<1>2. target' \in MaybeSession /\ adrift' \in BOOLEAN /\ pcm' \subseteq Sessions
  BY DisarmsTyped DEF QuitHandler, Inv, TypeOK
<1>3. cancelled' \subseteq Sessions
  BY DEF QuitHandler, Inv, TypeOK, MaybeSession
<1>4. quit' \in BOOLEAN
  BY DEF QuitHandler
<1>. QED
  BY <1>1, <1>2, <1>3, <1>4, InvFacts
  DEF QuitHandler, CaptureTaken, Inv, TypeOK, MaybeSession,
      MicrophoneOnlyInCapture, JobIsCurrent, NoOrphanWorker

LEMMA ClientKeepsInv ==
  ASSUME Inv, Client
  PROVE  Inv'
<1>1. loop \in LoopStates
  BY DEF Inv, TypeOK
<1>2. CASE StartHandler
  BY <1>2, StartKeepsInv
<1>3. CASE UNCHANGED loop
  <2>1. loop' \in LoopStates
    BY <1>1, <1>3
  <2>. QED
    BY <1>2, <2>1, StopKeepsInv, CancelKeepsInv, ResetKeepsInv,
       ConfigurationKeepsInv, QuitKeepsInv DEF Client
<1>. QED
  BY <1>2, <1>3 DEF Client

\* A result is taken: what is left of it for each of the ways to go on.
LEMMA PollKeepsInv ==
  ASSUME Inv, PollTakes, GoodApp(app)', AppTypeOK',
         target' \in MaybeSession, adrift' \in BOOLEAN, armed' \in Arms,
         history' \in Seq(Sessions), inserted' \in [Sessions -> Nat]
  PROVE  Inv'
<1>1. job \in Sessions /\ recording = NoSession /\ clock = "none"
  BY DEF PollTakes, ResultWaits, Inv, TypeOK, MaybeSession, MicrophoneOnlyInCapture
<1>2. loop' \in LoopStates /\ pcm' \subseteq Sessions
  BY DEF PollTakes, CleanedUp, LoopStates, Locked, Inv, TypeOK
<1>3. TypeOK'
  BY <1>2 DEF PollTakes, Inv, TypeOK, MaybeSession, threads
<1>4. MicrophoneOnlyInCapture' /\ JobIsCurrent'
  BY <1>1 DEF PollTakes, MicrophoneOnlyInCapture, JobIsCurrent
<1>5. worker[job] # "running"
  BY DEF PollTakes, ResultWaits, Replied
<1>6. NoOrphanWorker'
  BY <1>5 DEF PollTakes, Inv, NoOrphanWorker, threads
<1>. QED
  BY <1>3, <1>4, <1>6 DEF Inv

\* What the results make of the controller.
LEMMA PollCommandsAreGood ==
  ASSUME Inv, JobIsForThisSession, NEW k \in {"fail", "insertion_complete"}
  PROVE  /\ job \in Sessions
         /\ GoodApp(Apply(app, Command(k, job)))
         /\ GoodApp(Transcribed)
         /\ GoodApp(Apply(Transcribed, Command(k, job)))
<1>1. job \in Sessions
  BY InvFacts DEF JobIsForThisSession, WellFormed, MaybeSession
<1>2. /\ Command(k, job) \in Commands /\ TranscriptReady \in Commands
  BY <1>1, CommandTyped DEF TranscriptReady, MaybeSession, Targeted
<1>3. GoodApp(Apply(app, Command(k, job))) /\ GoodApp(Transcribed)
  BY <1>2, ApplyIsGood DEF Inv, Transcribed
<1>. QED
  BY <1>1, <1>2, <1>3, ApplyIsGood

LEMMA LoopKeepsInv ==
  ASSUME Inv, Loop
  PROVE  Inv'
<1>1. /\ NotArmed \in Arms
      /\ Disarms(armed) \/ Disarmed(armed) => target' \in MaybeSession /\ adrift' \in BOOLEAN
  BY DisarmsTyped DEF Arms, Inv
<1>2. history \in Seq(Sessions) /\ inserted \in [Sessions -> Nat]
  BY DEF Inv, TypeOK
<1>3. CASE LoopEnters \/ DeadlineIsFar \/ PollFindsNothing \/ LoopTimesOut
  <2>1. GoodApp(app)' /\ AppTypeOK' /\ machine' = machine
    BY <1>3, AppUnchanged, InvFacts
    DEF Inv, LoopEnters, DeadlineIsFar, PollFindsNothing, LoopTimesOut
  <2>2. loop' \in LoopStates
    BY <1>3 DEF LoopEnters, DeadlineIsFar, PollFindsNothing, LoopTimesOut,
                LoopStates, Locked
  <2>3. UNCHANGED <<daemonVars, threads, desktop>>
    BY <1>3 DEF LoopEnters, DeadlineIsFar, PollFindsNothing, LoopTimesOut
  <2>. QED
    BY <2>1, <2>2, <2>3
    DEF Inv, TypeOK, MicrophoneOnlyInCapture, JobIsCurrent, JobIsForThisSession,
        NoOrphanWorker, daemonVars, threads, desktop
<1>4. CASE DeadlineStops
  <2>1. loop' \in LoopStates
    BY <1>4 DEF DeadlineStops, LoopStates, Locked
  <2>2. CASE StopHandler
    BY <2>1, <2>2, StopKeepsInv
  <2>3. CASE UNCHANGED <<appVars, daemonVars, threads, desktop>>
    <3>1. GoodApp(app)' /\ AppTypeOK' /\ machine' = machine
      BY <2>3, AppUnchanged, InvFacts DEF Inv
    <3>. QED
      BY <2>1, <2>3, <3>1
      DEF Inv, TypeOK, MicrophoneOnlyInCapture, JobIsCurrent, JobIsForThisSession,
          NoOrphanWorker, daemonVars, threads, desktop
  <2>. QED
    BY <1>4, <2>2, <2>3 DEF DeadlineStops
<1>5. CASE PollFails
  <2>1. GoodApp(app)' /\ AppTypeOK'
    BY <1>5, PollCommandsAreGood, SetToGood DEF PollFails
  <2>. QED
    BY <1>1, <1>2, <1>5, <2>1, PollKeepsInv DEF PollFails
<1>6. CASE PollRefused
  <2>1. GoodApp(app)' /\ AppTypeOK'
    BY <1>6, AppUnchanged, InvFacts DEF Inv, PollRefused
  <2>. QED
    BY <1>1, <1>2, <1>6, <2>1, PollKeepsInv DEF PollRefused
<1>7. CASE PollCannotInsert
  <2>1. GoodApp(app)' /\ AppTypeOK'
    BY <1>7, PollCommandsAreGood, SetToGood DEF PollCannotInsert
  <2>2. inserted' \in [Sessions -> Nat]
    BY <1>2, <1>7 DEF PollCannotInsert
  <2>. QED
    BY <1>1, <1>2, <1>7, <2>1, <2>2, PollKeepsInv DEF PollCannotInsert
<1>8. CASE PollInserts
  <2> DEFINE done == Apply(Transcribed, Command("insertion_complete", job))
  <2>1. job \in Sessions /\ GoodApp(Transcribed) /\ GoodApp(done)
    BY <1>8, PollCommandsAreGood DEF PollInserts
  <2>2. Transcribed.machine.session = job
    <3>1. Transcribed.machine = After(machine, TranscriptReady)
      BY <1>8, AppliedMoves, InvFacts DEF PollInserts, Transcribed
    <3>2. machine.session = job
      BY <1>8 DEF PollInserts, JobIsForThisSession
    <3>. QED
      BY <3>1, <3>2 DEF After, TranscriptReady, Command
  <2>3. Applies(Transcribed, Command("insertion_complete", job)) =>
          done.machine.session = job
    <3>1. Applies(Transcribed, Command("insertion_complete", job)) =>
            done.machine = After(Transcribed.machine, Command("insertion_complete", job))
      BY AppliedMoves
    <3>. QED
      BY <2>2, <3>1 DEF After, Command
  <2> HIDE DEF done
  <2>4. Applies(Transcribed, Command("insertion_complete", job)) =>
          GoodApp(Finish(done, job, "completed"))
    BY <2>1, <2>3, FinishIsGood DEF GoodApp, WellFormed, Outcomes
  <2>5. GoodApp(app)' /\ AppTypeOK'
    BY <1>8, <2>1, <2>4, SetToGood DEF PollInserts, done
  <2>6. inserted' \in [Sessions -> Nat]
    <3>1. inserted' = [inserted EXCEPT ![job] = @ + 1]
      BY <1>8 DEF PollInserts
    <3>. QED
      BY <1>2, <2>1, <3>1
  <2>7. Remembered(job) \in Seq(Sessions)
    <3> DEFINE kept == IF Len(history) = MaxHistory THEN Tail(history) ELSE history
    <3>1. Len(history) = MaxHistory => history # <<>>
      BY DaemonAssumption
    <3>2. kept \in Seq(Sessions)
      BY <1>2, <3>1, HeadTailProperties
    <3>3. Remembered(job) \in {history, Append(kept, job)}
      BY DEF Remembered
    <3> HIDE DEF kept
    <3>4. job \in Sessions
      BY <2>1
    <3>5. Append(kept, job) \in Seq(Sessions)
      BY <3>2, <3>4, AppendProperties
    <3>. QED
      BY <1>2, <3>3, <3>5
  <2>8. history' \in Seq(Sessions)
    BY <1>2, <1>8, <2>7 DEF PollInserts
  <2>. QED
    BY <1>1, <1>8, <2>5, <2>6, <2>8, PollKeepsInv DEF PollInserts
<1>9. CASE LoopDrains
  <2>1. GoodApp(app)' /\ AppTypeOK' /\ machine' = machine
    <3>1. GoodApp(Drained(app))
      BY DrainedIsGood DEF Inv
    <3>2. \A a \in AppRecords : Drained(a).machine = a.machine
      BY DEF Drained, AppRecords
    <3>. QED
      BY <1>9, <3>1, <3>2, SetToGood, InvFacts DEF LoopDrains, Inv, GoodApp
  <2>2. loop' \in LoopStates
    BY <1>9 DEF LoopDrains, LoopStates, Asleep
  <2>. QED
    BY <1>9, <2>1, <2>2
    DEF LoopDrains, Inv, TypeOK, MicrophoneOnlyInCapture, JobIsCurrent,
        JobIsForThisSession, NoOrphanWorker, daemonVars, threads, desktop
<1>10. CASE LoopIsWoken
  <2>1. GoodApp(app)' /\ AppTypeOK' /\ machine' = machine
    BY <1>10, WokenIsGood, InvFacts DEF LoopIsWoken, Inv
  <2>2. loop' \in LoopStates
    BY <1>10 DEF LoopIsWoken, LoopStates
  <2>. QED
    BY <1>10, <2>1, <2>2
    DEF LoopIsWoken, Inv, TypeOK, MicrophoneOnlyInCapture, JobIsCurrent,
        JobIsForThisSession, NoOrphanWorker, daemonVars, threads, desktop
<1>. QED
  BY <1>3, <1>4, <1>5, <1>6, <1>7, <1>8, <1>9, <1>10 DEF Loop

LEMMA WorkerKeepsInv ==
  ASSUME Inv, NEW s \in Sessions, Worker(s)
  PROVE  Inv'
<1>1. CASE WorkerSends(s) \/ WorkerPanics(s)
  <2>1. GoodApp(app)' /\ AppTypeOK' /\ machine' = machine
    BY <1>1, AppUnchanged, InvFacts DEF Inv, WorkerSends, WorkerPanics
  <2>2. /\ worker' \in [Sessions -> WorkerStates]
        /\ \A t \in Sessions : worker'[t] = "running" => worker[t] = "running"
    BY <1>1 DEF WorkerSends, WorkerPanics, Inv, TypeOK, WorkerStates, Replied
  <2>3. notifying' \subseteq Sessions
    BY <1>1 DEF WorkerSends, WorkerPanics, Inv, TypeOK
  <2>. QED
    BY <1>1, <2>1, <2>2, <2>3
    DEF WorkerSends, WorkerPanics, Inv, TypeOK, MicrophoneOnlyInCapture,
        JobIsCurrent, JobIsForThisSession, NoOrphanWorker, daemonVars, desktop
<1>2. CASE WorkerNotifies(s)
  <2>1. GoodApp(app)' /\ AppTypeOK' /\ machine' = machine
    <3>1. GoodApp(Notified(app))
      BY NotifiedIsGood DEF Notified, Inv
    <3>2. \A a \in AppRecords : Notified(a).machine = a.machine
      BY DEF Notified, AppRecords
    <3>. QED
      BY <1>2, <3>1, <3>2, SetToGood, InvFacts DEF WorkerNotifies, Inv, GoodApp
  <2>2. notifying' \subseteq Sessions
    BY <1>2 DEF WorkerNotifies, Inv, TypeOK
  <2>. QED
    BY <1>2, <2>1, <2>2
    DEF WorkerNotifies, Inv, TypeOK, MicrophoneOnlyInCapture, JobIsCurrent,
        JobIsForThisSession, NoOrphanWorker, daemonVars, desktop
<1>. QED
  BY <1>1, <1>2 DEF Worker

LEMMA TimeKeepsInv ==
  ASSUME Inv, DurationPasses
  PROVE  Inv'
<1>1. GoodApp(app)' /\ AppTypeOK' /\ machine' = machine
  BY AppUnchanged, InvFacts DEF Inv, DurationPasses
<1>. QED
  BY <1>1
  DEF DurationPasses, Inv, TypeOK, MicrophoneOnlyInCapture, JobIsCurrent,
      JobIsForThisSession, NoOrphanWorker, threads, desktop

(***************************************************************************)
(* The specification.                                                      *)
(***************************************************************************)
LEMMA InvHolds ==
  Spec => []Inv
<1>1. Inv /\ [Next]_vars => Inv'
  <2> SUFFICES ASSUME Inv, [Next]_vars
               PROVE  Inv'
    OBVIOUS
  <2>1. CASE UNCHANGED vars
    <3>1. GoodApp(app)' /\ AppTypeOK' /\ machine' = machine
      BY <2>1, AppUnchanged, InvFacts DEF Inv, vars
    <3>. QED
      BY <2>1, <3>1
      DEF vars, Inv, TypeOK, MicrophoneOnlyInCapture, JobIsCurrent,
          JobIsForThisSession, NoOrphanWorker, daemonVars, threads, desktop
  <2>. QED
    BY <2>1, ClientKeepsInv, LoopKeepsInv, WorkerKeepsInv, TimeKeepsInv DEF Next
<1>. QED
  BY <1>1, InitInv, PTL DEF Spec

\* The daemon's variables, those of the controller among them, always are what
\* their declarations say.
THEOREM DaemonTypeCorrect ==
  Spec => []TypeOK
<1>1. Inv => TypeOK
  BY DEF Inv
<1>. QED
  BY <1>1, InvHolds, PTL

\* Whatever is refused for lack of room in the queue, the microphone is open
\* only for the current session, before it leaves capture, and under the clock
\* of the safety deadline.
THEOREM MicrophoneIsNeverForgotten ==
  Spec => []MicrophoneOnlyInCapture
<1>1. Inv => MicrophoneOnlyInCapture
  BY DEF Inv
<1>. QED
  BY <1>1, InvHolds, PTL

\* No call of a client leaves a job behind whose result would reach another
\* session.
THEOREM JobBelongsToTheCurrentSession ==
  Spec => []JobIsCurrent
<1>1. Inv => JobIsCurrent
  BY DEF Inv
<1>. QED
  BY <1>1, InvHolds, PTL

\* Every worker that still runs works for the job or has been told to stop.
THEOREM AbandonedWorkersAreCancelled ==
  Spec => []NoOrphanWorker
<1>1. Inv => NoOrphanWorker
  BY DEF Inv
<1>. QED
  BY <1>1, InvHolds, PTL

-----------------------------------------------------------------------------
(***************************************************************************)
(* What the daemon owes its users: no text after the end, an outcome for   *)
(* every session that has ended, nothing left behind, and no long sleep    *)
(* over something to do.  All that users see of it is, at last, a          *)
(* behaviour of Dictation.  These rest on Inv.                             *)
(***************************************************************************)

(***************************************************************************)
(* The invariant.                                                          *)
(***************************************************************************)

\* The cache has the outcome of the current session exactly when it has ended.
Told(a) ==
  /\ a.machine.phase \in Terminal => HasResult(a.results, a.machine.session)
  /\ a.machine.phase \in Active   => ~ HasResult(a.results, a.machine.session)

\* The current session is the one that was issued last, and no more outcomes are
\* kept than sessions have ended.
Numbered(a) ==
  /\ a.machine.nextId <= MaxStarts + 1
  /\ a.machine.phase # "idle" => a.machine.session + 1 = a.machine.nextId
  /\ Len(a.results) + (IF a.machine.phase \in Active THEN 1 ELSE 0) < a.machine.nextId
  /\ \A i \in 1..Len(a.results) : a.results[i].session < a.machine.nextId

Tracked(a) == GoodApp(a) /\ Told(a) /\ Numbered(a)

\* Nothing has been dispatched for the session, and it may still be.
Untouched(s) == inserted[s] = 0 /\ s \notin cancelled

\* So it is for the sessions to come, for the one that is captured, and for the
\* one that is recognized.
Pending ==
  /\ \A s \in Sessions : s >= machine.nextId => Untouched(s)
  /\ machine.phase \in {"preparing", "listening"} => Untouched(machine.session)
  /\ job # NoSession => Untouched(job)

\* What the loop knows when it holds the lock, and what wakes it from its long
\* sleep.
Alert ==
  /\ loop \in Locked => ~ quit
  /\ loop = "asleep-long" =>
       wake \/ (events = <<>> /\ recording = NoSession /\ ~ quit)
  /\ loop \in {"drain", "asleep-long"} /\ job # NoSession /\ worker[job] \in {"text", "error"}
       => wake \/ job \in notifying

Outcome ==
  /\ Tracked(app)
  /\ Pending
  /\ NothingIsLeftBehind
  /\ Alert

(***************************************************************************)
(* The controller.                                                         *)
(***************************************************************************)

\* The outcome of a session is that of its only result.
LEMMA OutcomeIsOfResult ==
  ASSUME NEW rs, CacheOK(rs), NEW i \in 1..Len(rs)
  PROVE  OutcomeIn(rs, rs[i].session) = rs[i].outcome
<1>1. HasResult(rs, rs[i].session)
  BY DEF HasResult
<1>2. rs \in Seq(Results) /\ Len(rs) \in Nat
  BY LenProperties DEF CacheOK
<1>3. Position(rs, rs[i].session) \in 1..Len(rs) /\ rs[Position(rs, rs[i].session)].session = rs[i].session
  BY <1>2 DEF Position
<1>4. Position(rs, rs[i].session) = i
  BY <1>3 DEF CacheOK
<1>. QED
  BY <1>1, <1>4 DEF OutcomeIn

LEMMA RecordedIsWithin ==
  ASSUME NEW rs, CacheOK(rs), NEW s \in Sessions, NEW o \in Outcomes,
         NEW new, new = Recorded(rs, s, o)
  PROVE  WithinButNewest(new, rs)
BY RecordedIsOK

\* Recording an outcome takes one place at most, and none if it replaces another.
\* As long as there is room no other outcome is lost.
LEMMA RecordedReports ==
  ASSUME NEW rs, CacheOK(rs), NEW s \in Sessions, NEW o \in Outcomes,
         NEW new, new = Recorded(rs, s, o)
  PROVE  /\ Len(new) <= Len(rs) + 1
         /\ HasResult(rs, s) => Len(new) <= Len(rs)
         /\ Len(rs) < MaxSessionResults \/ HasResult(rs, s) =>
              \A t : OutcomeIn(new, t) = IF t = s THEN o ELSE OutcomeIn(rs, t)
<1> DEFINE p   == Position(rs, s)
           out == Without(rs, p)
           r   == [session |-> s, outcome |-> o]
<1>1. rs \in Seq(Results) /\ Len(rs) \in Nat /\ Len(rs) <= MaxSessionResults
  BY LenProperties DEF CacheOK
<1>2. MaxSessionResults \in Nat \ {0} /\ r \in Results /\ r.session = s /\ r.outcome = o
  BY LimitsAssumption DEF Results
<1>3. p \in 0..Len(rs) /\ (p = 0 <=> ~ HasResult(rs, s))
  BY <1>1, PositionFinds DEF HasResult
<1>4. CacheOK(out) /\ \A i \in 1..Len(out) : out[i].session # s
  BY WithoutIsOK
<1>5. /\ Len(out) = IF p = 0 THEN Len(rs) ELSE Len(rs) - 1
      /\ \A j \in 1..Len(out) : out[j] = IF p = 0 \/ j < p THEN rs[j] ELSE rs[j + 1]
  BY <1>1, <1>3 DEF Without
<1>6. /\ Evicted(out) \in Seq(Results) /\ Len(Evicted(out)) <= Len(out)
      /\ Len(out) # MaxSessionResults => Evicted(out) = out
  <2>1. out \in Seq(Results) /\ Len(out) \in Nat
    BY <1>4, LenProperties DEF CacheOK
  <2>2. CASE Len(out) = MaxSessionResults
    <3>1. out # <<>> /\ Evicted(out) = Tail(out)
      BY <1>2, <2>1, <2>2 DEF Evicted
    <3> HIDE DEF out
    <3>2. Tail(out) \in Seq(Results) /\ Len(Tail(out)) = Len(out) - 1
      BY <2>1, <3>1, HeadTailProperties
    <3>. QED
      BY <2>1, <2>2, <3>1, <3>2
  <2>3. CASE Len(out) # MaxSessionResults
    BY <2>1, <2>3 DEF Evicted
  <2>. QED
    BY <2>2, <2>3
<1>7. new = Append(Evicted(out), r)
  BY DEF Recorded
<1> HIDE DEF p, out, r
<1>8. Len(new) = Len(Evicted(out)) + 1 /\ Len(Evicted(out)) \in Nat
  BY <1>2, <1>6, <1>7, AppendProperties, LenProperties
<1>9. Len(new) <= Len(rs) + 1 /\ (HasResult(rs, s) => Len(new) <= Len(rs))
  BY <1>1, <1>3, <1>5, <1>6, <1>8
<1>10. ASSUME Len(rs) < MaxSessionResults \/ HasResult(rs, s), NEW t
       PROVE  OutcomeIn(new, t) = IF t = s THEN o ELSE OutcomeIn(rs, t)
  <2>1. Evicted(out) = out
    BY <1>1, <1>2, <1>3, <1>5, <1>6, <1>10
  <2>2. /\ Len(new) = Len(out) + 1 /\ Len(out) \in Nat
        /\ \A j \in 1..Len(out) : new[j] = out[j]
        /\ new[Len(out) + 1] = r
    BY <1>2, <1>6, <1>7, <1>8, <2>1, AppendProperties
  <2>3. CacheOK(new)
    BY RecordedIsOK
  <2>4. CASE t = s
    BY <1>2, <2>2, <2>3, <2>4, OutcomeIsOfResult
  <2>5. CASE t # s /\ HasResult(rs, t)
    <3>1. PICK i \in 1..Len(rs) : rs[i].session = t
      BY <2>5 DEF HasResult
    <3>2. i # p
      <4>1. p # 0 => rs[p].session = s
        BY <1>1, PositionFinds DEF p
      <4>. QED
        BY <1>3, <2>5, <3>1, <4>1
    <3>3. PICK j \in 1..Len(out) : out[j] = rs[i]
      <4>1. CASE p = 0 \/ i < p
        BY <1>1, <1>3, <1>5, <3>2, <4>1
      <4>2. CASE p # 0 /\ i > p
        <5>1. i - 1 \in 1..Len(out) /\ ~ (i - 1 < p) /\ (i - 1) + 1 = i
          BY <1>1, <1>3, <1>5, <4>2
        <5>2. out[i - 1] = rs[(i - 1) + 1]
          BY <1>5, <4>2, <5>1
        <5>. QED
          BY <5>1, <5>2
      <4>. QED
        BY <1>3, <3>2, <4>1, <4>2
    <3>4. j \in 1..Len(new) /\ new[j] = rs[i]
      BY <2>2, <3>3
    <3>5. OutcomeIn(new, t) = rs[i].outcome
      BY <2>3, <3>1, <3>4, OutcomeIsOfResult
    <3>6. OutcomeIn(rs, t) = rs[i].outcome
      BY <3>1, OutcomeIsOfResult
    <3>. QED
      BY <2>5, <3>5, <3>6
  <2>6. CASE t # s /\ ~ HasResult(rs, t)
    <3>1. \A j \in 1..Len(out) : \E i \in 1..Len(rs) : out[j] = rs[i]
      <4> SUFFICES ASSUME NEW j \in 1..Len(out)
                   PROVE  \E i \in 1..Len(rs) : out[j] = rs[i]
        OBVIOUS
      <4>1. CASE p = 0 \/ j < p
        BY <1>1, <1>3, <1>5, <4>1
      <4>2. CASE p # 0 /\ ~ (j < p)
        <5>1. j + 1 \in 1..Len(rs) /\ out[j] = rs[j + 1]
          BY <1>1, <1>3, <1>5, <4>2
        <5>. QED
          BY <5>1
      <4>. QED
        BY <4>1, <4>2
    <3>2. ~ HasResult(new, t)
      BY <1>2, <2>2, <2>6, <3>1 DEF HasResult
    <3>. QED
      BY <2>6, <3>2 DEF OutcomeIn
  <2>. QED
    BY <2>4, <2>5, <2>6
<1>. QED
  BY <1>9, <1>10

\* A command that the controller accepts tells the outcome of the session that
\* it ends, and keeps silent about one that goes on.  (The end of an insertion
\* is told by a call of its own.)
LEMMA ApplyIsTracked ==
  ASSUME NEW a, Tracked(a), NEW c \in Commands,
         c.kind # "insertion_complete",
         c.kind = "start" => a.machine.nextId <= MaxStarts
  PROVE  Tracked(Apply(a, c))
<1>1. CASE ~ Applies(a, c)
  BY <1>1, AppliedMoves
<1>2. CASE Applies(a, c)
  <2> DEFINE b == Apply(a, c)
             m == a.machine
  <2>1. GoodApp(b)
    BY ApplyIsGood DEF Tracked
  <2>2. b.machine = After(m, c) /\ m.phase \in From[c.kind]
    BY <1>2, AppliedMoves
  <2>3. /\ m \in Machines /\ m.nextId \in Sessions /\ m.nextId \in Nat
        /\ m.session \in Nat /\ CacheOK(a.results) /\ WellFormed(m)
        /\ m.phase \in Phases
    BY MaxIdAssumption
    DEF Tracked, GoodApp, AppRecords, Machines, Sessions, NoSession
  <2>4. c.kind \in Targeted => c.session = m.session
    BY <1>2 DEF Applies, Accepts
  <2>5. c.kind \notin DOMAIN TerminalOutcome => b.results = a.results
    BY <1>2 DEF Apply
  <2>6. c.kind \in DOMAIN TerminalOutcome =>
          b.results = Recorded(a.results, c.session, TerminalOutcome[c.kind])
    BY <1>2 DEF Apply
  <2> HIDE DEF b, m
  <2>7. CASE c.kind = "start"
    <3>1. /\ b.machine.phase = "preparing" /\ b.machine.session = m.nextId
          /\ b.machine.nextId = Successor(m.nextId)
      BY <2>2, <2>7 DEF After, Target
    <3>2. m.nextId # MaxId /\ m.nextId <= MaxStarts
      BY <2>3, <2>7, DaemonAssumption, MaxIdAssumption DEF m
    <3>3. \A i \in 1..Len(a.results) : a.results[i].session < m.nextId
      BY <3>2 DEF Tracked, GoodApp, OnlyIssued, m
    <3>4. b.results = a.results
      BY <2>5, <2>7 DEF TerminalOutcome
    <3>5. Told(b)
      BY <2>3, <3>1, <3>3, <3>4 DEF Told, HasResult, Active, Terminal
    <3>6. Len(a.results) < m.nextId /\ Len(a.results) \in Nat
      <4>1. m.phase \notin Active
        BY <2>2, <2>7 DEF From, Active, Terminal
      <4>. QED
        BY <2>3, <4>1, LenProperties DEF Tracked, Numbered, CacheOK, m
    <3>7. Numbered(b)
      <4>1. b.machine.nextId = m.nextId + 1 /\ m.nextId + 1 <= MaxStarts + 1
        BY <2>3, <3>1, <3>2, DaemonAssumption DEF Successor
      <4>2. \A i \in 1..Len(a.results) : a.results[i].session \in Nat
        <5>1. \A i \in 1..Len(a.results) : a.results[i] \in Results
          BY <2>3, ElementOfSeq DEF CacheOK
        <5>2. \A x \in Results : x.session \in Nat
          BY MaxIdAssumption DEF Results, Sessions
        <5>. QED
          BY <5>1, <5>2
      <4>3. \A i \in 1..Len(b.results) : b.results[i].session < m.nextId + 1
        BY <2>3, <3>3, <3>4, <4>2
      <4>4. Len(b.results) + 1 < m.nextId + 1
        BY <2>3, <3>4, <3>6
      <4>. QED
        BY <3>1, <4>1, <4>3, <4>4 DEF Numbered, Active
    <3>. QED
      BY <2>1, <3>5, <3>7 DEF Tracked, b
  <2>8. CASE c.kind = "reset"
    <3>1. b.machine.phase = "idle" /\ b.machine.nextId = m.nextId
      BY <2>2, <2>8 DEF After, Target
    <3>2. b.results = a.results /\ m.phase \notin Active
      BY <2>2, <2>5, <2>8 DEF TerminalOutcome, From, Active, Terminal
    <3>3. Told(b) /\ Numbered(b)
      BY <3>1, <3>2 DEF Tracked, Told, Numbered, Active, Terminal, m
    <3>. QED
      BY <2>1, <3>3 DEF Tracked, b
  <2>9. CASE c.kind \in {"cancel", "no_speech", "fail"}
    <3> DEFINE o == TerminalOutcome[c.kind]
    <3>1. /\ b.machine.phase \in Terminal /\ b.machine.session = m.session
          /\ b.machine.nextId = m.nextId /\ m.phase # "idle"
      BY <2>2, <2>9 DEF After, Target, Terminal, From, Active
    <3>2. c.session = m.session /\ m.session \in Sessions /\ o \in Outcomes
      BY <2>3, <2>4, <2>9, <3>1
      DEF Targeted, TerminalOutcome, Outcomes, WellFormed, Machines
    <3>3. b.results = Recorded(a.results, m.session, o)
      BY <2>6, <2>9, <3>2 DEF TerminalOutcome
    <3> HIDE DEF o
    <3>4. /\ Len(b.results) \in Nat \ {0}
          /\ b.results[Len(b.results)] = [session |-> m.session, outcome |-> o]
      BY <2>3, <3>2, <3>3, RecordedIsOK
    <3>5. HasResult(b.results, m.session)
      BY <3>4 DEF HasResult
    <3>6. Told(b)
      BY <3>1, <3>5 DEF Told, Active, Terminal
    <3>7. Numbered(b)
      <4>1. /\ Len(b.results) <= Len(a.results) + 1
            /\ HasResult(a.results, m.session) => Len(b.results) <= Len(a.results)
            /\ Len(b.results) \in Nat /\ Len(a.results) \in Nat
        BY <2>3, <3>2, <3>3, <3>4, RecordedReports, LenProperties DEF CacheOK
      <4>2. m.phase \notin Active => HasResult(a.results, m.session)
        BY <2>3, <3>1 DEF Tracked, Told, Phases, m
      <4>3. /\ m.nextId <= MaxStarts + 1 /\ m.session + 1 = m.nextId
            /\ m.phase \in Active => Len(a.results) + 1 < m.nextId
            /\ m.phase \notin Active => Len(a.results) + 0 < m.nextId
        BY <3>1 DEF Tracked, Numbered, m
      <4>4. Len(b.results) + 0 < m.nextId
        BY <2>3, <4>1, <4>2, <4>3
      <4>5. b.machine.phase \notin Active
        BY <3>1 DEF Active, Terminal
      <4>6. \A i \in 1..Len(b.results) : b.results[i].session < m.nextId
        <5>1. \A i \in 1..Len(a.results) : a.results[i].session < m.nextId
          BY DEF Tracked, Numbered, m
        <5>2. WithinButNewest(b.results, a.results)
          <6>1. CacheOK(a.results) /\ m.session \in Sessions /\ o \in Outcomes
            BY <2>3, <3>2
          <6>. QED
            BY <3>3, <6>1, RecordedIsWithin
        <5>3. b.results[Len(b.results)].session < m.nextId
          BY <2>3, <3>4, <4>3
        <5>. QED
          BY <3>4, <5>1, <5>2, <5>3 DEF WithinButNewest
      <4>. QED
        BY <3>1, <4>3, <4>4, <4>5, <4>6 DEF Numbered
    <3>. QED
      BY <2>1, <3>6, <3>7 DEF Tracked, b
  <2>10. CASE c.kind \in {"stop", "capture_ready", "capture_stopped", "transcript_ready"}
    <3>1. /\ b.machine.phase \in Active /\ b.machine.session = m.session
          /\ b.machine.nextId = m.nextId /\ m.phase \in Active
      BY <2>2, <2>10 DEF After, Target, From, Active
    <3>2. b.results = a.results
      BY <2>5, <2>10 DEF TerminalOutcome
    <3>3. Told(b) /\ Numbered(b)
      BY <3>1, <3>2 DEF Told, Numbered, Tracked, Active, Terminal, m
    <3>. QED
      BY <2>1, <3>3 DEF Tracked, b
  <2>. QED
    BY <2>7, <2>8, <2>9, <2>10 DEF Commands, Targeted
<1>. QED
  BY <1>1, <1>2

\* When the end of an insertion is accepted there is room to tell it.
LEMMA CompletionIsTracked ==
  ASSUME NEW a, Tracked(a), NEW s \in Sessions,
         Applies(a, Command("insertion_complete", s))
  PROVE  LET done == Apply(a, Command("insertion_complete", s))
         IN CanFinish(done) /\ Tracked(Finish(done, s, "completed"))
<1> DEFINE c    == Command("insertion_complete", s)
           done == Apply(a, c)
           b    == Finish(done, s, "completed")
<1>1. c \in Commands /\ c.kind = "insertion_complete" /\ c.session = s
  BY CommandTyped DEF Targeted, MaybeSession
<1>2. /\ done.machine = After(a.machine, c) /\ a.machine.phase = "inserting"
      /\ a.machine.session = s
  BY <1>1, AppliedMoves DEF From, Applies, Accepts, Targeted
<1>3. /\ done.machine.phase = "completed" /\ done.machine.session = s
      /\ done.machine.nextId = a.machine.nextId
  BY <1>1, <1>2 DEF After, Target
<1>4. GoodApp(done)
  BY <1>1, ApplyIsGood DEF Tracked
<1>5. done.events = Append(a.events, StateChanged(done.machine))
  BY <1>1, <1>2 DEF Apply, TerminalOutcome
<1>6. CanFinish(done)
  <2>1. a.events \in Seq(Events) /\ StateChanged(done.machine) \in Events
    BY <1>4, EventsTyped DEF Tracked, GoodApp, AppRecords
  <2>2. Len(a.events) \in Nat /\ Len(done.events) = Len(a.events) + 1
    BY <1>5, <2>1, OneMoreEvent
  <2>3. ~ (Len(a.events) > MaxPendingEvents - 2)
    BY DEF Applies, Backpressure
  <2> HIDE DEF done
  <2>. QED
    BY <2>2, <2>3, LimitsAssumption DEF CanFinish
<1> HIDE DEF done
<1>7. /\ b.machine = done.machine
      /\ b.results = Recorded(done.results, s, "completed")
  BY <1>6 DEF Finish
<1>8. GoodApp(b)
  BY <1>3, <1>4, FinishIsGood DEF GoodApp, WellFormed, Outcomes
<1>9. HasResult(b.results, s)
  <2>1. CacheOK(done.results) /\ "completed" \in Outcomes
    BY <1>4 DEF GoodApp, Outcomes
  <2>2. /\ Len(b.results) \in Nat \ {0}
        /\ b.results[Len(b.results)] = [session |-> s, outcome |-> "completed"]
    BY <1>7, <2>1, RecordedIsOK
  <2>. QED
    BY <2>2 DEF HasResult
<1>10. Len(b.results) + 0 < a.machine.nextId
  <2>1. /\ done.results = a.results /\ a.results \in Seq(Results)
        /\ CacheOK(done.results) /\ "completed" \in Outcomes
        /\ Len(a.results) \in Nat /\ a.machine.nextId \in Nat
    BY <1>1, <1>4, LenProperties, MaxIdAssumption
    DEF done, Apply, TerminalOutcome, GoodApp, Outcomes, Tracked, AppRecords, Machines, Sessions
  <2>2. Len(b.results) <= Len(a.results) + 1
    BY <1>7, <2>1, RecordedReports
  <2>3. Len(a.results) + 1 < a.machine.nextId
    BY <1>2 DEF Tracked, Numbered, Active
  <2>4. Len(b.results) \in Nat
    BY <1>8, LenProperties DEF GoodApp, CacheOK
  <2>. QED
    BY <2>1, <2>2, <2>3, <2>4
<1>11. Told(b)
  BY <1>3, <1>7, <1>9 DEF Told, Active, Terminal
<1>12. Numbered(b)
  <2>1. b.machine.phase = "completed" /\ b.machine.phase \notin Active
    BY <1>3, <1>7 DEF Active
  <2>2. b.machine.nextId <= MaxStarts + 1 /\ b.machine.session + 1 = b.machine.nextId
    BY <1>2, <1>3, <1>7 DEF Tracked, Numbered
  <2>3. Len(b.results) + 0 < b.machine.nextId
    BY <1>3, <1>7, <1>10, LenProperties
  <2>4. \A i \in 1..Len(b.results) : b.results[i].session < b.machine.nextId
    <3>1. \A i \in 1..Len(done.results) : done.results[i].session < b.machine.nextId
      BY <1>1, <1>3, <1>7 DEF done, Apply, TerminalOutcome, Tracked, Numbered
    <3>2. /\ WithinButNewest(b.results, done.results) /\ Len(b.results) \in Nat \ {0}
          /\ b.results[Len(b.results)] = [session |-> s, outcome |-> "completed"]
      <4>1. CacheOK(done.results) /\ "completed" \in Outcomes
        BY <1>4 DEF GoodApp, Outcomes
      <4>. QED
        BY <1>7, <4>1, RecordedIsOK
    <3>3. s < b.machine.nextId
      <4>1. s + 1 = b.machine.nextId /\ s \in Nat
        BY <1>3, <1>7, <2>2, MaxIdAssumption DEF Sessions
      <4>. QED
        BY <4>1
    <3>. QED
      BY <3>1, <3>2, <3>3 DEF WithinButNewest
  <2>. QED
    BY <2>1, <2>2, <2>3, <2>4 DEF Numbered
<1>. QED
  BY <1>6, <1>8, <1>11, <1>12 DEF Tracked, done

\* A command wakes the loop, or does nothing.
LEMMA ApplyWakes ==
  ASSUME NEW a, NEW c
  PROVE  Apply(a, c) = a \/ Apply(a, c).wake = TRUE
BY DEF Apply

(***************************************************************************)
(* The handlers, as far as the controller goes.                            *)
(***************************************************************************)

\* Shared by the steps: sessions and their numbers.
LEMMA NumberFacts ==
  ASSUME Inv, Outcome
  PROVE  /\ machine.nextId \in Nat /\ machine.session \in Nat
         /\ machine.nextId \in Sessions /\ Sessions \subseteq Nat
         /\ machine.phase # "idle" =>
              /\ machine.session \in Sessions
              /\ machine.session + 1 = machine.nextId
         /\ job # NoSession =>
              /\ job \in Sessions /\ job = machine.session
              /\ machine.phase = "finalizing"
<1>1. /\ app.machine = machine /\ machine \in Machines /\ WellFormed(machine)
      /\ machine.session \in MaybeSession /\ machine.nextId \in Sessions
  BY InvFacts
<1>2. job \in MaybeSession /\ JobIsCurrent
  BY DEF Inv, TypeOK
<1>3. machine.phase # "idle" => machine.session + 1 = machine.nextId
  BY <1>1 DEF Outcome, Tracked, Numbered
<1>4. Sessions \subseteq Nat /\ NoSession = 0
  BY MaxIdAssumption DEF Sessions, NoSession
<1>5. machine.nextId \in Nat /\ machine.session \in Nat
  <2>1. \A n \in MaybeSession : n \in Nat
    BY <1>4 DEF MaybeSession
  <2>. QED
    BY <1>1, <1>4, <2>1
<1>6. machine.phase # "idle" => machine.session \in Sessions
  BY <1>1 DEF WellFormed, MaybeSession
<1>7. job # NoSession =>
        job \in Sessions /\ job = machine.session /\ machine.phase = "finalizing"
  BY <1>2 DEF MaybeSession, JobIsCurrent, JobIsForThisSession
<1>. QED
  BY <1>1, <1>3, <1>4, <1>5, <1>6, <1>7

\* A handler's new controller is the next one.
LEMMA SetToTracked ==
  ASSUME NEW a, Tracked(a), SetApp(a)
  PROVE  Tracked(app)' /\ machine' = a.machine /\ results' = a.results
         /\ events' = a.events /\ wake' = a.wake
<1>1. a \in AppRecords
  BY DEF Tracked, GoodApp
<1>2. app' = a
  BY <1>1 DEF AppRecords, SetApp, app
<1>3. Tracked(app')
  BY <1>2
<1>. QED
  BY <1>3 DEF SetApp, Tracked, Told, Numbered, GoodApp, app

\* Start issues the next session, and wakes the loop.
LEMMA StartEffect ==
  ASSUME Inv, Outcome, StartHandler
  PROVE  /\ CanStart /\ recording = NoSession /\ job = NoSession
         /\ Tracked(app)'
         /\ machine'.session = machine.nextId
         /\ machine'.nextId = machine.nextId + 1
         /\ wake' = TRUE
<1> DEFINE c == Command("start", NoSession)
           s == Started.machine.session
<1>1. CanStart /\ recording = NoSession /\ Applies(app, c) /\ machine.nextId <= MaxStarts
  BY DEF StartHandler, StartUnarmed, StartWithoutCapture, StartCapture, CanStart
<1>2. c \in Commands /\ c.kind = "start" /\ app.machine = machine
  BY CommandTyped, InvFacts
<1>3. Tracked(Started)
  BY <1>1, <1>2, ApplyIsTracked DEF Outcome, Started
<1>4. job = NoSession /\ s \in Sessions
  BY <1>1, StartedIsGood
<1>5. Started.machine = After(machine, c) /\ Started.wake = TRUE
  <2>1. Started.machine = After(machine, c)
    BY <1>1, <1>2, AppliedMoves DEF Started
  <2>2. Started.wake = TRUE
    BY <1>1 DEF Started, Apply
  <2>. QED
    BY <2>1, <2>2
<1>6. Started.machine.session = machine.nextId /\ Started.machine.nextId = machine.nextId + 1
  <2>1. machine.nextId # MaxId
    BY <1>1, NumberFacts, DaemonAssumption, MaxIdAssumption
  <2>. QED
    BY <1>2, <1>5, <2>1 DEF After, Successor
<1>7. \A k \in {"fail", "capture_ready"} :
        /\ Tracked(Apply(Started, Command(k, s)))
        /\ Apply(Started, Command(k, s)).wake = TRUE
        /\ Apply(Started, Command(k, s)).machine.session = machine.nextId
        /\ Apply(Started, Command(k, s)).machine.nextId = machine.nextId + 1
  <2> SUFFICES ASSUME NEW k \in {"fail", "capture_ready"}
               PROVE  /\ Tracked(Apply(Started, Command(k, s)))
                      /\ Apply(Started, Command(k, s)).wake = TRUE
                      /\ Apply(Started, Command(k, s)).machine.session = machine.nextId
                      /\ Apply(Started, Command(k, s)).machine.nextId = machine.nextId + 1
    OBVIOUS
  <2>1. Command(k, s) \in Commands /\ Command(k, s).kind = k
    BY <1>4, CommandTyped DEF Targeted, MaybeSession
  <2>2. Tracked(Apply(Started, Command(k, s)))
    BY <1>3, <2>1, ApplyIsTracked
  <2>3. Apply(Started, Command(k, s)).wake = TRUE
    BY <1>5, ApplyWakes
  <2>4. \/ Apply(Started, Command(k, s)).machine = Started.machine
        \/ Apply(Started, Command(k, s)).machine = After(Started.machine, Command(k, s))
    BY AppliedMoves
  <2>5. /\ After(Started.machine, Command(k, s)).session = Started.machine.session
        /\ After(Started.machine, Command(k, s)).nextId = Started.machine.nextId
    BY <2>1 DEF After
  <2>. QED
    BY <1>6, <2>2, <2>3, <2>4, <2>5
<1>8. SetApp(Apply(Started, Command("fail", s))) \/ SetApp(Apply(Started, Command("capture_ready", s)))
  BY DEF StartHandler, StartUnarmed, StartWithoutCapture, StartCapture
<1>. QED
  BY <1>1, <1>4, <1>7, <1>8, SetToTracked

\* Stop ends the capture of the current session, and wakes the loop.
LEMMA StopEffect ==
  ASSUME Inv, Outcome, StopHandler
  PROVE  /\ machine.phase = "listening" /\ job = NoSession
         /\ Tracked(app)'
         /\ machine'.session = machine.session
         /\ machine'.nextId = machine.nextId
         /\ machine'.phase \notin {"preparing", "listening"}
         /\ wake' = TRUE
<1> DEFINE s == machine.session
           c == Command("stop", s)
<1>1. CanStop
  BY DEF StopHandler, StopNothing, StopCaptureFails, StopWithoutJob, StopWithJob
<1>2. /\ c \in Commands /\ c.kind = "stop" /\ app.machine = machine
  BY CommandTyped, InvFacts DEF Targeted
<1>3. /\ Stopped.machine.phase = "finalizing" /\ Stopped.machine.session = s
      /\ s \in Sessions /\ job = NoSession
  BY <1>1, StoppedIsGood
<1>4. machine.phase = "listening" /\ Stopped.machine = After(machine, c)
  BY <1>1, CurrentCommandIsGood DEF CanStop, Stopped, Targeted, From
<1>5. Stopped.wake = TRUE /\ Stopped.machine.nextId = machine.nextId
  BY <1>1, <1>2, <1>4 DEF CanStop, Stopped, Apply, After
<1>6. Tracked(Stopped)
  BY <1>2, ApplyIsTracked DEF Outcome, Stopped
<1>7. \A k \in {"fail", "no_speech"} :
        /\ Tracked(Apply(Stopped, Command(k, s)))
        /\ Apply(Stopped, Command(k, s)).wake = TRUE
        /\ Apply(Stopped, Command(k, s)).machine.session = s
        /\ Apply(Stopped, Command(k, s)).machine.nextId = machine.nextId
        /\ Apply(Stopped, Command(k, s)).machine.phase \notin {"preparing", "listening"}
  <2> SUFFICES ASSUME NEW k \in {"fail", "no_speech"}
               PROVE  /\ Tracked(Apply(Stopped, Command(k, s)))
                      /\ Apply(Stopped, Command(k, s)).wake = TRUE
                      /\ Apply(Stopped, Command(k, s)).machine.session = s
                      /\ Apply(Stopped, Command(k, s)).machine.nextId = machine.nextId
                      /\ Apply(Stopped, Command(k, s)).machine.phase \notin {"preparing", "listening"}
    OBVIOUS
  <2>1. Command(k, s) \in Commands /\ Command(k, s).kind = k
    BY <1>3, CommandTyped DEF Targeted, MaybeSession
  <2>2. Tracked(Apply(Stopped, Command(k, s)))
    BY <1>6, <2>1, ApplyIsTracked
  <2>3. Apply(Stopped, Command(k, s)).wake = TRUE
    BY <1>5, ApplyWakes
  <2>4. \/ Apply(Stopped, Command(k, s)).machine = Stopped.machine
        \/ Apply(Stopped, Command(k, s)).machine = After(Stopped.machine, Command(k, s))
    BY AppliedMoves
  <2>5. /\ After(Stopped.machine, Command(k, s)).session = s
        /\ After(Stopped.machine, Command(k, s)).nextId = machine.nextId
        /\ After(Stopped.machine, Command(k, s)).phase \in {"failed", "completed"}
    BY <1>3, <1>5, <2>1 DEF After, Target
  <2>. QED
    BY <1>3, <1>5, <2>2, <2>3, <2>4, <2>5
<1>8. \/ SetApp(Stopped)
      \/ SetApp(Apply(Stopped, Command("fail", s)))
      \/ SetApp(Apply(Stopped, Command("no_speech", s)))
  BY DEF StopHandler, StopNothing, StopCaptureFails, StopWithoutJob, StopWithJob
<1>. QED
  BY <1>3, <1>4, <1>5, <1>6, <1>7, <1>8, SetToTracked

\* Cancel and Reset leave the session behind, and wake the loop.
LEMMA EndEffect ==
  ASSUME Inv, Outcome, CancelHandler \/ ResetHandler
  PROVE  /\ Tracked(app)'
         /\ machine'.nextId = machine.nextId
         /\ machine'.phase \notin Active
         /\ wake' = TRUE
<1> DEFINE k == IF CancelHandler THEN "cancel" ELSE "reset"
           s == IF CancelHandler THEN machine.session ELSE NoSession
           c == Command(k, s)
<1>1. /\ c \in Commands /\ c.kind = k /\ k \in {"cancel", "reset"} /\ app.machine = machine
  BY CommandTyped, InvFacts DEF Targeted
<1>2. Applies(app, c) /\ SetApp(Apply(app, c))
  BY DEF CancelHandler, ResetHandler
<1> HIDE DEF c, k, s
<1>3. Tracked(Apply(app, c))
  BY <1>1, ApplyIsTracked DEF Outcome
<1>4. Apply(app, c).machine = After(machine, c) /\ Apply(app, c).wake = TRUE
  BY <1>1, <1>2 DEF Apply
<1>5. After(machine, c).nextId = machine.nextId /\ After(machine, c).phase \notin Active
  BY <1>1 DEF After, Target, Active
<1>. QED
  BY <1>2, <1>3, <1>4, <1>5, SetToTracked

\* What becomes of a result leaves the session where it is.
LEMMA PollEffect ==
  ASSUME Inv, Outcome, PollFails \/ PollRefused \/ PollCannotInsert \/ PollInserts
  PROVE  /\ Tracked(app)'
         /\ machine'.session = machine.session
         /\ machine'.nextId = machine.nextId
         /\ machine'.phase \notin {"preparing", "listening"}
<1> DEFINE Behind(a) == /\ Tracked(a)
                        /\ a.machine.session = machine.session
                        /\ a.machine.nextId = machine.nextId
                        /\ a.machine.phase \notin {"preparing", "listening"}
<1>1. /\ job \in Sessions /\ job = machine.session /\ machine.phase = "finalizing"
      /\ app.machine = machine
  BY NumberFacts, InvFacts
  DEF PollFails, PollRefused, PollCannotInsert, PollInserts, JobIsForThisSession, PollTakes,
      ResultWaits
<1>2. Behind(app)
  BY <1>1 DEF Outcome
<1>3. ASSUME NEW a, Behind(a), NEW k \in {"fail", "transcript_ready"}
      PROVE  Behind(Apply(a, Command(k, job)))
  <2>1. Command(k, job) \in Commands /\ Command(k, job).kind = k
    BY <1>1, CommandTyped DEF Targeted, MaybeSession
  <2>2. Tracked(Apply(a, Command(k, job)))
    BY <1>3, <2>1, ApplyIsTracked
  <2>3. \/ Apply(a, Command(k, job)).machine = a.machine
        \/ Apply(a, Command(k, job)).machine = After(a.machine, Command(k, job))
    BY AppliedMoves
  <2>4. /\ After(a.machine, Command(k, job)).session = a.machine.session
        /\ After(a.machine, Command(k, job)).nextId = a.machine.nextId
        /\ After(a.machine, Command(k, job)).phase \in {"failed", "inserting"}
    BY <2>1 DEF After, Target
  <2>. QED
    BY <1>3, <2>2, <2>3, <2>4
<1>4. Behind(Transcribed) /\ Behind(Apply(Transcribed, Command("fail", job)))
  BY <1>2, <1>3 DEF Transcribed, TranscriptReady
<1> DEFINE complete == Command("insertion_complete", job)
           done     == Apply(Transcribed, complete)
           finished == Finish(done, job, "completed")
<1>5. Applies(Transcribed, complete) => CanFinish(done) /\ Behind(finished)
  <2> SUFFICES ASSUME Applies(Transcribed, complete)
               PROVE  CanFinish(done) /\ Behind(finished)
    OBVIOUS
  <2>1. CanFinish(done) /\ Tracked(finished)
    BY <1>1, <1>4, CompletionIsTracked
  <2>2. done.machine = After(Transcribed.machine, complete) /\ complete.kind = "insertion_complete"
    BY <1>1, AppliedMoves, CommandTyped DEF Targeted, MaybeSession
  <2>3. finished.machine = done.machine
    BY <2>1 DEF Finish
  <2>4. /\ done.machine.session = machine.session
        /\ done.machine.nextId = machine.nextId
        /\ done.machine.phase = "completed"
    BY <1>4, <2>2 DEF After, Target
  <2>. QED
    BY <2>1, <2>3, <2>4
<1>6. ~ Applies(Transcribed, complete) => done = Transcribed
  BY DEF Apply
<1>7. ASSUME NEW a, Behind(a), SetApp(a)
      PROVE  /\ Tracked(app)'
             /\ machine'.session = machine.session
             /\ machine'.nextId = machine.nextId
             /\ machine'.phase \notin {"preparing", "listening"}
  BY <1>7, SetToTracked
<1>8. CASE PollFails
  BY <1>2, <1>3, <1>7, <1>8 DEF PollFails
<1>9. CASE PollRefused
  BY <1>2, <1>7, <1>9 DEF PollRefused, appVars, SetApp, app
<1>10. CASE PollCannotInsert
  BY <1>4, <1>7, <1>10 DEF PollCannotInsert
<1>11. CASE PollInserts
  BY <1>4, <1>5, <1>6, <1>7, <1>11 DEF PollInserts
<1>. QED
  BY <1>8, <1>9, <1>10, <1>11

(***************************************************************************)
(* The steps.  Each lemma settles one handler, or one kind of step of the  *)
(* loop, with one step per part of the invariant.                          *)
(***************************************************************************)

\* When text only goes through Fcitx, giving up the arm leaves no target, or one whose
\* CANCEL could not be sent.
LEMMA DisarmedForgets ==
  ASSUME TargetIsRemembered, Backends = {"fcitx5"}, Disarms(armed) \/ Disarmed(armed)
  PROVE  target' = NoSession \/ adrift'
BY DEF TargetIsRemembered, Disarms, Disarmed, Targets

\* A recording is removed when no configuration retains it.
LEMMA CleanedUpRemoves ==
  ASSUME Inv, \A c \in Configs : ~ c.retain, NEW s
  PROVE  CleanedUp(s) = pcm \ {s}
BY DEF CleanedUp, Inv, TypeOK

\* Recent texts do not depend on anything else.
LEMMA HistoryIsKept ==
  ASSUME HistoryIsOfInserted, UNCHANGED <<history, inserted, config>>
  PROVE  HistoryIsOfInserted'
BY DEF HistoryIsOfInserted

LEMMA StartKeepsOutcome ==
  ASSUME Inv, Outcome, StartHandler, ClientTurn
  PROVE  Outcome'
<1>1. /\ Tracked(app)' /\ recording = NoSession /\ job = NoSession
      /\ machine'.session = machine.nextId /\ machine'.nextId = machine.nextId + 1
      /\ wake' = TRUE
  BY StartEffect
<1>2. /\ UNCHANGED <<job, cancelled, worker, notifying, inserted, history, config, quit, loop>>
  BY DEF StartHandler, StartUnarmed, StartWithoutCapture, StartCapture, daemonVars,
         threads, desktop
<1>3. Pending'
  <2>1. \A s \in Sessions : s >= machine.nextId => Untouched(s)
    BY DEF Outcome, Pending
  <2>2. \A s \in Sessions : s >= machine'.nextId => s >= machine.nextId
    BY <1>1, NumberFacts
  <2>3. Untouched(machine'.session)
    BY <1>1, <2>1, NumberFacts
  <2>. QED
    BY <1>1, <1>2, <2>1, <2>2, <2>3 DEF Pending, Untouched
<1>4. NothingIsLeftBehind'
  <2>1. TargetIsRemembered'
    <3>1. CASE StartUnarmed
      BY <3>1 DEF StartUnarmed, daemonVars, Selects, Outcome, NothingIsLeftBehind,
                  TargetIsRemembered
    <3>2. CASE StartWithoutCapture
      BY <3>2 DEF StartWithoutCapture, TargetIsRemembered
    <3>3. CASE StartCapture
      <4>1. PICK b \in Backends :
              /\ armed'  = [session |-> Started.machine.session, backend |-> b]
              /\ Selects(Started.machine.session, b)
        BY <3>3 DEF StartCapture
      <4>. QED
        BY <4>1 DEF TargetIsRemembered, Selects
    <3>. QED
      BY <3>1, <3>2, <3>3 DEF StartHandler
  <2>2. NoAudioLeftBehind'
    <3>1. (\A c \in Configs : ~ c.retain) => pcm \subseteq {NoSession}
      BY <1>1 DEF Outcome, NothingIsLeftBehind, NoAudioLeftBehind
    <3>2. \/ pcm' = pcm /\ recording' = recording
          \/ pcm' = pcm \cup {recording'}
      BY DEF StartHandler, StartUnarmed, StartWithoutCapture, StartCapture, daemonVars, desktop
    <3>. QED
      BY <1>1, <1>2, <3>1, <3>2 DEF NoAudioLeftBehind
  <2>. QED
    BY <1>2, <2>1, <2>2, HistoryIsKept DEF Outcome, NothingIsLeftBehind
<1>5. Alert'
  BY <1>1, <1>2 DEF Alert, Outcome
<1>. QED
  BY <1>1, <1>3, <1>4, <1>5 DEF Outcome

LEMMA StopKeepsOutcome ==
  ASSUME Inv, Outcome, StopHandler,
         loop' = loop \/ (loop = "deadline" /\ loop' = "poll")
  PROVE  Outcome'
<1>1. /\ machine.phase = "listening" /\ job = NoSession
      /\ Tracked(app)'
      /\ machine'.session = machine.session /\ machine'.nextId = machine.nextId
      /\ machine'.phase \notin {"preparing", "listening"}
      /\ wake' = TRUE
  BY StopEffect
<1>2. UNCHANGED <<cancelled, notifying, inserted, history, config, quit>>
  BY DEF StopHandler, StopNothing, StopCaptureFails, StopWithoutJob, StopWithJob,
         daemonVars, threads, desktop
<1>3. job' = job \/ job' = machine.session
  BY DEF StopHandler, StopNothing, StopCaptureFails, StopWithoutJob, StopWithJob, daemonVars
<1>4. Pending'
  <2>1. Untouched(machine.session) /\ \A s \in Sessions : s >= machine.nextId => Untouched(s)
    BY <1>1 DEF Outcome, Pending
  <2>. QED
    BY <1>1, <1>2, <1>3, <2>1 DEF Pending, Untouched
<1>5. NothingIsLeftBehind'
  <2>1. TargetIsRemembered'
    <3>1. CASE StopWithoutJob
      BY <3>1, DisarmedForgets
      DEF StopWithoutJob, TargetIsRemembered, Outcome, NothingIsLeftBehind
    <3>2. CASE StopNothing \/ StopCaptureFails \/ StopWithJob
      BY <3>2 DEF StopNothing, StopCaptureFails, StopWithJob, daemonVars, desktop,
                  Outcome, NothingIsLeftBehind, TargetIsRemembered
    <3>. QED
      BY <3>1, <3>2 DEF StopHandler
  <2>2. NoAudioLeftBehind'
    <3> SUFFICES ASSUME \A c \in Configs : ~ c.retain
                 PROVE  pcm' \subseteq {recording', job'}
      BY DEF NoAudioLeftBehind
    <3>1. pcm \subseteq {recording, job} /\ pcm \subseteq Sessions
      BY DEF Outcome, NothingIsLeftBehind, NoAudioLeftBehind, Inv, TypeOK
    <3>2. recording # NoSession => machine.session = recording
      BY DEF Inv, MicrophoneOnlyInCapture
    <3>3. CleanedUp(recording) = pcm \ {recording}
      BY CleanedUpRemoves
    <3>4. CASE StopNothing
      BY <3>1, <3>4 DEF StopNothing, daemonVars, desktop
    <3>5. CASE StopCaptureFails \/ StopWithoutJob
      BY <3>1, <3>3, <3>5 DEF StopCaptureFails, StopWithoutJob
    <3>6. CASE StopWithJob
      BY <1>1, <3>1, <3>2, <3>6, InvFacts DEF StopWithJob, CaptureTaken, desktop
    <3>. QED
      BY <3>4, <3>5, <3>6 DEF StopHandler
  <2>. QED
    BY <1>2, <2>1, <2>2, HistoryIsKept DEF Outcome, NothingIsLeftBehind
<1>6. Alert'
  BY <1>1, <1>2 DEF Alert, Outcome, Locked
<1>. QED
  BY <1>1, <1>4, <1>5, <1>6 DEF Outcome

\* Cancel, Reset and Quit: what is given up is the current session, or the job.
LEMMA EndKeepsOutcome ==
  ASSUME Inv, Outcome, CancelHandler \/ ResetHandler \/ QuitHandler,
         ClientTurn, UNCHANGED loop
  PROVE  Outcome'
<1>1. /\ Tracked(app)' /\ wake' = TRUE
      /\ machine'.nextId = machine.nextId
      /\ machine'.phase \notin Active \/ machine' = machine
  <2>1. CASE CancelHandler \/ ResetHandler
    BY <2>1, EndEffect
  <2>2. CASE QuitHandler
    <3>1. SetApp(Notified(app)) /\ app \in AppRecords
      BY <2>2 DEF QuitHandler, Inv, GoodApp
    <3>2. \A a \in AppRecords : /\ Notified(a).machine = a.machine
                                /\ Notified(a).results = a.results
                                /\ Notified(a).wake = TRUE
      BY DEF Notified, AppRecords
    <3>3. Tracked(Notified(app))
      <4>1. GoodApp(Notified(app))
        BY NotifiedIsGood DEF Notified, Inv
      <4>. QED
        BY <3>1, <3>2, <4>1 DEF Outcome, Tracked, Told, Numbered
    <3>4. Notified(app).machine = machine /\ Notified(app).wake = TRUE
      BY <3>1, <3>2, InvFacts
    <3>. QED
      BY <3>1, <3>3, <3>4, SetToTracked
  <2>. QED
    BY <2>1, <2>2
<1>2. UNCHANGED <<inserted, history, config>>
  BY DEF CancelHandler, ResetHandler, QuitHandler, daemonVars, desktop
<1>3. \/ job' = job /\ cancelled' = cancelled
      \/ job' = NoSession /\ cancelled' = cancelled \cup ({job} \ {NoSession})
  BY DEF CancelHandler, ResetHandler, QuitHandler, daemonVars, threads
<1>4. Pending'
  <2>1. job # NoSession => job < machine.nextId /\ machine.phase = "finalizing" /\ job = machine.session
    BY NumberFacts
  <2>2. \A s \in Sessions : s >= machine.nextId => Untouched(s) /\ s # job
    <3>1. \A s \in Sessions : s >= machine.nextId => Untouched(s)
      BY DEF Outcome, Pending
    <3>2. \A s \in Sessions : s >= machine.nextId => s # job
      <4>1. \A s \in Sessions : s # NoSession
        BY InvFacts
      <4>2. job \in MaybeSession /\ machine.nextId \in Nat /\ Sessions \subseteq Nat
        BY NumberFacts DEF Inv, TypeOK
      <4>. QED
        BY <2>1, <4>1, <4>2 DEF MaybeSession
    <3>. QED
      BY <3>1, <3>2
  <2>3. machine.phase \in {"preparing", "listening"} => Untouched(machine.session) /\ job = NoSession
    BY <2>1 DEF Outcome, Pending
  <2>4. job # NoSession => Untouched(job)
    BY DEF Outcome, Pending
  <2>5. \A s \in Sessions : s >= machine.nextId => Untouched(s)'
    BY <1>2, <1>3, <2>2 DEF Untouched
  <2>6. machine.phase \in {"preparing", "listening"} => Untouched(machine.session)' \/ machine' # machine
    BY <1>2, <1>3, <2>3 DEF Untouched
  <2>. QED
    BY <1>1, <1>2, <1>3, <2>3, <2>4, <2>5 DEF Pending, Active, Untouched
<1>5. NothingIsLeftBehind'
  <2>1. TargetIsRemembered'
    <3>1. CASE ResetHandler
      BY <3>1 DEF ResetHandler, daemonVars, desktop, Outcome, NothingIsLeftBehind,
                  TargetIsRemembered
    <3>2. CASE CancelHandler \/ QuitHandler
      BY <3>2, DisarmedForgets
      DEF CancelHandler, QuitHandler, TargetIsRemembered, Outcome, NothingIsLeftBehind
    <3>. QED
      BY <3>1, <3>2
  <2>2. NoAudioLeftBehind'
    BY DEF CancelHandler, ResetHandler, QuitHandler, daemonVars, desktop,
           Outcome, NothingIsLeftBehind, NoAudioLeftBehind
  <2>. QED
    BY <1>2, <2>1, <2>2, HistoryIsKept DEF Outcome, NothingIsLeftBehind
<1>6. Alert'
  BY <1>1 DEF Alert, ClientTurn, Locked, Asleep
<1>. QED
  BY <1>1, <1>4, <1>5, <1>6 DEF Outcome

\* Steps that leave the controller alone, or only wake the loop.
LEMMA StillTracked ==
  ASSUME Inv, Outcome, UNCHANGED <<machine, results>>, GoodApp(app)'
  PROVE  Tracked(app)'
BY DEF Outcome, Tracked, Told, Numbered, app

LEMMA ConfigurationKeepsOutcome ==
  ASSUME Inv, Outcome, ReloadConfiguration \/ ClearHistory, ClientTurn, UNCHANGED loop
  PROVE  Outcome'
<1>1. /\ UNCHANGED <<appVars, recording, armed, job, quit, threads, desktop>>
      /\ \/ history' = <<>>
         \/ history' = history /\ (config' = config \/ config'.history)
  BY DEF ReloadConfiguration, ClearHistory
<1>2. Tracked(app)'
  BY <1>1 DEF appVars, app, Outcome, Tracked, Told, Numbered
<1>3. Pending' /\ Alert'
  BY <1>1 DEF appVars, threads, desktop, Outcome, Pending, Untouched, Alert
<1>4. NothingIsLeftBehind'
  <2>1. HistoryIsOfInserted'
    BY <1>1, DaemonAssumption
    DEF desktop, Outcome, NothingIsLeftBehind, HistoryIsOfInserted
  <2>. QED
    BY <1>1, <2>1
    DEF desktop, Outcome, NothingIsLeftBehind, TargetIsRemembered, NoAudioLeftBehind
<1>. QED
  BY <1>2, <1>3, <1>4 DEF Outcome

LEMMA ClientKeepsOutcome ==
  ASSUME Inv, Outcome, Client
  PROVE  Outcome'
BY StartKeepsOutcome, StopKeepsOutcome, EndKeepsOutcome, ConfigurationKeepsOutcome DEF Client

\* A text that has been dispatched once joins the recent texts at their end.
LEMMA RememberedIsInOrder ==
  ASSUME Inv, Outcome, job # NoSession,
         inserted' = [inserted EXCEPT ![job] = @ + 1], config' = config,
         history' = history \/ history' = Remembered(job)
  PROVE  HistoryIsOfInserted'
<1> DEFINE kept == IF Len(history) = MaxHistory THEN Tail(history) ELSE history
<1>1. /\ job \in Sessions /\ job = machine.session /\ job + 1 = machine.nextId
      /\ Sessions \subseteq Nat /\ inserted[job] = 0
  BY NumberFacts DEF Outcome, Pending, Untouched
<1>2. /\ history \in Seq(Sessions) /\ inserted \in [Sessions -> Nat]
      /\ Len(history) \in Nat /\ MaxHistory \in Nat \ {0}
  BY LenProperties, DaemonAssumption DEF Inv, TypeOK
<1>3. HistoryIsOfInserted
  BY DEF Outcome, NothingIsLeftBehind
<1>4. inserted'[job] = 1 /\ \A s \in Sessions : s # job => inserted'[s] = inserted[s]
  BY <1>1, <1>2
<1>5. \A i \in 1..Len(history) : history[i] \in Sessions /\ inserted[history[i]] = 1
  BY <1>2, <1>3, ElementOfSeq DEF HistoryIsOfInserted
<1>6. \A i \in 1..Len(history) : history[i] < job /\ inserted'[history[i]] = 1
  <2> SUFFICES ASSUME NEW i \in 1..Len(history)
               PROVE  history[i] < job /\ inserted'[history[i]] = 1
    OBVIOUS
  <2>1. history[i] \in Sessions /\ inserted[history[i]] = 1 /\ history[i] # job
    BY <1>1, <1>5
  <2>2. ~ (history[i] >= machine.nextId)
    BY <2>1 DEF Outcome, Pending, Untouched
  <2>3. history[i] \in Nat /\ job \in Nat
    BY <1>1, <2>1
  <2>. QED
    BY <1>1, <1>4, <2>1, <2>2, <2>3
<1>7. CASE history' = history
  BY <1>3, <1>6, <1>7 DEF HistoryIsOfInserted
<1>8. CASE config.history /\ history' = Append(kept, job)
  <2>1. /\ kept \in Seq(Sessions) /\ Len(kept) < MaxHistory
        /\ \A i \in 1..Len(kept) : /\ kept[i] < job /\ inserted'[kept[i]] = 1
                                   /\ \A j \in 1..(i - 1) : kept[j] < kept[i]
    <3>1. CASE Len(history) = MaxHistory
      <4>1. kept = Tail(history) /\ history # <<>>
        BY <1>2, <3>1
      <4>2. /\ Tail(history) \in Seq(Sessions)
            /\ Len(Tail(history)) = Len(history) - 1
            /\ \A i \in 1..Len(Tail(history)) : Tail(history)[i] = history[i + 1]
        BY <1>2, <4>1, HeadTailProperties
      <4> HIDE DEF kept
      <4>. QED
        BY <1>2, <1>3, <1>6, <3>1, <4>1, <4>2 DEF HistoryIsOfInserted
    <3>2. CASE Len(history) # MaxHistory
      BY <1>2, <1>3, <1>6, <3>2 DEF HistoryIsOfInserted
    <3>. QED
      BY <3>1, <3>2
  <2> HIDE DEF kept
  <2>2. /\ Len(kept) \in Nat
        /\ Len(Append(kept, job)) = Len(kept) + 1
        /\ \A i \in 1..Len(kept) : Append(kept, job)[i] = kept[i]
        /\ Append(kept, job)[Len(kept) + 1] = job
    BY <1>1, <2>1, AppendProperties, LenProperties
  <2>3. Len(history') <= MaxHistory
    BY <1>2, <1>8, <2>1, <2>2
  <2>4. \A i \in 1..Len(history') :
          inserted'[history'[i]] = 1 /\ \A j \in 1..(i - 1) : history'[j] < history'[i]
    BY <1>4, <1>8, <2>1, <2>2
  <2>. QED
    BY <1>8, <2>3, <2>4 DEF HistoryIsOfInserted
<1>. QED
  BY <1>7, <1>8 DEF Remembered

LEMMA PollKeepsOutcome ==
  ASSUME Inv, Outcome, PollFails \/ PollRefused \/ PollCannotInsert \/ PollInserts
  PROVE  Outcome'
<1>1. /\ Tracked(app)'
      /\ machine'.nextId = machine.nextId
      /\ machine'.phase \notin {"preparing", "listening"}
  BY PollEffect
<1>2. PollTakes /\ (Disarms(armed) \/ Disarmed(armed))
  BY DEF PollFails, PollRefused, PollCannotInsert, PollInserts
<1>3. /\ loop = "poll" /\ loop' = "drain" /\ job # NoSession /\ job' = NoSession
      /\ pcm' = CleanedUp(job)
      /\ UNCHANGED <<recording, config, quit, cancelled>>
  BY <1>2 DEF PollTakes, ResultWaits, threads
<1>4. \/ UNCHANGED <<inserted, history>>
      \/ /\ inserted' = [inserted EXCEPT ![job] = @ + 1]
         /\ history' = history \/ history' = Remembered(job)
  BY DEF PollFails, PollRefused, PollCannotInsert, PollInserts
<1>5. Pending'
  <2>1. \A s \in Sessions : s >= machine.nextId => Untouched(s) /\ s # job
    <3>1. /\ job \in Nat /\ job + 1 = machine.nextId
          /\ machine.nextId \in Nat /\ Sessions \subseteq Nat
      BY <1>3, NumberFacts
    <3>2. \A s \in Sessions : s >= machine.nextId => Untouched(s)
      BY DEF Outcome, Pending
    <3>3. \A s \in Sessions : s >= machine.nextId => s # job
      BY <3>1
    <3>. QED
      BY <3>2, <3>3
  <2>2. \A s \in Sessions : s # job => inserted'[s] = inserted[s]
    BY <1>4 DEF Inv, TypeOK
  <2>. QED
    BY <1>1, <1>3, <2>1, <2>2 DEF Pending, Untouched
<1>6. NothingIsLeftBehind'
  <2>1. TargetIsRemembered'
    BY <1>2, DisarmedForgets DEF TargetIsRemembered, Outcome, NothingIsLeftBehind
  <2>2. NoAudioLeftBehind'
    BY <1>3, CleanedUpRemoves DEF Outcome, NothingIsLeftBehind, NoAudioLeftBehind
  <2>3. HistoryIsOfInserted'
    BY <1>3, <1>4, HistoryIsKept, RememberedIsInOrder DEF Outcome, NothingIsLeftBehind
  <2>. QED
    BY <2>1, <2>2, <2>3 DEF NothingIsLeftBehind
<1>7. Alert'
  BY <1>3 DEF Outcome, Alert, Locked
<1>. QED
  BY <1>1, <1>5, <1>6, <1>7 DEF Outcome

\* Where nothing but the loop moves, there is only the loop's part to see to.
LEMMA OnlyLoopMoves ==
  ASSUME Inv, Outcome, UNCHANGED <<appVars, daemonVars, threads, desktop>>
  PROVE  Tracked(app)' /\ Pending' /\ NothingIsLeftBehind'
<1>1. Tracked(app)'
  BY DEF appVars, app, Outcome, Tracked, Told, Numbered
<1>2. Pending'
  BY DEF appVars, daemonVars, threads, desktop, Outcome, Pending, Untouched
<1>3. NothingIsLeftBehind'
  BY DEF daemonVars, desktop, Outcome, NothingIsLeftBehind, TargetIsRemembered,
         NoAudioLeftBehind, HistoryIsOfInserted
<1>. QED
  BY <1>1, <1>2, <1>3

LEMMA LoopKeepsOutcome ==
  ASSUME Inv, Outcome, Loop
  PROVE  Outcome'
<1>1. CASE LoopEnters \/ DeadlineIsFar \/ PollFindsNothing \/ LoopTimesOut
  <2>1. UNCHANGED <<appVars, daemonVars, threads, desktop>>
    BY <1>1 DEF LoopEnters, DeadlineIsFar, PollFindsNothing, LoopTimesOut
  <2>2. Alert'
    <3>1. CASE PollFindsNothing
      BY <3>1 DEF PollFindsNothing, ResultWaits, Replied, daemonVars, threads,
                  Outcome, Alert, Locked
    <3>2. CASE LoopEnters \/ DeadlineIsFar \/ LoopTimesOut
      BY <3>2 DEF LoopEnters, DeadlineIsFar, LoopTimesOut, daemonVars,
                  Outcome, Alert, Locked
    <3>. QED
      BY <1>1, <3>1, <3>2
  <2>. QED
    BY <2>1, <2>2, OnlyLoopMoves DEF Outcome
<1>2. CASE DeadlineStops
  <2>1. CASE StopHandler
    BY <1>2, <2>1, StopKeepsOutcome DEF DeadlineStops
  <2>2. CASE UNCHANGED <<appVars, daemonVars, threads, desktop>>
    <3>1. Alert'
      BY <1>2, <2>2 DEF DeadlineStops, daemonVars, Outcome, Alert, Locked
    <3>. QED
      BY <2>2, <3>1, OnlyLoopMoves DEF Outcome
  <2>. QED
    BY <1>2, <2>1, <2>2 DEF DeadlineStops
<1>3. CASE PollFails \/ PollRefused \/ PollCannotInsert \/ PollInserts
  BY <1>3, PollKeepsOutcome
<1>4. CASE LoopDrains
  <2>1. /\ SetApp(Drained(app)) /\ app \in AppRecords /\ loop = "drain"
        /\ UNCHANGED <<daemonVars, threads, desktop>>
    BY <1>4 DEF LoopDrains, Inv, GoodApp
  <2>2. \A a \in AppRecords : /\ Drained(a).machine = a.machine
                              /\ Drained(a).results = a.results
                              /\ Drained(a).events = <<>>
                              /\ Drained(a).wake = a.wake
    BY DEF Drained, AppRecords
  <2>3. Tracked(Drained(app))
    <3>1. GoodApp(Drained(app))
      BY DrainedIsGood DEF Inv
    <3>. QED
      BY <2>1, <2>2, <3>1 DEF Outcome, Tracked, Told, Numbered
  <2>4. Tracked(app)' /\ machine' = machine /\ events' = <<>> /\ wake' = wake
    BY <2>1, <2>2, <2>3, SetToTracked DEF app
  <2>5. Pending'
    BY <2>1, <2>4 DEF daemonVars, threads, desktop, Outcome, Pending, Untouched
  <2>6. NothingIsLeftBehind'
    BY <2>1 DEF daemonVars, desktop, Outcome, NothingIsLeftBehind, TargetIsRemembered,
                NoAudioLeftBehind, HistoryIsOfInserted
  <2>7. Alert'
    <3>1. ~ quit /\ (job # NoSession /\ worker[job] \in {"text", "error"}
                       => wake \/ job \in notifying)
      BY <2>1 DEF Outcome, Alert, Locked
    <3>2. loop' = "asleep-long" => recording = NoSession
      BY <1>4 DEF LoopDrains, Inv, MicrophoneOnlyInCapture
    <3>3. loop' \notin Locked
      BY <1>4 DEF LoopDrains, Locked
    <3>. QED
      BY <2>1, <2>4, <3>1, <3>2, <3>3 DEF Alert, daemonVars, threads
  <2>. QED
    BY <2>4, <2>5, <2>6, <2>7 DEF Outcome
<1>5. CASE LoopIsWoken
  <2>1. /\ UNCHANGED <<machine, events, results, daemonVars, threads, desktop>>
        /\ loop' = "ready"
    BY <1>5 DEF LoopIsWoken
  <2>2. Tracked(app)'
    <3>1. GoodApp(app)'
      BY <1>5, WokenIsGood, InvFacts DEF LoopIsWoken, Inv
    <3>. QED
      BY <2>1, <3>1, StillTracked
  <2>3. Pending'
    BY <2>1 DEF daemonVars, threads, desktop, Outcome, Pending, Untouched
  <2>4. NothingIsLeftBehind'
    BY <2>1 DEF daemonVars, desktop, Outcome, NothingIsLeftBehind, TargetIsRemembered,
                NoAudioLeftBehind, HistoryIsOfInserted
  <2>5. Alert'
    BY <2>1 DEF Alert, Locked
  <2>. QED
    BY <2>2, <2>3, <2>4, <2>5 DEF Outcome
<1>. QED
  BY <1>1, <1>2, <1>3, <1>4, <1>5 DEF Loop

LEMMA WorkerKeepsOutcome ==
  ASSUME Inv, Outcome, NEW s \in Sessions, Worker(s)
  PROVE  Outcome'
<1>1. UNCHANGED <<machine, events, results, daemonVars, cancelled, desktop, loop>>
  <2>1. \A a \in AppRecords : /\ Notified(a).machine = a.machine
                              /\ Notified(a).results = a.results
                              /\ Notified(a).events = a.events
    BY DEF Notified, AppRecords
  <2>2. app \in AppRecords
    BY DEF Inv, GoodApp
  <2>3. SetApp(Notified(app)) => UNCHANGED <<machine, events, results>>
    BY <2>1, <2>2 DEF SetApp, app
  <2>. QED
    BY <2>3 DEF Worker, WorkerSends, WorkerNotifies, WorkerPanics, appVars
<1>2. Tracked(app)'
  BY <1>1, WorkerKeepsInv, StillTracked DEF Inv
<1>3. Pending'
  BY <1>1 DEF daemonVars, desktop, Outcome, Pending, Untouched
<1>4. NothingIsLeftBehind'
  BY <1>1 DEF daemonVars, desktop, Outcome, NothingIsLeftBehind, TargetIsRemembered,
              NoAudioLeftBehind, HistoryIsOfInserted
<1>5. Alert'
  <2>1. CASE WorkerNotifies(s)
    <3>1. Notified(app).wake = TRUE
      <4>1. \A a \in AppRecords : Notified(a).wake = TRUE
        BY DEF Notified, AppRecords
      <4>. QED
        BY <4>1 DEF Inv, GoodApp
    <3>2. wake' = TRUE
      BY <2>1, <3>1 DEF WorkerNotifies, SetApp
    <3>. QED
      BY <1>1, <3>2 DEF daemonVars, Outcome, Alert
  <2>2. CASE WorkerSends(s)
    <3>1. /\ wake' = wake /\ notifying' = notifying \cup {s}
          /\ \A t \in Sessions : t # s => worker'[t] = worker[t]
      BY <2>2 DEF WorkerSends, appVars, Inv, TypeOK
    <3>2. job \in MaybeSession
      BY DEF Inv, TypeOK
    <3>. QED
      BY <1>1, <3>1, <3>2 DEF daemonVars, Outcome, Alert, MaybeSession
  <2>3. CASE WorkerPanics(s)
    <3>1. /\ wake' = wake /\ notifying' = notifying
          /\ worker'[s] = "panicked"
          /\ \A t \in Sessions : t # s => worker'[t] = worker[t]
      BY <2>3 DEF WorkerPanics, appVars, Inv, TypeOK
    <3>2. job \in MaybeSession
      BY DEF Inv, TypeOK
    <3>. QED
      BY <1>1, <3>1, <3>2 DEF daemonVars, Outcome, Alert, MaybeSession
  <2>. QED
    BY <2>1, <2>2, <2>3 DEF Worker
<1>. QED
  BY <1>2, <1>3, <1>4, <1>5 DEF Outcome

LEMMA TimeKeepsOutcome ==
  ASSUME Inv, Outcome, DurationPasses
  PROVE  Outcome'
<1>1. Tracked(app)'
  BY DEF DurationPasses, appVars, app, Outcome, Tracked, Told, Numbered
<1>2. Pending'
  BY DEF DurationPasses, appVars, threads, desktop, Outcome, Pending, Untouched
<1>3. NothingIsLeftBehind'
  BY DEF DurationPasses, desktop, Outcome, NothingIsLeftBehind, TargetIsRemembered,
         NoAudioLeftBehind, HistoryIsOfInserted
<1>4. Alert'
  BY DEF DurationPasses, appVars, threads, Outcome, Alert
<1>. QED
  BY <1>1, <1>2, <1>3, <1>4 DEF Outcome

(***************************************************************************)
(* The specification.                                                      *)
(***************************************************************************)

\* The daemon starts with nothing to tell, and ready.
LEMMA InitOutcome ==
  Init => Outcome
<1> SUFFICES ASSUME Init PROVE Outcome
  OBVIOUS
<1>1. /\ app = InitialApp /\ machine = InitialMachine
      /\ InitialMachine.phase = "idle" /\ InitialMachine.nextId = 1
  BY DEF Init, AppInit, app, InitialApp, InitialMachine
<1>2. Tracked(app)
  BY <1>1, InitialIsGood, DaemonAssumption
  DEF Tracked, Told, Numbered, Active, Terminal, InitialApp
<1>3. Pending
  BY <1>1 DEF Init, Pending, Untouched
<1>4. NothingIsLeftBehind
  BY DaemonAssumption
  DEF Init, NothingIsLeftBehind, TargetIsRemembered, NoAudioLeftBehind, HistoryIsOfInserted
<1>5. Alert
  BY DEF Init, Alert, Locked
<1>. QED
  BY <1>2, <1>3, <1>4, <1>5 DEF Outcome

LEMMA OutcomeHolds ==
  Spec => []Outcome
<1>1. Inv /\ Outcome /\ [Next]_vars => Outcome'
  <2> SUFFICES ASSUME Inv, Outcome, [Next]_vars
               PROVE  Outcome'
    OBVIOUS
  <2>1. CASE UNCHANGED vars
    BY <2>1, OnlyLoopMoves
    DEF vars, Outcome, Alert, appVars, daemonVars, threads
  <2>. QED
    BY <2>1, ClientKeepsOutcome, LoopKeepsOutcome, WorkerKeepsOutcome, TimeKeepsOutcome
    DEF Next
<1>. QED
  BY <1>1, InitOutcome, InvHolds, PTL DEF Spec

\* A session that has ended can be asked for its outcome, whatever was refused.
THEOREM EndedSessionsHaveResults ==
  Spec => []EndedHasResult
<1>1. Outcome => EndedHasResult
  BY DEF Outcome, Tracked, Told, EndedHasResult, app
<1>. QED
  BY <1>1, OutcomeHolds, PTL

\* Neither a target that the addon answered for nor audio nor text of a dictation is left
\* behind.  The exceptions are in the state: `adrift` is only set when an ARM times out, which
\* no CANCEL follows (daemon.rs:263-269), or a CANCEL is not sent.
THEOREM NothingStaysBehind ==
  Spec => []NothingIsLeftBehind
<1>1. Outcome => NothingIsLeftBehind
  BY DEF Outcome
<1>. QED
  BY <1>1, OutcomeHolds, PTL

\* The loop does not oversleep.
THEOREM WakeupsAreNotLost ==
  Spec => []NoLostWakeup
<1>1. Inv /\ Outcome => NoLostWakeup
  <2> SUFFICES ASSUME Inv, Outcome, loop = "asleep-long", ~ wake
               PROVE  \/ /\ events = <<>> /\ recording = NoSession /\ ~ quit
                         /\ job # NoSession => worker[job] \in {"none", "running", "panicked"}
                      \/ job \in notifying
    BY DEF NoLostWakeup
  <2>1. events = <<>> /\ recording = NoSession /\ ~ quit
    BY DEF Outcome, Alert
  <2>2. job # NoSession => worker[job] \in WorkerStates
    BY DEF Inv, TypeOK, MaybeSession
  <2>3. job # NoSession /\ worker[job] \in {"text", "error"} => job \in notifying
    BY DEF Outcome, Alert
  <2>. QED
    BY <2>1, <2>2, <2>3 DEF WorkerStates, Replied
<1>. QED
  BY <1>1, InvHolds, OutcomeHolds, PTL

\* No text is dispatched twice, for a session whose end was reported, or after a
\* cancellation.
THEOREM NoTextFollowsTheEnd ==
  Spec => NoTextAfterTheEnd
<1> DEFINE Step ==
      \A s \in Sessions : inserted'[s] # inserted[s] =>
        /\ inserted[s] = 0 /\ inserted'[s] = 1
        /\ machine.session = s /\ machine.phase = "finalizing"
        /\ s \notin cancelled
        /\ ~ HasResult(results, s)
<1>1. Inv /\ Outcome /\ [Next]_vars => [Step]_vars
  <2> SUFFICES ASSUME Inv, Outcome, Next, NEW s \in Sessions, inserted'[s] # inserted[s]
               PROVE  /\ inserted[s] = 0 /\ inserted'[s] = 1
                      /\ machine.session = s /\ machine.phase = "finalizing"
                      /\ s \notin cancelled
                      /\ ~ HasResult(results, s)
    OBVIOUS
  <2>1. ~ UNCHANGED inserted
    OBVIOUS
  <2>2. PollCannotInsert \/ PollInserts
    BY <2>1
    DEF Next, Client, StartHandler, StartUnarmed, StartWithoutCapture, StartCapture,
        StopHandler, StopNothing, StopCaptureFails, StopWithoutJob, StopWithJob,
        CancelHandler, ResetHandler, ReloadConfiguration, ClearHistory, QuitHandler,
        Loop, LoopEnters, DeadlineStops, DeadlineIsFar, PollFindsNothing, PollFails,
        PollRefused, LoopDrains, LoopIsWoken, LoopTimesOut,
        Worker, WorkerSends, WorkerNotifies, WorkerPanics, DurationPasses, desktop
  <2>3. inserted' = [inserted EXCEPT ![job] = @ + 1] /\ job # NoSession
    BY <2>1, <2>2 DEF PollCannotInsert, PollInserts, PollTakes, ResultWaits
  <2>4. inserted \in [Sessions -> Nat]
    BY DEF Inv, TypeOK
  <2>5. /\ job \in Sessions /\ job = machine.session /\ machine.phase = "finalizing"
        /\ Untouched(job)
    BY <2>3, NumberFacts DEF Outcome, Pending
  <2>6. s = job
    BY <2>3, <2>4
  <2>7. ~ HasResult(results, machine.session)
    BY <2>5 DEF Outcome, Tracked, Told, Active, app
  <2>. QED
    BY <2>3, <2>4, <2>5, <2>6, <2>7 DEF Untouched
<1>. QED
  BY <1>1, InvHolds, OutcomeHolds, PTL DEF Spec, NoTextAfterTheEnd

(***************************************************************************)
(* The daemon implements Dictation, as long as the cache has room for the  *)
(* sessions that are started.  What the users see are Current, Delivered   *)
(* and Reported; the lemmas say how they move, and each handler is then an *)
(* action of Dictation or changes nothing that is seen.                    *)
(***************************************************************************)

\* What a command that ends the current session tells of it.
LEMMA EndReports ==
  ASSUME MaxStarts <= MaxSessionResults,
         NEW a, Tracked(a), a.machine.phase # "idle",
         NEW k \in {"cancel", "no_speech", "fail"},
         Applies(a, Command(k, a.machine.session))
  PROVE  LET b == Apply(a, Command(k, a.machine.session))
         IN /\ b.machine.phase \notin Active
            /\ \A t : OutcomeIn(b.results, t) =
                        IF t = a.machine.session THEN TerminalOutcome[k]
                        ELSE OutcomeIn(a.results, t)
<1> DEFINE s == a.machine.session
           c == Command(k, s)
           o == TerminalOutcome[k]
           b == Apply(a, c)
<1>1. /\ a.machine \in Machines /\ WellFormed(a.machine) /\ CacheOK(a.results)
      /\ a.machine.phase \in Phases /\ a.machine.nextId \in Nat
  BY MaxIdAssumption DEF Tracked, GoodApp, AppRecords, Machines, Sessions
<1>2. s \in Sessions /\ o \in Outcomes
  BY <1>1 DEF WellFormed, Machines, TerminalOutcome, Outcomes
<1>3. c \in Commands /\ c.kind = k /\ c.session = s
  BY <1>2, CommandTyped DEF Targeted, MaybeSession
<1>4. b.machine = After(a.machine, c)
  BY AppliedMoves
<1>5. b.results = Recorded(a.results, s, o)
  BY <1>3 DEF Apply, TerminalOutcome
<1>6. b.machine.phase \notin Active
  BY <1>3, <1>4 DEF After, Target, Active
<1>7. Len(a.results) < MaxSessionResults \/ HasResult(a.results, s)
  <2>1. CASE a.machine.phase \in Active
    <3>1. Len(a.results) + 1 < a.machine.nextId /\ a.machine.nextId <= MaxStarts + 1
      BY <2>1 DEF Tracked, Numbered
    <3>2. Len(a.results) \in Nat
      BY <1>1, LenProperties DEF CacheOK
    <3>. QED
      BY <1>1, <3>1, <3>2, DaemonAssumption, LimitsAssumption
  <2>2. CASE a.machine.phase \in Terminal
    BY <2>2 DEF Tracked, Told
  <2>. QED
    BY <1>1, <2>1, <2>2 DEF Phases
<1> HIDE DEF o, b, c
<1>8. \A t : OutcomeIn(b.results, t) = IF t = s THEN o ELSE OutcomeIn(a.results, t)
  BY <1>1, <1>2, <1>5, <1>7, RecordedReports
<1>. QED
  BY <1>6, <1>8 DEF o, b, c

\* An outcome that is told moves Reported in one place.
LEMMA EndIsSeen ==
  ASSUME NEW s \in Sessions, NEW o, machine'.phase \notin Active,
         \A t : OutcomeIn(results', t) = IF t = s THEN o ELSE OutcomeIn(results, t)
  PROVE  Current' = NoSession /\ Reported' = [Reported EXCEPT ![s] = o]
<1>1. Current' = NoSession
  BY DEF Current
<1>2. Reported' = [t \in Sessions |-> OutcomeIn(results', t)]
  BY DEF Reported
<1>3. Reported = [t \in Sessions |-> OutcomeIn(results, t)]
  BY DEF Reported
<1>. QED
  BY <1>1, <1>2, <1>3

LEMMA NothingIsTold ==
  ASSUME results' = results
  PROVE  Reported' = Reported
BY DEF Reported

LEMMA NothingIsDelivered ==
  ASSUME inserted' = inserted
  PROVE  Delivered' = Delivered
BY DEF Delivered

\* The session that is issued next comes after every outcome told so far.
LEMMA NextIsFresh ==
  ASSUME Inv, Outcome, NEW j \in Sessions, j >= machine.nextId
  PROVE  Reported[j] = "none"
<1>1. \A i \in 1..Len(results) : results[i].session < machine.nextId
  BY DEF Outcome, Tracked, Numbered, app
<1>2. j \in Nat /\ machine.nextId \in Nat
  BY NumberFacts
<1>3. \A i \in 1..Len(results) : results[i].session # j
  BY <1>1, <1>2
<1>4. ~ HasResult(results, j)
  BY <1>3 DEF HasResult
<1>. QED
  BY <1>4 DEF Reported, OutcomeIn

\* An end of the current session, as its users see it: `a` is the controller
\* when the command is applied, which has told nothing new yet.
LEMMA EndOrNothing ==
  ASSUME Inv, Outcome, MaxStarts <= MaxSessionResults,
         NEW a, Tracked(a), a.machine.phase # "idle",
         a.results = results,
         NEW k \in {"cancel", "no_speech", "fail"},
         SetApp(Apply(a, Command(k, a.machine.session)))
  PROVE  \/ /\ Current' = NoSession
            /\ Reported' = [Reported EXCEPT ![a.machine.session] = TerminalOutcome[k]]
         \/ /\ machine' = a.machine
            /\ Reported' = Reported
            /\ ~ Applies(a, Command(k, a.machine.session))
<1> DEFINE s == a.machine.session
           b == Apply(a, Command(k, s))
<1>1. machine' = b.machine /\ results' = b.results
  BY DEF SetApp
<1>2. CASE Applies(a, Command(k, s))
  <2>1. /\ b.machine.phase \notin Active
        /\ \A t : OutcomeIn(b.results, t) =
                    IF t = s THEN TerminalOutcome[k] ELSE OutcomeIn(results, t)
    BY <1>2, EndReports
  <2>2. s \in Sessions
    BY DEF Tracked, GoodApp, AppRecords, Machines, WellFormed
  <2> HIDE DEF b, s
  <2>. QED
    BY <1>1, <2>1, <2>2, EndIsSeen DEF s
<1>3. CASE ~ Applies(a, Command(k, s))
  <2>1. b = a
    BY <1>3 DEF Apply
  <2>. QED
    BY <1>1, <1>3, <2>1, NothingIsTold
<1>. QED
  BY <1>2, <1>3

StepIsSeen == Abstract!DictationNext \/ UNCHANGED <<Current, Delivered, Reported>>

\* Start begins a dictation, which ends at once if nothing can be armed or
\* captured.
LEMMA StartIsDictation ==
  ASSUME Inv, Outcome, MaxStarts <= MaxSessionResults, StartHandler
  PROVE  StepIsSeen
<1> DEFINE c == Command("start", NoSession)
           s == machine.nextId
<1>1. /\ CanStart /\ Tracked(app) /\ Applies(app, c) /\ machine.nextId <= MaxStarts
  BY StartEffect DEF Outcome, CanStart
<1>2. c \in Commands /\ c.kind = "start" /\ app.machine = machine
  BY CommandTyped, InvFacts
<1>3. machine.phase \in From["start"] /\ Started.machine = After(machine, c)
  BY <1>1, <1>2, AppliedMoves DEF Started
<1>4. Current = NoSession
  BY <1>3 DEF Current, From, Active, Terminal
<1>5. /\ Started.machine.phase = "preparing" /\ Started.machine.session = s
      /\ Started.results = results /\ Tracked(Started)
  <2>1. Tracked(Started)
    BY <1>1, <1>2, ApplyIsTracked DEF Started
  <2>2. Started.results = results
    BY <1>2 DEF Started, Apply, TerminalOutcome, app
  <2>. QED
    BY <1>2, <1>3, <2>1, <2>2 DEF After, Target
<1>6. s \in Sessions /\ Abstract!Fresh(s)
  BY NumberFacts, NextIsFresh DEF Abstract!Fresh
<1>7. Delivered' = Delivered
  BY NothingIsDelivered DEF StartHandler, StartUnarmed, StartWithoutCapture, StartCapture, desktop
<1>8. CASE StartUnarmed \/ StartWithoutCapture
  <2>1. SetApp(Apply(Started, Command("fail", Started.machine.session)))
    BY <1>8 DEF StartUnarmed, StartWithoutCapture
  <2>2. \/ /\ Current' = NoSession
           /\ Reported' = [Reported EXCEPT ![s] = "failed"]
        \/ /\ machine' = Started.machine
           /\ Reported' = Reported
    BY <1>5, <2>1, EndOrNothing DEF TerminalOutcome
  <2>3. CASE Current' = NoSession /\ Reported' = [Reported EXCEPT ![s] = "failed"]
    <3>1. Abstract!BeginInVain(s)
      BY <1>4, <1>6, <1>7, <2>3 DEF Abstract!BeginInVain, Abstract!None, NoSession
    <3>. QED
      BY <1>6, <3>1 DEF StepIsSeen, Abstract!DictationNext
  <2>4. CASE machine' = Started.machine /\ Reported' = Reported
    <3>1. Current' = s
      BY <1>5, <2>4 DEF Current, Active
    <3>2. Abstract!Begin(s)
      BY <1>4, <1>6, <1>7, <2>4, <3>1 DEF Abstract!Begin, Abstract!None, NoSession
    <3>. QED
      BY <1>6, <3>2 DEF StepIsSeen, Abstract!DictationNext
  <2>. QED
    BY <2>2, <2>3, <2>4
<1>9. CASE StartCapture
  <2> DEFINE r == Command("capture_ready", s)
  <2>1. SetApp(Apply(Started, r))
    BY <1>5, <1>9 DEF StartCapture
  <2>2. r.kind = "capture_ready"
    BY DEF Command
  <2>3. Apply(Started, r).results = results
    BY <1>5, <2>2 DEF Apply, TerminalOutcome
  <2>4. \/ Apply(Started, r).machine = Started.machine
        \/ Apply(Started, r).machine = After(Started.machine, r)
    BY AppliedMoves
  <2>5. Apply(Started, r).machine.session = s /\ Apply(Started, r).machine.phase \in Active
    BY <1>5, <2>2, <2>4 DEF After, Target, Active
  <2>6. Current' = s /\ Reported' = Reported
    BY <2>1, <2>3, <2>5, NothingIsTold DEF SetApp, Current
  <2>7. Abstract!Begin(s)
    BY <1>4, <1>6, <1>7, <2>6 DEF Abstract!Begin, Abstract!None, NoSession
  <2>. QED
    BY <1>6, <2>7 DEF StepIsSeen, Abstract!DictationNext
<1>. QED
  BY <1>8, <1>9 DEF StartHandler

\* Stop goes on with the dictation, or ends it without its text.
LEMMA StopIsDictation ==
  ASSUME Inv, Outcome, MaxStarts <= MaxSessionResults, StopHandler
  PROVE  StepIsSeen
<1> DEFINE s == machine.session
           c == Command("stop", s)
<1>1. CanStop
  BY DEF StopHandler, StopNothing, StopCaptureFails, StopWithoutJob, StopWithJob
<1>2. c \in Commands /\ c.kind = "stop" /\ app.machine = machine
  BY CommandTyped, InvFacts DEF Targeted
<1>3. /\ Stopped.machine.phase = "finalizing" /\ Stopped.machine.session = s
      /\ s \in Sessions /\ machine.phase = "listening"
  BY <1>1, StoppedIsGood, StopEffect
<1>4. Tracked(Stopped) /\ Stopped.results = results
  <2>1. Tracked(Stopped)
    BY <1>2, ApplyIsTracked DEF Outcome, Stopped
  <2>2. Stopped.results = results
    BY <1>2 DEF Stopped, Apply, TerminalOutcome, app
  <2>. QED
    BY <2>1, <2>2
<1>5. Current = s
  BY <1>3 DEF Current, Active
<1>6. s \notin Delivered
  BY <1>3 DEF Outcome, Pending, Untouched, Delivered
<1>7. Delivered' = Delivered
  BY NothingIsDelivered
  DEF StopHandler, StopNothing, StopCaptureFails, StopWithoutJob, StopWithJob, desktop
<1>8. CASE SetApp(Stopped)
  <2>1. Current' = s /\ Reported' = Reported
    BY <1>3, <1>4, <1>8, NothingIsTold DEF SetApp, Current, Active
  <2>. QED
    BY <1>5, <1>7, <2>1 DEF StepIsSeen
<1>9. ASSUME NEW k \in {"fail", "no_speech"}, SetApp(Apply(Stopped, Command(k, s)))
      PROVE  StepIsSeen
  <2>1. \/ /\ Current' = NoSession
           /\ Reported' = [Reported EXCEPT ![s] = TerminalOutcome[k]]
        \/ /\ machine' = Stopped.machine
           /\ Reported' = Reported
    BY <1>3, <1>4, <1>9, EndOrNothing
  <2>2. CASE Current' = NoSession /\ Reported' = [Reported EXCEPT ![s] = TerminalOutcome[k]]
    <3>1. Abstract!End(s, TerminalOutcome[k])
      BY <1>5, <2>2 DEF Abstract!End, Abstract!None, NoSession
    <3>2. Abstract!Fail(s) \/ Abstract!NoSpeech(s)
      BY <1>6, <1>7, <1>9, <3>1 DEF Abstract!Fail, Abstract!NoSpeech, TerminalOutcome
    <3>. QED
      BY <1>3, <3>2 DEF StepIsSeen, Abstract!DictationNext
  <2>3. CASE machine' = Stopped.machine /\ Reported' = Reported
    <3>1. Current' = s
      BY <1>3, <2>3 DEF Current, Active
    <3>. QED
      BY <1>5, <1>7, <2>3, <3>1 DEF StepIsSeen
  <2>. QED
    BY <2>1, <2>2, <2>3
<1>10. \/ SetApp(Stopped)
       \/ SetApp(Apply(Stopped, Command("fail", s)))
       \/ SetApp(Apply(Stopped, Command("no_speech", s)))
  BY DEF StopHandler, StopNothing, StopCaptureFails, StopWithoutJob, StopWithJob
<1>. QED
  BY <1>8, <1>9, <1>10

\* Cancel ends the dictation that is under way, or withdraws the last one.
LEMMA CancelIsDictation ==
  ASSUME Inv, Outcome, MaxStarts <= MaxSessionResults, CancelHandler
  PROVE  StepIsSeen
<1> DEFINE s == machine.session
           c == Command("cancel", s)
<1>1. Applies(app, c) /\ SetApp(Apply(app, c)) /\ Delivered' = Delivered
  BY NothingIsDelivered DEF CancelHandler
<1>2. c \in Commands /\ c.kind = "cancel" /\ app.machine = machine /\ app.results = results
  BY CommandTyped, InvFacts DEF Targeted, app
<1>3. machine.phase \in Active \cup Terminal
  BY <1>1, <1>2, AppliedMoves DEF From
<1>4. s \in Sessions /\ machine.phase # "idle" /\ s + 1 = machine.nextId
  BY <1>3, NumberFacts DEF Active, Terminal
<1>5. Current' = NoSession /\ Reported' = [Reported EXCEPT ![s] = "cancelled"]
  BY <1>1, <1>2, <1>4, EndOrNothing DEF Outcome, TerminalOutcome
<1>6. CASE machine.phase \in Active
  <2>1. Current = s
    BY <1>6 DEF Current
  <2>2. Abstract!Cancel(s)
    BY <1>1, <1>5, <2>1 DEF Abstract!Cancel, Abstract!End, Abstract!None, NoSession
  <2>. QED
    BY <1>4, <2>2 DEF StepIsSeen, Abstract!DictationNext
<1>7. CASE machine.phase \in Terminal
  <2>1. Current = NoSession
    BY <1>7 DEF Current, Active, Terminal
  <2>2. Reported[s] # "none"
    <3>1. HasResult(results, s) /\ CacheOK(results)
      BY <1>2, <1>7 DEF Outcome, Tracked, Told, GoodApp
    <3>2. PICK i \in 1..Len(results) : results[i].session = s
      BY <3>1 DEF HasResult
    <3>3. OutcomeIn(results, s) = results[i].outcome
      BY <3>1, <3>2, OutcomeIsOfResult
    <3>4. results[i] \in Results
      BY <3>1, <3>2, ElementOfSeq DEF CacheOK
    <3>5. results[i].outcome # "none"
      BY <3>4 DEF Results, Outcomes
    <3>. QED
      BY <1>4, <3>3, <3>5 DEF Reported
  <2>3. \A j \in Sessions : j > s => Reported[j] = "none"
    <3>1. \A j \in Sessions : j > s => j >= machine.nextId
      BY <1>4, NumberFacts
    <3>. QED
      BY <3>1, NextIsFresh
  <2>4. Current' = Current
    BY <1>5, <2>1
  <2>5. Abstract!Withdraw(s)
    BY <1>1, <1>5, <2>1, <2>2, <2>3, <2>4 DEF Abstract!Withdraw, Abstract!None, NoSession
  <2>. QED
    BY <1>4, <2>5 DEF StepIsSeen, Abstract!DictationNext
<1>. QED
  BY <1>3, <1>6, <1>7

\* Reset is not seen: no dictation was under way.
LEMMA ResetIsDictation ==
  ASSUME Inv, ResetHandler
  PROVE  StepIsSeen
<1> DEFINE c == Command("reset", NoSession)
<1>1. Applies(app, c) /\ SetApp(Apply(app, c)) /\ Delivered' = Delivered
  BY NothingIsDelivered DEF ResetHandler, desktop
<1>2. c.kind = "reset" /\ app.machine = machine /\ app.results = results
  BY InvFacts DEF Command, app
<1>3. machine.phase \notin Active /\ Apply(app, c).machine.phase = "idle"
  <2>1. machine.phase \in From["reset"] /\ Apply(app, c).machine = After(machine, c)
    BY <1>1, <1>2, AppliedMoves
  <2>2. After(machine, c).phase = "idle"
    BY <1>2 DEF After, Target
  <2>. QED
    BY <2>1, <2>2 DEF From, Active, Terminal
<1>4. Apply(app, c).results = results
  BY <1>2 DEF Apply, TerminalOutcome
<1>5. Current' = Current
  BY <1>1, <1>3 DEF SetApp, Current, Active
<1>. QED
  BY <1>1, <1>4, <1>5, NothingIsTold DEF SetApp, StepIsSeen

\* A text that is dispatched is delivered; that of the job for the first time.
LEMMA DispatchIsSeen ==
  ASSUME Inv, Outcome, job # NoSession
  PROVE  /\ job \notin Delivered
         /\ inserted' = [inserted EXCEPT ![job] = @ + 1]
              => Delivered' = Delivered \cup {job}
<1>1. inserted \in [Sessions -> Nat] /\ job \in Sessions /\ inserted[job] = 0
  BY NumberFacts DEF Inv, TypeOK, Outcome, Pending, Untouched
<1>2. job \notin Delivered
  BY <1>1 DEF Delivered
<1>3. ASSUME inserted' = [inserted EXCEPT ![job] = @ + 1]
      PROVE  Delivered' = Delivered \cup {job}
  <2>1. inserted'[job] = 1 /\ \A s \in Sessions : s # job => inserted'[s] = inserted[s]
    BY <1>1, <1>3
  <2>2. Delivered' = {s \in Sessions : inserted'[s] > 0}
    BY DEF Delivered
  <2>. QED
    BY <1>1, <2>1, <2>2 DEF Delivered
<1>. QED
  BY <1>2, <1>3

\* A result completes or fails its dictation, or at least delivers the text.
LEMMA PollIsDictation ==
  ASSUME Inv, Outcome, MaxStarts <= MaxSessionResults,
         PollFails \/ PollRefused \/ PollCannotInsert \/ PollInserts
  PROVE  StepIsSeen
<1>1. /\ job # NoSession /\ job \in Sessions /\ job = machine.session
      /\ machine.phase = "finalizing"
      /\ app.machine = machine /\ app.results = results /\ Tracked(app)
  BY NumberFacts, InvFacts
  DEF PollFails, PollRefused, PollCannotInsert, PollInserts, PollTakes, ResultWaits,
      Outcome, app
<1>2. Current = job /\ job \notin Delivered
  BY <1>1, DispatchIsSeen DEF Current, Active
<1>3. ASSUME Applies(app, TranscriptReady)
      PROVE  /\ Transcribed.machine.phase = "inserting"
             /\ Transcribed.machine.session = job
             /\ Transcribed.results = results
             /\ Tracked(Transcribed)
  <2>1. TranscriptReady \in Commands /\ TranscriptReady.kind = "transcript_ready"
    BY <1>1, CommandTyped DEF TranscriptReady, Targeted, MaybeSession
  <2>2. Transcribed.machine = After(machine, TranscriptReady)
    BY <1>1, <1>3, AppliedMoves DEF Transcribed
  <2>3. Transcribed.results = results
    BY <1>1, <2>1 DEF Transcribed, Apply, TerminalOutcome
  <2>4. Tracked(Transcribed)
    BY <1>1, <2>1, ApplyIsTracked DEF Transcribed
  <2>. QED
    BY <1>1, <2>1, <2>2, <2>3, <2>4 DEF After, Target
<1>4. ASSUME NEW a, Tracked(a), a.machine.session = job, a.machine.phase \in Active,
             a.results = results, SetApp(Apply(a, Command("fail", job))),
             Delivered' = Delivered \/ Delivered' = Delivered \cup {job}
      PROVE  StepIsSeen
  <2>1. a.machine.phase # "idle"
    BY <1>4 DEF Active
  <2>2. \/ /\ Current' = NoSession
           /\ Reported' = [Reported EXCEPT ![job] = "failed"]
        \/ /\ machine' = a.machine
           /\ Reported' = Reported
    BY <1>4, <2>1, EndOrNothing DEF TerminalOutcome
  <2>3. CASE Current' = NoSession /\ Reported' = [Reported EXCEPT ![job] = "failed"]
    <3>1. Abstract!Fail(job)
      BY <1>2, <1>4, <2>3 DEF Abstract!Fail, Abstract!End, Abstract!None, NoSession
    <3>. QED
      BY <1>1, <3>1 DEF StepIsSeen, Abstract!DictationNext
  <2>4. CASE machine' = a.machine /\ Reported' = Reported
    <3>1. Current' = Current
      BY <1>2, <1>4, <2>4 DEF Current
    <3>2. UNCHANGED <<Current, Delivered, Reported>> \/ Abstract!Deliver(job)
      BY <1>2, <1>4, <2>4, <3>1 DEF Abstract!Deliver
    <3>. QED
      BY <1>1, <3>2 DEF StepIsSeen, Abstract!DictationNext
  <2>. QED
    BY <2>2, <2>3, <2>4
<1>5. CASE PollFails
  <2>1. SetApp(Apply(app, Command("fail", job))) /\ Delivered' = Delivered
    BY <1>5, NothingIsDelivered DEF PollFails
  <2>. QED
    BY <1>1, <1>4, <2>1 DEF Active
<1>6. CASE PollRefused
  BY <1>6 DEF PollRefused, appVars, StepIsSeen, Current, Delivered, Reported
<1>7. CASE PollCannotInsert
  <2>1. Applies(app, TranscriptReady) /\ SetApp(Apply(Transcribed, Command("fail", job)))
    BY <1>7 DEF PollCannotInsert
  <2>2. Delivered' = Delivered \/ Delivered' = Delivered \cup {job}
    BY <1>1, <1>7, NothingIsDelivered, DispatchIsSeen DEF PollCannotInsert
  <2>. QED
    BY <1>3, <1>4, <2>1, <2>2 DEF Active
<1>8. CASE PollInserts
  <2> DEFINE complete == Command("insertion_complete", job)
             done     == Apply(Transcribed, complete)
             finished == Finish(done, job, "completed")
  <2>1. Applies(app, TranscriptReady) /\ Delivered' = Delivered \cup {job}
    BY <1>1, <1>8, DispatchIsSeen DEF PollInserts
  <2>2. SetApp(IF Applies(Transcribed, complete) /\ CanFinish(done) THEN finished ELSE done)
    BY <1>8 DEF PollInserts
  <2>3. complete.kind = "insertion_complete"
    BY DEF Command
  <2>4. CASE Applies(Transcribed, complete)
    <3>1. CanFinish(done)
      BY <1>1, <1>3, <2>1, <2>4, CompletionIsTracked
    <3>2. done.machine.phase = "completed" /\ done.results = results
      <4>1. done.machine = After(Transcribed.machine, complete)
        BY <2>4, AppliedMoves
      <4>2. done.results = results
        BY <1>3, <2>1, <2>3 DEF Apply, TerminalOutcome
      <4>. QED
        BY <2>3, <4>1, <4>2 DEF After, Target
    <3>3. /\ finished.machine = done.machine
          /\ finished.results = Recorded(results, job, "completed")
      BY <3>1, <3>2 DEF Finish
    <3>4. machine' = done.machine /\ results' = Recorded(results, job, "completed")
      BY <2>2, <2>4, <3>1, <3>3 DEF SetApp
    <3>5. Len(results) < MaxSessionResults
      <4>1. Len(results) + 1 < machine.nextId /\ machine.nextId <= MaxStarts + 1
        BY <1>1 DEF Tracked, Numbered, Active
      <4>2. Len(results) \in Nat
        BY <1>1, LenProperties DEF Tracked, GoodApp, CacheOK
      <4>. QED
        BY <4>1, <4>2, NumberFacts, DaemonAssumption, LimitsAssumption
    <3>6. CacheOK(results) /\ "completed" \in Outcomes
      BY <1>1 DEF Tracked, GoodApp, Outcomes
    <3>7. \A t : OutcomeIn(results', t) = IF t = job THEN "completed" ELSE OutcomeIn(results, t)
      BY <1>1, <3>4, <3>5, <3>6, RecordedReports
    <3>8. machine'.phase \notin Active
      BY <3>2, <3>4 DEF Active
    <3>9. Current' = NoSession /\ Reported' = [Reported EXCEPT ![job] = "completed"]
      BY <1>1, <3>7, <3>8, EndIsSeen
    <3>10. Abstract!Complete(job)
      BY <1>2, <2>1, <3>9 DEF Abstract!Complete, Abstract!End, Abstract!None, NoSession
    <3>. QED
      BY <1>1, <3>10 DEF StepIsSeen, Abstract!DictationNext
  <2>5. CASE ~ Applies(Transcribed, complete)
    <3>1. done = Transcribed
      BY <2>5 DEF Apply
    <3>2. machine' = Transcribed.machine /\ results' = results
      BY <1>3, <2>1, <2>2, <2>5, <3>1 DEF SetApp
    <3>3. Current' = job /\ Reported' = Reported
      BY <1>3, <2>1, <3>2, NothingIsTold DEF Current, Active
    <3>4. Abstract!Deliver(job)
      BY <1>2, <2>1, <3>3 DEF Abstract!Deliver
    <3>. QED
      BY <1>1, <3>4 DEF StepIsSeen, Abstract!DictationNext
  <2>. QED
    BY <2>4, <2>5
<1>. QED
  BY <1>5, <1>6, <1>7, <1>8

\* Whatever leaves the machine, the cache and the texts alone is not seen.
LEMMA UnseenIsDictation ==
  ASSUME UNCHANGED <<machine, results, inserted>>
  PROVE  StepIsSeen
BY DEF StepIsSeen, Current, Delivered, Reported

LEMMA StepIsDictation ==
  ASSUME Inv, Outcome, MaxStarts <= MaxSessionResults, [Next]_vars
  PROVE  StepIsSeen
<1>1. \A a \in AppRecords : /\ Notified(a).machine = a.machine
                            /\ Notified(a).results = a.results
                            /\ Drained(a).machine = a.machine
                            /\ Drained(a).results = a.results
  BY DEF Notified, Drained, AppRecords
<1>2. app \in AppRecords /\ app.machine = machine /\ app.results = results
  BY DEF Inv, GoodApp, app
<1>3. SetApp(Notified(app)) \/ SetApp(Drained(app)) => UNCHANGED <<machine, results>>
  BY <1>1, <1>2 DEF SetApp
<1>4. CASE Client
  <2>1. CASE StartHandler \/ StopHandler \/ CancelHandler \/ ResetHandler
    BY <2>1, StartIsDictation, StopIsDictation, CancelIsDictation, ResetIsDictation
  <2>2. CASE ReloadConfiguration \/ ClearHistory \/ QuitHandler
    BY <1>3, <2>2, UnseenIsDictation
    DEF ReloadConfiguration, ClearHistory, QuitHandler, appVars, desktop
  <2>. QED
    BY <1>4, <2>1, <2>2 DEF Client
<1>5. CASE Loop
  <2>1. CASE DeadlineStops
    BY <2>1, StopIsDictation, UnseenIsDictation DEF DeadlineStops, appVars, desktop
  <2>2. CASE PollFails \/ PollRefused \/ PollCannotInsert \/ PollInserts
    BY <2>2, PollIsDictation
  <2>3. CASE LoopEnters \/ DeadlineIsFar \/ PollFindsNothing \/ LoopDrains
             \/ LoopIsWoken \/ LoopTimesOut
    BY <1>3, <2>3, UnseenIsDictation
    DEF LoopEnters, DeadlineIsFar, PollFindsNothing, LoopDrains, LoopIsWoken, LoopTimesOut,
        appVars, desktop
  <2>. QED
    BY <1>5, <2>1, <2>2, <2>3 DEF Loop
<1>6. CASE \E s \in Sessions : Worker(s)
  BY <1>3, <1>6, UnseenIsDictation
  DEF Worker, WorkerSends, WorkerNotifies, WorkerPanics, appVars, desktop
<1>7. CASE DurationPasses \/ UNCHANGED vars
  BY <1>7, UnseenIsDictation DEF DurationPasses, vars, appVars, desktop
<1>. QED
  BY <1>4, <1>5, <1>6, <1>7 DEF Next

\* Whatever its clients, its workers and its queue do, the users of the daemon
\* see nothing but dictations that begin in order, end once, and deliver their
\* text once at most, before they end.
THEOREM DaemonIsDictation ==
  ASSUME MaxStarts <= MaxSessionResults
  PROVE  Spec => ImplementsDictation
<1>1. Init => Abstract!DictationInit
  <2> SUFFICES ASSUME Init PROVE Abstract!DictationInit
    OBVIOUS
  <2>1. machine.phase = "idle" /\ results = <<>>
    BY DEF Init, AppInit, InitialApp, InitialMachine
  <2>2. Current = NoSession
    BY <2>1 DEF Current, Active
  <2>3. Delivered = {}
    BY DEF Init, Delivered
  <2>4. Reported = [s \in Sessions |-> "none"]
    BY <2>1 DEF Reported, OutcomeIn, HasResult
  <2>. QED
    BY <2>2, <2>3, <2>4 DEF Abstract!DictationInit, Abstract!None, NoSession
<1>2. Inv /\ Outcome /\ [Next]_vars => [Abstract!DictationNext]_<<Current, Delivered, Reported>>
  BY StepIsDictation DEF StepIsSeen
<1>. QED
  BY <1>1, <1>2, InvHolds, OutcomeHolds, PTL
  DEF Spec, ImplementsDictation, Abstract!DictationSpec, Abstract!dictation
=============================================================================
