-------------------------------- MODULE Tray --------------------------------
(***************************************************************************)
(* The tray (src/bin/voxtype-tray.rs): a thread that listens to the        *)
(* daemon's signals, a bounded channel, and a loop that also asks the      *)
(* daemon when it has heard nothing for five seconds.  The desktop draws   *)
(* what the tray told it to read again.                                    *)
(***************************************************************************)
EXTENDS Naturals, Sequences

CONSTANTS
  States,       \* those of the daemon that are told apart
  QueueSize,    \* sync_channel(16)
  MaxSignals    \* bound of the signals on the bus

AllStates == {"idle", "preparing", "listening", "finalizing", "inserting", "completed",
              "cancelled", "failed"}

TrayAssumption ==
  States \subseteq AllStates /\ "idle" \in States
  /\ QueueSize \in Nat \ {0} /\ MaxSignals \in Nat \ {0}

Unavailable == "unavailable"

Status(state) == IF state \in {"listening", "failed", Unavailable} THEN "NeedsAttention" ELSE "Active"

\* One icon for each state, but for those that share one.
Icon(state) == IF state = Unavailable THEN "failed" ELSE state

IsBusy(state) == state \in {"preparing", "listening", "finalizing", "inserting"}

\* The items to start, stop and cancel.
Enabled(state) ==
  {item \in {"start", "stop", "cancel"} :
     CASE item = "start"  -> state # Unavailable /\ ~ IsBusy(state)
       [] item = "stop"   -> state = "listening"
       [] item = "cancel" -> IsBusy(state)}

View(state) == [status |-> Status(state), icon |-> Icon(state), menu |-> Enabled(state)]

VARIABLES
  daemon,      \* its state, or Unavailable when it does not run
  signals,     \* StateChanged on its way to the listener
  listener,    \* connecting, initial, watching, telling
  heard,       \* what the listener is about to send
  queue,       \* sync_channel
  loop,        \* of main: waiting, storing, emitting
  next, shown, \* what it is about to show, and the presentation
  previous,
  desktop      \* what the desktop draws

vars == <<daemon, signals, listener, heard, queue, loop, next, shown, previous, desktop>>

listening == <<listener, heard>>
showing   == <<loop, next, shown, previous, desktop>>

Reachable == States \cup {Unavailable}

TrayInit ==
  /\ daemon \in Reachable /\ signals = <<>>
  /\ listener = "connecting" /\ heard = Unavailable
  /\ queue = <<>>
  /\ loop = "waiting"
  /\ shown \in {daemon, Unavailable} /\ next = shown /\ previous = shown
  /\ desktop = View(shown)

-----------------------------------------------------------------------------
(***************************************************************************)
(* The daemon.  A signal only reaches who subscribed before.               *)
(***************************************************************************)

Signalled(state) ==
  signals' = IF listener \in {"watching", "telling"} THEN Append(signals, state) ELSE signals

DaemonMoves ==
  /\ daemon # Unavailable /\ Len(signals) < MaxSignals
  /\ daemon' \in States \ {daemon}
  /\ Signalled(daemon')
  /\ UNCHANGED <<listening, queue, showing>>

\* It says nothing when it starts, and nothing when it ends.
DaemonStarts ==
  /\ daemon = Unavailable
  /\ daemon' = "idle"
  /\ UNCHANGED <<signals, listening, queue, showing>>

DaemonEnds ==
  /\ daemon # Unavailable
  /\ daemon' = Unavailable
  /\ UNCHANGED <<signals, listening, queue, showing>>

-----------------------------------------------------------------------------
(***************************************************************************)
(* The listener.                                                           *)
(***************************************************************************)

\* watch_daemon_once: Status is asked before the signals are subscribed to.
Connect ==
  /\ listener = "connecting"
  /\ listener' = IF daemon = Unavailable THEN "failed" ELSE "initial"
  /\ heard' = daemon
  /\ UNCHANGED <<daemon, signals, queue, showing>>

\* send, which waits for room.
Send(to) ==
  /\ Len(queue) < QueueSize
  /\ queue' = Append(queue, heard)
  /\ listener' = to
  /\ UNCHANGED <<daemon, signals, heard, showing>>

SendInitial == listener = "initial" /\ Send("subscribing")
SendFailure == listener = "failed" /\ Send("connecting")
SendSignal  == listener = "telling" /\ Send("watching")

Subscribe ==
  /\ listener = "subscribing"
  /\ listener' = "watching"
  /\ UNCHANGED <<daemon, signals, heard, queue, showing>>

Hear ==
  /\ listener = "watching" /\ signals # <<>>
  /\ heard' = Head(signals) /\ signals' = Tail(signals)
  /\ listener' = "telling"
  /\ UNCHANGED <<daemon, queue, showing>>

\* The connection to the bus is lost, and with it the signals.
Lose ==
  /\ listener = "watching"
  /\ listener' = "connecting" /\ signals' = <<>>
  /\ UNCHANGED <<daemon, heard, queue, showing>>

-----------------------------------------------------------------------------
(***************************************************************************)
(* main.                                                                   *)
(***************************************************************************)

Receive ==
  /\ loop = "waiting" /\ queue # <<>>
  /\ next' = Head(queue) /\ queue' = Tail(queue)
  /\ loop' = "storing"
  /\ UNCHANGED <<daemon, signals, listening, shown, previous, desktop>>

\* Mutant: a timeout only continues.
Timeout_Continues ==
  /\ loop = "waiting" /\ queue = <<>>
  /\ loop' = "storing"
  /\ UNCHANGED <<daemon, signals, listening, queue, next, shown, previous, desktop>>

\* read_presentation
Timeout ==
  /\ loop = "waiting" /\ queue = <<>>
  /\ next' = daemon
  /\ loop' = "storing"
  /\ UNCHANGED <<daemon, signals, listening, queue, shown, previous, desktop>>

\* TrayPresentation is compared with all its fields.
Changed == next # shown

Store ==
  /\ loop = "storing"
  /\ IF Changed THEN shown' = next /\ previous' = shown /\ loop' = "emitting"
                ELSE loop' = "waiting" /\ UNCHANGED <<shown, previous>>
  /\ UNCHANGED <<daemon, signals, listening, queue, next, desktop>>

\* Mutant: the icon is only announced with a new status.
Emit_IconWithStatus ==
  /\ loop = "emitting"
  /\ desktop' =
       [desktop EXCEPT !.status = Status(next),
                       !.icon   = IF Status(previous) # Status(next) THEN Icon(next) ELSE @,
                       !.menu   = Enabled(next)]
  /\ loop' = "waiting"
  /\ UNCHANGED <<daemon, signals, listening, queue, next, shown, previous>>

\* emit_presentation_change: the desktop reads again what is announced as changed.
Emit ==
  /\ loop = "emitting"
  /\ desktop' =
       [desktop EXCEPT !.status = IF Status(previous) # Status(next) THEN Status(next) ELSE @,
                       !.icon   = IF Icon(previous) # Icon(next) THEN Icon(next) ELSE @,
                       !.menu   = Enabled(next)]
  /\ loop' = "waiting"
  /\ UNCHANGED <<daemon, signals, listening, queue, next, shown, previous>>

-----------------------------------------------------------------------------

Listener == Connect \/ SendInitial \/ SendFailure \/ SendSignal \/ Subscribe \/ Hear

Main == Receive \/ Timeout \/ Store \/ Emit

TrayNext == DaemonMoves \/ DaemonStarts \/ DaemonEnds \/ Listener \/ Lose \/ Main

TraySpec == TrayInit /\ [][TrayNext]_vars

-----------------------------------------------------------------------------
(***************************************************************************)
(* Properties.                                                             *)
(***************************************************************************)

\* A state in which the daemon stays is shown in the end and from then on: a signal that
\* came between the first question and the subscription, that was lost with the bus, or
\* that a daemon which ended never sent, is made up for; nothing old comes back.
StateIsShown ==
  \A state \in Reachable :
    (<>[](daemon = state)) => <>[](desktop = View(state) /\ shown = state)
=============================================================================
