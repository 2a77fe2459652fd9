---------------------------- MODULE AppController ----------------------------
(***************************************************************************)
(* The single writer of application state,                                 *)
(* crates/voxtype-app/src/controller.rs, with its wake channel (wake.rs).  *)
(*                                                                         *)
(* The controller is the record `app`: Apply, Finish and Drained are its   *)
(* methods as functions of that record, so that the daemon can call        *)
(* several of them in one locked section.  AppNext is the controller       *)
(* driven by any caller at all: any command, for any session, in any       *)
(* state.  Provider health and routing are the subject of ProviderRoute;   *)
(* error codes, backends and character counts of the results are left out. *)
(***************************************************************************)
EXTENDS SessionMachine, Sequences, FiniteSets

CONSTANTS MaxPendingEvents,     \* MAX_PENDING_EVENTS, 256 in the source
          MaxSessionResults     \* MAX_SESSION_RESULTS, 32 in the source

ASSUME LimitsAssumption ==
  /\ MaxPendingEvents \in Nat /\ MaxPendingEvents >= 3
  /\ MaxSessionResults \in Nat \ {0}

VARIABLES
  machine,   \* the SessionMachine
  events,    \* lifecycle events not yet drained
  results,   \* terminal results kept for polling clients, oldest first
  wake       \* whether the capacity-one wake channel holds a token

appVars == <<machine, events, results, wake>>

app == [machine |-> machine, events |-> events,
        results |-> results, wake |-> wake]

SetApp(a) ==
  /\ machine' = a.machine
  /\ events'  = a.events
  /\ results' = a.results
  /\ wake'    = a.wake

Outcomes == {"completed", "no-speech", "cancelled", "failed"}

\* A StateChanged event has outcome "none", a SessionFinished event phase "none".
StateChanged(m)       == [phase |-> m.phase, session |-> m.session, outcome |-> "none"]
SessionFinished(s, o) == [phase |-> "none", session |-> s, outcome |-> o]

Events ==
  [phase : Phases \cup {"none"}, session : Sessions \cup {NoSession},
   outcome : Outcomes \cup {"none"}]

Results == [session : Sessions, outcome : Outcomes]

\* The outcome that `apply` reports by itself for three of the commands.
TerminalOutcome ==
  [cancel |-> "cancelled", no_speech |-> "no-speech", fail |-> "failed"]

-----------------------------------------------------------------------------
(***************************************************************************)
(* The result cache.                                                       *)
(***************************************************************************)

\* The position of the result of a session, 0 if there is none.  (The code
\* looks for the first; OneResultPerSession says that there is one at most.)
Position(rs, s) ==
  IF \E i \in 1..Len(rs) : rs[i].session = s
  THEN CHOOSE i \in 1..Len(rs) : rs[i].session = s
  ELSE 0

\* rs without its i-th element; rs itself for i = 0.
Without(rs, i) ==
  IF i = 0 THEN rs
  ELSE [j \in 1..(Len(rs) - 1) |-> IF j < i THEN rs[j] ELSE rs[j + 1]]

Evicted(rs) == IF Len(rs) = MaxSessionResults THEN Tail(rs) ELSE rs

\* Mutant: the older result of a session stays.
Recorded_KeepsFirst(rs, s, o) ==
  IF Position(rs, s) # 0 THEN rs
  ELSE Append(Evicted(rs), [session |-> s, outcome |-> o])

Recorded(rs, s, o) ==
  Append(Evicted(Without(rs, Position(rs, s))), [session |-> s, outcome |-> o])

HasResult(rs, s) == \E i \in 1..Len(rs) : rs[i].session = s

-----------------------------------------------------------------------------
(***************************************************************************)
(* The methods.                                                            *)
(***************************************************************************)

InitialApp ==
  [machine |-> InitialMachine,
   events  |-> <<StateChanged(InitialMachine)>>,
   results |-> <<>>,
   wake    |-> FALSE]

\* The early return of `apply`: room is kept for the two events of a command.
Backpressure(a) == Len(a.events) > MaxPendingEvents - 2

Applies(a, c) == ~ Backpressure(a) /\ Accepts(a.machine, c)

\* Mutant: the state is published before the command is applied.
Apply_PublishesFirst(a, c) ==
  IF ~ Applies(a, c) THEN a ELSE
  LET ends == c.kind \in DOMAIN TerminalOutcome
      told == Append(a.events, StateChanged(a.machine))
  IN [machine |-> After(a.machine, c),
      events  |-> IF ends
                  THEN Append(told, SessionFinished(c.session, TerminalOutcome[c.kind]))
                  ELSE told,
      results |-> IF ends
                  THEN Recorded(a.results, c.session, TerminalOutcome[c.kind])
                  ELSE a.results,
      wake    |-> TRUE]

\* `apply`: a refused command changes nothing at all.
Apply(a, c) ==
  IF ~ Applies(a, c) THEN a ELSE
  LET m     == After(a.machine, c)
      ends  == c.kind \in DOMAIN TerminalOutcome
      moved == Append(a.events, StateChanged(m))
  IN [machine |-> m,
      events  |-> IF ends
                  THEN Append(moved, SessionFinished(c.session, TerminalOutcome[c.kind]))
                  ELSE moved,
      results |-> IF ends
                  THEN Recorded(a.results, c.session, TerminalOutcome[c.kind])
                  ELSE a.results,
      wake    |-> TRUE]

\* Mutant: finish_session asks for as much room as apply does.
CanFinish_AsApply(a) == ~ Backpressure(a)

\* `finish_session`
CanFinish(a) == Len(a.events) # MaxPendingEvents

Finish(a, s, o) ==
  IF ~ CanFinish(a) THEN a ELSE
  [machine |-> a.machine,
   events  |-> Append(a.events, SessionFinished(s, o)),
   results |-> Recorded(a.results, s, o),
   wake    |-> TRUE]

\* Mutant: the queue is not emptied.
Drained_Nothing(a) == a

Drained(a) == [a EXCEPT !.events = <<>>]

Notified(a) == [a EXCEPT !.wake = TRUE]

-----------------------------------------------------------------------------
(***************************************************************************)
(* The controller under arbitrary callers.                                 *)
(***************************************************************************)

AppInit ==
  /\ machine = InitialApp.machine
  /\ events  = InitialApp.events
  /\ results = InitialApp.results
  /\ wake    = InitialApp.wake

ApplyCommand(c) == SetApp(Apply(app, c))

\* Callers know a session identifier only from a machine that issued it.
Issued(s) == s < machine.nextId \/ s = machine.session

FinishSession(s, o) == Issued(s) /\ SetApp(Finish(app, s, o))

DrainEvents == events # <<>> /\ SetApp(Drained(app))

\* The daemon loop takes the token (recv_timeout in voxtyped.rs).
TakeWake == wake /\ wake' = FALSE /\ UNCHANGED <<machine, events, results>>

AppNext ==
  \/ \E c \in Commands : ApplyCommand(c)
  \/ \E s \in Sessions : FinishSession(s, "completed")
  \/ DrainEvents
  \/ TakeWake

AppSpec == AppInit /\ [][AppNext]_appVars

-----------------------------------------------------------------------------
(***************************************************************************)
(* Properties.                                                             *)
(***************************************************************************)

AppTypeOK ==
  /\ machine \in Machines
  /\ events  \in Seq(Events)
  /\ results \in Seq(Results)
  /\ wake    \in BOOLEAN

\* The event queue never outgrows its limit, although `apply` checks the
\* limit once and then pushes two events, and `finish_session` checks it
\* differently (controller.rs:138 and 174).
EventsBounded == Len(events) <= MaxPendingEvents

\* The cache keeps at most MaxSessionResults results and one per session,
\* however often a session is cancelled or finished again.
OneResultPerSession ==
  /\ Len(results) <= MaxSessionResults
  /\ \A i, j \in 1..Len(results) :
       results[i].session = results[j].session => i = j

\* The machine is idle exactly when it holds no session, and holds no
\* identifier that next_id would issue again.
MachineWellFormed == WellFormed(machine)

\* The newest StateChanged event that waits in the queue is the current state:
\* nobody who follows the signals is left with a phase that has passed.
NewestStateIsCurrent ==
  \A i \in 1..Len(events) :
    /\ events[i].outcome = "none"
    /\ \A j \in (i + 1)..Len(events) : events[j].outcome # "none"
    => events[i] = StateChanged(machine)

\* Signals and polling agree: for the last SessionFinished event of a session
\* that waits in the queue, the cache holds the same outcome, unless as many
\* other sessions finished later as the cache has room for.
PollersAgreeWithSignals ==
  \A i \in 1..Len(events) :
    LET later == {events[j].session : j \in {k \in (i + 1)..Len(events) :
                                               events[k].outcome # "none"}}
    IN events[i].outcome # "none" /\ events[i].session \notin later =>
         \/ \E k \in 1..Len(results) :
              results[k] = [session |-> events[i].session,
                            outcome |-> events[i].outcome]
         \/ \E S \in SUBSET later : Cardinality(S) = MaxSessionResults

\* No command, however late or misdirected, takes a session back to an earlier
\* phase; in particular a session that has ended never becomes active again.
ForwardOnly == [][GoesForward(machine, machine')]_appVars

\* A session that starts has an identifier of its own: no result in the cache
\* and no waiting event of an earlier session can be taken for one of it.
FreshSession ==
  [][ (/\ machine.phase # "preparing" /\ machine'.phase = "preparing"
       /\ machine.nextId # MaxId)
      => /\ \A i \in 1..Len(results) : results[i].session # machine'.session
         /\ \A i \in 1..Len(events)  : events[i].session # machine'.session
    ]_appVars
=============================================================================
