--------------------------- MODULE SessionMachine ---------------------------
(***************************************************************************)
(* The dictation state machine of crates/voxtype-core/src/session.rs.      *)
(*                                                                         *)
(* A machine is a value: the record [phase, session, nextId] stands for    *)
(* `SessionMachine { state, next_id }`, with the session carried by every  *)
(* state but Idle as a field of its own.  `apply` is the pair Accepts /    *)
(* After, so that a handler of the daemon that applies several commands    *)
(* under one lock is one step.  The transcript of Inserting, the error of  *)
(* Failed and the trigger mode are not told apart.                         *)
(*                                                                         *)
(* In this and the other modules a definition named X_Y, marked "Mutant",  *)
(* is X with a plausible bug, for trying whether a property notices it.    *)
(***************************************************************************)
EXTENDS Integers

CONSTANT MaxId    \* u64::MAX of the source: next_id saturates there

ASSUME MaxIdAssumption == MaxId \in Nat \ {0}

NoSession == 0
Sessions  == 1..MaxId

Active   == {"preparing", "listening", "finalizing", "inserting"}
Terminal == {"completed", "cancelled", "failed"}
Phases   == {"idle"} \cup Active \cup Terminal

Machines == [phase   : Phases,
             session : Sessions \cup {NoSession},
             nextId  : Sessions]

InitialMachine == [phase |-> "idle", session |-> NoSession, nextId |-> 1]

-----------------------------------------------------------------------------
(***************************************************************************)
(* Commands.  `blank` tells whether the text of TranscriptReady trims to   *)
(* the empty string; it is FALSE for every other command.                  *)
(***************************************************************************)
Targeted == {"stop", "cancel", "capture_ready", "capture_stopped",
             "no_speech", "transcript_ready", "insertion_complete", "fail"}

Commands ==
  [kind : Targeted \cup {"start", "reset"},
   session : Sessions \cup {NoSession}, blank : BOOLEAN]

Command(k, s) == [kind |-> k, session |-> s, blank |-> FALSE]

\* The phases in which `apply` accepts a command, and the phase it leads to.
From ==
  [start              |-> {"idle"} \cup Terminal,
   stop               |-> {"listening"},
   cancel             |-> Active \cup Terminal,
   capture_ready      |-> {"preparing"},
   capture_stopped    |-> {"listening"},
   no_speech          |-> {"finalizing"},
   transcript_ready   |-> {"finalizing"},
   insertion_complete |-> {"inserting"},
   fail               |-> Active \cup Terminal,
   reset              |-> {"idle"} \cup Terminal]

Target ==
  [start              |-> "preparing",
   stop               |-> "finalizing",
   cancel             |-> "cancelled",
   capture_ready      |-> "listening",
   capture_stopped    |-> "finalizing",
   no_speech          |-> "completed",
   transcript_ready   |-> "inserting",
   insertion_complete |-> "completed",
   fail               |-> "failed",
   reset              |-> "idle"]

Accepts(m, c) ==
  /\ m.phase \in From[c.kind]
  /\ c.kind \in Targeted => c.session = m.session
  /\ ~ (c.kind = "transcript_ready" /\ c.blank)

\* next_id.saturating_add(1)
Successor(id) == IF id = MaxId THEN MaxId ELSE id + 1

After(m, c) ==
  [phase   |-> Target[c.kind],
   session |-> CASE c.kind = "start" -> m.nextId
                 [] c.kind = "reset" -> NoSession
                 [] OTHER            -> m.session,
   nextId  |-> IF c.kind = "start" THEN Successor(m.nextId) ELSE m.nextId]

-----------------------------------------------------------------------------
(***************************************************************************)
(* Relations between the machines before and after a step, used by the     *)
(* properties of the modules that keep a machine.                          *)
(***************************************************************************)

\* A machine holds a session exactly when it is not idle, and that session
\* has already been issued (unless the counter has saturated).
WellFormed(m) ==
  /\ (m.phase = "idle") <=> (m.session = NoSession)
  /\ m.session < m.nextId \/ m.nextId = MaxId

Rank ==
  [p \in Phases |-> CASE p = "idle"       -> 0
                      [] p = "preparing"  -> 1
                      [] p = "listening"  -> 2
                      [] p = "finalizing" -> 3
                      [] p = "inserting"  -> 4
                      [] OTHER            -> 5]

\* No step takes one session back to an earlier phase: what has ended stays
\* ended, and a session that left capture never captures again.  (Once the
\* counter has saturated the last identifier is issued again and again.)
GoesForward(m, n) ==
  n.session = m.session /\ m.session < m.nextId
    => Rank[n.phase] >= Rank[m.phase]
=============================================================================
