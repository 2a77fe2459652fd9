---------------------------- MODULE CommandAttempt ----------------------------
(***************************************************************************)
(* One recognition by a command of the user's (CommandAdapter in           *)
(* src/provider_adapters.rs).  The command runs in a process group of its  *)
(* own; `helper` stands for whatever else of that group runs.  It may hold *)
(* the standard output, which a thread of the adapter reads to its end, or *)
(* have closed it ("silent").                                              *)
(***************************************************************************)
EXTENDS RecognitionAnswer

VARIABLES
  step,            \* what the adapter is about
  child, helper,   \* the processes: "none", "running", "silent" or "exited"
  status,          \* how the child exited
  failure,         \* what wait_for_command has returned instead of a status
  late, cancelled, \* the deadline has passed; the token
  heard,           \* external: the command has read the recording
  answer

processes == <<child, helper, status>>
vars == <<step, processes, failure, late, cancelled, heard, answer>>

NoAnswer == [kind |-> "none"]

CommandInit ==
  /\ step = "start"
  /\ child = "none" /\ helper = "none" /\ status = "none"
  /\ failure = NoAnswer
  /\ late = FALSE /\ cancelled = FALSE
  /\ heard = FALSE
  /\ answer = NoAnswer

At(s) == step = s /\ answer = NoAnswer

Start ==
  /\ At("start")
  /\ ~ cancelled
  /\ child' = "running"
  /\ step' = "wait"
  /\ UNCHANGED <<helper, status, failure, late, cancelled, heard, answer>>

StartFails ==
  /\ At("start")
  /\ answer' = IF cancelled THEN BeforeTransport("cancelled", FALSE)
                            ELSE BeforeTransport("transient", TRUE)
  /\ UNCHANGED <<step, processes, failure, late, cancelled, heard>>

\* wait_for_command: the child is seen to have exited.
Reap ==
  /\ At("wait")
  /\ child = "exited"
  /\ step' = "join"
  /\ UNCHANGED <<processes, failure, late, cancelled, heard, answer>>

\* Nothing but the child of another waiter cannot be waited for: it has exited.
WaitFails ==
  /\ At("wait")
  /\ child = "exited"
  /\ failure' = AfterTransport("transient", FALSE, "possibly-accepted")
  /\ step' = "join"
  /\ UNCHANGED <<processes, late, cancelled, heard, answer>>

\* Mutant: the helpers are left alone.
Terminated_OnlyChild ==
  /\ child' = "exited"
  /\ UNCHANGED helper

\* terminate_process_group; kill is taken to work.
Terminated ==
  /\ child' = "exited"
  /\ helper' = IF helper = "none" THEN "none" ELSE "exited"

TimedOut  == AfterTransport("transient", TRUE, "possibly-accepted")
Cancelled == AfterTransport("cancelled", FALSE, "possibly-accepted")

\* Mutant: a command may take its time.
Expires_Never ==
  /\ At("wait")
  /\ cancelled
  /\ failure' = Cancelled
  /\ Terminated
  /\ step' = "join"
  /\ UNCHANGED <<status, late, cancelled, heard, answer>>

\* wait_for_command: the deadline, or the token, after a look at a child that still
\* ran.  The deadline is checked first.
Expires ==
  /\ At("wait")
  /\ late \/ cancelled
  /\ failure' = IF late THEN TimedOut ELSE Cancelled
  /\ Terminated
  /\ step' = "join"
  /\ UNCHANGED <<status, late, cancelled, heard, answer>>

\* The end of the standard output: nobody holds it any more.
EndOfOutput == At("join") /\ child = "exited" /\ helper # "running"

\* Mutant: a command that failed is taken not to have read the recording.
Outcomes_Denied ==
  IF failure # NoAnswer THEN {failure}
  ELSE {AfterTransport("transient", FALSE, "not-accepted"),
        AfterTransport("other", FALSE, "accepted")}
       \cup (IF status = "success" THEN {TextAfterAudio}
                                   ELSE {AfterTransport("transient", TRUE, "accepted")})

\* transcribe_command_with_evidence and finish_command_output: the reader failed, the
\* output is too long, not a text or empty, the status is that of a failure; or a text.
Outcomes ==
  IF failure # NoAnswer THEN {failure}
  ELSE {AfterTransport("transient", FALSE, "accepted"), AfterTransport("other", FALSE, "accepted")}
       \cup (IF status = "success" THEN {TextAfterAudio}
                                   ELSE {AfterTransport("transient", TRUE, "accepted")})

\* The reader is joined, without a look at the deadline or the token.
Join ==
  /\ EndOfOutput
  /\ answer' \in Outcomes
  /\ UNCHANGED <<step, processes, failure, late, cancelled, heard>>

-----------------------------------------------------------------------------
(***************************************************************************)
(* The command, time, and whoever cancels.                                 *)
(***************************************************************************)

\* Something of the command runs.
Alive == {child, helper} \cap {"running", "silent"} # {}

Read ==
  /\ Alive
  /\ heard' = TRUE
  /\ UNCHANGED <<step, processes, failure, late, cancelled, answer>>

Fork ==
  /\ child = "running" /\ helper = "none"
  /\ helper' \in {"running", "silent"}
  /\ UNCHANGED <<step, child, status, failure, late, cancelled, heard, answer>>

ChildExits ==
  /\ child = "running"
  /\ child' = "exited"
  /\ status' \in {"success", "failure"}
  /\ UNCHANGED <<step, helper, failure, late, cancelled, heard, answer>>

HelperExits ==
  /\ helper \in {"running", "silent"}
  /\ helper' = "exited"
  /\ UNCHANGED <<step, child, status, failure, late, cancelled, heard, answer>>

Tick ==
  /\ step # "start" /\ ~ late
  /\ late' = TRUE
  /\ UNCHANGED <<step, processes, failure, cancelled, heard, answer>>

CancelToken ==
  /\ ~ cancelled
  /\ cancelled' = TRUE
  /\ UNCHANGED <<step, processes, failure, late, heard, answer>>

Adapter == Start \/ StartFails \/ Reap \/ WaitFails \/ Expires \/ Join

CommandNext ==
  Adapter \/ Read \/ Fork \/ ChildExits \/ HelperExits \/ Tick \/ CancelToken

CommandSpec == CommandInit /\ [][CommandNext]_vars

-----------------------------------------------------------------------------
(***************************************************************************)
(* Properties.                                                             *)
(***************************************************************************)

\* Once an attempt has timed out or been cancelled, nothing of the command runs any
\* more, descendants included (the test at provider_adapters.rs:606).
NothingSurvives ==
  answer \in {TimedOut, Cancelled} => ~ Alive
=============================================================================
