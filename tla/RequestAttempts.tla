--------------------------- MODULE RequestAttempts ---------------------------
(***************************************************************************)
(* The adapters that run a process for each recognition, side by side: a   *)
(* request through curl and the configured command.  What the routing of   *)
(* recordings expects of both is stated here once, for TLC and for the     *)
(* proofs.                                                                 *)
(***************************************************************************)

VARIABLES
  curlStep, wav, curl, exit, report, stdinError, wasCancelled,
  curlCancelled, curlHeard, curlAnswer,
  commandStep, child, helper, status, commandFailure, commandLate,
  commandCancelled, commandHeard, commandAnswer

curlVars    == <<curlStep, wav, curl, exit, report, stdinError, wasCancelled,
                 curlCancelled, curlHeard, curlAnswer>>
commandVars == <<commandStep, child, helper, status, commandFailure, commandLate,
                 commandCancelled, commandHeard, commandAnswer>>

Curl == INSTANCE CurlAttempt WITH
  step <- curlStep, cancelled <- curlCancelled, heard <- curlHeard, answer <- curlAnswer

Command == INSTANCE CommandAttempt WITH
  step <- commandStep, failure <- commandFailure, late <- commandLate,
  cancelled <- commandCancelled, heard <- commandHeard, answer <- commandAnswer

RequestsSpec == Curl!CurlSpec /\ Command!CommandSpec

-----------------------------------------------------------------------------
HonestCurl    == INSTANCE HonestAttempt WITH heard <- curlHeard, answer <- curlAnswer
HonestCommand == INSTANCE HonestAttempt WITH heard <- commandHeard, answer <- commandAnswer

\* Whatever becomes of curl or of the command, if it is killed in mid-upload or its
\* report is lost, no audio is denied that the service or the command has received:
\* both attempts are steps of HonestAttempt.
RequestsAreHonest == HonestCurl!HonestSpec /\ HonestCommand!HonestSpec

\* No curl outlives its attempt, nothing of a command one that timed out or was cancelled,
\* helpers included, and no copy of the audio either, unless its staging failed
\* (provider-common/src/lib.rs:354, provider_adapters.rs:420).
RequestsLeaveNothing == Curl!NothingIsLeft /\ Command!NothingSurvives
=============================================================================
