---------------------------- MODULE HonestAttempt ----------------------------
(***************************************************************************)
(* What the routing of recordings expects of one call of `recognize`,      *)
(* whatever the provider: the answer may be uncertain about the audio, but *)
(* it never denies that audio was received, and after an answer that does  *)
(* deny it none is received any more.  The detailed specifications of the  *)
(* adapters implement this one; ProviderRoute takes any answer that is     *)
(* honest in this sense.                                                   *)
(***************************************************************************)
EXTENDS RecognitionAnswer

VARIABLES
  heard,   \* whether the provider has received audio of the recording
  answer   \* what recognize has returned, if it has

NoAnswer == [kind |-> "none"]

HonestInit == heard = FALSE /\ answer = NoAnswer

\* Some of the audio arrives.
Hear ==
  /\ answer = NoAnswer \/ MayHaveLeft(answer)
  /\ heard' = TRUE
  /\ UNCHANGED answer

\* recognize returns; the last of the audio may have arrived with it.
Answer ==
  /\ answer = NoAnswer
  /\ answer' \in Answers
  /\ heard' \in {heard, TRUE}
  /\ heard' => MayHaveLeft(answer')

HonestNext == Hear \/ Answer

HonestSpec == HonestInit /\ [][HonestNext]_<<heard, answer>>
=============================================================================
