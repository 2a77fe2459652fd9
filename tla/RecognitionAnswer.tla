-------------------------- MODULE RecognitionAnswer --------------------------
(***************************************************************************)
(* What a provider answers: ProviderSuccess (voxtype-app/src/provider.rs)  *)
(* and ProviderAttemptFailure (voxtype-core/src/provider.rs), as far as    *)
(* the route, the accounts and the replay policy tell answers apart.       *)
(***************************************************************************)

\* The error categories that the route tells apart: those it may fall back
\* from (connection, timeout, rate-limited, unavailable), cancelled, the others.
\* Whether an error is retryable is a flag of its own.
Categories == {"transient", "cancelled", "other"}

Acceptances == {"not-accepted", "possibly-accepted", "accepted"}

\* What recognize returns.  An answer without transport has sent no audio, and
\* a text is only had from a service that accepted the audio, or without any.
\* An empty text counts as an error, neither transient nor retryable.
Answers ==
  {a \in [kind : {"text", "error"}, category : Categories \cup {"none"},
          retryable : BOOLEAN, transport : BOOLEAN, acceptance : Acceptances] :
     /\ (a.kind = "error") <=> (a.category # "none")
     /\ a.retryable => a.category = "transient"
     /\ ~ a.transport => a.acceptance = "not-accepted"
     /\ a.kind = "text" /\ a.transport => a.acceptance = "accepted"}

\* may_have_left_process
MayHaveLeft(a) == a.acceptance # "not-accepted"

\* success_after_audio
TextAfterAudio ==
  [kind |-> "text", category |-> "none", retryable |-> FALSE,
   transport |-> TRUE, acceptance |-> "accepted"]

\* ProviderAttemptFailure::before_transport
BeforeTransport(category, retryable) ==
  [kind |-> "error", category |-> category, retryable |-> retryable,
   transport |-> FALSE, acceptance |-> "not-accepted"]

\* ProviderAttemptFailure::after_transport
AfterTransport(category, retryable, acceptance) ==
  [kind |-> "error", category |-> category, retryable |-> retryable,
   transport |-> TRUE, acceptance |-> acceptance]
=============================================================================
