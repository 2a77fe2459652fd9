----------------------------- MODULE CurlAttempt -----------------------------
(***************************************************************************)
(* One recognition by the OpenAI-compatible or the Deepgram adapter: the   *)
(* secret, the staged WAV file, and one request by a curl process          *)
(* (voxtype-provider-common).  The two adapters differ in their arguments  *)
(* and in what they parse, which is abstracted.                            *)
(*                                                                         *)
(* What the adapter knows of the audio is what curl prints when it ends: a *)
(* curl that is killed prints nothing, and of a long diagnostic the end,   *)
(* where the counts are, is cut off.                                       *)
(***************************************************************************)
EXTENDS RecognitionAnswer

VARIABLES
  step,          \* what the adapter is about
  wav,           \* the staged file: "none", "partial" or "staged"
  curl,          \* the process: "none", "running" or "exited"
  exit, report,  \* its exit code, and what it printed
  stdinError,    \* the secret could not be written to its standard input
  wasCancelled,  \* the adapter killed it, or tried to
  cancelled,     \* the token
  heard,         \* external: the service has received audio
  answer

process == <<curl, exit, report>>
vars == <<step, wav, process, stdinError, wasCancelled, cancelled, heard, answer>>

NoAnswer == [kind |-> "none"]

\* Exit codes as far as they are told apart: 0, one of 5, 6, 7 and 35, 60, 22, 28,
\* 63, one of 52, 55 and 56, any other one, and none at all after a signal.
ExitCodes == {"success", "unsent", "certificate", "http", "time", "size", "io", "other", "signal"}

\* HTTP statuses: 2xx, 3xx, 401 and its like, 408, 429, 5xx and the other ones.
Rejections == {"redirect", "authentication", "timeout", "limit", "server", "rejected"}
Statuses == Rejections \cup {"ok", "none"}

\* parse_http_status and parse_upload_bytes
Nothing == [status |-> "none", uploaded |-> "none"]

CurlInit ==
  /\ step = "secret"
  /\ wav = "none"
  /\ curl = "none" /\ exit = "success" /\ report = Nothing
  /\ stdinError = FALSE /\ wasCancelled = FALSE /\ cancelled = FALSE
  /\ heard = FALSE
  /\ answer = NoAnswer

At(s) == step = s /\ answer = NoAnswer

Goto(s) == step' = s /\ UNCHANGED answer

-----------------------------------------------------------------------------
(***************************************************************************)
(* The classification of an attempt (a failure is its category and whether *)
(* it is retryable).                                                       *)
(***************************************************************************)

Failure(category, retryable) == [category |-> category, retryable |-> retryable]

\* classify_http_failure
HttpFailure(status) ==
  IF status \in {"timeout", "limit", "server"} THEN Failure("transient", TRUE)
                                               ELSE Failure("other", FALSE)

\* classify_curl_failure
CurlFailure(code, status) ==
  CASE code \in {"time", "unsent", "io"}         -> Failure("transient", TRUE)
    [] code = "certificate"                      -> Failure("transient", FALSE)
    [] code = "size"                             -> Failure("other", FALSE)
    [] code \in {"http", "other", "signal"} /\ status \in Rejections -> HttpFailure(status)
    [] OTHER                                     -> Failure("transient", TRUE)

\* Mutant: what was not reported was not sent.
Acceptance_Trusting(code, rep, killed) ==
  IF rep.uploaded # "some" THEN "not-accepted"
  ELSE IF code = "success" /\ rep.status \notin {"redirect", "none"} THEN "accepted"
  ELSE "possibly-accepted"

\* classify_audio_acceptance
Acceptance(code, rep, killed) ==
  CASE rep.uploaded = "some" /\ code = "success" /\ rep.status \notin {"redirect", "none"} ->
         "accepted"
    [] \/ rep.uploaded = "zero"
       \/ rep.uploaded = "none" /\ ~ killed /\ code \in {"unsent", "certificate"} -> "not-accepted"
    [] OTHER -> "possibly-accepted"

\* finish_curl_attempt: the failure that is reported, in the order of the checks.
AttemptFailure(overflowed) ==
  IF wasCancelled              THEN Failure("cancelled", FALSE)
  ELSE IF overflowed           THEN Failure("other", FALSE)
  ELSE IF stdinError           THEN Failure("transient", TRUE)
  ELSE IF exit # "success"     THEN CurlFailure(exit, report.status)
  ELSE IF report.status = "none" THEN Failure("other", FALSE)
  ELSE HttpFailure(report.status)

Succeeded(overflowed) ==
  ~ wasCancelled /\ ~ overflowed /\ ~ stdinError /\ exit = "success" /\ report.status = "ok"

-----------------------------------------------------------------------------
(***************************************************************************)
(* The adapter.                                                            *)
(***************************************************************************)

\* Mutant: an early return leaves the staged file.
Returns_Early(a) == answer' = a /\ UNCHANGED <<step, wav>>

\* The request is over: the staged file goes, whatever the result.
Returns(a) == answer' = a /\ wav' = "none" /\ UNCHANGED step

\* recognize: the token, and the secret from secret-tool, however long that takes.
Secret ==
  /\ At("secret")
  /\ Goto("stage")
  /\ UNCHANGED <<wav, process, stdinError, wasCancelled, cancelled, heard>>

SecretFails ==
  /\ At("secret")
  /\ \/ cancelled /\ answer' = BeforeTransport("cancelled", FALSE)
     \/ \E category \in {"transient", "other"} : answer' = BeforeTransport(category, FALSE)
  /\ UNCHANGED <<step, wav, process, stdinError, wasCancelled, cancelled, heard>>

\* validate_endpoint and pcm_to_wav
Stage ==
  /\ At("stage")
  /\ wav' = "staged"
  /\ Goto("spawn")
  /\ UNCHANGED <<process, stdinError, wasCancelled, cancelled, heard>>

StageFails ==
  /\ At("stage")
  /\ answer' = BeforeTransport("other", FALSE)
  /\ wav' \in {"none", "partial"}
  /\ UNCHANGED <<step, process, stdinError, wasCancelled, cancelled, heard>>

\* execute_curl_cancellable
Spawn ==
  /\ At("spawn")
  /\ ~ cancelled
  /\ curl' = "running"
  /\ stdinError' \in BOOLEAN
  /\ Goto("wait")
  /\ UNCHANGED <<wav, exit, report, wasCancelled, cancelled, heard>>

SpawnFails ==
  /\ At("spawn")
  /\ Returns(IF cancelled THEN BeforeTransport("cancelled", FALSE)
                          ELSE BeforeTransport("transient", TRUE))
  /\ UNCHANGED <<process, stdinError, wasCancelled, cancelled, heard>>

\* wait_for_curl: the process is seen to have ended.
Reap ==
  /\ At("wait")
  /\ curl = "exited"
  /\ Goto("finish")
  /\ UNCHANGED <<wav, process, stdinError, wasCancelled, cancelled, heard>>

\* Mutant: curl is left to its own timeout.
Kill_WaitsForCurl ==
  /\ At("wait")
  /\ cancelled
  /\ curl = "exited"
  /\ wasCancelled' = TRUE
  /\ Goto("finish")
  /\ UNCHANGED <<wav, process, stdinError, cancelled, heard>>

\* wait_for_curl: the token was seen after a look at a process that still ran; it
\* may have ended since.
Kill ==
  /\ At("wait")
  /\ cancelled
  /\ wasCancelled' = TRUE
  /\ IF curl = "running"
     THEN curl' = "exited" /\ exit' = "signal" /\ report' = Nothing
     ELSE UNCHANGED process
  /\ Goto("finish")
  /\ UNCHANGED <<wav, stdinError, cancelled, heard>>

\* Waiting or reading fails; only the child of another waiter cannot be waited for,
\* so that curl has ended.
WaitFails ==
  /\ At("wait") \/ At("finish")
  /\ curl = "exited"
  /\ \E f \in {Failure("transient", TRUE), Failure("other", FALSE)} :
       Returns(AfterTransport(f.category, f.retryable, "possibly-accepted"))
  /\ UNCHANGED <<process, stdinError, wasCancelled, cancelled, heard>>

\* finish_curl_attempt, and the adapter's parsing.
Finish ==
  /\ At("finish")
  /\ \E overflowed \in BOOLEAN :
       IF Succeeded(overflowed)
       THEN \/ Returns(TextAfterAudio)
            \/ Returns(AfterTransport("other", FALSE, "accepted"))
       ELSE LET f == AttemptFailure(overflowed)
            IN Returns(AfterTransport(f.category, f.retryable,
                                      Acceptance(exit, report, wasCancelled)))
  /\ UNCHANGED <<process, stdinError, wasCancelled, cancelled, heard>>

-----------------------------------------------------------------------------
(***************************************************************************)
(* curl, and whoever cancels.                                              *)
(***************************************************************************)

\* Some of the body is sent.
Upload ==
  /\ curl = "running"
  /\ ~ heard
  /\ heard' = TRUE
  /\ UNCHANGED <<step, wav, process, stdinError, wasCancelled, cancelled, answer>>

\* What an exit code says of the exchange: without a connection nothing was sent,
\* and --fail-with-body turns a status of 400 and more into a code of its own.
Consistent(code, status) ==
  CASE code \in {"unsent", "certificate"} -> ~ heard /\ status = "none"
    [] code = "success" -> status \in {"ok", "redirect", "none"}
    [] code = "http"    -> status \in Rejections \ {"redirect"}
    [] OTHER            -> TRUE

\* curl ends by itself, at the latest by --max-time; or by a signal of another origin.
Exit ==
  /\ curl = "running"
  /\ curl' = "exited"
  /\ \E code \in ExitCodes, status \in Statuses :
       /\ Consistent(code, status)
       /\ exit' = code
       /\ report' \in {Nothing} \cup
            (IF code = "signal" THEN {} ELSE
              {[status |-> status, uploaded |-> IF heard THEN "some" ELSE "zero"]})
  /\ UNCHANGED <<step, wav, stdinError, wasCancelled, cancelled, heard, answer>>

CancelToken ==
  /\ ~ cancelled
  /\ cancelled' = TRUE
  /\ UNCHANGED <<step, wav, process, stdinError, wasCancelled, heard, answer>>

Adapter ==
  \/ Stage \/ StageFails \/ Spawn \/ SpawnFails \/ Reap \/ Kill \/ WaitFails \/ Finish

CurlNext == Secret \/ SecretFails \/ Adapter \/ Upload \/ Exit \/ CancelToken

CurlSpec == CurlInit /\ [][CurlNext]_vars

-----------------------------------------------------------------------------
(***************************************************************************)
(* Properties.                                                             *)
(***************************************************************************)

\* Whatever becomes of curl, no process outlives the attempt, and no copy of the
\* audio does; only a staging that failed leaves what it had written.
NothingIsLeft ==
  answer # NoAnswer => curl # "running" /\ wav # "staged"
=============================================================================
