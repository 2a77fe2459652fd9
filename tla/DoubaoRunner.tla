---------------------------- MODULE DoubaoRunner ----------------------------
(***************************************************************************)
(* One recognition with Doubao: the token (managed.rs), the connection     *)
(* (websocket.rs) and the driver of the session (runner.rs), over the      *)
(* protocol of DoubaoSession.  The service sends any message at any time.  *)
(*                                                                         *)
(* `io` is the loop that the driver is in.  Each round of a loop checks    *)
(* the token and the deadlines first, so that check and call are one step; *)
(* a round that finds nothing to do is a stutter.  Deadlines just pass:    *)
(* `late` is the one of the phase, `over` the one of the whole session.    *)
(***************************************************************************)
EXTENDS DoubaoSession, RecognitionAnswer

CONSTANTS
  Frames,      \* frames of 20 ms in the recording, at least one
  MaxInbound   \* MAX_INBOUND_PER_TICK

ASSUME RunnerAssumption ==
  /\ Frames \in 1..MaxFrames
  /\ MaxInbound \in Nat \ {0}

VARIABLES
  round,      \* the first session, or the one after the token was refreshed
  step,       \* what the driver is about
  io,         \* and how far it is
  left,       \* frames still to be read
  drained,    \* messages taken by the loop that drains
  late, over, \* the deadlines that have passed
  cancelled,  \* the token
  failure,    \* the error that run returns
  buffered,   \* an audio frame may be in the buffers of the socket
  heard,      \* external: audio was given to the socket
  answer

clock  == <<late, over>>
driver == <<round, step, io, left, drained>>
world  == <<buffered, heard>>
vars   == <<protocol, driver, clock, cancelled, failure, world, answer>>

NoAnswer  == [kind |-> "none"]
NoFailure == [kind |-> "none"]

\* The categories of Answers, with the one that asks for another token.
Failures == [kind : {"error"}, category : Categories \cup {"authentication"},
             retryable : BOOLEAN, transport : BOOLEAN]

Failed(category, retryable) ==
  [kind |-> "error", category |-> category, retryable |-> retryable, transport |-> TRUE]

Early(category, retryable) == [Failed(category, retryable) EXCEPT !.transport = FALSE]

Sends == {"task", "session", "audio", "marker", "finish"}

RunnerInit ==
  /\ SessionInit
  /\ round = 1 /\ step = "fetch" /\ io = "http"
  /\ left = Frames /\ drained = 0
  /\ late = FALSE /\ over = FALSE
  /\ cancelled = FALSE
  /\ failure = NoFailure
  /\ buffered = FALSE /\ heard = FALSE
  /\ answer = NoAnswer

At(s, i) == step = s /\ io = i /\ failure = NoFailure /\ answer = NoAnswer

Goto(s, i) == step' = s /\ io' = i

\* run returns an error: the session is closed next.
Fails(f) ==
  /\ failure' = f
  /\ UNCHANGED <<driver, clock, cancelled, answer>>

-----------------------------------------------------------------------------
(***************************************************************************)
(* Before the session.                                                     *)
(***************************************************************************)

\* fetch_settings_token_http, for the first token and for the refreshed one.
Fetch ==
  /\ At("fetch", "http")
  /\ ~ cancelled
  /\ Goto("prepare", "local")
  /\ UNCHANGED <<protocol, round, left, drained, clock, cancelled, failure,
                 buffered, heard, answer>>

\* bootstrap_failure: a configuration error comes before any request.  It is
\* found with the first token: the refreshed one has the same configuration.
FetchFails ==
  /\ At("fetch", "http")
  /\ \/ /\ round = 1
        /\ Fails(Early("other", FALSE))
     \/ /\ \E retryable \in BOOLEAN : \E category \in {"transient", "authentication", "other"} :
             /\ retryable => category = "transient"
             /\ Fails(Failed(category, retryable))
     \/ /\ cancelled
        /\ Fails(Failed("cancelled", FALSE))
  /\ UNCHANGED <<protocol, buffered, heard>>

\* The encoder, the timing, the recording and a new protocol.
Prepare ==
  /\ At("prepare", "local")
  /\ Goto("connect", "resolve")
  /\ late' = FALSE /\ over' = FALSE
  /\ left' = Frames /\ drained' = 0
  /\ phase' = "disconnected" /\ input' = "open" /\ reply' = "ok"
  /\ sent' = 0 /\ acceptance' = "not-accepted"
  /\ lastPacket' = NoPacket /\ final' = NoText /\ newest' = NoPacket
  /\ UNCHANGED <<round, cancelled, failure, world, answer>>

PrepareFails ==
  /\ At("prepare", "local")
  /\ Fails(Early("other", FALSE)) \/ \E retryable \in BOOLEAN : Fails(Early("transient", retryable))
  /\ UNCHANGED <<protocol, world>>

\* connect_websocket: validation, the resolver, which cannot be interrupted, the
\* attempts at each address, and the handshake.
Connect ==
  /\ \/ At("connect", "resolve") /\ ~ cancelled /\ Goto("connect", "tcp")
     \/ At("connect", "tcp") /\ ~ cancelled /\ ~ late /\ Goto("connect", "handshake")
     \/ At("connect", "handshake") /\ ~ cancelled /\ ~ late /\ Goto("task", "build")
  /\ UNCHANGED <<protocol, round, left, drained, clock, cancelled, failure,
                 buffered, heard, answer>>

ConnectFails ==
  /\ \/ At("connect", "resolve") /\ Fails(Early("other", FALSE))
     \/ At("connect", "resolve") /\ ~ cancelled /\ Fails(Failed("transient", TRUE))
     \/ \E i \in {"resolve", "tcp", "handshake"} :
          At("connect", i) /\ cancelled /\ Fails(Failed("cancelled", FALSE))
     \/ \E i \in {"tcp", "handshake"} :  \* refused, or the deadline
          At("connect", i) /\ ~ cancelled /\ Fails(Failed("transient", TRUE))
     \/ /\ At("connect", "handshake") /\ ~ cancelled
        /\ \E category \in {"authentication", "other", "transient"} : Fails(Failed(category, FALSE))
  /\ UNCHANGED <<protocol, world>>

-----------------------------------------------------------------------------
(***************************************************************************)
(* SessionDriver: building and sending.  No call of the protocol is        *)
(* refused (DriverInStep), so that the branches for that are left out.     *)
(***************************************************************************)

Builds(s, i, call, io1) ==
  /\ At(s, i)
  /\ call
  /\ io' = io1
  /\ late' = FALSE
  /\ UNCHANGED <<round, step, left, drained, over, cancelled, failure, world, answer>>

Build ==
  \/ Builds("task", "build", StartTask, "queue")
  \/ Builds("session", "build", StartSession(TRUE), "queue")
  \/ left = 0 /\ Builds("marker", "build", FinishAudio, "queue")
  \/ Builds("finish", "build", FinishSession, "queue")

\* read_pcm_frame and encode_20ms, once the slot of the frame has come.
NextFrame ==
  /\ At("audio", "slot")
  /\ left > 0
  /\ left' = left - 1
  /\ io' = "queue"
  /\ late' = FALSE
  /\ AudioRequest(TRUE)
  /\ UNCHANGED <<round, step, drained, over, cancelled, failure, world, answer>>

\* Reading, encoding, or the clock.
FrameFails ==
  /\ At("audio", "slot")
  /\ \/ Fails(Failed("other", FALSE))
     \/ Fails(Failed("transient", TRUE))
  /\ UNCHANGED <<protocol, world>>

NoMoreFrames ==
  /\ At("audio", "slot")
  /\ left = 0
  /\ Goto("marker", "build")
  /\ UNCHANGED <<protocol, round, left, drained, clock, cancelled, failure, world, answer>>

\* Mutant: the frame that was read is lost.
TooEarly_LosesFrame ==
  /\ At("audio", "slot")
  /\ left > 0 /\ ~ cancelled /\ ~ over
  /\ io' = "drain"
  /\ drained' = 0
  /\ left' = left - 1
  /\ UNCHANGED <<protocol, round, step, clock, cancelled, failure, world, answer>>

\* wait_for_send_slot: too early for the frame that was read.
TooEarly ==
  /\ At("audio", "slot")
  /\ left > 0 /\ ~ cancelled /\ ~ over
  /\ io' = "drain"
  /\ drained' = 0
  /\ UNCHANGED <<protocol, round, step, left, clock, cancelled, failure, world, answer>>

\* check_deadlines; the slot of a frame only knows the total deadline.
Expired == cancelled \/ over \/ (late /\ io # "slot")

\* The phase that wait_for_phase waits for after a request.
Awaited == [task |-> "task-started", session |-> "streaming", finish |-> "finished"]

\* A loop goes on, and begins with a check.
Looping ==
  /\ step \in Sends /\ At(step, io)
  /\ \/ io \in {"queue", "flush"}
     \/ io = "await" /\ phase # Awaited[step]
     \/ io = "slot" /\ left > 0

Sending(i) == Looping /\ io = i /\ ~ Expired

\* Mutant: ambiguity is only recorded when the write fails.
QueuedAudio_IfFailed(failed) ==
  /\ IF failed THEN MarkAudioWriteAmbiguous ELSE UNCHANGED protocol
  /\ buffered' = TRUE
  /\ heard' \in {heard, TRUE}

\* The write may already have reached the socket, even if it failed.
QueuedAudio(failed) ==
  /\ MarkAudioWriteAmbiguous
  /\ buffered' = TRUE
  /\ heard' \in {heard, TRUE}

\* queue_binary; a full buffer leaves the request with the driver.
Queue ==
  /\ Sending("queue")
  /\ io' = "flush"
  /\ IF step = "audio" THEN QueuedAudio(FALSE) ELSE UNCHANGED <<protocol, buffered, heard>>
  /\ UNCHANGED <<round, step, left, drained, clock, cancelled, failure, answer>>

QueueFails ==
  /\ Sending("queue")
  /\ Fails(Failed("transient", TRUE)) \/ Fails(Failed("other", FALSE))
  /\ IF step = "audio" THEN QueuedAudio(TRUE) ELSE UNCHANGED <<protocol, buffered, heard>>

\* The request is written.
Flush ==
  /\ Sending("flush")
  /\ IF step = "audio"
     THEN /\ ConfirmAudioSent
          /\ buffered' = FALSE
          /\ heard' = TRUE
          /\ drained' = 0
          /\ Goto("audio", "drain")
     ELSE /\ UNCHANGED <<protocol, buffered, heard, drained>>
          /\ IF step = "marker" THEN Goto("finish", "build") ELSE Goto(step, "await")
  /\ late' = FALSE
  /\ UNCHANGED <<round, left, over, cancelled, failure, answer>>

\* What has been waited for is there: no check is made any more.
Arrived ==
  /\ \/ At("task", "await") /\ phase = Awaited.task /\ Goto("session", "build")
     \/ At("session", "await") /\ phase = Awaited.session /\ Goto("audio", "slot")
  /\ UNCHANGED <<protocol, round, left, drained, clock, cancelled, failure, world, answer>>

Finished ==
  /\ At("finish", "await")
  /\ phase = Awaited.finish
  /\ answer' = TextAfterAudio
  /\ UNCHANGED <<protocol, driver, clock, cancelled, failure, world>>

\* Mutant: the clock is not looked at.
Expire_OnlyCancelled ==
  /\ Looping
  /\ cancelled
  /\ Fails(Failed("cancelled", FALSE))
  /\ UNCHANGED <<protocol, world>>

Expire ==
  /\ Looping
  /\ Expired
  /\ Fails(IF cancelled THEN Failed("cancelled", FALSE) ELSE Failed("transient", TRUE))
  /\ UNCHANGED <<protocol, world>>

-----------------------------------------------------------------------------
(***************************************************************************)
(* pump_once, from each of the loops.                                      *)
(***************************************************************************)

\* The loop that drains makes no checks, and takes MaxInbound messages at most.
Pumping ==
  \/ Looping /\ io # "slot" /\ ~ Expired
  \/ At("audio", "drain") /\ drained < MaxInbound

Receive(m) ==
  /\ Pumping
  /\ HandleBinary(m)
  /\ failure' = CASE reply' = "protocol"       -> Failed("other", FALSE)
                  [] reply' = "authentication" -> Failed("authentication", FALSE)
                  [] OTHER                     -> NoFailure
  /\ drained' = IF io = "drain" THEN drained + 1 ELSE drained
  /\ UNCHANGED <<round, step, io, left, clock, cancelled, world, answer>>

\* The connection is closed, fails, or carries what no WebSocket of Doubao does.
Lost ==
  /\ Pumping
  /\ Fails(Failed("transient", TRUE)) \/ Fails(Failed("other", FALSE))
  /\ UNCHANGED <<protocol, world>>

\* Nothing is left to be read, or enough was.
Drained ==
  /\ At("audio", "drain")
  /\ io' = "slot"
  /\ UNCHANGED <<protocol, round, step, left, drained, clock, cancelled, failure, world, answer>>

-----------------------------------------------------------------------------
(***************************************************************************)
(* The end of a session that failed.                                       *)
(***************************************************************************)

\* Mutant: whatever failed, another token may help.
MayRefresh_Always == round = 1 /\ ~ cancelled

\* transcribe_pcm_with_token_refresh; a failed fetch is not repeated.
MayRefresh ==
  /\ round = 1 /\ step # "fetch"
  /\ failure.category = "authentication"
  /\ acceptance = "not-accepted"
  /\ ~ cancelled

\* Close the socket, and report or refresh.  A fetch has no session to report on.
Close ==
  /\ failure # NoFailure
  /\ answer = NoAnswer
  /\ IF step \in Sends THEN Cancel ELSE UNCHANGED protocol
  /\ buffered' = FALSE
  /\ heard' = (heard \/ buffered)
  /\ failure' = NoFailure
  /\ IF MayRefresh
     THEN /\ round' = 2
          /\ Goto("fetch", "http")
          /\ UNCHANGED answer
     ELSE /\ answer' = LET category == IF failure.category = "authentication"
                                       THEN "other" ELSE failure.category
                       IN IF failure.transport
                          THEN AfterTransport(category, failure.retryable,
                                 IF step \in Sends THEN acceptance ELSE "not-accepted")
                          ELSE BeforeTransport(category, failure.retryable)
          /\ UNCHANGED <<round, step, io>>
  /\ UNCHANGED <<left, drained, clock, cancelled>>

-----------------------------------------------------------------------------
\* What is in the buffers goes out by itself, with a pong for example.
Leak ==
  /\ buffered /\ ~ heard
  /\ heard' = TRUE
  /\ UNCHANGED <<protocol, driver, clock, cancelled, failure, buffered, answer>>

Tick ==
  /\ answer = NoAnswer
  /\ step \notin {"fetch", "prepare"}
  /\ \/ ~ late /\ late' = TRUE /\ UNCHANGED over
     \/ step # "connect" /\ ~ over /\ over' = TRUE /\ UNCHANGED late
  /\ UNCHANGED <<protocol, driver, cancelled, failure, world, answer>>

CancelToken ==
  /\ ~ cancelled
  /\ cancelled' = TRUE
  /\ UNCHANGED <<protocol, driver, clock, failure, world, answer>>

Driver ==
  \/ Fetch \/ FetchFails \/ Prepare \/ PrepareFails \/ Connect \/ ConnectFails
  \/ Build \/ NextFrame \/ FrameFails \/ NoMoreFrames \/ TooEarly
  \/ Queue \/ QueueFails \/ Flush \/ Arrived \/ Finished \/ Expire
  \/ Lost \/ Drained \/ Close

Pump == \E m \in Messages : Receive(m)

RunnerNext == Driver \/ Pump \/ Leak \/ Tick \/ CancelToken

RunnerSpec == RunnerInit /\ [][RunnerNext]_vars

-----------------------------------------------------------------------------
(***************************************************************************)
(* Properties.                                                             *)
(***************************************************************************)

RunnerTypeOK ==
  /\ SessionTypeOK
  /\ round \in {1, 2}
  /\ step \in Sends \cup {"fetch", "prepare", "connect"}
  /\ io \in {"http", "local", "resolve", "tcp", "handshake", "build", "queue", "flush",
             "await", "slot", "drain"}
  /\ left \in 0..Frames
  /\ drained \in 0..MaxInbound
  /\ {late, over, cancelled, buffered, heard} \subseteq BOOLEAN
  /\ failure \in Failures \cup {NoFailure}
  /\ answer \in Answers \cup {NoAnswer}

\* Driver and protocol agree, whatever the service sends in between: until the
\* driver fails or ends, the session is in the phase that its next call needs.
DriverInStep ==
  failure = NoFailure /\ answer = NoAnswer =>
    CASE step = "task" ->
           phase \in IF io = "build" THEN {"disconnected"} ELSE {"task-starting", "task-started"}
      [] step = "session" ->
           phase \in IF io = "build" THEN {"task-started"} ELSE {"session-starting", "streaming"}
      [] step = "audio" ->
           phase = "streaming" /\ input = IF io \in {"queue", "flush"} THEN "pending" ELSE "open"
      [] step = "marker" ->
           phase = "streaming" /\ sent > 0 /\ input = IF io = "build" THEN "open" ELSE "finished"
      [] step = "finish" ->
           /\ input = "finished"
           /\ phase \in IF io = "build" THEN {"streaming"} ELSE {"finishing", "finished"}
      [] OTHER -> TRUE

\* A text is that of the whole recording: no frame is lost between the file, the
\* buffers of the socket and the count, even with a full buffer or a second round.
TextIsOfTheWholeRecording ==
  /\ answer.kind = "text" => sent = Frames /\ final # NoText
  /\ step \in Sends => sent + left + (IF input = "pending" THEN 1 ELSE 0) = Frames

\* The token is refreshed once, and only as long as no audio has gone out: the
\* second session does not replay any (runner.rs:84-91).
RefreshIsNoReplay ==
  [][ round' # round => round = 1 /\ round' = 2 /\ ~ heard /\ ~ buffered ]_vars

\* The attempt is honest about the audio: a step of the abstract specification.
Honest == INSTANCE HonestAttempt
IsHonest == Honest!HonestSpec
=============================================================================
