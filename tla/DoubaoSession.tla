---------------------------- MODULE DoubaoSession ----------------------------
(***************************************************************************)
(* DoubaoSessionProtocol (voxtype-provider-doubao/src/session.rs): the     *)
(* lifecycle of one session with the service and what is known about the   *)
(* audio.  One action per method, `reply` is what the call returns.        *)
(*                                                                         *)
(* Next lets a caller make any call at any time and the service send any   *)
(* message; DoubaoRunner has the one caller there is.  Request bytes,      *)
(* identifiers, the task and the flags that are only reported to the user  *)
(* are left out; a request for audio is its place among the frames.        *)
(***************************************************************************)
EXTENDS Naturals

CONSTANTS
  Packets,    \* the packet numbers of the service
  NoPacket,   \* a result without packet number: below every number
  Texts,      \* transcripts that are not blank
  Blank,      \* a transcript of white space
  NoText,
  MaxFrames   \* frames that are ever sent; the counter is 64 bit in the source

ASSUME SessionAssumption ==
  /\ Packets \subseteq Nat \ {0} /\ NoPacket = 0
  /\ Blank \notin Texts /\ NoText \notin Texts \cup {Blank}
  /\ MaxFrames \in Nat

VARIABLES
  phase,        \* SessionPhase
  input,        \* InputState
  sent,         \* sent_audio_frames
  acceptance,   \* audio_acceptance
  lastPacket,   \* last_packet_number
  final,        \* final_transcript
  reply,        \* the answer to the last call
  newest        \* history: the packet number that the final transcript came with

evidence == <<sent, acceptance>>
result   == <<lastPacket, final, newest>>
protocol == <<phase, input, evidence, result, reply>>

Phases == {"disconnected", "task-starting", "task-started", "session-starting",
           "streaming", "finishing", "finished", "failed", "cancelled"}

Deaf == {"disconnected", "finished", "failed", "cancelled"}

Replies == {"ok", "ignored", "duplicate", "interim", "recognition", "finished",
            "protocol", "authentication"}

Errors == {"protocol", "authentication"}

\* What decode_response and parse_recognition_event make of a message.  "invalid"
\* is an envelope that does not decode or is meant for another request or
\* service; a rejection has a status, or is TaskFailed or SessionFailed.
Recognitions ==
  [kind : {"result"}, packet : Packets \cup {NoPacket},
   text : Texts \cup {Blank, NoText}, interim : BOOLEAN, final : BOOLEAN, vad : BOOLEAN]

Messages ==
  [kind : {"invalid", "task-started", "session-started", "session-finished",
           "empty", "unreadable"}]
  \cup [kind : {"status", "task-failed"}, auth : BOOLEAN]
  \cup [kind : {"session-failed"}]
  \cup Recognitions

SessionInit ==
  /\ phase      = "disconnected"
  /\ input      = "open"
  /\ sent       = 0
  /\ acceptance = "not-accepted"
  /\ lastPacket = NoPacket
  /\ final      = NoText
  /\ reply      = "ok"
  /\ newest     = NoPacket

\* fail_with_category: whatever the phase, except after a cancellation.
Fail(category) ==
  /\ phase' = IF phase = "cancelled" THEN phase ELSE "failed"
  /\ reply' = category

\* A method that demands `allowed` and fails the session otherwise.
Refused(allowed) ==
  /\ ~ allowed
  /\ Fail("protocol")
  /\ UNCHANGED <<input, evidence, result>>

\* A method that only moves to the next phase.
Proceed(allowed, next) ==
  \/ /\ allowed
     /\ phase' = next
     /\ reply' = "ok"
     /\ UNCHANGED <<input, evidence, result>>
  \/ Refused(allowed)

-----------------------------------------------------------------------------
(***************************************************************************)
(* The calls of the runner.                                                *)
(***************************************************************************)

StartTask == Proceed(phase = "disconnected", "task-starting")

StartSession(validJson) ==
  Proceed(phase = "task-started" /\ validJson, "session-starting")

\* audio_request: one frame at a time.
AudioRequest(validPacket) ==
  LET allowed == phase = "streaming" /\ input = "open" /\ validPacket
  IN \/ /\ allowed
        /\ input' = "pending"
        /\ reply' = "ok"
        /\ UNCHANGED <<phase, evidence, result>>
     \/ Refused(allowed)

\* Assigned, not raised: this may take back "accepted".
ConfirmAudioSent ==
  LET allowed == phase = "streaming" /\ input = "pending"
  IN \/ /\ allowed
        /\ input' = "open"
        /\ sent'  = sent + 1
        /\ acceptance' = "possibly-accepted"
        /\ reply' = "ok"
        /\ UNCHANGED <<phase, result>>
     \/ Refused(allowed)

MarkAudioWriteAmbiguous ==
  LET allowed == phase = "streaming" /\ input = "pending"
  IN \/ /\ allowed
        /\ acceptance' = "possibly-accepted"
        /\ reply' = "ok"
        /\ UNCHANGED <<phase, input, sent, result>>
     \/ Refused(allowed)

FinishAudio ==
  LET allowed == phase = "streaming" /\ input = "open" /\ sent > 0
  IN \/ /\ allowed
        /\ input' = "finished"
        /\ reply' = "ok"
        /\ UNCHANGED <<phase, evidence, result>>
     \/ Refused(allowed)

FinishSession == Proceed(phase = "streaming" /\ input = "finished", "finishing")

Cancel ==
  /\ phase' = IF phase \in {"finished", "failed"} THEN phase ELSE "cancelled"
  /\ reply' = "ok"
  /\ UNCHANGED <<input, evidence, result>>

-----------------------------------------------------------------------------
(***************************************************************************)
(* handle_binary.                                                          *)
(***************************************************************************)

\* A message that comes too late, or before anything was asked for.
Unheard ==
  /\ phase \in Deaf
  /\ reply' = "protocol"
  /\ UNCHANGED <<phase, input, evidence, result>>

\* auth_like_response counts while the task starts only.
Rejected(m) ==
  /\ m.kind \in {"status", "task-failed", "session-failed", "invalid"}
  /\ Fail(IF m.kind \in {"status", "task-failed"} /\ phase = "task-starting" /\ m.auth
          THEN "authentication" ELSE "protocol")
  /\ UNCHANGED <<input, evidence, result>>

Started(m) ==
  \/ /\ m.kind = "task-started"
     /\ Proceed(phase = "task-starting", "task-started")
  \/ /\ m.kind = "session-started"
     /\ Proceed(phase = "session-starting", "streaming")

SessionFinished(m) ==
  LET allowed == phase = "finishing" /\ final # NoText
  IN /\ m.kind = "session-finished"
     /\ \/ /\ allowed
           /\ phase' = "finished"
           /\ reply' = "finished"
           /\ UNCHANGED <<input, evidence, result>>
        \/ Refused(allowed)

NoRecognition(m) ==
  \/ /\ m.kind = "empty"
     /\ reply' = "ignored"
     /\ UNCHANGED <<phase, input, evidence, result>>
  \/ /\ m.kind = "unreadable" \/ m.kind = "result"
     /\ Refused(m.kind = "result" /\ phase \in {"streaming", "finishing"})

\* A packet without number is never old.
IsDuplicate(m) == m.packet # NoPacket /\ m.packet <= lastPacket

Usable(text) == text \in Texts

\* handle_result: flags and evidence are kept even if the final text is refused.
Recognition(m) ==
  /\ m.kind = "result"
  /\ phase \in {"streaming", "finishing"}
  /\ IF IsDuplicate(m)
     THEN reply' = "duplicate" /\ UNCHANGED <<phase, input, evidence, result>>
     ELSE /\ lastPacket' = IF m.packet = NoPacket THEN lastPacket ELSE m.packet
          /\ acceptance' = IF m.vad \/ m.text # NoText \/ m.final
                           THEN "accepted" ELSE acceptance
          /\ IF m.final /\ ~ Usable(m.text)
             THEN Fail("protocol") /\ UNCHANGED <<final, newest>>
             ELSE /\ reply' = IF m.interim THEN "interim" ELSE "recognition"
                  /\ final'  = IF m.final THEN m.text ELSE final
                  /\ newest' = IF m.final THEN lastPacket' ELSE newest
                  /\ UNCHANGED phase
          /\ UNCHANGED <<input, sent>>

HandleBinary(m) ==
  \/ Unheard
  \/ /\ phase \notin Deaf
     /\ \/ Rejected(m) \/ Started(m) \/ SessionFinished(m)
        \/ NoRecognition(m) \/ Recognition(m)

-----------------------------------------------------------------------------
SessionNext ==
  \/ StartTask
  \/ \E valid \in BOOLEAN : StartSession(valid) \/ AudioRequest(valid)
  \/ sent < MaxFrames /\ ConfirmAudioSent
  \/ MarkAudioWriteAmbiguous
  \/ FinishAudio
  \/ FinishSession
  \/ Cancel
  \/ \E m \in Messages : HandleBinary(m)

SessionSpec == SessionInit /\ [][SessionNext]_protocol

-----------------------------------------------------------------------------
(***************************************************************************)
(* Properties, for any caller and any service.                             *)
(***************************************************************************)

SessionTypeOK ==
  /\ phase \in Phases
  /\ input \in {"open", "pending", "finished"}
  /\ sent \in 0..MaxFrames
  /\ acceptance \in {"not-accepted", "possibly-accepted", "accepted"}
  /\ lastPacket \in Packets \cup {NoPacket}
  /\ final \in Texts \cup {NoText}
  /\ reply \in Replies
  /\ newest \in Packets \cup {NoPacket}

\* A frame that was sent, and a transcript, are evidence that replay is unsafe,
\* whatever failed since (session.rs:248).
EvidenceCoversAudio ==
  sent > 0 \/ final # NoText => acceptance # "not-accepted"

\* A session only finishes with a transcript, after real audio, and with its last
\* frame sent before the marker.
FinishedIsComplete ==
  phase \in {"finishing", "finished"} =>
    /\ input = "finished"
    /\ sent > 0
    /\ phase = "finished" => final # NoText

\* The final transcript is never exchanged for one of an older packet, and not
\* changed by anything after the session ended, in whatever order the results
\* come (session.rs:429; docs/doubao-api-analysis.md:223).
NewerTextStays ==
  [][ final' # final => /\ phase \notin Deaf
                        /\ newest' >= newest
                        /\ newest' = lastPacket'
    ]_protocol

\* Evidence may become less certain, but is never withdrawn, and the end of a
\* session is never undone: neither a late message nor a late call revives it.
EndIsFinal ==
  [][ /\ acceptance # "not-accepted" => acceptance' # "not-accepted"
      /\ phase \in {"failed", "cancelled"} => phase' = phase
      /\ phase = "finished" => phase' \in {"finished", "failed"}
    ]_protocol
=============================================================================
