---------------------------- MODULE FcitxBridge ----------------------------
(***************************************************************************)
(* The datagram protocol between src/fcitx.rs and the Fcitx5 addon         *)
(* fcitx5-addon/voxtypebridge.cpp.  A client arms the focused context for  *)
(* its session, later commits a text to it or cancels.  Every attempt of a *)
(* request has a socket and a timeout of its own, a commit is tried twice  *)
(* under one request identifier, and the addon dispatches the text in a    *)
(* deferred event of Fcitx's loop.                                         *)
(*                                                                         *)
(* A client stands for one session: for a dictation of the daemon, or for  *)
(* one run of a diagnostic command.  It makes one commit, so that it       *)
(* stands for its request identifier and its text as well.  Texts are not  *)
(* empty (session.rs and commit_test refuse empty ones), and the addon's   *)
(* check that a request identifier returns with the same text is left out. *)
(***************************************************************************)
EXTENDS Integers, Sequences

CONSTANTS
  Clients,
  Daemon,          \* the sessions of the daemon, whose lock lets one talk at a time
  OldClients,      \* clients that commit with COMMIT, without a request identifier
  NoClient,
  Contexts, NoContext,   \* Fcitx's input contexts
  QueueLimit,      \* datagrams a socket holds before a sender has to wait
  DeferredFirst,   \* whether the loop runs a deferred event before the next datagram
  MaxRestarts      \* bound: how often Fcitx stops

ASSUME BridgeAssumption ==
  /\ Daemon \subseteq Clients
  /\ OldClients \subseteq Clients \ Daemon
  /\ NoClient \notin Clients
  /\ NoContext \notin Contexts
  /\ QueueLimit \in Nat \ {0}
  /\ DeferredFirst \in BOOLEAN
  /\ MaxRestarts \in Nat

VARIABLES
  focus,      \* the context that was focused last and still has focus
  secure,     \* the contexts that take passwords
  open,       \* the contexts that still exist
  up,         \* Fcitx runs and its socket is bound
  restarts,
  queue,      \* the datagrams that the addon has not read
  addon,      \* the addon: armed context and session, pending and completed commit
  step,       \* where each client is in its exchange with the addon
  inbox,      \* the answer in the socket of the client's current attempt
  result,     \* what commit returned to the client
  armedIn,    \* the context that was armed for the client (history)
  landed      \* the contexts in which its text was committed (history)

vars == <<focus, secure, open, up, restarts, queue, addon,
          step, inbox, result, armedIn, landed>>
fcitx   == <<focus, secure, open, up, restarts>>
history == <<armedIn, landed>>

\* A client that is "stale" has been armed, but a later session has begun; the
\* daemon still remembers its arm until a later one succeeds.  One that is
\* "withdrawn" knows from the addon's answer that its arm is cancelled.
Talking == {"arming", "first", "second", "cancelling"}
Steps   == Talking \cup {"idle", "armed", "stale", "ended", "withdrawn"}

Attempts == [client : Clients, step : Talking]
NoCommit == [client |-> NoClient, step |-> "idle"]
Replies  == {"ok", "refused"}

InitialAddon ==
  [context |-> NoContext, session |-> NoClient, pending |-> NoCommit,
   completed |-> [client |-> NoClient, answer |-> "none"]]

Init ==
  /\ focus \in Contexts \cup {NoContext}
  /\ secure \in SUBSET Contexts
  /\ open = Contexts
  /\ up = TRUE
  /\ restarts = 0
  /\ queue = <<>>
  /\ addon = InitialAddon
  /\ step = [c \in Clients |-> "idle"]
  /\ inbox = [c \in Clients |-> "none"]
  /\ result = [c \in Clients |-> "none"]
  /\ armedIn = [c \in Clients |-> NoContext]
  /\ landed = [c \in Clients |-> <<>>]

-----------------------------------------------------------------------------
(***************************************************************************)
(* Clients.  send_to waits while the addon's queue is full, and fails at   *)
(* once when the socket is gone; the attempt then ends like one that timed *)
(* out.  A fresh socket is bound for every attempt.                        *)
(***************************************************************************)

Send(c, s) ==
  /\ Len(queue) < QueueLimit
  /\ queue' = IF up THEN Append(queue, [client |-> c, step |-> s]) ELSE queue
  /\ inbox' = [inbox EXCEPT ![c] = "none"]

\* The daemon talks for one session at a time.
MayTalk(c) == c \in Daemon => \A d \in Daemon : step[d] \notin Talking

\* Mutant: the daemon commits for the earlier session although a later began.
Arm_KeepsOld(c) ==
  /\ step[c] = "idle"
  /\ MayTalk(c)
  /\ step' = [step EXCEPT ![c] = "arming"]
  /\ Send(c, "arming")
  /\ UNCHANGED <<fcitx, addon, result, history>>

\* A session begins: its arm request, and the end of what an earlier session of
\* the daemon could still commit.
Arm(c) ==
  /\ step[c] = "idle"
  /\ MayTalk(c)
  /\ step' = [d \in Clients |->
                CASE d = c -> "arming"
                  [] d # c /\ {c, d} \subseteq Daemon /\ step[d] = "armed" -> "stale"
                  [] OTHER -> step[d]]
  /\ Send(c, "arming")
  /\ UNCHANGED <<fcitx, addon, result, history>>

\* A successful arm replaces the one that the daemon remembered.
ArmAnswered(c) ==
  /\ step[c] = "arming" /\ inbox[c] # "none"
  /\ step' = IF inbox[c] = "ok"
             THEN [d \in Clients |->
                     CASE d = c -> "armed"
                       [] d # c /\ {c, d} \subseteq Daemon /\ step[d] = "stale" -> "ended"
                       [] OTHER -> step[d]]
             ELSE [step EXCEPT ![c] = "ended"]
  /\ inbox' = [inbox EXCEPT ![c] = "none"]
  /\ UNCHANGED <<fcitx, queue, addon, result, history>>

\* The session fails, or goes on without Fcitx; nothing is sent after the ARM.
ArmTimesOut(c) ==
  /\ step[c] = "arming" /\ inbox[c] = "none"
  /\ step' = [step EXCEPT ![c] = "ended"]
  /\ UNCHANGED <<fcitx, queue, addon, inbox, result, history>>

Commit(c) ==
  /\ step[c] = "armed"
  /\ MayTalk(c)
  /\ step' = [step EXCEPT ![c] = "first"]
  /\ Send(c, "first")
  /\ UNCHANGED <<fcitx, addon, result, history>>

\* The first attempt ends in a transport error: the same message is sent again.
Retry(c) ==
  /\ step[c] = "first" /\ inbox[c] = "none"
  /\ c \notin OldClients
  /\ step' = [step EXCEPT ![c] = "second"]
  /\ Send(c, "second")
  /\ UNCHANGED <<fcitx, addon, result, history>>

\* So does the last one: commit fails, and its caller cancels the arm.
GiveUp(c) ==
  /\ step[c] = IF c \in OldClients THEN "first" ELSE "second"
  /\ inbox[c] = "none"
  /\ result' = [result EXCEPT ![c] = "lost"]
  /\ step' = [step EXCEPT ![c] = "cancelling"]
  /\ Send(c, "cancelling")
  /\ UNCHANGED <<fcitx, addon, history>>

\* The daemon cancels also when a later step of its own fails (daemon.rs:655).
CommitSucceeds(c) ==
  /\ step[c] \in {"first", "second"} /\ inbox[c] = "ok"
  /\ result' = [result EXCEPT ![c] = "dispatched"]
  /\ \/ /\ step' = [step EXCEPT ![c] = "ended"]
        /\ inbox' = [inbox EXCEPT ![c] = "none"]
        /\ UNCHANGED queue
     \/ /\ c \in Daemon
        /\ step' = [step EXCEPT ![c] = "cancelling"]
        /\ Send(c, "cancelling")
  /\ UNCHANGED <<fcitx, addon, history>>

CommitRejected(c) ==
  /\ step[c] \in {"first", "second"} /\ inbox[c] = "refused"
  /\ result' = [result EXCEPT ![c] = "rejected"]
  /\ step' = [step EXCEPT ![c] = "cancelling"]
  /\ Send(c, "cancelling")
  /\ UNCHANGED <<fcitx, addon, history>>

\* The session is cancelled, fails before its commit, or was a probe.
Cancel(c) ==
  /\ step[c] \in {"armed", "stale"}
  /\ MayTalk(c)
  /\ step' = [step EXCEPT ![c] = "cancelling"]
  /\ Send(c, "cancelling")
  /\ UNCHANGED <<fcitx, addon, result, history>>

\* Mutant: cancel waits until it is answered.
CancelEnds_WithoutTimeout(c) ==
  /\ step[c] = "cancelling"
  /\ inbox[c] # "none"
  /\ step' = [step EXCEPT ![c] = "withdrawn"]
  /\ inbox' = [inbox EXCEPT ![c] = "none"]
  /\ UNCHANGED <<fcitx, queue, addon, result, history>>

\* cancel does not look at the answer, nor whether there is one.
CancelEnds(c) ==
  /\ step[c] = "cancelling"
  /\ step' = [step EXCEPT ![c] = IF inbox[c] = "none" THEN "ended" ELSE "withdrawn"]
  /\ inbox' = [inbox EXCEPT ![c] = "none"]
  /\ UNCHANGED <<fcitx, queue, addon, result, history>>

\* What a client does without being asked to.
Continues(c) ==
  \/ ArmAnswered(c) \/ ArmTimesOut(c)
  \/ Retry(c) \/ GiveUp(c)
  \/ CommitSucceeds(c) \/ CommitRejected(c)
  \/ CancelEnds(c)

-----------------------------------------------------------------------------
(***************************************************************************)
(* The addon.  It reads one datagram at a time; its answer reaches the     *)
(* client while the socket of that attempt is still there.                 *)
(***************************************************************************)
Reply(c, s, answer) ==
  inbox' = IF step[c] = s THEN [inbox EXCEPT ![c] = answer] ELSE inbox

Usable(x) == x # NoContext /\ x = focus /\ x \notin secure

\* Mutant: a cancellation forgets the commit that waits.
Cleared_KeepsPending(a) == [a EXCEPT !.context = NoContext, !.session = NoClient]

Cleared(a) ==
  [a EXCEPT !.context = NoContext, !.session = NoClient, !.pending = NoCommit]

\* The datagram at the head of the queue is read.
Reads(m) ==
  /\ up
  /\ queue # <<>> /\ m = Head(queue)
  /\ DeferredFirst => addon.pending = NoCommit
  /\ queue' = Tail(queue)

ReceiveArm(m) ==
  /\ m.step = "arming"
  /\ Reads(m)
  /\ IF Usable(focus)
     THEN /\ addon' = [addon EXCEPT !.context = focus, !.session = m.client]
          /\ armedIn' = [armedIn EXCEPT ![m.client] = focus]
          /\ Reply(m.client, m.step, "ok")
     ELSE /\ Reply(m.client, m.step, "refused")
          /\ UNCHANGED <<addon, armedIn>>
  /\ UNCHANGED <<fcitx, step, result, landed>>

\* Mutants: completed commits are not remembered; any session may commit; the
\* commit is acknowledged before it is dispatched.
ReceiveCommit_Forgets(m) ==
  /\ m.step \in {"first", "second"}
  /\ Reads(m)
  /\ IF addon.pending = NoCommit /\ addon.session = m.client /\ Usable(addon.context)
     THEN addon' = [addon EXCEPT !.pending = m] /\ UNCHANGED inbox
     ELSE /\ addon' = IF addon.session = m.client THEN Cleared(addon) ELSE addon
          /\ Reply(m.client, m.step, "refused")
  /\ UNCHANGED <<fcitx, step, result, history>>

ReceiveCommit_AnySession(m) ==
  /\ m.step \in {"first", "second"}
  /\ Reads(m)
  /\ IF addon.pending = NoCommit /\ Usable(addon.context)
     THEN addon' = [addon EXCEPT !.pending = m] /\ UNCHANGED inbox
     ELSE Reply(m.client, m.step, "refused") /\ UNCHANGED addon
  /\ UNCHANGED <<fcitx, step, result, history>>

ReceiveCommit_AnswersEarly(m) ==
  /\ m.step \in {"first", "second"}
  /\ Reads(m)
  /\ IF addon.pending = NoCommit /\ addon.session = m.client /\ Usable(addon.context)
     THEN addon' = [addon EXCEPT !.pending = m] /\ Reply(m.client, m.step, "ok")
     ELSE Reply(m.client, m.step, "refused") /\ UNCHANGED addon
  /\ UNCHANGED <<fcitx, step, result, history>>

\* COMMIT2, and COMMIT for old clients, whose commits are never "completed" and
\* come once.  The answer to a commit that waits goes to its newest attempt.
ReceiveCommit(m) ==
  /\ m.step \in {"first", "second"}
  /\ Reads(m)
  /\ LET known   == addon.completed.client = m.client
         waits   == addon.pending.client = m.client
         refused == addon.pending # NoCommit \/ addon.session # m.client
     IN \/ /\ known
           /\ Reply(m.client, m.step, addon.completed.answer)
           /\ UNCHANGED addon
        \/ /\ ~ known /\ waits
           /\ addon' = [addon EXCEPT !.pending = m]
           /\ UNCHANGED inbox
        \/ /\ ~ known /\ ~ waits /\ refused
           /\ Reply(m.client, m.step, "refused")
           /\ UNCHANGED addon
        \/ /\ ~ known /\ ~ refused /\ ~ Usable(addon.context)
           /\ addon' = Cleared(addon)
           /\ Reply(m.client, m.step, "refused")
        \/ /\ ~ known /\ ~ refused /\ Usable(addon.context)
           /\ addon' = [addon EXCEPT !.pending = m]
           /\ UNCHANGED inbox
  /\ UNCHANGED <<fcitx, step, result, history>>

ReceiveCancel(m) ==
  /\ m.step = "cancelling"
  /\ Reads(m)
  /\ IF addon.session \in {NoClient, m.client}
     THEN addon' = Cleared(addon) /\ Reply(m.client, m.step, "ok")
     ELSE Reply(m.client, m.step, "refused") /\ UNCHANGED addon
  /\ UNCHANGED <<fcitx, step, result, history>>

Receive(m) == ReceiveArm(m) \/ ReceiveCommit(m) \/ ReceiveCancel(m)

\* What the addon is after the deferred event of the commit p.
AfterCommit(p, answer) ==
  [Cleared(addon) EXCEPT !.completed =
     IF p.client \in OldClients THEN @
     ELSE [client |-> p.client, answer |-> answer]]

\* Mutant: the deferred event leaves arm and commit in place.
Deferred_KeepsCommit ==
  LET p == addon.pending
  IN /\ up
     /\ p # NoCommit
     /\ Usable(addon.context)
     /\ Len(landed[p.client]) < 2
     /\ landed' = [landed EXCEPT ![p.client] = Append(@, addon.context)]
     /\ Reply(p.client, p.step, "ok")
     /\ UNCHANGED <<fcitx, queue, addon, step, result, armedIn>>

\* The deferred event: the text goes to the armed context if that still has
\* the focus and takes no passwords.
Deferred ==
  LET p      == addon.pending
      fits   == Usable(addon.context)
      answer == IF fits THEN "ok" ELSE "refused"
  IN /\ up
     /\ p # NoCommit
     /\ landed' = IF fits
                  THEN [landed EXCEPT ![p.client] = Append(@, addon.context)]
                  ELSE landed
     /\ addon' = AfterCommit(p, answer)
     /\ Reply(p.client, p.step, answer)
     /\ UNCHANGED <<fcitx, queue, step, result, armedIn>>

-----------------------------------------------------------------------------
(***************************************************************************)
(* External: the user and the applications move the focus, fields begin    *)
(* and cease to take passwords, contexts are destroyed (a watched          *)
(* reference to one is then null), Fcitx stops and starts.                 *)
(***************************************************************************)
clients == <<step, inbox, result, armedIn, landed>>

FocusMoves ==
  /\ up
  /\ focus' \in (open \cup {NoContext}) \ {focus}
  /\ UNCHANGED <<secure, open, up, restarts, queue, addon, clients>>

SecurityChanges(x) ==
  /\ up /\ x \in open
  /\ secure' = IF x \in secure THEN secure \ {x} ELSE secure \cup {x}
  /\ UNCHANGED <<focus, open, up, restarts, queue, addon, clients>>

ContextCloses(x) ==
  /\ up /\ x \in open
  /\ open' = open \ {x}
  /\ focus' = IF focus = x THEN NoContext ELSE focus
  /\ addon' = IF addon.context = x THEN [addon EXCEPT !.context = NoContext] ELSE addon
  /\ UNCHANGED <<secure, up, restarts, queue, clients>>

FcitxStops ==
  /\ up /\ restarts < MaxRestarts
  /\ up' = FALSE
  /\ restarts' = restarts + 1
  /\ queue' = <<>>
  /\ addon' = InitialAddon
  /\ focus' = NoContext
  /\ UNCHANGED <<secure, open, clients>>

FcitxStarts ==
  /\ ~ up
  /\ up' = TRUE
  /\ UNCHANGED <<focus, secure, open, restarts, queue, addon, clients>>

Addon == Deferred \/ \E m \in Attempts : Receive(m)

Next ==
  \/ \E c \in Clients : Arm(c) \/ Commit(c) \/ Cancel(c) \/ Continues(c)
  \/ Addon
  \/ FocusMoves
  \/ \E x \in Contexts : SecurityChanges(x) \/ ContextCloses(x)
  \/ FcitxStops \/ FcitxStarts

Spec == Init /\ [][Next]_vars

\* Timeouts expire, and Fcitx runs its event loop while it runs.
FairSpec ==
  /\ Spec
  /\ \A c \in Clients : WF_vars(Continues(c))
  /\ WF_vars(Addon)

-----------------------------------------------------------------------------
(***************************************************************************)
(* Properties.                                                             *)
(***************************************************************************)

\* Types of fcitx.rs and of the addon's members; a commit waits in the addon
\* only while its session is the armed one or has been replaced by another.
TypeOK ==
  /\ focus \in open \cup {NoContext}
  /\ secure \subseteq Contexts /\ open \subseteq Contexts
  /\ up \in BOOLEAN
  /\ restarts \in 0..MaxRestarts
  /\ queue \in Seq(Attempts) /\ Len(queue) <= QueueLimit
  /\ addon \in [context : Contexts \cup {NoContext}, session : Clients \cup {NoClient},
                pending : Attempts \cup {NoCommit},
                completed : [client : Clients \cup {NoClient}, answer : Replies \cup {"none"}]]
  /\ step \in [Clients -> Steps]
  /\ inbox \in [Clients -> Replies \cup {"none"}]
  /\ result \in [Clients -> {"none", "dispatched", "rejected", "lost"}]
  /\ armedIn \in [Clients -> Contexts \cup {NoContext}]
  /\ landed \in [Clients -> Seq(Contexts)]

\* A text is committed at most once, whichever attempts and answers are late
\* and whoever else uses the addon (docs/fcitx5-integration.md:22-25).
AtMostOnce == \A c \in Clients : Len(landed[c]) <= 1

\* commit reports success only for a text that the addon has handed to an input
\* context (docs/fcitx5-integration.md:18-20).
AckMeansDispatched ==
  \A c \in Clients : result[c] = "dispatched" => landed[c] # <<>>

\* A commit that the addon rejects has left no text behind, so that the daemon
\* may call the session failed; unless Fcitx has stopped and forgotten it.
RejectedMeansNotDispatched ==
  \A c \in Clients : result[c] = "rejected" /\ restarts = 0 => landed[c] = <<>>

\* What the daemon is told of a commit, and reports to the user, is true.
AnswersAreTrue == AckMeansDispatched /\ RejectedMeansNotDispatched

\* A text only ever goes to the context that was armed for its own session
\* (fcitx.rs:122), not to one that a late or foreign arm has put in its place.
OnlyInArmedContext ==
  \A c \in Clients : \A i \in 1..Len(landed[c]) : landed[c][i] = armedIn[c]

\* An arm that was acknowledged holds until the daemon commits or cancels:
\* nothing that is still under way from its earlier sessions takes it away, so
\* that only the focus, or a restart of Fcitx, can make the commit fail.
ArmHolds ==
  \A c \in Daemon : step[c] = "armed" /\ restarts = 0 => addon.session = c

\* A client whose cancellation was answered can rely on it: its text is not
\* committed any more, not even by a deferred event that waited.
CancelIsFinal ==
  [][ \A c \in Clients : step[c] = "withdrawn" => landed'[c] = landed[c] ]_vars

\* An exchange with the addon ends, although answers are lost and the daemon
\* holds its lock meanwhile.
ExchangesEnd == \A c \in Clients : step[c] \in Talking ~> step[c] \notin Talking
=============================================================================
