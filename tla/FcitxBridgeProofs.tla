-------------------------- MODULE FcitxBridgeProofs --------------------------
(***************************************************************************)
(* Proofs about FcitxBridge, for any clients, contexts, queue limit and    *)
(* number of restarts.                                                     *)
(***************************************************************************)
EXTENDS FcitxBridge, TLAPS

-----------------------------------------------------------------------------
(***************************************************************************)
(* Types.                                                                  *)
(***************************************************************************)

\* What a client changes when it sends a datagram.
LEMMA SendTypes ==
  ASSUME TypeOK, NEW c \in Clients, NEW s \in Talking, Send(c, s)
  PROVE  /\ queue' \in Seq(Attempts) /\ Len(queue') <= QueueLimit
         /\ inbox' \in [Clients -> Replies \cup {"none"}]
<1>1. [client |-> c, step |-> s] \in Attempts
  BY DEF Attempts
<1>2. queue \in Seq(Attempts) /\ Len(queue) < QueueLimit /\ Len(queue) \in Nat
  BY DEF TypeOK, Send
<1>3. Append(queue, [client |-> c, step |-> s]) \in Seq(Attempts)
      /\ Len(Append(queue, [client |-> c, step |-> s])) = Len(queue) + 1
  BY <1>1, <1>2
<1>4. queue' \in Seq(Attempts) /\ Len(queue') <= QueueLimit
  BY <1>2, <1>3, BridgeAssumption DEF Send
<1>5. inbox' \in [Clients -> Replies \cup {"none"}]
  BY DEF TypeOK, Send
<1>6. QED
  BY <1>4, <1>5

\* What is left of the queue when the addon has read a datagram.
LEMMA ReadTypes ==
  ASSUME TypeOK, NEW m \in Attempts, Reads(m)
  PROVE  queue' \in Seq(Attempts) /\ Len(queue') <= QueueLimit
<1>1. queue \in Seq(Attempts) /\ queue # <<>> /\ Len(queue) <= QueueLimit
  BY DEF TypeOK, Reads
<1>2. Tail(queue) \in Seq(Attempts) /\ Len(Tail(queue)) = Len(queue) - 1
  BY <1>1
<1>3. QED
  BY <1>1, <1>2, BridgeAssumption DEF Reads

LEMMA ReplyTypes ==
  ASSUME TypeOK, NEW c \in Clients, NEW s, NEW answer \in Replies \cup {"none"},
         Reply(c, s, answer)
  PROVE  inbox' \in [Clients -> Replies \cup {"none"}]
BY DEF TypeOK, Reply

Addons == [context : Contexts \cup {NoContext}, session : Clients \cup {NoClient},
           pending : Attempts \cup {NoCommit},
           completed : [client : Clients \cup {NoClient}, answer : Replies \cup {"none"}]]

\* The states that the handlers of the addon put it in are states of the addon.
LEMMA AddonTypes ==
  ASSUME TypeOK
  PROVE  /\ addon \in Addons
         /\ InitialAddon \in Addons
         /\ Cleared(addon) \in Addons
         /\ \A c \in Clients, x \in Contexts :
              [addon EXCEPT !.context = x, !.session = c] \in Addons
         /\ [addon EXCEPT !.context = NoContext] \in Addons
         /\ \A m \in Attempts : [addon EXCEPT !.pending = m] \in Addons
         /\ \A m \in Attempts, a \in Replies : AfterCommit(m, a) \in Addons
         /\ addon.completed.answer \in Replies \cup {"none"}
<1>1. addon \in Addons
  BY DEF TypeOK, Addons
<1>2. InitialAddon \in Addons
  BY DEF InitialAddon, Addons
<1>3. Cleared(addon) \in Addons
  BY <1>1 DEF Cleared, Addons
<1>4. \A c \in Clients, x \in Contexts :
        [addon EXCEPT !.context = x, !.session = c] \in Addons
  BY <1>1 DEF Addons
<1>5. [addon EXCEPT !.context = NoContext] \in Addons
  BY <1>1 DEF Addons
<1>6. \A m \in Attempts : [addon EXCEPT !.pending = m] \in Addons
  BY <1>1 DEF Addons
<1>7. ASSUME NEW m \in Attempts, NEW a \in Replies PROVE AfterCommit(m, a) \in Addons
  <2>1. [client |-> m.client, answer |-> a]
          \in [client : Clients \cup {NoClient}, answer : Replies \cup {"none"}]
    BY DEF Attempts
  <2>2. QED
    BY <1>3, <2>1 DEF AfterCommit, Addons
<1>8. addon.completed.answer \in Replies \cup {"none"}
  BY <1>1 DEF Addons
<1>9. QED
  BY <1>1, <1>2, <1>3, <1>4, <1>5, <1>6, <1>7, <1>8

LEMMA TypesInit ==
  ASSUME Init
  PROVE  TypeOK
<1>1. addon \in Addons
  BY DEF Init, Addons, InitialAddon
<1>2. queue \in Seq(Attempts) /\ Len(queue) <= QueueLimit
  BY BridgeAssumption DEF Init
<1>3. /\ focus \in open \cup {NoContext} /\ secure \subseteq Contexts
      /\ open \subseteq Contexts /\ up \in BOOLEAN
  BY DEF Init
<1>4. restarts \in 0..MaxRestarts
  BY BridgeAssumption DEF Init
<1>5. landed \in [Clients -> Seq(Contexts)]
  <2>1. <<>> \in Seq(Contexts)
    OBVIOUS
  <2>2. QED
    BY <2>1 DEF Init
<1>6. /\ step \in [Clients -> Steps]
      /\ inbox \in [Clients -> Replies \cup {"none"}]
      /\ result \in [Clients -> {"none", "dispatched", "rejected", "lost"}]
      /\ armedIn \in [Clients -> Contexts \cup {NoContext}]
  BY DEF Init, Steps
<1>7. QED
  BY <1>1, <1>2, <1>3, <1>4, <1>5, <1>6 DEF TypeOK, Addons

LEMMA ClientKeepsTypes ==
  ASSUME TypeOK, NEW c \in Clients,
         Arm(c) \/ Commit(c) \/ Cancel(c) \/ Continues(c)
  PROVE  TypeOK'
<1>1. CASE Arm(c)
  <2>1. step' \in [Clients -> Steps]
    BY <1>1 DEF Arm, TypeOK, Steps, Talking
  <2>2. QED
    BY <1>1, <2>1, SendTypes DEF Arm, TypeOK, fcitx, history, Talking
<1>2. CASE Commit(c)
  BY <1>2, SendTypes DEF Commit, TypeOK, fcitx, history, Steps, Talking
<1>3. CASE Cancel(c)
  BY <1>3, SendTypes DEF Cancel, TypeOK, fcitx, history, Steps, Talking
<1>4. CASE ArmAnswered(c)
  <2>1. step' \in [Clients -> Steps]
    BY <1>4 DEF ArmAnswered, TypeOK, Steps, Talking
  <2>2. QED
    BY <1>4, <2>1 DEF ArmAnswered, TypeOK, fcitx, history
<1>5. CASE ArmTimesOut(c)
  BY <1>5 DEF ArmTimesOut, TypeOK, fcitx, history, Steps
<1>6. CASE Retry(c)
  BY <1>6, SendTypes DEF Retry, TypeOK, fcitx, history, Steps, Talking
<1>7. CASE GiveUp(c)
  BY <1>7, SendTypes DEF GiveUp, TypeOK, fcitx, history, Steps, Talking
<1>8. CASE CommitSucceeds(c)
  <2>1. step' \in [Clients -> Steps] /\ result' \in [Clients -> {"none", "dispatched", "rejected", "lost"}]
    BY <1>8 DEF CommitSucceeds, TypeOK, Steps, Talking
  <2>2. /\ queue' \in Seq(Attempts) /\ Len(queue') <= QueueLimit
        /\ inbox' \in [Clients -> Replies \cup {"none"}]
    <3>1. CASE Send(c, "cancelling")
      BY <3>1, SendTypes DEF Talking
    <3>2. CASE inbox' = [inbox EXCEPT ![c] = "none"] /\ UNCHANGED queue
      BY <3>2 DEF TypeOK
    <3>3. QED
      BY <1>8, <3>1, <3>2 DEF CommitSucceeds
  <2>3. QED
    BY <1>8, <2>1, <2>2 DEF CommitSucceeds, TypeOK, fcitx, history
<1>9. CASE CommitRejected(c)
  BY <1>9, SendTypes DEF CommitRejected, TypeOK, fcitx, history, Steps, Talking
<1>10. CASE CancelEnds(c)
  BY <1>10 DEF CancelEnds, TypeOK, fcitx, history, Steps
<1>11. QED
  BY <1>1, <1>2, <1>3, <1>4, <1>5, <1>6, <1>7, <1>8, <1>9, <1>10 DEF Continues

LEMMA AddonKeepsTypes ==
  ASSUME TypeOK, Addon
  PROVE  TypeOK'
<1>1. ASSUME NEW m \in Attempts, ReceiveArm(m) PROVE TypeOK'
  <2>1. m.client \in Clients /\ m.step \in Talking
    BY DEF Attempts
  <2>2. inbox' \in [Clients -> Replies \cup {"none"}]
    BY <1>1, <2>1, ReplyTypes DEF ReceiveArm, Replies
  <2>3. queue' \in Seq(Attempts) /\ Len(queue') <= QueueLimit
    BY <1>1, ReadTypes DEF ReceiveArm
  <2>4. Usable(focus) => focus \in Contexts
    BY DEF Usable, TypeOK
  <2>5. addon' \in Addons
    BY <1>1, <2>1, <2>4, AddonTypes DEF ReceiveArm
  <2>6. armedIn' \in [Clients -> Contexts \cup {NoContext}]
    BY <1>1, <2>1, <2>4 DEF ReceiveArm, TypeOK
  <2>7. QED
    BY <1>1, <2>2, <2>3, <2>5, <2>6 DEF ReceiveArm, TypeOK, Addons, fcitx
<1>2. ASSUME NEW m \in Attempts, ReceiveCommit(m) PROVE TypeOK'
  <2>1. m.client \in Clients /\ m.step \in Talking
    BY DEF Attempts
  <2>2. queue' \in Seq(Attempts) /\ Len(queue') <= QueueLimit
    BY <1>2, ReadTypes DEF ReceiveCommit
  <2>3. addon' \in Addons
    BY <1>2, AddonTypes DEF ReceiveCommit
  <2>4. \/ inbox' = inbox
        \/ \E a \in Replies \cup {"none"} : Reply(m.client, m.step, a)
    BY <1>2, AddonTypes DEF ReceiveCommit, Replies
  <2>5. inbox' \in [Clients -> Replies \cup {"none"}]
    BY <2>1, <2>4, ReplyTypes DEF TypeOK
  <2>6. QED
    BY <1>2, <2>2, <2>3, <2>5 DEF ReceiveCommit, TypeOK, Addons, fcitx, history
<1>3. ASSUME NEW m \in Attempts, ReceiveCancel(m) PROVE TypeOK'
  <2>1. m.client \in Clients /\ m.step \in Talking
    BY DEF Attempts
  <2>2. queue' \in Seq(Attempts) /\ Len(queue') <= QueueLimit
    BY <1>3, ReadTypes DEF ReceiveCancel
  <2>3. addon' \in Addons
    BY <1>3, AddonTypes DEF ReceiveCancel
  <2>4. inbox' \in [Clients -> Replies \cup {"none"}]
    BY <1>3, <2>1, ReplyTypes DEF ReceiveCancel, Replies
  <2>5. QED
    BY <1>3, <2>2, <2>3, <2>4 DEF ReceiveCancel, TypeOK, Addons, fcitx, history
<1>4. CASE Deferred
  <2>1. addon.pending \in Attempts
    BY <1>4 DEF Deferred, TypeOK
  <2>2. addon.pending.client \in Clients /\ addon.pending.step \in Talking
    BY <2>1 DEF Attempts
  <2>3. PICK answer \in Replies : /\ addon' = AfterCommit(addon.pending, answer)
                                  /\ Reply(addon.pending.client, addon.pending.step, answer)
    BY <1>4 DEF Deferred, Replies
  <2>4. addon' \in Addons /\ inbox' \in [Clients -> Replies \cup {"none"}]
    BY <2>1, <2>2, <2>3, AddonTypes, ReplyTypes
  <2>5. Usable(addon.context) => addon.context \in Contexts
    BY DEF Usable, TypeOK
  <2>6. landed' \in [Clients -> Seq(Contexts)]
    BY <1>4, <2>2, <2>5 DEF Deferred, TypeOK
  <2>7. QED
    BY <1>4, <2>4, <2>6 DEF Deferred, TypeOK, Addons, fcitx
<1>5. QED
  BY <1>1, <1>2, <1>3, <1>4 DEF Addon, Receive

LEMMA FcitxKeepsTypes ==
  ASSUME TypeOK,
         \/ FocusMoves \/ FcitxStops \/ FcitxStarts
         \/ \E x \in Contexts : SecurityChanges(x) \/ ContextCloses(x)
  PROVE  TypeOK'
<1>1. CASE FocusMoves
  BY <1>1 DEF FocusMoves, TypeOK, clients
<1>2. CASE FcitxStops
  <2>1. addon' \in Addons
    BY <1>2, AddonTypes DEF FcitxStops
  <2>2. restarts' \in 0..MaxRestarts
    BY <1>2, BridgeAssumption DEF FcitxStops, TypeOK
  <2>3. queue' \in Seq(Attempts) /\ Len(queue') <= QueueLimit
    BY <1>2, BridgeAssumption DEF FcitxStops
  <2>4. QED
    BY <1>2, <2>1, <2>2, <2>3 DEF FcitxStops, TypeOK, Addons, clients
<1>3. CASE FcitxStarts
  BY <1>3 DEF FcitxStarts, TypeOK, clients
<1>4. ASSUME NEW x \in Contexts, SecurityChanges(x) PROVE TypeOK'
  BY <1>4 DEF SecurityChanges, TypeOK, clients
<1>5. ASSUME NEW x \in Contexts, ContextCloses(x) PROVE TypeOK'
  <2>1. addon' \in Addons
    BY <1>5, AddonTypes DEF ContextCloses
  <2>2. focus' \in open' \cup {NoContext} /\ open' \subseteq Contexts
    BY <1>5 DEF ContextCloses, TypeOK
  <2>3. QED
    BY <1>5, <2>1, <2>2 DEF ContextCloses, TypeOK, Addons, clients
<1>6. QED
  BY <1>1, <1>2, <1>3, <1>4, <1>5

LEMMA StepKeepsTypes == TypeOK /\ [Next]_vars => TypeOK'
<1>1. SUFFICES ASSUME TypeOK, [Next]_vars PROVE TypeOK'
  OBVIOUS
<1>2. CASE UNCHANGED vars
  <2>1. /\ UNCHANGED <<focus, secure, open, up, restarts, queue>>
        /\ UNCHANGED <<addon, step, inbox, result, armedIn, landed>>
    BY <1>2 DEF vars
  <2>2. QED
    BY <1>1, <2>1 DEF TypeOK
<1>3. ASSUME NEW c \in Clients, Arm(c) \/ Commit(c) \/ Cancel(c) \/ Continues(c)
      PROVE  TypeOK'
  BY <1>1, <1>3, ClientKeepsTypes
<1>4. CASE Addon
  BY <1>1, <1>4, AddonKeepsTypes
<1>5. CASE \/ FocusMoves \/ FcitxStops \/ FcitxStarts
           \/ \E x \in Contexts : SecurityChanges(x) \/ ContextCloses(x)
  BY <1>1, <1>5, FcitxKeepsTypes
<1>6. QED
  BY <1>1, <1>2, <1>3, <1>4, <1>5 DEF Next

\* The bridge and its clients stay well typed (fcitx.rs, voxtypebridge.cpp).
THEOREM BridgeTypeCorrect == Spec => []TypeOK
<1>1. Init => TypeOK
  BY TypesInit
<1>2. TypeOK /\ [Next]_vars => TypeOK'
  BY StepKeepsTypes
<1>3. QED
  BY <1>1, <1>2, PTL DEF Spec

-----------------------------------------------------------------------------
(***************************************************************************)
(* At most once.  The retry is harmless not because the addon remembers    *)
(* the last request, which another commit may overwrite, but because an    *)
(* arm is used up: a client sends one arm request, and once its text has   *)
(* been committed it is neither armed, nor waits, nor is that request      *)
(* still under way to arm it again.                                        *)
(***************************************************************************)
ArmOf(c) == [client |-> c, step |-> "arming"]

\* The addon knows nothing of c that could lead to a commit.
Unknown(c) ==
  /\ addon.session # c
  /\ addon.pending.client # c

UsedUp(c) ==
  /\ Len(landed[c]) <= 1
  /\ landed[c] # <<>> => Unknown(c)
  /\ \A i \in 1..Len(queue) : queue[i] = ArmOf(c) =>
       /\ Unknown(c)
       /\ landed[c] = <<>>
       /\ \A j \in 1..Len(queue) : queue[j] = ArmOf(c) => i = j
  /\ step[c] = "idle" =>
       /\ Unknown(c)
       /\ landed[c] = <<>>
       /\ \A i \in 1..Len(queue) : queue[i] # ArmOf(c)

OnceInv == TypeOK /\ \A c \in Clients : UsedUp(c)

LEMMA OnceInit ==
  ASSUME Init
  PROVE  OnceInv
<1>1. TypeOK
  BY TypesInit
<1>2. Len(queue) = 0 /\ \A c \in Clients : landed[c] = <<>> /\ Len(landed[c]) = 0
  BY DEF Init
<1>3. \A c \in Clients : Unknown(c)
  BY BridgeAssumption DEF Init, Unknown, InitialAddon, NoCommit
<1>4. QED
  BY <1>1, <1>2, <1>3 DEF OnceInv, UsedUp

\* A datagram other than the arm request of c leaves the arm of c used up.
LEMMA OtherRequestsKeepUsedUp ==
  ASSUME OnceInv, NEW c \in Clients, NEW m \in Attempts, m # ArmOf(c),
         queue' \in {queue, Append(queue, m)},
         UNCHANGED <<addon, landed>>,
         step'[c] = "idle" => step[c] = "idle"
  PROVE  UsedUp(c)'
<1>1. queue \in Seq(Attempts) /\ Len(queue) \in Nat /\ UsedUp(c)
  BY DEF OnceInv, TypeOK
<1>2. \A i \in 1..Len(queue') : queue'[i] = ArmOf(c) =>
        i \in 1..Len(queue) /\ queue[i] = ArmOf(c)
  <2>1. CASE queue' = queue
    BY <2>1
  <2>2. CASE queue' = Append(queue, m)
    <3>1. Len(queue') = Len(queue) + 1 /\ queue'[Len(queue) + 1] = m
          /\ \A i \in 1..Len(queue) : queue'[i] = queue[i]
      BY <1>1, <2>2
    <3>2. QED
      BY <1>1, <3>1
  <2>3. QED
    BY <2>1, <2>2
<1>3. Unknown(c) <=> Unknown(c)'
  BY DEF Unknown
<1>4. landed'[c] = landed[c] /\ ArmOf(c)' = ArmOf(c)
  BY DEF ArmOf
<1>5. QED
  BY <1>1, <1>2, <1>3, <1>4 DEF UsedUp

\* When a datagram has been read, the addon can have learnt of c only from its
\* arm request, and of that once.
LEMMA ReadingKeepsUsedUp ==
  ASSUME OnceInv, NEW c \in Clients, NEW m \in Attempts, Reads(m),
         UNCHANGED <<step, landed>>,
         Unknown(c) => Unknown(c)' \/ m = ArmOf(c)
  PROVE  UsedUp(c)'
<1>1. queue \in Seq(Attempts) /\ UsedUp(c)
  BY DEF OnceInv, TypeOK
<1>2. /\ queue # <<>> /\ m = queue[1] /\ queue' = Tail(queue)
      /\ Len(queue) \in Nat \ {0} /\ Len(queue') = Len(queue) - 1
  BY <1>1 DEF Reads
<1>3. \A i \in 1..Len(queue') : i + 1 \in 1..Len(queue) /\ queue'[i] = queue[i + 1]
  BY <1>1, <1>2
<1>4. m = ArmOf(c) => /\ landed[c] = <<>> /\ step[c] # "idle"
                      /\ \A i \in 1..Len(queue') : queue'[i] # ArmOf(c)
  <2>1. SUFFICES ASSUME m = ArmOf(c)
                 PROVE  /\ landed[c] = <<>> /\ step[c] # "idle"
                        /\ \A i \in 1..Len(queue') : queue'[i] # ArmOf(c)
    OBVIOUS
  <2>2. 1 \in 1..Len(queue) /\ queue[1] = ArmOf(c)
    BY <1>2, <2>1
  <2>3. landed[c] = <<>> /\ step[c] # "idle"
        /\ \A j \in 1..Len(queue) : queue[j] = ArmOf(c) => 1 = j
    BY <1>1, <2>2 DEF UsedUp
  <2>4. \A i \in 1..Len(queue') : queue'[i] # ArmOf(c)
    BY <1>3, <2>3
  <2>5. QED
    BY <2>3, <2>4
<1>5. CASE m = ArmOf(c)
  BY <1>1, <1>4, <1>5 DEF UsedUp
<1>6. CASE m # ArmOf(c)
  <2>1. Unknown(c) => Unknown(c)'
    BY <1>6
  <2>2. \A i \in 1..Len(queue') : queue'[i] = ArmOf(c) =>
          /\ Unknown(c)'
          /\ landed'[c] = <<>>
          /\ \A j \in 1..Len(queue') : queue'[j] = ArmOf(c) => i = j
    <3>1. SUFFICES ASSUME NEW i \in 1..Len(queue'), queue'[i] = ArmOf(c)
                   PROVE  /\ Unknown(c)'
                          /\ landed'[c] = <<>>
                          /\ \A j \in 1..Len(queue') : queue'[j] = ArmOf(c) => i = j
      BY DEF ArmOf
    <3>2. i + 1 \in 1..Len(queue) /\ queue[i + 1] = ArmOf(c)
      BY <1>3, <3>1
    <3>3. Unknown(c) /\ landed[c] = <<>>
          /\ \A j \in 1..Len(queue) : queue[j] = ArmOf(c) => i + 1 = j
      BY <1>1, <3>2 DEF UsedUp
    <3>4. ASSUME NEW j \in 1..Len(queue'), queue'[j] = ArmOf(c)
          PROVE  i = j
      <4>1. j + 1 \in 1..Len(queue) /\ queue[j + 1] = ArmOf(c)
        BY <1>3, <3>4
      <4>2. i + 1 = j + 1 /\ i \in Nat /\ j \in Nat
        BY <1>2, <3>3, <4>1
      <4>3. QED
        BY <4>2
    <3>5. QED
      BY <2>1, <3>3, <3>4
  <2>3. step'[c] = "idle" => \A i \in 1..Len(queue') : queue'[i] # ArmOf(c)
    BY <1>1, <1>3 DEF UsedUp
  <2>4. QED
    BY <1>1, <2>1, <2>2, <2>3 DEF UsedUp
<1>7. QED
  BY <1>5, <1>6

\* The environment may take an arm away, but gives none.
LEMMA LosingKeepsUsedUp ==
  ASSUME OnceInv, NEW c \in Clients, UNCHANGED <<step, landed>>,
         queue' \in {queue, <<>>},
         Unknown(c) => Unknown(c)'
  PROVE  UsedUp(c)'
<1>1. UsedUp(c)
  BY DEF OnceInv
<1>2. QED
  BY <1>1 DEF UsedUp, ArmOf

LEMMA ClientKeepsOnce ==
  ASSUME OnceInv, NEW d \in Clients,
         Arm(d) \/ Commit(d) \/ Cancel(d) \/ Continues(d)
  PROVE  \A c \in Clients : UsedUp(c)'
<1>1. SUFFICES ASSUME NEW c \in Clients PROVE UsedUp(c)'
  OBVIOUS
<1>2. TypeOK /\ step \in [Clients -> Steps] /\ queue \in Seq(Attempts) /\ UsedUp(c)
  BY DEF OnceInv, TypeOK
<1>3. CASE Arm(d)
  <2>1. step[d] = "idle" /\ step'[d] = "arming" /\ UNCHANGED <<addon, landed>>
        /\ queue' \in {queue, Append(queue, ArmOf(d))}
        /\ (step'[c] = "idle" => step[c] = "idle")
    BY <1>2, <1>3 DEF Arm, Send, ArmOf, history
  <2>2. CASE c # d
    <3>1. ArmOf(d) \in Attempts /\ ArmOf(d) # ArmOf(c)
      BY <2>2 DEF ArmOf, Attempts, Talking
    <3>2. QED
      BY <2>1, <3>1, OtherRequestsKeepUsedUp
  <2>3. CASE c = d
    <3>1. Unknown(c) /\ landed[c] = <<>> /\ \A i \in 1..Len(queue) : queue[i] # ArmOf(c)
      BY <1>2, <2>1, <2>3 DEF UsedUp
    <3>2. \A i, j \in 1..Len(queue') :
            queue'[i] = ArmOf(c) /\ queue'[j] = ArmOf(c) => i = j
      BY <1>2, <2>1, <2>3, <3>1
    <3>3. Unknown(c)' /\ landed'[c] = <<>> /\ step'[c] # "idle"
      BY <2>1, <2>3, <3>1 DEF Unknown
    <3>4. QED
      BY <3>2, <3>3 DEF UsedUp
  <2>4. QED
    BY <2>2, <2>3
<1>4. CASE Commit(d) \/ Cancel(d) \/ Continues(d)
  <2>1. PICK s \in {"first", "second", "cancelling"} :
          queue' \in {queue, Append(queue, [client |-> d, step |-> s])}
    BY <1>4 DEF Commit, Cancel, Continues, ArmAnswered, ArmTimesOut, Retry, GiveUp,
                CommitSucceeds, CommitRejected, CancelEnds, Send
  <2>2. UNCHANGED <<addon, landed>>
    BY <1>4 DEF Commit, Cancel, Continues, ArmAnswered, ArmTimesOut, Retry, GiveUp,
                CommitSucceeds, CommitRejected, CancelEnds, history
  <2>3. step'[c] = "idle" => step[c] = "idle"
    BY <1>2, <1>4 DEF Commit, Cancel, Continues, ArmAnswered, ArmTimesOut, Retry, GiveUp,
                      CommitSucceeds, CommitRejected, CancelEnds
  <2>4. /\ [client |-> d, step |-> s] \in Attempts
        /\ [client |-> d, step |-> s] # ArmOf(c)
    BY DEF ArmOf, Attempts, Talking
  <2>5. QED
    BY <2>1, <2>2, <2>3, <2>4, OtherRequestsKeepUsedUp
<1>5. QED
  BY <1>3, <1>4

\* The deferred event commits the text of the client that waits, whose arm
\* goes with it.
LEMMA DeferredKeepsOnce ==
  ASSUME OnceInv, Deferred
  PROVE  \A c \in Clients : UsedUp(c)'
<1>1. SUFFICES ASSUME NEW c \in Clients PROVE UsedUp(c)'
  OBVIOUS
<1>2. TypeOK /\ UsedUp(c) /\ landed \in [Clients -> Seq(Contexts)] /\ queue' = queue
      /\ step' = step
  BY DEF OnceInv, TypeOK, Deferred
<1>3. Unknown(c)'
  <2>1. addon'.session = NoClient /\ addon'.pending = NoCommit
    BY DEF Deferred, AfterCommit, Cleared, TypeOK, OnceInv
  <2>2. QED
    BY <2>1, BridgeAssumption DEF Unknown, NoCommit
<1>4. addon.pending.client # c => landed'[c] = landed[c]
  BY <1>2 DEF Deferred
<1>5. addon.pending.client = c =>
        /\ landed[c] = <<>>
        /\ Len(landed'[c]) <= 1
        /\ \A i \in 1..Len(queue) : queue[i] # ArmOf(c)
  <2>1. SUFFICES ASSUME addon.pending.client = c
                 PROVE  /\ landed[c] = <<>>
                        /\ Len(landed'[c]) <= 1
                        /\ \A i \in 1..Len(queue) : queue[i] # ArmOf(c)
    OBVIOUS
  <2>2. ~ Unknown(c)
    BY <2>1 DEF Unknown
  <2>3. landed[c] = <<>> /\ \A i \in 1..Len(queue) : queue[i] # ArmOf(c)
    BY <1>2, <2>2 DEF UsedUp
  <2>4. landed'[c] = <<>> \/ landed'[c] = <<addon.context>>
    BY <1>2, <2>1, <2>3 DEF Deferred
  <2>5. Len(landed'[c]) <= 1
    <3>1. Len(<<>>) <= 1 /\ Len(<<addon.context>>) <= 1
      OBVIOUS
    <3>2. QED
      BY <2>4, <3>1
  <2>6. QED
    BY <2>3, <2>5
<1>6. step[c] = "idle" => addon.pending.client # c
  BY <1>2 DEF UsedUp, Unknown
<1>7. QED
  BY <1>2, <1>3, <1>4, <1>5, <1>6 DEF UsedUp

LEMMA AddonKeepsOnce ==
  ASSUME OnceInv, Addon
  PROVE  \A c \in Clients : UsedUp(c)'
<1>1. SUFFICES ASSUME NEW c \in Clients PROVE UsedUp(c)'
  OBVIOUS
<1>2. TypeOK /\ addon \in Addons
  BY DEF OnceInv, TypeOK, Addons
<1>3. ASSUME NEW m \in Attempts, ReceiveArm(m) PROVE UsedUp(c)'
  <2>1. Unknown(c) => Unknown(c)' \/ m = ArmOf(c)
    BY <1>2, <1>3 DEF ReceiveArm, Unknown, ArmOf, Addons, Attempts
  <2>2. Reads(m) /\ UNCHANGED <<step, landed>>
    BY <1>3 DEF ReceiveArm
  <2>3. QED
    BY <2>1, <2>2, ReadingKeepsUsedUp
<1>4. ASSUME NEW m \in Attempts, ReceiveCommit(m) PROVE UsedUp(c)'
  <2>1. \/ addon' = addon
        \/ addon' = Cleared(addon)
        \/ /\ addon' = [addon EXCEPT !.pending = m]
           /\ m.client \in {addon.session, addon.pending.client}
    BY <1>4 DEF ReceiveCommit
  <2>2. Unknown(c) => Unknown(c)'
    <3>1. CASE addon' = addon
      BY <3>1 DEF Unknown
    <3>2. CASE addon' = Cleared(addon)
      BY <1>2, <3>2, BridgeAssumption DEF Unknown, Cleared, NoCommit, Addons
    <3>3. CASE /\ addon' = [addon EXCEPT !.pending = m]
               /\ m.client \in {addon.session, addon.pending.client}
      BY <1>2, <3>3 DEF Unknown, Addons
    <3>4. QED
      BY <2>1, <3>1, <3>2, <3>3
  <2>3. Reads(m) /\ UNCHANGED <<step, landed>>
    BY <1>4 DEF ReceiveCommit, history
  <2>4. QED
    BY <2>2, <2>3, ReadingKeepsUsedUp
<1>5. ASSUME NEW m \in Attempts, ReceiveCancel(m) PROVE UsedUp(c)'
  <2>1. addon' = addon \/ addon' = Cleared(addon)
    BY <1>5 DEF ReceiveCancel
  <2>2. Unknown(c) => Unknown(c)'
    <3>1. CASE addon' = addon
      BY <3>1 DEF Unknown
    <3>2. CASE addon' = Cleared(addon)
      BY <1>2, <3>2, BridgeAssumption DEF Unknown, Cleared, NoCommit, Addons
    <3>3. QED
      BY <2>1, <3>1, <3>2
  <2>3. Reads(m) /\ UNCHANGED <<step, landed>>
    BY <1>5 DEF ReceiveCancel, history
  <2>4. QED
    BY <2>2, <2>3, ReadingKeepsUsedUp
<1>6. CASE Deferred
  BY <1>6, DeferredKeepsOnce
<1>7. QED
  BY <1>3, <1>4, <1>5, <1>6 DEF Addon, Receive

LEMMA FcitxKeepsOnce ==
  ASSUME OnceInv,
         \/ FocusMoves \/ FcitxStops \/ FcitxStarts
         \/ \E x \in Contexts : SecurityChanges(x) \/ ContextCloses(x)
  PROVE  \A c \in Clients : UsedUp(c)'
<1>1. SUFFICES ASSUME NEW c \in Clients PROVE UsedUp(c)'
  OBVIOUS
<1>2. addon \in Addons
  BY DEF OnceInv, TypeOK, Addons
<1>3. UNCHANGED <<step, landed>> /\ queue' \in {queue, <<>>}
  BY DEF FocusMoves, FcitxStops, FcitxStarts, SecurityChanges, ContextCloses, clients
<1>4. addon' \in {addon, InitialAddon, [addon EXCEPT !.context = NoContext]}
  BY DEF FocusMoves, FcitxStops, FcitxStarts, SecurityChanges, ContextCloses
<1>5. Unknown(c) => Unknown(c)'
  BY <1>2, <1>4, BridgeAssumption DEF Unknown, InitialAddon, NoCommit, Addons
<1>6. QED
  BY <1>3, <1>5, LosingKeepsUsedUp

LEMMA StepKeepsOnce == OnceInv /\ [Next]_vars => OnceInv'
<1>1. SUFFICES ASSUME OnceInv, [Next]_vars PROVE OnceInv'
  OBVIOUS
<1>2. TypeOK'
  BY <1>1, StepKeepsTypes DEF OnceInv
<1>3. CASE UNCHANGED vars
  <2>1. UNCHANGED <<queue, addon, step, landed>>
    BY <1>3 DEF vars
  <2>2. QED
    BY <1>1, <1>2, <2>1 DEF OnceInv, UsedUp, Unknown, ArmOf
<1>4. ASSUME NEW d \in Clients, Arm(d) \/ Commit(d) \/ Cancel(d) \/ Continues(d)
      PROVE  OnceInv'
  BY <1>1, <1>2, <1>4, ClientKeepsOnce DEF OnceInv
<1>5. CASE Addon
  BY <1>1, <1>2, <1>5, AddonKeepsOnce DEF OnceInv
<1>6. CASE \/ FocusMoves \/ FcitxStops \/ FcitxStarts
           \/ \E x \in Contexts : SecurityChanges(x) \/ ContextCloses(x)
  BY <1>1, <1>2, <1>6, FcitxKeepsOnce DEF OnceInv
<1>7. QED
  BY <1>1, <1>3, <1>4, <1>5, <1>6 DEF Next

\* However many clients share the addon, and whichever attempts, answers and
\* deferred events are late, the text of a session is committed at most once
\* (fcitx.rs:262-281 sends a commit twice; voxtypebridge.cpp:404-496).
THEOREM TextIsCommittedAtMostOnce == Spec => []AtMostOnce
<1>1. Init => OnceInv
  BY OnceInit
<1>2. OnceInv /\ [Next]_vars => OnceInv'
  BY StepKeepsOnce
<1>3. OnceInv => AtMostOnce
  BY DEF OnceInv, UsedUp, AtMostOnce
<1>4. QED
  BY <1>1, <1>2, <1>3, PTL DEF Spec

-----------------------------------------------------------------------------
(***************************************************************************)
(* The right context, for an event loop that runs a deferred event before  *)
(* it reads another datagram: the commit that waits then is of the session *)
(* that is armed, and the armed context the one that was armed for it.     *)
(* That a session is not armed anew after its commit is OnceInv.           *)
(***************************************************************************)
InPlace(c) ==
  /\ addon.session = c => addon.context \in {armedIn[c], NoContext}
  /\ addon.pending.client = c => addon.session = c
  /\ \A i \in 1..Len(landed[c]) : landed[c][i] = armedIn[c]

PlaceInv == OnceInv /\ \A c \in Clients : InPlace(c)

LEMMA PlaceInit ==
  ASSUME Init
  PROVE  PlaceInv
<1>1. OnceInv
  BY OnceInit
<1>2. \A c \in Clients : addon.session # c /\ addon.pending.client # c
  BY BridgeAssumption DEF Init, InitialAddon, NoCommit
<1>3. \A c \in Clients : Len(landed[c]) = 0
  BY DEF Init
<1>4. QED
  BY <1>1, <1>2, <1>3 DEF PlaceInv, InPlace

\* Whoever leaves contexts and texts alone, and gives the addon no other
\* session or commit, keeps texts in their place.
LEMMA LosingKeepsPlace ==
  ASSUME PlaceInv, UNCHANGED <<armedIn, landed>>,
         \/ addon' = addon
         \/ addon'.session = NoClient /\ addon'.pending = NoCommit
         \/ addon' = [addon EXCEPT !.context = NoContext]
  PROVE  \A c \in Clients : InPlace(c)'
<1>1. addon \in Addons
  BY DEF PlaceInv, OnceInv, TypeOK, Addons
<1>2. CASE addon' = addon
  BY <1>2 DEF PlaceInv, InPlace
<1>3. CASE addon'.session = NoClient /\ addon'.pending = NoCommit
  <2>1. \A c \in Clients : addon'.session # c /\ addon'.pending.client # c
    BY <1>3, BridgeAssumption DEF NoCommit
  <2>2. QED
    BY <2>1 DEF PlaceInv, InPlace
<1>4. CASE addon' = [addon EXCEPT !.context = NoContext]
  <2>1. /\ addon'.session = addon.session /\ addon'.pending = addon.pending
        /\ addon'.context = NoContext
    BY <1>1, <1>4 DEF Addons
  <2>2. QED
    BY <2>1 DEF PlaceInv, InPlace
<1>5. QED
  BY <1>2, <1>3, <1>4

LEMMA AddonKeepsPlace ==
  ASSUME PlaceInv, DeferredFirst, Addon
  PROVE  \A c \in Clients : InPlace(c)'
<1>1. /\ addon \in Addons /\ queue \in Seq(Attempts)
      /\ landed \in [Clients -> Seq(Contexts)]
      /\ armedIn \in [Clients -> Contexts \cup {NoContext}]
  BY DEF PlaceInv, OnceInv, TypeOK, Addons
<1>2. ASSUME NEW m \in Attempts, ReceiveArm(m) PROVE \A c \in Clients : InPlace(c)'
  <2>1. CASE UNCHANGED <<addon, armedIn>>
    BY <1>2, <2>1, LosingKeepsPlace DEF ReceiveArm
  <2>2. CASE /\ addon' = [addon EXCEPT !.context = focus, !.session = m.client]
             /\ armedIn' = [armedIn EXCEPT ![m.client] = focus]
    <3>1. /\ addon'.session = m.client /\ addon'.context = focus
          /\ addon'.pending = NoCommit
      BY <1>1, <1>2, <2>2 DEF ReceiveArm, Reads, Addons
    <3>2. m = ArmOf(m.client) /\ m.client \in Clients
      BY <1>2 DEF ReceiveArm, ArmOf, Attempts
    <3>3. 1 \in 1..Len(queue) /\ queue[1] = m
      BY <1>1, <1>2 DEF ReceiveArm, Reads
    <3>4. landed[m.client] = <<>>
      BY <3>2, <3>3 DEF PlaceInv, OnceInv, UsedUp
    <3>5. ASSUME NEW c \in Clients PROVE InPlace(c)'
      <4>1. landed' = landed /\ addon'.pending.client # c
        BY <1>2, <3>1, BridgeAssumption DEF ReceiveArm, NoCommit
      <4>2. CASE c = m.client
        <5>1. armedIn'[c] = focus /\ 1..Len(landed'[c]) = {}
          BY <1>1, <2>2, <3>2, <3>4, <4>1, <4>2
        <5>2. QED
          BY <3>1, <4>1, <5>1 DEF InPlace
      <4>3. CASE c # m.client
        <5>1. armedIn'[c] = armedIn[c] /\ addon'.session # c
          BY <1>1, <2>2, <3>1, <4>3
        <5>2. QED
          BY <4>1, <5>1 DEF PlaceInv, InPlace
      <4>4. QED
        BY <4>2, <4>3
    <3>6. QED
      BY <3>5
  <2>3. QED
    BY <1>2, <2>1, <2>2 DEF ReceiveArm
<1>3. ASSUME NEW m \in Attempts, ReceiveCommit(m) PROVE \A c \in Clients : InPlace(c)'
  <2>1. \/ addon' = addon
        \/ addon' = Cleared(addon)
        \/ addon' = [addon EXCEPT !.pending = m] /\ addon.session = m.client
    <3>1. addon.pending = NoCommit
      BY <1>3 DEF ReceiveCommit, Reads
    <3>2. addon.pending.client # m.client
      BY <3>1, BridgeAssumption DEF NoCommit, Attempts
    <3>3. QED
      BY <1>3, <3>2 DEF ReceiveCommit
  <2>2. CASE addon' = addon
    BY <1>3, <2>2, LosingKeepsPlace DEF ReceiveCommit, history
  <2>3. CASE addon' = Cleared(addon)
    <3>1. addon'.session = NoClient /\ addon'.pending = NoCommit
      BY <1>1, <2>3 DEF Cleared, Addons
    <3>2. QED
      BY <1>3, <3>1, LosingKeepsPlace DEF ReceiveCommit, history
  <2>4. CASE addon' = [addon EXCEPT !.pending = m] /\ addon.session = m.client
    <3>1. /\ addon'.session = addon.session /\ addon'.context = addon.context
          /\ addon'.pending = m
      BY <1>1, <2>4 DEF Addons
    <3>2. UNCHANGED <<armedIn, landed>>
      BY <1>3 DEF ReceiveCommit, history
    <3>3. QED
      BY <2>4, <3>1, <3>2 DEF PlaceInv, InPlace
  <2>5. QED
    BY <2>1, <2>2, <2>3, <2>4
<1>4. ASSUME NEW m \in Attempts, ReceiveCancel(m) PROVE \A c \in Clients : InPlace(c)'
  <2>1. CASE addon' = addon
    BY <1>4, <2>1, LosingKeepsPlace DEF ReceiveCancel, history
  <2>2. CASE addon' = Cleared(addon)
    <3>1. addon'.session = NoClient /\ addon'.pending = NoCommit
      BY <1>1, <2>2 DEF Cleared, Addons
    <3>2. QED
      BY <1>4, <3>1, LosingKeepsPlace DEF ReceiveCancel, history
  <2>3. QED
    BY <1>4, <2>1, <2>2 DEF ReceiveCancel
<1>5. ASSUME Deferred, NEW c \in Clients PROVE InPlace(c)'
  <2>1. /\ addon'.session = NoClient /\ addon'.pending = NoCommit
        /\ armedIn' = armedIn
    BY <1>1, <1>5 DEF Deferred, AfterCommit, Cleared, Addons
  <2>2. addon'.session # c /\ addon'.pending.client # c
    BY <2>1, BridgeAssumption DEF NoCommit
  <2>3. CASE landed'[c] = landed[c]
    BY <2>1, <2>2, <2>3 DEF PlaceInv, InPlace
  <2>4. CASE landed'[c] # landed[c]
    <3>1. /\ addon.pending.client = c /\ Usable(addon.context)
          /\ landed'[c] = Append(landed[c], addon.context)
      BY <1>1, <1>5, <2>4 DEF Deferred
    <3>2. addon.context = armedIn[c]
      BY <3>1 DEF PlaceInv, InPlace, Usable
    <3>3. landed[c] \in Seq(Contexts)
      BY <1>1
    <3>4. /\ Len(landed'[c]) = Len(landed[c]) + 1 /\ Len(landed[c]) \in Nat
          /\ landed'[c][Len(landed[c]) + 1] = armedIn[c]
          /\ \A i \in 1..Len(landed[c]) : landed'[c][i] = landed[c][i]
      BY <3>1, <3>2, <3>3
    <3>5. \A i \in 1..Len(landed'[c]) : landed'[c][i] = armedIn[c]
      BY <3>4 DEF PlaceInv, InPlace
    <3>6. QED
      BY <2>1, <2>2, <3>5 DEF InPlace
  <2>5. QED
    BY <2>3, <2>4
<1>6. QED
  BY <1>2, <1>3, <1>4, <1>5 DEF Addon, Receive

LEMMA StepKeepsPlace ==
  ASSUME PlaceInv, DeferredFirst, [Next]_vars
  PROVE  PlaceInv'
<1>1. OnceInv'
  BY StepKeepsOnce DEF PlaceInv
<1>2. CASE UNCHANGED vars
  BY <1>1, <1>2, LosingKeepsPlace DEF vars, PlaceInv
<1>3. ASSUME NEW d \in Clients, Arm(d) \/ Commit(d) \/ Cancel(d) \/ Continues(d)
      PROVE  PlaceInv'
  <2>1. UNCHANGED <<addon, armedIn, landed>>
    BY <1>3 DEF Arm, Commit, Cancel, Continues, ArmAnswered, ArmTimesOut, Retry, GiveUp,
                CommitSucceeds, CommitRejected, CancelEnds, history
  <2>2. QED
    BY <1>1, <2>1, LosingKeepsPlace DEF PlaceInv
<1>4. CASE Addon
  BY <1>1, <1>4, AddonKeepsPlace DEF PlaceInv
<1>5. CASE \/ FocusMoves \/ FcitxStops \/ FcitxStarts
           \/ \E x \in Contexts : SecurityChanges(x) \/ ContextCloses(x)
  <2>1. UNCHANGED <<armedIn, landed>>
    BY <1>5 DEF FocusMoves, FcitxStops, FcitxStarts, SecurityChanges, ContextCloses, clients
  <2>2. \/ addon' = addon \/ addon' = InitialAddon
        \/ addon' = [addon EXCEPT !.context = NoContext]
    BY <1>5 DEF FocusMoves, FcitxStops, FcitxStarts, SecurityChanges, ContextCloses
  <2>3. addon' = InitialAddon => addon'.session = NoClient /\ addon'.pending = NoCommit
    BY DEF InitialAddon
  <2>4. QED
    BY <1>1, <2>1, <2>2, <2>3, LosingKeepsPlace DEF PlaceInv
<1>6. QED
  BY <1>2, <1>3, <1>4, <1>5 DEF Next

\* If deferred events come first, a text is committed only to the context that
\* was armed for its session (fcitx.rs:122), whoever else arms the addon.
THEOREM TextGoesToTheArmedContext ==
  ASSUME DeferredFirst
  PROVE  Spec => []OnlyInArmedContext
<1>1. Init => PlaceInv
  BY PlaceInit
<1>2. PlaceInv /\ [Next]_vars => PlaceInv'
  BY StepKeepsPlace
<1>3. PlaceInv => OnlyInArmedContext
  BY DEF PlaceInv, InPlace, OnlyInArmedContext
<1>4. QED
  BY <1>1, <1>2, <1>3, PTL DEF Spec

-----------------------------------------------------------------------------
(***************************************************************************)
(* The daemon alone.  Its lock lets one session talk at a time, so that    *)
(* the datagrams under way are in an order: behind a commit there are only *)
(* other attempts of it and its cancellation, and when an arm is answered, *)
(* all that earlier sessions have sent is read.  What the addon answers is *)
(* then about the session that asked.                                      *)
(***************************************************************************)
Request(c, s) == [client |-> c, step |-> s]
Commits == {"first", "second"}

\* The requests that a client has still to send.
Ahead(s) ==
  CASE s = "idle" -> Talking
    [] s \in {"arming", "armed", "stale"} -> {"first", "second", "cancelling"}
    [] s = "first"  -> {"second", "cancelling"}
    [] s = "second" -> {"cancelling"}
    [] OTHER -> {}

\* Every request is sent once; what waits in the addon is a commit.
Distinct ==
  /\ \A i, j \in 1..Len(queue) : queue[i] = queue[j] => i = j
  /\ \A i \in 1..Len(queue) :
       queue[i] # addon.pending /\ queue[i].step \notin Ahead(step[queue[i].client])
  /\ addon.pending # NoCommit =>
       /\ addon.pending.step \in Commits
       /\ addon.pending.step \notin Ahead(step[addon.pending.client])

\* One client talks at a time, and one at most has an arm.
Exclusive ==
  \A c, d \in Clients : c # d =>
    /\ step[c] \in Talking => step[d] \notin Talking
    /\ step[c] \in {"armed", "stale"} \cup Commits => step[d] \notin {"armed", "stale"} \cup Commits
    /\ step[c] = "arming" => step[d] # "armed"

\* The request of the client that talks is the last one, until it is read.
Newest ==
  \A c \in Clients :
    /\ step[c] \in Talking /\ queue # <<>> =>
         queue[Len(queue)] = Request(c, step[c]) /\ inbox[c] = "none"
    /\ step[c] = "armed" => queue = <<>>
    /\ step[c] \in Commits =>
         \A i \in 1..Len(queue) : queue[i].client = c /\ queue[i].step \in Commits

\* A commit of c is followed by nothing but others of c, or by its cancellation.
Followed(c, n) ==
  \/ step[c] \in Commits
  \/ \E j \in n..Len(queue) :
       /\ queue[j] = Request(c, "cancelling")
       /\ \A i \in n..(j - 1) : queue[i].client = c /\ queue[i].step \in Commits

\* A commit that waits is of the armed session, and its end is foreseeable.
CommitsEnd ==
  /\ \A i \in 1..Len(queue) : queue[i].step \in Commits => Followed(queue[i].client, i + 1)
  /\ addon.pending # NoCommit =>
       addon.session = addon.pending.client /\ Followed(addon.pending.client, 1)

\* Without Fcitx there is nothing under way.
Gone == ~ up => queue = <<>> /\ addon.pending = NoCommit

\* An answered cancellation is not under way any more.
Withdrawn ==
  \A c \in Clients : step[c] = "withdrawn" =>
    \A i \in 1..Len(queue) : queue[i] # Request(c, "cancelling")

\* The addon holds the arm that it has acknowledged.
Held ==
  restarts = 0 =>
    \A c \in Clients :
      step[c] = "armed" \/ (step[c] = "arming" /\ inbox[c] = "ok") => addon.session = c

\* Wherever a success is on its way to a client, its text is committed.
AcksAreTrue ==
  \A c \in Clients :
    /\ inbox[c] = "ok" /\ step[c] \in Commits => landed[c] # <<>>
    /\ addon.completed = [client |-> c, answer |-> "ok"] => landed[c] # <<>>
    /\ result[c] = "dispatched" => landed[c] # <<>>

\* The text of c is not committed any more.
Over(c) ==
  /\ landed[c] = <<>> /\ Unknown(c)
  /\ step[c] # "idle" /\ \A i \in 1..Len(queue) : queue[i] # ArmOf(c)

\* Wherever a refusal is, its text is not; and once it is committed, the addon
\* remembers that for the retry.
RefusalsAreTrue ==
  \A c \in Clients :
    /\ addon.completed = [client |-> c, answer |-> "refused"] => Over(c)
    /\ restarts = 0 =>
         /\ inbox[c] = "refused" /\ step[c] \in Commits => Over(c)
         /\ result[c] = "rejected" => Over(c)
         /\ landed[c] # <<>> /\ step[c] \in Commits => addon.completed.client = c

Ordered == Distinct /\ Exclusive /\ Newest /\ CommitsEnd /\ Gone /\ Withdrawn

SerialInv == OnceInv /\ Ordered /\ Held /\ AcksAreTrue /\ RefusalsAreTrue

\* The cases of Ahead.
LEMMA AheadIs ==
  /\ Ahead("idle") = Talking
  /\ \A s \in {"arming", "armed", "stale"} : Ahead(s) = {"first", "second", "cancelling"}
  /\ Ahead("first") = {"second", "cancelling"} /\ Ahead("second") = {"cancelling"}
  /\ \A s \in {"cancelling", "ended", "withdrawn"} : Ahead(s) = {}
BY DEF Ahead, Talking

LEMMA RequestIs ==
  ASSUME NEW m \in Attempts
  PROVE  /\ m = Request(m.client, m.step) /\ m # NoCommit
         /\ m.client \in Clients /\ m.step \in Talking
BY BridgeAssumption DEF Attempts, Request, NoCommit

LEMMA RequestFields ==
  ASSUME NEW c \in Clients, NEW s \in Talking
  PROVE  /\ Request(c, s) \in Attempts
         /\ Request(c, s).client = c /\ Request(c, s).step = s
         /\ ArmOf(c) = Request(c, "arming")
BY DEF Attempts, Request, ArmOf

\* A request is put at the end of the queue, or lost because Fcitx is gone.
LEMMA SendAppends ==
  ASSUME TypeOK, Gone, NEW c \in Clients, NEW s \in Talking, Send(c, s)
  PROVE  /\ Len(queue) \in Nat /\ Len(queue') \in Nat
         /\ \A i \in 1..Len(queue) : i \in 1..Len(queue') /\ queue'[i] = queue[i]
         /\ \A i \in 1..Len(queue') : i \notin 1..Len(queue) =>
              i = Len(queue) + 1 /\ i = Len(queue') /\ queue'[i] = Request(c, s)
         /\ queue' # <<>> => queue'[Len(queue')] = Request(c, s) /\ Len(queue') = Len(queue) + 1
         /\ up => queue' # <<>>
<1>1. queue \in Seq(Attempts) /\ Request(c, s) \in Attempts
  BY RequestFields DEF TypeOK
<1>2. CASE up
  <2>1. queue' = Append(queue, Request(c, s))
    BY <1>2 DEF Send, Request
  <2>2. QED
    BY <1>1, <2>1
<1>3. CASE ~ up
  BY <1>1, <1>3 DEF Gone, Send
<1>4. QED
  BY <1>2, <1>3

\* Reading shifts the queue by one.
LEMMA ReadTakesFirst ==
  ASSUME TypeOK, NEW m \in Attempts, Reads(m)
  PROVE  /\ Len(queue) \in Nat \ {0} /\ queue[1] = m
         /\ Len(queue') = Len(queue) - 1
         /\ \A i \in 1..Len(queue') : i + 1 \in 1..Len(queue) /\ queue'[i] = queue[i + 1]
         /\ queue' # <<>> => Len(queue') \in 1..Len(queue')
BY DEF TypeOK, Reads

-----------------------------------------------------------------------------
\* A client goes on with its next request.
LEMMA SendKeepsOrder ==
  ASSUME TypeOK, Ordered, NEW c \in Clients, NEW s \in Talking, Send(c, s),
         step' \in [Clients -> Steps], step'[c] = s, UNCHANGED <<up, addon>>,
         \/ s = "arming" /\ step[c] = "idle"
         \/ s = "first"  /\ step[c] = "armed"
         \/ s = "second" /\ step[c] = "first"
         \/ s = "cancelling" /\ step[c] \in {"armed", "stale", "first", "second"},
         \A d \in Clients \ {c} :
           /\ step[d] \notin Talking
           /\ \/ step'[d] = step[d] /\ (s = "arming" => step[d] # "armed")
              \/ s = "arming" /\ step[d] = "armed" /\ step'[d] = "stale"
  PROVE  Ordered'
<1>1. /\ Len(queue) \in Nat /\ Len(queue') \in Nat
      /\ \A i \in 1..Len(queue) : i \in 1..Len(queue') /\ queue'[i] = queue[i]
      /\ \A i \in 1..Len(queue') : i \notin 1..Len(queue) =>
           i = Len(queue) + 1 /\ i = Len(queue') /\ queue'[i] = Request(c, s)
      /\ queue' # <<>> => queue'[Len(queue')] = Request(c, s) /\ Len(queue') = Len(queue) + 1
      /\ up => queue' # <<>>
  BY SendAppends DEF Ordered
<1>2. /\ Request(c, s) \in Attempts /\ Request(c, s) # NoCommit
      /\ Request(c, s).client = c /\ Request(c, s).step = s
  BY RequestFields, RequestIs
<1>3. s \in Ahead(step[c]) /\ s \notin Ahead(s) /\ Ahead(s) \subseteq Ahead(step[c])
  BY AheadIs DEF Talking
<1>4. \A d \in Clients : Ahead(step'[d]) \subseteq Ahead(step[d])
  BY <1>3, AheadIs
<1>5. \A i \in 1..Len(queue) : queue[i] \in Attempts /\ queue[i].client \in Clients
  BY RequestIs DEF TypeOK
<1>6. \A i \in 1..Len(queue) : queue[i] # Request(c, s)
  BY <1>2, <1>3 DEF Ordered, Distinct
<1>7. addon.pending # Request(c, s) /\ (addon.pending # NoCommit => addon.pending \in Attempts)
  BY <1>2, <1>3 DEF Ordered, Distinct, TypeOK
<1>8. Distinct'
  <2>1. \A i, j \in 1..Len(queue') : queue'[i] = queue'[j] => i = j
    BY <1>1, <1>6 DEF Ordered, Distinct
  <2>2. \A i \in 1..Len(queue') :
          queue'[i] # addon'.pending /\ queue'[i].step \notin Ahead(step'[queue'[i].client])
    BY <1>1, <1>2, <1>3, <1>4, <1>5, <1>7 DEF Ordered, Distinct
  <2>3. addon'.pending # NoCommit =>
          /\ addon'.pending.step \in Commits
          /\ addon'.pending.step \notin Ahead(step'[addon'.pending.client])
    BY <1>4, <1>7, RequestIs DEF Ordered, Distinct
  <2>4. QED
    BY <2>1, <2>2, <2>3 DEF Distinct
<1>9. Exclusive'
  BY DEF Ordered, Exclusive, Talking, Commits
<1>10. Newest'
  <2>1. inbox' \in [Clients -> Replies \cup {"none"}] /\ inbox'[c] = "none"
    BY DEF Send, TypeOK
  <2>2. ASSUME NEW d \in Clients, d # c
        PROVE  step'[d] \notin Talking /\ (step'[d] = "armed" => step[c] \notin {"armed", "stale", "first", "second"} /\ s # "arming")
    BY <2>2 DEF Ordered, Exclusive, Talking, Commits
  <2>3. s \in Commits => \A i \in 1..Len(queue') : queue'[i].client = c /\ queue'[i].step \in Commits
    BY <1>1, <1>2 DEF Ordered, Newest, Commits
  <2>4. QED
    BY <1>1, <2>1, <2>2, <2>3 DEF Newest, Talking, Commits
<1>11. CommitsEnd'
  <2>1. ASSUME NEW d \in Clients, NEW n \in Nat, n >= 1, n <= Len(queue) + 1, Followed(d, n), queue # <<>> \/ up
        PROVE  Followed(d, n)'
    <3>1. CASE step[d] \in Commits /\ step'[d] \notin Commits
      <4>1. d = c /\ s = "cancelling"
        BY <3>1 DEF Talking, Commits
      <4>2. queue' # <<>> /\ Len(queue') = Len(queue) + 1 /\ queue'[Len(queue')] = Request(d, "cancelling")
        BY <1>1, <2>1, <4>1
      <4>3. \A i \in n..(Len(queue') - 1) : queue'[i].client = d /\ queue'[i].step \in Commits
        <5>1. \A i \in 1..Len(queue) : queue[i].client = d /\ queue[i].step \in Commits
          BY <3>1, <4>1 DEF Ordered, Newest
        <5>2. \A i \in n..(Len(queue') - 1) : i \in 1..Len(queue) /\ queue'[i] = queue[i]
          BY <1>1, <2>1, <4>2
        <5>3. QED
          BY <5>1, <5>2
      <4>4. Len(queue') \in n..Len(queue')
        BY <1>1, <2>1, <4>2
      <4>5. QED
        BY <4>2, <4>3, <4>4 DEF Followed, Request
    <3>2. CASE step'[d] \in Commits
      BY <3>2 DEF Followed
    <3>3. CASE step[d] \notin Commits
      <4>1. PICK j \in n..Len(queue) :
              /\ queue[j] = Request(d, "cancelling")
              /\ \A i \in n..(j - 1) : queue[i].client = d /\ queue[i].step \in Commits
        BY <2>1, <3>3 DEF Followed
      <4>2. /\ j \in n..Len(queue') /\ queue'[j] = Request(d, "cancelling")
            /\ \A i \in n..(j - 1) : queue'[i] = queue[i]
        BY <1>1, <2>1, <4>1
      <4>3. QED
        BY <4>1, <4>2 DEF Followed, Request
    <3>4. QED
      BY <3>1, <3>2, <3>3
  <2>2. ASSUME NEW i \in 1..Len(queue'), NEW d \in Clients, queue'[i].client = d,
               queue'[i].step \in Commits
        PROVE  Followed(d, i + 1)'
    <3>1. CASE i \in 1..Len(queue)
      <4>1. queue[i].client = d /\ queue[i].step \in Commits /\ queue # <<>>
        BY <1>1, <2>2, <3>1
      <4>2. Followed(d, i + 1)
        BY <3>1, <4>1 DEF Ordered, CommitsEnd
      <4>3. i + 1 \in Nat /\ i + 1 >= 1 /\ i + 1 <= Len(queue) + 1
        BY <1>1, <3>1
      <4>4. QED
        BY <2>1, <4>1, <4>2, <4>3
    <3>2. CASE i \notin 1..Len(queue)
      BY <1>1, <1>2, <2>2, <3>2 DEF Followed
    <3>3. QED
      BY <3>1, <3>2
  <2>3. ASSUME addon.pending # NoCommit, NEW d \in Clients, addon.pending.client = d
        PROVE  addon.session = d /\ Followed(d, 1)'
    <3>1. up
      BY <2>3 DEF Ordered, Gone
    <3>2. addon.session = d /\ Followed(d, 1)
      BY <2>3 DEF Ordered, CommitsEnd
    <3>3. QED
      BY <1>1, <2>1, <3>1, <3>2
  <2>4. QED
    <3>1. \A i \in 1..Len(queue') : queue'[i].client \in Clients
      BY <1>1, <1>2, <1>5
    <3>2. addon.pending # NoCommit => addon.pending.client \in Clients
      BY <1>7, RequestIs
    <3>3. QED
      BY <2>2, <2>3, <3>1, <3>2 DEF CommitsEnd
<1>12. Gone'
  BY DEF Ordered, Gone, Send
<1>13. Withdrawn'
  BY <1>1, <1>2, RequestFields DEF Ordered, Withdrawn, Talking
<1>14. QED
  BY <1>8, <1>9, <1>10, <1>11, <1>12, <1>13 DEF Ordered

\* An exchange ends without another request.
LEMMA EndKeepsOrder ==
  ASSUME TypeOK, Ordered, NEW c \in Clients, step[c] \in Talking,
         step' \in [Clients -> Steps], UNCHANGED <<up, addon, queue>>,
         step'[c] \in {"armed", "ended", "withdrawn"},
         step'[c] # "ended" => queue = <<>>,
         step'[c] = "armed" => step[c] = "arming" /\ \A d \in Clients \ {c} : step'[d] # "stale",
         step[c] \in Commits => queue = <<>> /\ addon.pending.client # c,
         \A d \in Clients \ {c} :
           /\ inbox'[d] = inbox[d]
           /\ step'[d] = step[d] \/ (step[d] = "stale" /\ step'[d] = "ended")
  PROVE  Ordered'
<1>1. /\ Len(queue) \in Nat
      /\ \A i \in 1..Len(queue) : queue[i] \in Attempts /\ queue[i].client \in Clients
      /\ addon.pending # NoCommit => addon.pending.client \in Clients
  BY RequestIs DEF TypeOK
<1>2. \A d \in Clients : Ahead(step'[d]) \subseteq Ahead(step[d])
  BY AheadIs DEF Talking
<1>3. Distinct'
  BY <1>1, <1>2 DEF Ordered, Distinct
<1>4. Exclusive'
  BY DEF Ordered, Exclusive, Talking, Commits
<1>5. Newest'
  BY DEF Ordered, Newest, Talking, Commits
<1>6. ASSUME NEW d \in Clients, NEW n \in Nat, Followed(d, n), ~ (d = c /\ step[c] \in Commits)
      PROVE  Followed(d, n)'
  BY <1>6 DEF Followed, Request, Commits
<1>7. CommitsEnd'
  <2>1. ASSUME NEW i \in 1..Len(queue), NEW d \in Clients, queue[i].client = d,
               queue[i].step \in Commits
        PROVE  Followed(d, i + 1)'
    <3>1. Followed(d, i + 1) /\ queue # <<>> /\ i + 1 \in Nat
      BY <1>1, <2>1 DEF Ordered, CommitsEnd
    <3>2. QED
      BY <1>6, <3>1
  <2>2. ASSUME addon.pending # NoCommit, NEW d \in Clients, addon.pending.client = d
        PROVE  addon.session = d /\ Followed(d, 1)'
    <3>1. addon.session = d /\ Followed(d, 1)
      BY <2>2 DEF Ordered, CommitsEnd
    <3>2. QED
      BY <1>6, <2>2, <3>1
  <2>3. QED
    BY <1>1, <2>1, <2>2 DEF CommitsEnd
<1>8. Gone'
  BY DEF Ordered, Gone
<1>9. Withdrawn'
  <2>1. ASSUME NEW d \in Clients, step'[d] = "withdrawn" PROVE d = c \/ step[d] = "withdrawn"
    BY <2>1
  <2>2. ASSUME NEW d \in Clients, NEW i \in 1..Len(queue), step'[d] = "withdrawn"
        PROVE  queue[i] # Request(d, "cancelling")
    BY <2>1, <2>2, <1>1 DEF Ordered, Withdrawn
  <2>3. QED
    BY <2>2 DEF Withdrawn, Request
<1>10. QED
  BY <1>3, <1>4, <1>5, <1>7, <1>8, <1>9 DEF Ordered

\* The addon has read m; a commit waits then that has waited before, or m itself.
LEMMA ReadKeepsOrder ==
  ASSUME TypeOK, Ordered, NEW m \in Attempts, Reads(m), UNCHANGED <<step, up>>,
         inbox' = inbox \/ \E a : Reply(m.client, m.step, a),
         \/ addon'.pending = NoCommit
         \/ addon'.pending = m /\ m.step \in Commits /\ addon'.session = m.client
         \/ /\ addon'.pending = addon.pending /\ addon'.session = addon.session
            /\ m # Request(addon.pending.client, "cancelling")
  PROVE  Ordered'
<1>1. /\ Len(queue) \in Nat \ {0} /\ queue[1] = m
      /\ Len(queue') = Len(queue) - 1
      /\ \A i \in 1..Len(queue') : i + 1 \in 1..Len(queue) /\ queue'[i] = queue[i + 1]
      /\ queue' # <<>> => Len(queue') \in 1..Len(queue')
  BY ReadTakesFirst
<1>2. /\ m = Request(m.client, m.step) /\ m # NoCommit /\ m.client \in Clients
      /\ \A i \in 1..Len(queue') : queue'[i].client \in Clients
      /\ addon.pending # NoCommit => addon.pending.client \in Clients
  BY <1>1, RequestIs DEF TypeOK
<1>3. Distinct'
  <2>1. \A i, j \in 1..Len(queue') : queue'[i] = queue'[j] => i = j
    BY <1>1 DEF Ordered, Distinct
  <2>2. \A i \in 1..Len(queue') : queue'[i] # m /\ queue'[i] # addon.pending
    BY <1>1 DEF Ordered, Distinct
  <2>3. \A i \in 1..Len(queue') : queue'[i] # NoCommit
    BY <1>1, RequestIs DEF TypeOK
  <2>4. \A i \in 1..Len(queue') : queue'[i].step \notin Ahead(step'[queue'[i].client])
    BY <1>1 DEF Ordered, Distinct
  <2>5. m.step \notin Ahead(step[m.client])
    BY <1>1 DEF Ordered, Distinct
  <2>6. addon'.pending # NoCommit =>
          /\ addon'.pending.step \in Commits
          /\ addon'.pending.step \notin Ahead(step'[addon'.pending.client])
    BY <2>5 DEF Ordered, Distinct
  <2>7. QED
    BY <2>1, <2>2, <2>3, <2>4, <2>6 DEF Distinct
<1>4. Exclusive'
  BY DEF Ordered, Exclusive
<1>5. Newest'
  <2>1. ASSUME NEW c \in Clients, step[c] \in Talking, queue' # <<>>
        PROVE  queue'[Len(queue')] = Request(c, step[c]) /\ inbox'[c] = "none"
    <3>1. /\ queue'[Len(queue')] = queue[Len(queue)] /\ queue # <<>> /\ Len(queue) # 1
      BY <1>1, <2>1
    <3>2. queue[Len(queue)] = Request(c, step[c]) /\ inbox[c] = "none"
      BY <2>1, <3>1 DEF Ordered, Newest
    <3>3. m # Request(c, step[c])
      BY <1>1, <3>1, <3>2 DEF Ordered, Distinct
    <3>4. inbox'[c] = inbox[c]
      BY <1>2, <3>3 DEF Reply, TypeOK
    <3>5. QED
      BY <3>1, <3>2, <3>4
  <2>2. \A c \in Clients : step[c] # "armed"
    BY <1>1 DEF Ordered, Newest
  <2>3. \A c \in Clients : step[c] \in Commits =>
          \A i \in 1..Len(queue') : queue'[i].client = c /\ queue'[i].step \in Commits
    BY <1>1 DEF Ordered, Newest
  <2>4. QED
    BY <2>1, <2>2, <2>3 DEF Newest, Request
<1>6. ASSUME NEW c \in Clients, NEW n \in Nat, n >= 1, Followed(c, n + 1)
      PROVE  Followed(c, n)'
  <2>1. CASE step[c] \in Commits
    BY <2>1 DEF Followed
  <2>2. CASE step[c] \notin Commits
    <3>1. PICK j \in (n + 1)..Len(queue) :
            /\ queue[j] = Request(c, "cancelling")
            /\ \A i \in (n + 1)..(j - 1) : queue[i].client = c /\ queue[i].step \in Commits
      BY <1>6, <2>2 DEF Followed
    <3>2. j - 1 \in n..Len(queue') /\ queue'[j - 1] = Request(c, "cancelling")
      BY <1>1, <1>6, <3>1
    <3>3. \A i \in n..(j - 1 - 1) : i + 1 \in (n + 1)..(j - 1) /\ queue'[i] = queue[i + 1]
      BY <1>1, <1>6, <3>1
    <3>4. \A i \in n..(j - 1 - 1) : queue'[i].client = c /\ queue'[i].step \in Commits
      BY <3>1, <3>3
    <3>5. QED
      BY <3>2, <3>4 DEF Followed, Request
  <2>3. QED
    BY <2>1, <2>2
<1>7. CommitsEnd'
  <2>1. ASSUME NEW i \in 1..Len(queue'), NEW c \in Clients, queue'[i].client = c,
               queue'[i].step \in Commits
        PROVE  Followed(c, i + 1)'
    <3>1. i + 1 \in 1..Len(queue) /\ queue[i + 1].client = c /\ queue[i + 1].step \in Commits
      BY <1>1, <2>1
    <3>2. Followed(c, (i + 1) + 1)
      BY <3>1 DEF Ordered, CommitsEnd
    <3>3. i + 1 \in Nat /\ i + 1 >= 1
      BY <1>1
    <3>4. QED
      BY <1>6, <3>2, <3>3
  <2>2. ASSUME addon'.pending = m, m.step \in Commits, addon'.session = m.client,
               NEW c \in Clients, m.client = c
        PROVE  addon'.session = c /\ Followed(c, 1)'
    <3>1. Followed(c, 1 + 1)
      BY <1>1, <2>2 DEF Ordered, CommitsEnd
    <3>2. QED
      BY <1>6, <2>2, <3>1
  <2>3. ASSUME addon'.pending = addon.pending, addon'.session = addon.session,
               m # Request(addon.pending.client, "cancelling"), addon.pending # NoCommit,
               NEW c \in Clients, addon.pending.client = c
        PROVE  addon'.session = c /\ Followed(c, 1)'
    <3>1. addon.session = c /\ Followed(c, 1)
      BY <2>3 DEF Ordered, CommitsEnd
    <3>2. Followed(c, 1 + 1)
      <4>1. CASE step[c] \in Commits
        BY <4>1 DEF Followed
      <4>2. CASE step[c] \notin Commits
        <5>1. PICK j \in 1..Len(queue) :
                /\ queue[j] = Request(c, "cancelling")
                /\ \A i \in 1..(j - 1) : queue[i].client = c /\ queue[i].step \in Commits
          BY <3>1, <4>2 DEF Followed
        <5>2. j # 1
          BY <1>1, <2>3, <5>1
        <5>3. QED
          BY <5>1, <5>2 DEF Followed
      <4>3. QED
        BY <4>1, <4>2
    <3>3. QED
      BY <1>6, <2>3, <3>1, <3>2
  <2>4. QED
    BY <1>2, <2>1, <2>2, <2>3 DEF CommitsEnd
<1>8. Gone'
  BY DEF Ordered, Gone, Reads
<1>9. Withdrawn'
  BY <1>1 DEF Ordered, Withdrawn, Request
<1>10. QED
  BY <1>3, <1>4, <1>5, <1>7, <1>8, <1>9 DEF Ordered

\* Wherever a commit waits, its client has nothing else behind it but its own.
LEMMA WaitingIsFirst ==
  ASSUME TypeOK, Ordered, NEW c \in Clients, addon.pending # NoCommit, addon.pending.client = c
  PROVE  /\ addon.session = c
         /\ \/ step[c] \in Commits
            \/ queue # <<>> /\ queue[1].client = c /\ queue[1].step \in Commits \cup {"cancelling"}
<1>1. addon.session = c /\ Followed(c, 1) /\ Len(queue) \in Nat
  BY DEF Ordered, CommitsEnd, TypeOK
<1>2. CASE step[c] \in Commits
  BY <1>1, <1>2
<1>3. CASE step[c] \notin Commits
  <2>1. PICK j \in 1..Len(queue) :
          /\ queue[j] = Request(c, "cancelling")
          /\ \A i \in 1..(j - 1) : queue[i].client = c /\ queue[i].step \in Commits
    BY <1>1, <1>3 DEF Followed
  <2>2. queue # <<>>
    BY <1>1, <2>1
  <2>3. CASE j = 1
    BY <1>1, <2>1, <2>2, <2>3, RequestFields DEF Talking
  <2>4. CASE j # 1
    BY <1>1, <2>1, <2>2, <2>4
  <2>5. QED
    BY <2>3, <2>4
<1>4. QED
  BY <1>2, <1>3

\* The client that an answer or a deferred event has reached waits no more.
LEMMA AnsweredWaitsNot ==
  ASSUME SerialInv, NEW c \in Clients, step[c] \in Commits, inbox[c] = "ok"
  PROVE  queue = <<>> /\ addon.pending.client # c
<1>1. landed[c] # <<>> /\ UsedUp(c)
  BY DEF SerialInv, AcksAreTrue, OnceInv
<1>2. addon.pending.client # c
  BY <1>1 DEF UsedUp, Unknown
<1>3. queue = <<>>
  BY DEF SerialInv, Ordered, Newest, Talking, Commits
<1>4. QED
  BY <1>2, <1>3

LEMMA ClientKeepsOrder ==
  ASSUME Daemon = Clients, SerialInv, NEW c \in Clients,
         Arm(c) \/ Commit(c) \/ Cancel(c) \/ Continues(c)
  PROVE  Ordered'
<1>1. TypeOK /\ Ordered /\ OldClients = {}
  BY BridgeAssumption DEF SerialInv, OnceInv
<1>2. TypeOK'
  BY <1>1, ClientKeepsTypes
<1>3. step \in [Clients -> Steps] /\ step' \in [Clients -> Steps]
  BY <1>1, <1>2 DEF TypeOK
<1>4. UNCHANGED <<up, addon>>
  BY DEF Arm, Commit, Cancel, Continues, ArmAnswered, ArmTimesOut, Retry, GiveUp, CommitSucceeds,
         CommitRejected, CancelEnds, fcitx
<1>5. step[c] \in Talking => \A d \in Clients \ {c} : step[d] \notin Talking
  BY <1>1 DEF Ordered, Exclusive
<1>6. CASE Arm(c)
  <2>1. /\ Send(c, "arming") /\ step[c] = "idle" /\ step'[c] = "arming"
        /\ \A d \in Clients \ {c} :
             /\ step[d] \notin Talking
             /\ \/ step'[d] = step[d] /\ step[d] # "armed"
                \/ step[d] = "armed" /\ step'[d] = "stale"
    BY <1>3, <1>6 DEF Arm, MayTalk
  <2>2. QED
    BY <1>1, <1>3, <1>4, <2>1, SendKeepsOrder DEF Talking
<1>7. CASE Commit(c) \/ Cancel(c)
  <2>1. PICK s \in {"first", "cancelling"} :
          /\ Send(c, s) /\ step' = [step EXCEPT ![c] = s]
          /\ s = "first" => step[c] = "armed"
          /\ s = "cancelling" => step[c] \in {"armed", "stale"}
          /\ \A d \in Clients : step[d] \notin Talking
    BY <1>7 DEF Commit, Cancel, MayTalk
  <2>2. step'[c] = s /\ \A d \in Clients \ {c} : step'[d] = step[d]
    BY <1>3, <2>1
  <2>3. QED
    BY <1>1, <1>3, <1>4, <2>1, <2>2, SendKeepsOrder DEF Talking
<1>8. CASE Retry(c) \/ GiveUp(c) \/ CommitRejected(c)
             \/ (CommitSucceeds(c) /\ step'[c] = "cancelling")
  <2>1. PICK s \in {"second", "cancelling"} :
          /\ Send(c, s) /\ s = step'[c]
          /\ s = "second" => step[c] = "first"
          /\ step[c] \in Commits
          /\ \A d \in Clients \ {c} : step'[d] = step[d]
    <3>1. CASE Retry(c)
      BY <1>3, <3>1 DEF Retry, Commits
    <3>2. CASE GiveUp(c)
      BY <1>3, <3>2 DEF GiveUp, Commits
    <3>3. CASE CommitSucceeds(c) /\ step'[c] = "cancelling"
      BY <1>3, <3>3 DEF CommitSucceeds, Commits
    <3>4. CASE CommitRejected(c)
      BY <1>3, <3>4 DEF CommitRejected, Commits
    <3>5. QED
      BY <1>8, <3>1, <3>2, <3>3, <3>4
  <2>2. QED
    BY <1>1, <1>3, <1>4, <1>5, <2>1, SendKeepsOrder DEF Talking, Commits
<1>9. CASE ArmAnswered(c)
  <2>1. /\ step[c] = "arming" /\ step[c] \in Talking /\ queue' = queue /\ queue = <<>>
        /\ step'[c] \in {"armed", "ended"}
        /\ step'[c] = "armed" => \A d \in Clients \ {c} : step'[d] # "stale"
        /\ \A d \in Clients \ {c} : /\ inbox'[d] = inbox[d]
                                    /\ step'[d] = step[d] \/ (step[d] = "stale" /\ step'[d] = "ended")
    BY <1>1, <1>3, <1>9 DEF ArmAnswered, Ordered, Newest, Talking, TypeOK
  <2>2. QED
    BY <1>1, <1>3, <1>4, <2>1, EndKeepsOrder DEF Commits
<1>10. CASE ArmTimesOut(c) \/ CancelEnds(c)
  <2>1. /\ step[c] \in Talking \ Commits /\ queue' = queue
        /\ step'[c] \in {"ended", "withdrawn"}
        /\ step'[c] = "withdrawn" => inbox[c] # "none"
        /\ \A d \in Clients \ {c} : inbox'[d] = inbox[d] /\ step'[d] = step[d]
    BY <1>1, <1>3, <1>10 DEF ArmTimesOut, CancelEnds, Talking, Commits, TypeOK
  <2>2. step'[c] # "ended" => queue = <<>>
    BY <1>1, <2>1 DEF Ordered, Newest
  <2>3. QED
    BY <1>1, <1>3, <1>4, <2>1, <2>2, EndKeepsOrder
<1>11. CASE CommitSucceeds(c) /\ step'[c] # "cancelling"
  <2>1. /\ step[c] \in Commits /\ inbox[c] = "ok" /\ queue' = queue
        /\ step'[c] = "ended"
        /\ \A d \in Clients \ {c} : inbox'[d] = inbox[d] /\ step'[d] = step[d]
    BY <1>1, <1>3, <1>11 DEF CommitSucceeds, Commits, TypeOK
  <2>2. QED
    BY <1>1, <1>3, <1>4, <2>1, AnsweredWaitsNot, EndKeepsOrder DEF Talking, Commits
<1>12. QED
  BY <1>6, <1>7, <1>8, <1>9, <1>10, <1>11 DEF Continues

\* The cancellation of a commit that waits is read before the next arm request.
LEMMA NobodyWaitsAtAnArm ==
  ASSUME TypeOK, Ordered, NEW m \in Attempts, Reads(m), m.step = "arming"
  PROVE  addon.pending = NoCommit
<1>1. SUFFICES ASSUME addon.pending # NoCommit PROVE FALSE
  OBVIOUS
<1>2. addon.pending.client \in Clients
  BY <1>1, RequestIs DEF TypeOK
<1>3. queue # <<>> /\ queue[1] = m /\ 1 \in 1..Len(queue)
  BY ReadTakesFirst
<1>4. \/ step[addon.pending.client] \in Commits
      \/ queue[1].step \in Commits \cup {"cancelling"}
  BY <1>1, <1>2, WaitingIsFirst
<1>5. step[addon.pending.client] \in Commits => queue[1].step \in Commits
  BY <1>2, <1>3 DEF Ordered, Newest
<1>6. QED
  BY <1>3, <1>4, <1>5 DEF Commits

LEMMA DeferredKeepsOrder ==
  ASSUME TypeOK, Ordered, Deferred
  PROVE  Ordered'
<1>1. /\ addon.pending \in Attempts /\ addon'.pending = NoCommit
      /\ UNCHANGED <<queue, step, up>>
  BY DEF Deferred, AfterCommit, Cleared, TypeOK, fcitx
<1>2. Len(queue) \in Nat /\ \A i \in 1..Len(queue) : queue[i] \in Attempts /\ queue[i] # NoCommit
  BY RequestIs DEF TypeOK
<1>3. Distinct'
  BY <1>1, <1>2 DEF Ordered, Distinct
<1>4. Exclusive' /\ Gone' /\ Withdrawn'
  BY <1>1 DEF Ordered, Exclusive, Gone, Withdrawn, Request
<1>5. Newest'
  <2>1. ASSUME NEW c \in Clients, step[c] \in Talking, queue # <<>> PROVE inbox'[c] = inbox[c]
    <3>1. queue[Len(queue)] = Request(c, step[c]) /\ Len(queue) \in 1..Len(queue)
      BY <1>2, <2>1 DEF Ordered, Newest
    <3>2. addon.pending # Request(c, step[c])
      BY <3>1 DEF Ordered, Distinct
    <3>3. addon.pending.client # c \/ addon.pending.step # step[c]
      BY <1>1, <3>2, RequestIs
    <3>4. QED
      BY <1>1, <3>3, RequestIs DEF Deferred, Reply, TypeOK
  <2>2. QED
    BY <1>1, <2>1 DEF Ordered, Newest, Request
<1>6. CommitsEnd'
  <2>1. \A c \in Clients, n \in Nat : Followed(c, n) => Followed(c, n)'
    BY <1>1 DEF Followed, Request
  <2>2. ASSUME NEW i \in 1..Len(queue), NEW c \in Clients, queue[i].client = c,
               queue[i].step \in Commits
        PROVE  Followed(c, i + 1)'
    <3>1. Followed(c, i + 1) /\ i + 1 \in Nat
      BY <1>2, <2>2 DEF Ordered, CommitsEnd
    <3>2. QED
      BY <2>1, <3>1
  <2>3. QED
    BY <1>1, <1>2, <2>2, RequestIs DEF CommitsEnd
<1>7. QED
  BY <1>3, <1>4, <1>5, <1>6 DEF Ordered

LEMMA AddonKeepsOrder ==
  ASSUME TypeOK, Ordered, Addon
  PROVE  Ordered'
<1>1. addon \in Addons
  BY DEF TypeOK, Addons
<1>2. \A c \in Clients : c # NoClient
  BY BridgeAssumption
<1>3. Cleared(addon).pending = NoCommit
  BY <1>1 DEF Cleared, Addons
<1>4. ASSUME NEW m \in Attempts, ReceiveArm(m) PROVE Ordered'
  <2>1. Reads(m) /\ m.step = "arming" /\ UNCHANGED <<step, up>>
    BY <1>4 DEF ReceiveArm, fcitx
  <2>2. addon.pending = NoCommit
    BY <2>1, NobodyWaitsAtAnArm
  <2>3. addon'.pending = NoCommit
    BY <1>1, <1>4, <2>2 DEF ReceiveArm, Addons
  <2>4. \E a : Reply(m.client, m.step, a)
    BY <1>4 DEF ReceiveArm
  <2>5. QED
    BY <2>1, <2>3, <2>4, ReadKeepsOrder
<1>5. ASSUME NEW m \in Attempts, ReceiveCommit(m) PROVE Ordered'
  <2>1. Reads(m) /\ m.step \in Commits /\ m.client \in Clients /\ UNCHANGED <<step, up>>
    BY <1>5, RequestIs DEF ReceiveCommit, fcitx, Commits
  <2>2. inbox' = inbox \/ \E a : Reply(m.client, m.step, a)
    BY <1>5 DEF ReceiveCommit
  <2>3. \/ addon' = addon
        \/ addon' = Cleared(addon)
        \/ addon' = [addon EXCEPT !.pending = m] /\ addon.pending.client = m.client
        \/ addon' = [addon EXCEPT !.pending = m] /\ addon.session = m.client
    BY <1>5 DEF ReceiveCommit
  <2>4. addon.pending.client = m.client => addon.session = m.client
    <3>1. addon.pending.client = m.client => addon.pending # NoCommit
      BY <1>2, <2>1 DEF NoCommit
    <3>2. QED
      BY <3>1 DEF Ordered, CommitsEnd
  <2>5. m # Request(addon.pending.client, "cancelling")
    BY <2>1 DEF Request, Commits
  <2>6. \/ addon'.pending = NoCommit
        \/ addon'.pending = m /\ addon'.session = m.client
        \/ addon'.pending = addon.pending /\ addon'.session = addon.session
    BY <1>1, <1>3, <2>3, <2>4 DEF Addons
  <2>7. QED
    BY <2>1, <2>2, <2>5, <2>6, ReadKeepsOrder
<1>6. ASSUME NEW m \in Attempts, ReceiveCancel(m) PROVE Ordered'
  <2>1. Reads(m) /\ m.client \in Clients /\ UNCHANGED <<step, up>>
    BY <1>6, RequestIs DEF ReceiveCancel, fcitx
  <2>2. \E a : Reply(m.client, m.step, a)
    BY <1>6 DEF ReceiveCancel
  <2>3. CASE addon' = Cleared(addon)
    BY <1>3, <2>1, <2>2, <2>3, ReadKeepsOrder
  <2>4. CASE addon' = addon /\ addon.session # m.client
    <3>1. addon.pending # NoCommit => addon.pending.client # m.client
      BY <2>4 DEF Ordered, CommitsEnd
    <3>2. addon.pending # NoCommit => m # Request(addon.pending.client, "cancelling")
      BY <3>1 DEF Request
    <3>3. QED
      BY <2>1, <2>2, <2>4, <3>2, ReadKeepsOrder
  <2>5. QED
    BY <1>6, <2>3, <2>4 DEF ReceiveCancel
<1>7. QED
  BY <1>4, <1>5, <1>6, DeferredKeepsOrder DEF Addon, Receive

LEMMA FcitxKeepsOrder ==
  ASSUME TypeOK, Ordered,
         \/ FocusMoves \/ FcitxStops \/ FcitxStarts
         \/ \E x \in Contexts : SecurityChanges(x) \/ ContextCloses(x)
  PROVE  Ordered'
<1>1. UNCHANGED <<step, inbox>> /\ addon \in Addons
  BY DEF FocusMoves, FcitxStops, FcitxStarts, SecurityChanges, ContextCloses, clients, TypeOK, Addons
<1>2. CASE queue' = <<>> /\ addon'.pending = NoCommit
  BY <1>1, <1>2 DEF Ordered, Distinct, Exclusive, Newest, CommitsEnd, Gone, Withdrawn
<1>3. CASE UNCHANGED <<queue, up>> /\ addon'.pending = addon.pending /\ addon'.session = addon.session
  BY <1>1, <1>3 DEF Ordered, Distinct, Exclusive, Newest, CommitsEnd, Followed, Gone, Withdrawn,
                    Request
<1>4. FcitxStops => queue' = <<>> /\ addon'.pending = NoCommit
  BY DEF FcitxStops, InitialAddon
<1>5. FcitxStarts => queue' = <<>> /\ addon'.pending = NoCommit
  BY DEF FcitxStarts, Ordered, Gone
<1>6. FocusMoves \/ (\E x \in Contexts : SecurityChanges(x) \/ ContextCloses(x)) =>
        UNCHANGED <<queue, up>> /\ addon'.pending = addon.pending /\ addon'.session = addon.session
  BY <1>1 DEF FocusMoves, SecurityChanges, ContextCloses, Addons
<1>7. QED
  BY <1>2, <1>3, <1>4, <1>5, <1>6

-----------------------------------------------------------------------------
\* What clients do: nothing to the addon, and only to their own inbox.
LEMMA ClientsActAlone ==
  ASSUME Daemon = Clients, SerialInv, NEW c \in Clients,
         Arm(c) \/ Commit(c) \/ Cancel(c) \/ Continues(c)
  PROVE  /\ UNCHANGED <<addon, landed, restarts>>
         /\ \A d \in Clients \ {c} :
              /\ inbox'[d] = inbox[d] /\ result'[d] = result[d]
              /\ \/ step'[d] = step[d]
                 \/ step[d] = "armed" /\ step'[d] = "stale"
                 \/ step[d] = "stale" /\ step'[d] = "ended"
         /\ step'[c] \in Talking => inbox'[c] = "none"
         /\ step'[c] = "first" => step[c] = "armed"
         /\ step'[c] = "second" => step[c] = "first"
         /\ step'[c] = "armed" => step[c] = "arming" /\ inbox[c] = "ok"
         /\ result'[c] = "dispatched" /\ result[c] # "dispatched" =>
              step[c] \in Commits /\ inbox[c] = "ok"
         /\ result'[c] = "rejected" /\ result[c] # "rejected" =>
              step[c] \in Commits /\ inbox[c] = "refused"
<1>1. TypeOK /\ TypeOK'
  BY ClientKeepsTypes DEF SerialInv, OnceInv
<1> USE <1>1 DEF TypeOK, Send, fcitx, history, Commits, Talking
<1>2. CASE Arm(c) BY <1>2 DEF Arm
<1>3. CASE Commit(c) BY <1>3 DEF Commit
<1>4. CASE Cancel(c) BY <1>4 DEF Cancel
<1>5. CASE ArmAnswered(c) BY <1>5 DEF ArmAnswered
<1>6. CASE ArmTimesOut(c) BY <1>6 DEF ArmTimesOut
<1>7. CASE Retry(c) BY <1>7 DEF Retry
<1>8. CASE GiveUp(c) BY <1>8 DEF GiveUp
<1>9. CASE CommitSucceeds(c) BY <1>9 DEF CommitSucceeds
<1>10. CASE CommitRejected(c) BY <1>10 DEF CommitRejected
<1>11. CASE CancelEnds(c) BY <1>11 DEF CancelEnds
<1>12. QED
  BY <1>2, <1>3, <1>4, <1>5, <1>6, <1>7, <1>8, <1>9, <1>10, <1>11 DEF Continues

LEMMA ClientKeepsTruth ==
  ASSUME Daemon = Clients, SerialInv, NEW c \in Clients,
         Arm(c) \/ Commit(c) \/ Cancel(c) \/ Continues(c)
  PROVE  Held' /\ AcksAreTrue'
<1>1. Held'
  <2>1. addon' = addon /\ restarts' = restarts /\ Held
    BY ClientsActAlone DEF SerialInv
  <2>2. SUFFICES ASSUME restarts = 0, NEW d \in Clients,
                        step'[d] = "armed" \/ (step'[d] = "arming" /\ inbox'[d] = "ok")
                 PROVE  addon.session = d
    BY <2>1 DEF Held
  <2>3. CASE d = c
    <3>1. step[c] = "arming" /\ inbox[c] = "ok"
      BY <2>2, <2>3, ClientsActAlone DEF Talking
    <3>2. QED
      BY <2>1, <2>2, <2>3, <3>1 DEF Held
  <2>4. CASE d # c
    <3>1. step[d] = step'[d] /\ inbox[d] = inbox'[d]
      BY <2>2, <2>4, ClientsActAlone
    <3>2. QED
      BY <2>1, <2>2, <3>1 DEF Held
  <2>5. QED
    BY <2>3, <2>4
<1>2. AcksAreTrue'
  <2>1. UNCHANGED <<addon, landed>> /\ AcksAreTrue
    BY ClientsActAlone DEF SerialInv
  <2>2. ASSUME NEW d \in Clients, inbox'[d] = "ok", step'[d] \in Commits
        PROVE  landed[d] # <<>>
    <3>1. d # c
      BY <2>2, ClientsActAlone DEF Talking, Commits
    <3>2. inbox[d] = "ok" /\ step[d] \in Commits
      BY <2>2, <3>1, ClientsActAlone DEF Commits
    <3>3. QED
      BY <2>1, <3>2 DEF AcksAreTrue
  <2>3. ASSUME NEW d \in Clients, result'[d] = "dispatched"
        PROVE  landed[d] # <<>>
    <3>1. result[d] = "dispatched" \/ (inbox[d] = "ok" /\ step[d] \in Commits)
      BY <2>3, ClientsActAlone
    <3>2. QED
      BY <2>1, <3>1 DEF AcksAreTrue
  <2>4. QED
    BY <2>1, <2>2, <2>3 DEF AcksAreTrue
<1>3. QED
  BY <1>1, <1>2

\* The answer of the addon to the datagram m.
LEMMA ReplyReaches ==
  ASSUME TypeOK, NEW c \in Clients, NEW d, NEW s, NEW a, Reply(d, s, a), inbox'[c] # inbox[c]
  PROVE  d = c /\ s = step[c] /\ inbox'[c] = a
BY DEF Reply, TypeOK

LEMMA AddonKeepsHeld ==
  ASSUME SerialInv, Addon
  PROVE  Held'
<1>1. TypeOK /\ Ordered /\ Held /\ addon \in Addons
  BY DEF SerialInv, OnceInv, TypeOK, Addons
<1>2. UNCHANGED <<step, restarts>>
  BY DEF Addon, Receive, ReceiveArm, ReceiveCommit, ReceiveCancel, Deferred, fcitx
<1>3. SUFFICES ASSUME restarts = 0, NEW c \in Clients,
                      step[c] = "armed" \/ (step[c] = "arming" /\ inbox'[c] = "ok")
               PROVE  addon'.session = c
  BY <1>2 DEF Held
<1>4. ASSUME NEW m \in Attempts, Receive(m) PROVE addon'.session = c
  <2>1. Reads(m) /\ queue # <<>>
    BY <1>4 DEF Receive, ReceiveArm, ReceiveCommit, ReceiveCancel, Reads
  <2>2. step[c] = "arming" /\ inbox[c] = "none" /\ inbox'[c] = "ok"
    BY <1>1, <1>3, <2>1 DEF Ordered, Newest, Talking
  <2>3. PICK a : /\ Reply(m.client, m.step, a)
                 /\ m.step = "arming" => ReceiveArm(m)
    BY <1>4, <2>2 DEF Receive, ReceiveArm, ReceiveCommit, ReceiveCancel
  <2>4. m.client = c /\ m.step = "arming"
    BY <1>1, <2>2, <2>3, ReplyReaches
  <2>5. CASE Usable(focus)
    BY <1>1, <2>3, <2>4, <2>5 DEF ReceiveArm, Addons
  <2>6. CASE ~ Usable(focus)
    <3>1. Reply(m.client, m.step, "refused")
      BY <2>3, <2>4, <2>6 DEF ReceiveArm
    <3>2. inbox'[c] = "refused"
      BY <1>1, <2>2, <3>1, ReplyReaches
    <3>3. QED
      BY <2>2, <3>2
  <2>7. QED
    BY <2>5, <2>6
<1>5. CASE Deferred
  <2>1. addon.pending \in Attempts /\ addon.pending # NoCommit /\ addon.pending.step \in Commits
    BY <1>1, <1>5 DEF Deferred, Ordered, Distinct, TypeOK
  <2>2. PICK a : Reply(addon.pending.client, addon.pending.step, a)
    BY <1>5 DEF Deferred
  <2>3. step[c] = "armed" \/ (step[c] = "arming" /\ inbox[c] = "ok")
    BY <1>1, <1>3, <2>1, <2>2, ReplyReaches DEF Commits
  <2>4. queue = <<>>
    BY <1>1, <2>3 DEF Ordered, Newest, Talking
  <2>5. step[addon.pending.client] \in Commits /\ addon.pending.client \in Clients
    BY <1>1, <2>1, <2>4, WaitingIsFirst, RequestIs
  <2>6. step[c] \notin Commits /\ c # addon.pending.client
    BY <2>3, <2>5 DEF Commits
  <2>7. QED
    BY <1>1, <2>3, <2>5, <2>6 DEF Ordered, Exclusive, Talking, Commits
<1>6. QED
  BY <1>4, <1>5 DEF Addon

LEMMA AddonKeepsAcks ==
  ASSUME SerialInv, Addon
  PROVE  AcksAreTrue'
<1>1. /\ TypeOK /\ Ordered /\ AcksAreTrue /\ addon \in Addons
      /\ landed \in [Clients -> Seq(Contexts)]
  BY DEF SerialInv, OnceInv, TypeOK, Addons
<1>2. UNCHANGED <<step, result>>
  BY DEF Addon, Receive, ReceiveArm, ReceiveCommit, ReceiveCancel, Deferred
<1>3. ASSUME NEW m \in Attempts, Receive(m) PROVE AcksAreTrue'
  <2>1. landed' = landed /\ addon'.completed = addon.completed
    BY <1>1, <1>3 DEF Receive, ReceiveArm, ReceiveCommit, ReceiveCancel, history, Cleared, Addons
  <2>2. ASSUME NEW c \in Clients, inbox'[c] = "ok", inbox[c] # "ok", step[c] \in Commits
        PROVE  addon.completed = [client |-> c, answer |-> "ok"]
    <3>1. PICK a : Reply(m.client, m.step, a)
      BY <1>3, <2>2 DEF Receive, ReceiveArm, ReceiveCommit, ReceiveCancel
    <3>2. m.client = c /\ m.step \in Commits
      BY <1>1, <2>2, <3>1, ReplyReaches
    <3>3. ReceiveCommit(m)
      BY <1>3, <3>2 DEF Receive, ReceiveArm, ReceiveCancel, Commits
    <3>4. CASE addon.completed.client = c /\ Reply(m.client, m.step, addon.completed.answer)
      <4>1. addon.completed.answer = "ok"
        BY <1>1, <2>2, <3>4, ReplyReaches
      <4>2. QED
        BY <1>1, <3>4, <4>1 DEF Addons
    <3>5. CASE Reply(m.client, m.step, "refused")
      BY <1>1, <2>2, <3>5, ReplyReaches
    <3>6. QED
      BY <2>2, <3>2, <3>3, <3>4, <3>5 DEF ReceiveCommit
  <2>3. QED
    BY <1>1, <1>2, <2>1, <2>2 DEF AcksAreTrue
<1>4. CASE Deferred
  <2>1. /\ addon.pending \in Attempts /\ addon.pending.client \in Clients
        /\ addon.pending.step \in Commits
    BY <1>1, <1>4, RequestIs DEF Deferred, Ordered, Distinct, TypeOK
  <2>2. CASE Usable(addon.context)
    <3>1. /\ landed' = [landed EXCEPT ![addon.pending.client] = Append(@, addon.context)]
          /\ Reply(addon.pending.client, addon.pending.step, "ok")
          /\ addon' = AfterCommit(addon.pending, "ok")
      BY <1>4, <2>2 DEF Deferred
    <3>2. \A c \in Clients : landed[c] # <<>> => landed'[c] # <<>>
      BY <1>1, <2>1, <3>1
    <3>3. landed'[addon.pending.client] # <<>>
      <4>1. /\ landed[addon.pending.client] \in Seq(Contexts)
            /\ landed'[addon.pending.client] = Append(landed[addon.pending.client], addon.context)
        BY <1>1, <2>1, <3>1
      <4>2. /\ Len(landed'[addon.pending.client]) = Len(landed[addon.pending.client]) + 1
            /\ Len(landed[addon.pending.client]) \in Nat
        BY <4>1
      <4>3. QED
        BY <4>2
    <3>4. \A c \in Clients : inbox'[c] = "ok" => inbox[c] = "ok" \/ c = addon.pending.client
      BY <1>1, <3>1, ReplyReaches
    <3>5. \A c \in Clients : addon'.completed = [client |-> c, answer |-> "ok"] =>
            addon.completed = [client |-> c, answer |-> "ok"] \/ c = addon.pending.client
      BY <1>1, <3>1 DEF AfterCommit, Cleared, Addons
    <3>6. QED
      BY <1>1, <1>2, <3>2, <3>3, <3>4, <3>5 DEF AcksAreTrue
  <2>3. CASE ~ Usable(addon.context)
    <3>1. /\ landed' = landed
          /\ Reply(addon.pending.client, addon.pending.step, "refused")
          /\ addon' = AfterCommit(addon.pending, "refused")
      BY <1>4, <2>3 DEF Deferred
    <3>2. \A c \in Clients : inbox'[c] = "ok" => inbox[c] = "ok"
      BY <1>1, <3>1, ReplyReaches
    <3>3. \A c \in Clients : addon'.completed = [client |-> c, answer |-> "ok"] =>
            addon.completed = [client |-> c, answer |-> "ok"]
      BY <1>1, <3>1 DEF AfterCommit, Cleared, Addons
    <3>4. QED
      BY <1>1, <1>2, <3>1, <3>2, <3>3 DEF AcksAreTrue
  <2>4. QED
    BY <2>2, <2>3
<1>5. QED
  BY <1>3, <1>4 DEF Addon

-----------------------------------------------------------------------------
\* What is over stays over: a client arms but once.
LEMMA ClientKeepsOver ==
  ASSUME TypeOK, NEW c \in Clients, Over(c), NEW d \in Clients,
         Arm(d) \/ Commit(d) \/ Cancel(d) \/ Continues(d)
  PROVE  Over(c)'
<1>1. /\ step \in [Clients -> Steps] /\ queue \in Seq(Attempts) /\ Len(queue) \in Nat
      /\ landed[c] = <<>> /\ Unknown(c) /\ step[c] # "idle"
      /\ \A i \in 1..Len(queue) : queue[i] # ArmOf(c)
  BY DEF TypeOK, Over
<1>2. UNCHANGED <<addon, landed>>
  BY DEF Arm, Commit, Cancel, Continues, ArmAnswered, ArmTimesOut, Retry, GiveUp,
         CommitSucceeds, CommitRejected, CancelEnds, history
<1>3. step'[c] # "idle"
  BY <1>1 DEF Arm, Commit, Cancel, Continues, ArmAnswered, ArmTimesOut, Retry, GiveUp,
              CommitSucceeds, CommitRejected, CancelEnds
<1>4. PICK s \in Talking :
        queue' \in {queue, Append(queue, Request(d, s))} /\ (s = "arming" => d # c)
  <2>1. CASE Arm(d)
    BY <1>1, <2>1 DEF Arm, Send, Request, Talking
  <2>2. CASE Commit(d) \/ Cancel(d) \/ Continues(d)
    <3>1. PICK s \in {"first", "second", "cancelling"} :
            queue' \in {queue, Append(queue, [client |-> d, step |-> s])}
      BY <2>2 DEF Commit, Cancel, Continues, ArmAnswered, ArmTimesOut, Retry, GiveUp,
                  CommitSucceeds, CommitRejected, CancelEnds, Send
    <3>2. s \in Talking /\ s # "arming"
      BY DEF Talking
    <3>3. QED
      BY <3>1, <3>2 DEF Request
  <2>3. QED
    BY <2>1, <2>2
<1>5. Request(d, s) \in Attempts /\ Request(d, s) # ArmOf(c)
  BY <1>4, RequestFields DEF Request, ArmOf
<1>6. \A i \in 1..Len(queue') : queue'[i] # ArmOf(c)
  <2>1. CASE queue' = queue
    BY <1>1, <2>1
  <2>2. CASE queue' = Append(queue, Request(d, s))
    <3>1. /\ Len(queue') = Len(queue) + 1 /\ queue'[Len(queue) + 1] = Request(d, s)
          /\ \A i \in 1..Len(queue) : queue'[i] = queue[i]
      BY <1>1, <1>5, <2>2
    <3>2. QED
      BY <1>1, <1>5, <3>1
  <2>3. QED
    BY <1>4, <2>1, <2>2
<1>7. QED
  BY <1>1, <1>2, <1>3, <1>6 DEF Over, Unknown, ArmOf

LEMMA AddonKeepsOver ==
  ASSUME TypeOK, NEW c \in Clients, Over(c), Addon
  PROVE  Over(c)'
<1>1. /\ addon \in Addons /\ landed \in [Clients -> Seq(Contexts)]
      /\ landed[c] = <<>> /\ Unknown(c) /\ step[c] # "idle"
      /\ \A i \in 1..Len(queue) : queue[i] # ArmOf(c)
  BY DEF TypeOK, Addons, Over
<1>2. step' = step
  BY DEF Addon, Receive, ReceiveArm, ReceiveCommit, ReceiveCancel, Deferred
<1>3. ASSUME NEW m \in Attempts, Receive(m) PROVE Over(c)'
  <2>1. Reads(m) /\ landed' = landed
    BY <1>3 DEF Receive, ReceiveArm, ReceiveCommit, ReceiveCancel, history
  <2>2. m # ArmOf(c) /\ \A i \in 1..Len(queue') : queue'[i] # ArmOf(c)
    <3>1. /\ 1 \in 1..Len(queue) /\ queue[1] = m
          /\ \A i \in 1..Len(queue') : i + 1 \in 1..Len(queue) /\ queue'[i] = queue[i + 1]
      BY <2>1, ReadTakesFirst
    <3>2. QED
      BY <1>1, <3>1
  <2>3. \/ addon' = addon
        \/ addon' = Cleared(addon)
        \/ addon' = [addon EXCEPT !.context = focus, !.session = m.client] /\ m.step = "arming"
        \/ addon' = [addon EXCEPT !.pending = m] /\ m.client \in {addon.session, addon.pending.client}
    BY <1>3 DEF Receive, ReceiveArm, ReceiveCommit, ReceiveCancel
  <2>4. m.step = "arming" => m.client # c
    BY <2>2, RequestIs DEF Request, ArmOf
  <2>5. Unknown(c)'
    <3>1. CASE addon' = addon
      BY <1>1, <3>1 DEF Unknown
    <3>2. CASE addon' = Cleared(addon)
      BY <1>1, <3>2, BridgeAssumption DEF Unknown, Cleared, NoCommit, Addons
    <3>3. CASE addon' = [addon EXCEPT !.context = focus, !.session = m.client] /\ m.step = "arming"
      BY <1>1, <2>4, <3>3 DEF Unknown, Addons
    <3>4. CASE /\ addon' = [addon EXCEPT !.pending = m]
               /\ m.client \in {addon.session, addon.pending.client}
      BY <1>1, <3>4 DEF Unknown, Addons
    <3>5. QED
      BY <2>3, <3>1, <3>2, <3>3, <3>4
  <2>6. QED
    BY <1>1, <1>2, <2>1, <2>2, <2>5 DEF Over, ArmOf
<1>4. CASE Deferred
  <2>1. addon'.session = NoClient /\ addon'.pending = NoCommit /\ queue' = queue
    BY <1>1, <1>4 DEF Deferred, AfterCommit, Cleared, Addons
  <2>2. Unknown(c)'
    BY <2>1, BridgeAssumption DEF Unknown, NoCommit
  <2>3. addon.pending.client # c
    BY <1>1 DEF Unknown
  <2>4. landed'[c] = landed[c]
    BY <1>1, <1>4, <2>3 DEF Deferred
  <2>5. QED
    BY <1>1, <1>2, <2>1, <2>2, <2>4 DEF Over, ArmOf
<1>5. QED
  BY <1>3, <1>4 DEF Addon

LEMMA FcitxKeepsOver ==
  ASSUME TypeOK, NEW c \in Clients, Over(c),
         \/ FocusMoves \/ FcitxStops \/ FcitxStarts
         \/ \E x \in Contexts : SecurityChanges(x) \/ ContextCloses(x)
  PROVE  Over(c)'
<1>1. addon \in Addons /\ Unknown(c)
  BY DEF TypeOK, Addons, Over
<1>2. UNCHANGED <<step, landed>> /\ queue' \in {queue, <<>>}
  BY DEF FocusMoves, FcitxStops, FcitxStarts, SecurityChanges, ContextCloses, clients
<1>3. addon' \in {addon, InitialAddon, [addon EXCEPT !.context = NoContext]}
  BY DEF FocusMoves, FcitxStops, FcitxStarts, SecurityChanges, ContextCloses
<1>4. Unknown(c)'
  BY <1>1, <1>3, BridgeAssumption DEF Unknown, InitialAddon, NoCommit, Addons
<1>5. \A i \in 1..Len(queue') : queue'[i] # ArmOf(c)
  BY <1>2 DEF Over
<1>6. QED
  BY <1>2, <1>4, <1>5 DEF Over, ArmOf

LEMMA ClientKeepsRefusals ==
  ASSUME Daemon = Clients, SerialInv, NEW c \in Clients,
         Arm(c) \/ Commit(c) \/ Cancel(c) \/ Continues(c)
  PROVE  RefusalsAreTrue'
<1>1. /\ TypeOK /\ Held /\ RefusalsAreTrue
      /\ UNCHANGED <<addon, landed, restarts>>
  BY ClientsActAlone DEF SerialInv, OnceInv
<1>2. \A d \in Clients : Over(d) => Over(d)'
  BY <1>1, ClientKeepsOver
<1>3. ASSUME NEW d \in Clients, restarts = 0, inbox'[d] = "refused", step'[d] \in Commits
      PROVE  Over(d)
  <2>1. d # c
    BY <1>3, ClientsActAlone DEF Talking, Commits
  <2>2. inbox[d] = "refused" /\ step[d] \in Commits
    BY <1>3, <2>1, ClientsActAlone DEF Commits
  <2>3. QED
    BY <1>1, <1>3, <2>2 DEF RefusalsAreTrue
<1>4. ASSUME NEW d \in Clients, restarts = 0, result'[d] = "rejected"
      PROVE  Over(d)
  <2>1. CASE result[d] = "rejected"
    BY <1>1, <1>4, <2>1 DEF RefusalsAreTrue
  <2>2. CASE result[d] # "rejected"
    <3>1. d = c
      BY <1>4, <2>2, ClientsActAlone
    <3>2. step[c] \in Commits /\ inbox[c] = "refused"
      BY <1>4, <2>2, <3>1, ClientsActAlone
    <3>3. QED
      BY <1>1, <1>4, <3>1, <3>2 DEF RefusalsAreTrue
  <2>3. QED
    BY <2>1, <2>2
<1>5. ASSUME NEW d \in Clients, restarts = 0, landed[d] # <<>>, step'[d] \in Commits
      PROVE  addon.completed.client = d
  <2>1. CASE step[d] \in Commits
    BY <1>1, <1>5, <2>1 DEF RefusalsAreTrue
  <2>2. CASE step[d] \notin Commits
    <3>1. step[d] = "armed"
      BY <1>5, <2>2, ClientsActAlone DEF Commits
    <3>2. addon.session = d
      BY <1>1, <1>5, <3>1 DEF Held
    <3>3. UsedUp(d)
      BY DEF SerialInv, OnceInv
    <3>4. QED
      BY <1>5, <3>2, <3>3 DEF UsedUp, Unknown
  <2>3. QED
    BY <2>1, <2>2
<1>6. \A d \in Clients : addon.completed = [client |-> d, answer |-> "refused"] => Over(d)
  BY <1>1 DEF RefusalsAreTrue
<1>7. QED
  BY <1>1, <1>2, <1>3, <1>4, <1>5, <1>6 DEF RefusalsAreTrue

\* While a client commits, no other commit waits, and none asks for an arm.
LEMMA CommitsAlone ==
  ASSUME TypeOK, Ordered, NEW c \in Clients, step[c] \in Commits
  PROVE  /\ addon.pending # NoCommit => addon.pending.client = c
         /\ \A i \in 1..Len(queue) : queue[i] # ArmOf(c)
<1>1. \A i \in 1..Len(queue) : queue[i].client = c /\ queue[i].step \in Commits
  BY DEF Ordered, Newest
<1>2. \A i \in 1..Len(queue) : queue[i] # ArmOf(c)
  BY <1>1 DEF ArmOf, Commits
<1>3. ASSUME addon.pending # NoCommit, addon.pending.client # c PROVE FALSE
  <2>1. addon.pending.client \in Clients
    BY <1>3, RequestIs DEF TypeOK
  <2>2. step[addon.pending.client] \notin Commits
    BY <1>3, <2>1 DEF Ordered, Exclusive, Talking, Commits
  <2>3. queue # <<>> /\ queue[1].client = addon.pending.client
    BY <1>3, <2>1, <2>2, WaitingIsFirst
  <2>4. 1 \in 1..Len(queue)
    BY <2>3 DEF TypeOK
  <2>5. QED
    BY <1>1, <1>3, <2>3, <2>4
<1>4. QED
  BY <1>2, <1>3

LEMMA ReceiveKeepsRefusals ==
  ASSUME Daemon = Clients, SerialInv, NEW m \in Attempts, Receive(m)
  PROVE  RefusalsAreTrue'
<1>1. /\ TypeOK /\ Ordered /\ RefusalsAreTrue /\ addon \in Addons /\ Reads(m)
      /\ \A c \in Clients : UsedUp(c)
  BY DEF SerialInv, OnceInv, TypeOK, Addons, Receive, ReceiveArm, ReceiveCommit, ReceiveCancel
<1>2. /\ UNCHANGED <<step, result, restarts, landed>>
      /\ addon'.completed = addon.completed
  BY <1>1 DEF Receive, ReceiveArm, ReceiveCommit, ReceiveCancel, fcitx, history, Cleared, Addons
<1>3. \A c \in Clients : Over(c) => Over(c)'
  BY <1>1, AddonKeepsOver DEF Addon
<1>4. ASSUME NEW c \in Clients, restarts = 0, inbox'[c] = "refused", inbox[c] # "refused",
             step[c] \in Commits
      PROVE  Over(c)'
  <2>1. PICK a : Reply(m.client, m.step, a)
    BY <1>4 DEF Receive, ReceiveArm, ReceiveCommit, ReceiveCancel
  <2>2. m.client = c /\ m.step \in Commits
    BY <1>1, <1>4, <2>1, ReplyReaches
  <2>3. ReceiveCommit(m)
    BY <2>2 DEF Receive, ReceiveArm, ReceiveCancel, Commits
  <2>4. CASE addon.completed.client = c
    <3>1. Reply(m.client, m.step, addon.completed.answer)
      BY <2>2, <2>3, <2>4 DEF ReceiveCommit
    <3>2. addon.completed = [client |-> c, answer |-> "refused"]
      BY <1>1, <1>4, <2>4, <3>1, ReplyReaches DEF Addons
    <3>3. QED
      BY <1>1, <1>3, <3>2 DEF RefusalsAreTrue
  <2>5. CASE addon.completed.client # c
    <3>1. landed[c] = <<>>
      BY <1>1, <1>4, <2>5 DEF RefusalsAreTrue
    <3>2. step[c] # "idle" /\ \A i \in 1..Len(queue) : queue[i] # ArmOf(c)
      BY <1>1, <1>4, CommitsAlone DEF Commits
    <3>3. CASE addon.pending.client # c /\ (addon.pending # NoCommit \/ addon.session # c)
      <4>1. addon.pending = NoCommit /\ addon.session # c
        BY <1>1, <1>4, <3>3, CommitsAlone
      <4>2. Over(c)
        BY <3>1, <3>2, <3>3, <4>1 DEF Over, Unknown
      <4>3. QED
        BY <1>3, <4>2
    <3>4. CASE addon' = Cleared(addon)
      <4>1. Unknown(c)'
        BY <1>1, <3>4, BridgeAssumption DEF Unknown, Cleared, NoCommit, Addons
      <4>2. \A i \in 1..Len(queue') : queue'[i] # ArmOf(c)
        BY <1>1, <3>2, ReadTakesFirst
      <4>3. QED
        BY <1>2, <3>1, <3>2, <4>1, <4>2 DEF Over, ArmOf
    <3>5. QED
      BY <1>4, <2>2, <2>3, <2>5, <3>3, <3>4 DEF ReceiveCommit
  <2>6. QED
    BY <2>4, <2>5
<1>5. \A c \in Clients : restarts = 0 /\ inbox'[c] = "refused" /\ step[c] \in Commits => Over(c)'
  BY <1>1, <1>3, <1>4 DEF RefusalsAreTrue
<1>6. QED
  BY <1>1, <1>2, <1>3, <1>5 DEF RefusalsAreTrue

LEMMA DeferredKeepsRefusals ==
  ASSUME Daemon = Clients, SerialInv, Deferred
  PROVE  RefusalsAreTrue'
<1>1. /\ TypeOK /\ Ordered /\ RefusalsAreTrue /\ addon \in Addons
      /\ landed \in [Clients -> Seq(Contexts)]
      /\ \A c \in Clients : UsedUp(c)
  BY DEF SerialInv, OnceInv, TypeOK, Addons
<1>2. /\ UNCHANGED <<step, result, restarts, queue>>
      /\ addon.pending \in Attempts /\ addon.pending # NoCommit
      /\ addon.pending.client \in Clients /\ addon.pending.client \notin OldClients
  BY <1>1, RequestIs, BridgeAssumption DEF Deferred, TypeOK, fcitx
<1>3. \A c \in Clients : Over(c) => Over(c)'
  BY <1>1, AddonKeepsOver DEF Addon
<1>4. PICK answer \in Replies :
        /\ Reply(addon.pending.client, addon.pending.step, answer)
        /\ addon' = AfterCommit(addon.pending, answer)
        /\ answer = "refused" => landed' = landed
  BY DEF Deferred, Replies
<1>5. /\ addon'.completed = [client |-> addon.pending.client, answer |-> answer]
      /\ addon'.session = NoClient /\ addon'.pending = NoCommit
  BY <1>1, <1>2, <1>4 DEF AfterCommit, Cleared, Addons
<1>6. ASSUME NEW c \in Clients PROVE
        /\ addon'.completed = [client |-> c, answer |-> "refused"] => Over(c)'
        /\ restarts = 0 /\ inbox'[c] = "refused" /\ step[c] \in Commits => Over(c)'
  <2>1. ASSUME addon.pending.client = c, answer = "refused" PROVE Over(c)'
    <3>1. /\ landed[c] = <<>> /\ step[c] # "idle"
          /\ \A i \in 1..Len(queue) : queue[i] # ArmOf(c)
      BY <1>1, <2>1 DEF UsedUp, Unknown
    <3>2. Unknown(c)'
      BY <1>5, BridgeAssumption DEF Unknown, NoCommit
    <3>3. QED
      BY <1>2, <1>4, <2>1, <3>1, <3>2 DEF Over, ArmOf
  <2>2. addon'.completed = [client |-> c, answer |-> "refused"] =>
          addon.pending.client = c /\ answer = "refused"
    BY <1>5
  <2>3. inbox'[c] = "refused" =>
          inbox[c] = "refused" \/ (addon.pending.client = c /\ answer = "refused")
    BY <1>1, <1>4, ReplyReaches
  <2>4. QED
    BY <1>1, <1>3, <2>1, <2>2, <2>3 DEF RefusalsAreTrue
<1>7. \A c \in Clients : step[c] \in Commits => addon'.completed.client = c
  BY <1>1, <1>2, <1>5, CommitsAlone
<1>8. \A c \in Clients : restarts = 0 /\ result[c] = "rejected" => Over(c)'
  BY <1>1, <1>3 DEF RefusalsAreTrue
<1>9. QED
  BY <1>2, <1>6, <1>7, <1>8 DEF RefusalsAreTrue

LEMMA FcitxKeepsTruth ==
  ASSUME SerialInv,
         \/ FocusMoves \/ FcitxStops \/ FcitxStarts
         \/ \E x \in Contexts : SecurityChanges(x) \/ ContextCloses(x)
  PROVE  Held' /\ AcksAreTrue' /\ RefusalsAreTrue'
<1>1. /\ TypeOK /\ Held /\ AcksAreTrue /\ RefusalsAreTrue /\ addon \in Addons
      /\ UNCHANGED <<step, inbox, result, landed>>
  BY DEF SerialInv, OnceInv, TypeOK, Addons, FocusMoves, FcitxStops, FcitxStarts, SecurityChanges,
         ContextCloses, clients
<1>2. \A c \in Clients : Over(c) => Over(c)'
  BY <1>1, FcitxKeepsOver
<1>3. \/ /\ restarts' = restarts /\ addon'.session = addon.session
         /\ addon'.completed = addon.completed
      \/ restarts' # 0 /\ addon'.completed.answer = "none"
  <2>1. CASE FcitxStops
    BY <1>1, <2>1 DEF FcitxStops, InitialAddon, TypeOK
  <2>2. CASE ~ FcitxStops
    BY <1>1, <2>2 DEF FocusMoves, FcitxStarts, SecurityChanges, ContextCloses, Addons
  <2>3. QED
    BY <2>1, <2>2
<1>4. \A c \in Clients, a \in Replies :
        addon'.completed = [client |-> c, answer |-> a] => addon.completed = [client |-> c, answer |-> a]
  BY <1>3 DEF Replies
<1>5. Held'
  BY <1>1, <1>3 DEF Held
<1>6. AcksAreTrue'
  BY <1>1, <1>4 DEF AcksAreTrue, Replies
<1>7. RefusalsAreTrue'
  <2>1. \A c \in Clients :
          addon'.completed = [client |-> c, answer |-> "refused"] => Over(c)'
    BY <1>1, <1>2, <1>4 DEF RefusalsAreTrue, Replies
  <2>2. CASE restarts' # 0
    BY <2>1, <2>2 DEF RefusalsAreTrue
  <2>3. CASE restarts' = restarts /\ addon'.completed = addon.completed
    BY <1>1, <1>2, <2>1, <2>3 DEF RefusalsAreTrue
  <2>4. QED
    BY <1>3, <2>2, <2>3
<1>8. QED
  BY <1>5, <1>6, <1>7

LEMMA SerialInit ==
  ASSUME Init
  PROVE  SerialInv
<1>1. OnceInv
  BY OnceInit
<1>2. /\ queue = <<>> /\ Len(queue) = 0 /\ addon.pending = NoCommit /\ up = TRUE
      /\ addon.completed.answer = "none"
      /\ \A c \in Clients : /\ step[c] = "idle" /\ inbox[c] = "none" /\ result[c] = "none"
                           /\ landed[c] = <<>>
  BY DEF Init, InitialAddon
<1>3. Ordered
  BY <1>2 DEF Ordered, Distinct, Exclusive, Newest, CommitsEnd, Gone, Withdrawn, Talking, Commits
<1>4. Held /\ AcksAreTrue /\ RefusalsAreTrue
  BY <1>2 DEF Held, AcksAreTrue, RefusalsAreTrue, Commits
<1>5. QED
  BY <1>1, <1>3, <1>4 DEF SerialInv

LEMMA StepKeepsSerial ==
  ASSUME Daemon = Clients, SerialInv, [Next]_vars
  PROVE  SerialInv'
<1>1. OnceInv' /\ TypeOK /\ Ordered
  BY StepKeepsOnce DEF SerialInv, OnceInv
<1>2. CASE UNCHANGED vars
  <2>1. UNCHANGED <<up, restarts, queue, addon, step, inbox, result, landed>>
    BY <1>2 DEF vars
  <2>2. Ordered'
    BY <1>1, <2>1 DEF Ordered, Distinct, Exclusive, Newest, CommitsEnd, Followed, Gone, Withdrawn,
                      Request
  <2>3. Held' /\ AcksAreTrue' /\ RefusalsAreTrue'
    BY <2>1 DEF SerialInv, Held, AcksAreTrue, RefusalsAreTrue, Over, Unknown, ArmOf
  <2>4. QED
    BY <1>1, <2>2, <2>3 DEF SerialInv
<1>3. ASSUME NEW c \in Clients, Arm(c) \/ Commit(c) \/ Cancel(c) \/ Continues(c)
      PROVE  SerialInv'
  BY <1>1, <1>3, ClientKeepsOrder, ClientKeepsTruth, ClientKeepsRefusals DEF SerialInv
<1>4. CASE Addon
  <2>1. RefusalsAreTrue'
    BY <1>4, ReceiveKeepsRefusals, DeferredKeepsRefusals DEF Addon
  <2>2. QED
    BY <1>1, <1>4, <2>1, AddonKeepsOrder, AddonKeepsHeld, AddonKeepsAcks DEF SerialInv
<1>5. CASE \/ FocusMoves \/ FcitxStops \/ FcitxStarts
           \/ \E x \in Contexts : SecurityChanges(x) \/ ContextCloses(x)
  BY <1>1, <1>5, FcitxKeepsOrder, FcitxKeepsTruth DEF SerialInv
<1>6. QED
  BY <1>2, <1>3, <1>4, <1>5 DEF Next

\* When the daemon alone uses the bridge, whatever is late, retried or lost: a
\* commit that is reported as done was committed; one that is reported as
\* rejected was not, nor will be, unless Fcitx was stopped and has forgotten it
\* (fcitx.rs:262-281, daemon.rs:645-664).
THEOREM AnswersToldAreTrue ==
  ASSUME Daemon = Clients
  PROVE  Spec => []AnswersAreTrue
<1>1. Init => SerialInv
  BY SerialInit
<1>2. SerialInv /\ [Next]_vars => SerialInv'
  BY StepKeepsSerial
<1>3. SerialInv => AnswersAreTrue
  BY DEF SerialInv, AcksAreTrue, RefusalsAreTrue, Over, AnswersAreTrue, AckMeansDispatched,
         RejectedMeansNotDispatched
<1>4. QED
  BY <1>1, <1>2, <1>3, PTL DEF Spec

\* When the daemon alone uses the bridge, its earlier cancellations and commits,
\* late as they may be, take no acknowledged arm away (fcitx.rs:72-80).
THEOREM AcknowledgedArmHolds ==
  ASSUME Daemon = Clients
  PROVE  Spec => []ArmHolds
<1>1. Init => SerialInv
  BY SerialInit
<1>2. SerialInv /\ [Next]_vars => SerialInv'
  BY StepKeepsSerial
<1>3. SerialInv => ArmHolds
  BY DEF SerialInv, Held, ArmHolds
<1>4. QED
  BY <1>1, <1>2, <1>3, PTL DEF Spec

\* Only a deferred event commits a text, and none waits for a client whose
\* cancellation was answered.
LEMMA WithdrawnGetsNothing ==
  ASSUME SerialInv, [Next]_vars, NEW c \in Clients, step[c] = "withdrawn"
  PROVE  landed'[c] = landed[c]
<1>1. TypeOK /\ Ordered /\ landed \in [Clients -> Seq(Contexts)] /\ Len(queue) \in Nat
  BY DEF SerialInv, OnceInv, TypeOK
<1>2. CASE ~ Deferred
  BY <1>2 DEF vars, Next, Arm, Commit, Cancel, Continues, ArmAnswered, ArmTimesOut, Retry, GiveUp,
              CommitSucceeds, CommitRejected, CancelEnds, history, clients, Addon, Receive,
              ReceiveArm, ReceiveCommit, ReceiveCancel, FocusMoves, SecurityChanges, ContextCloses,
              FcitxStops, FcitxStarts
<1>3. CASE Deferred
  <2>1. addon.pending.client # c
    <3>1. SUFFICES ASSUME addon.pending.client = c PROVE FALSE
      OBVIOUS
    <3>2. addon.pending # NoCommit
      BY <1>3 DEF Deferred
    <3>3. Followed(c, 1)
      BY <1>1, <3>1, <3>2 DEF Ordered, CommitsEnd
    <3>4. \E j \in 1..Len(queue) : queue[j] = Request(c, "cancelling")
      BY <3>3 DEF Followed, Commits
    <3>5. QED
      BY <1>1, <3>4 DEF Ordered, Withdrawn
  <2>2. QED
    BY <1>1, <1>3, <2>1 DEF Deferred
<1>4. QED
  BY <1>2, <1>3

\* When the daemon alone uses the bridge, no text is committed after its
\* cancellation was answered (voxtypebridge.cpp:504-521).
THEOREM CancellationIsFinal ==
  ASSUME Daemon = Clients
  PROVE  Spec => CancelIsFinal
<1>1. Init => SerialInv
  BY SerialInit
<1>2. SerialInv /\ [Next]_vars => SerialInv'
  BY StepKeepsSerial
<1>3. SerialInv /\ [Next]_vars =>
        [\A c \in Clients : step[c] = "withdrawn" => landed'[c] = landed[c]]_vars
  BY WithdrawnGetsNothing
<1>4. QED
  BY <1>1, <1>2, <1>3, PTL DEF Spec, CancelIsFinal
=============================================================================
