------------------------- MODULE ProviderRouteProofs -------------------------
(***************************************************************************)
(* Proofs about ProviderRoute, for any providers, profiles and jobs.       *)
(***************************************************************************)
EXTENDS ProviderRoute, NumberLemmas, TLAPS, SequenceTheorems

-----------------------------------------------------------------------------
(***************************************************************************)
(* Consent.  That the audio of a job has reached one provider at most      *)
(* follows only from when it can have reached any: without consent, none   *)
(* as long as its route may still turn to another.                         *)
(***************************************************************************)
Unheard == {"idle", "choosing", "chosen", "recognizing"}

ConsentInv ==
  /\ stage  \in [Jobs -> Stages]
  /\ replay \in [Jobs -> ReplayPolicies]
  /\ DOMAIN heard = Jobs
  /\ \A j \in Jobs : stage[j] = "idle" => heard[j] = {}
  /\ \A j \in Jobs : replay[j] # "buffered-with-consent" =>
       /\ stage[j] \in Unheard => heard[j] = {}
       /\ \A p, q \in heard[j] : p = q

\* What an answer adds to the providers that have the audio: nothing, if its
\* evidence allows to fall back without consent, and never more than one.
LEMMA AnAnswerReachesOneProvider ==
  ASSUME NEW p, NEW a \in Answers, NEW reached \in Reached(p, a)
  PROVE  /\ reached \subseteq {p}
         /\ a.acceptance = "not-accepted" => reached = {}
BY DEF Reached, MayHaveLeft

LEMMA ConsentInit == Init => ConsentInv
BY DEF Init, ConsentInv, Stages, ReplayPolicies

\* An answer keeps the invariant: a route without consent goes on only if the
\* audio has not left the process.
LEMMA AnswerKeepsConsent ==
  ASSUME ConsentInv, NEW j \in Jobs, NEW a \in Answers, Answer(j, a)
  PROVE  ConsentInv'
<1>1. PICK reached \in Reached(Head(todo[j]), a) :
        heard' = [heard EXCEPT ![j] = @ \cup reached]
  BY DEF Answer
<1>2. /\ reached \subseteq {Head(todo[j])}
      /\ a.acceptance = "not-accepted" => reached = {}
  BY AnAnswerReachesOneProvider
<1>3. stage' \in [Jobs -> Stages] /\ replay' = replay /\ DOMAIN heard' = Jobs
  BY <1>1 DEF Answer, ConsentInv, Stages
<1>4. stage[j] = "recognizing" /\ stage'[j] \in {"choosing", "done"}
  BY DEF Answer, ConsentInv
<1>5. stage'[j] = "choosing" /\ replay[j] # "buffered-with-consent"
        => a.acceptance = "not-accepted"
  BY DEF Answer, ConsentInv, MayFallBack
<1>6. heard'[j] = heard[j] \cup reached
  BY <1>1 DEF ConsentInv
<1>7. replay[j] # "buffered-with-consent" => heard[j] = {}
  BY <1>4 DEF ConsentInv, Unheard
<1>8. \A k \in Jobs \ {j} : heard'[k] = heard[k] /\ stage'[k] = stage[k]
  BY <1>1 DEF Answer, ConsentInv
<1>9. ASSUME NEW k \in Jobs, replay[k] # "buffered-with-consent"
      PROVE  /\ stage'[k] \in Unheard => heard'[k] = {}
             /\ \A p, q \in heard'[k] : p = q
  <2>1. CASE k = j
    BY <2>1, <1>2, <1>4, <1>5, <1>6, <1>7, <1>9 DEF Unheard
  <2>2. CASE k # j
    BY <2>2, <1>8, <1>9 DEF ConsentInv
  <2>3. QED
    BY <2>1, <2>2
<1>10. \A k \in Jobs : stage'[k] = "idle" => heard'[k] = {}
  BY <1>4, <1>8 DEF ConsentInv
<1>11. QED
  BY <1>3, <1>9, <1>10 DEF ConsentInv

LEMMA StepKeepsConsent ==
  ASSUME ConsentInv, [Next]_vars
  PROVE  ConsentInv'
<1>1. ASSUME NEW j \in Jobs, Poll(j) PROVE ConsentInv'
  BY <1>1 DEF ConsentInv, Poll, Stages, Unheard
<1>2. ASSUME NEW j \in Jobs, RouteEnds(j) PROVE ConsentInv'
  BY <1>2 DEF ConsentInv, RouteEnds, controller, Stages, Unheard
<1>3. ASSUME NEW j \in Jobs, Choose(j) \/ Contact(j) PROVE ConsentInv'
  BY <1>3 DEF ConsentInv, Choose, Contact, controller, Stages, Unheard
<1>4. ASSUME NEW j \in Jobs, NEW a \in Answers, Answer(j, a) PROVE ConsentInv'
  BY <1>4, AnswerKeepsConsent
<1>5. ASSUME NEW j \in Jobs, NEW policy \in Policies, Plan(j, policy)
      PROVE  ConsentInv'
  <2>1. policy.replay \in ReplayPolicies
    BY <1>5, RouteAssumption
  <2>2. heard[j] = {}
    BY <1>5 DEF ConsentInv, Plan
  <2>3. QED
    BY <1>5, <2>1, <2>2 DEF ConsentInv, Plan, Stages, Unheard
<1>6. CASE Cancel
  BY <1>6 DEF ConsentInv, Cancel
<1>7. CASE Reload
  BY <1>7 DEF ConsentInv, Reload, workers
<1>8. CASE Tick
  BY <1>8 DEF ConsentInv, Tick, workers
<1>9. CASE UNCHANGED vars
  BY <1>9 DEF ConsentInv, vars, workers
<1>10. QED
  BY <1>1, <1>2, <1>3, <1>4, <1>5, <1>6, <1>7, <1>8, <1>9 DEF Next, Worker

\* Without the consent of the profile the audio of a dictation reaches one
\* provider at most: run_recognition_route with may_fallback (provider.rs:151,
\* routing.rs:95), for routes of any length and beside any other worker.
THEOREM AudioGoesToOneProvider == Spec => []ConsentRespected
<1>1. ConsentInv => ConsentRespected
  BY DEF ConsentInv, ConsentRespected
<1>2. QED
  BY <1>1, ConsentInit, StepKeepsConsent, PTL DEF Spec

-----------------------------------------------------------------------------
(***************************************************************************)
(* Health.                                                                 *)
(***************************************************************************)
Health == [failures : 0..MaxFailures, cooling : 0..Cooldown]

Deserved(h) == h.cooling > 0 => h.failures = MaxFailures

HealthInv ==
  /\ health \in [Providers -> Health]
  /\ \A p \in Providers : Deserved(health[p])

\* One attempt, whatever it answered, leaves a health that is deserved.
LEMMA HealthStaysDeserved ==
  ASSUME NEW h \in Health, Deserved(h), NEW a
  PROVE  HealthAfter(h, a) \in Health /\ Deserved(HealthAfter(h, a))
<1>1. Healthy \in Health /\ Deserved(Healthy)
  BY RouteAssumption DEF Healthy, Health, Deserved
<1>2. AfterFailure(h, a) \in Health /\ Deserved(AfterFailure(h, a))
  BY RouteAssumption DEF AfterFailure, Health, Deserved
<1>3. QED
  BY <1>1, <1>2 DEF HealthAfter

LEMMA StepKeepsHealth ==
  ASSUME HealthInv, [Next]_vars
  PROVE  HealthInv'
<1>1. ASSUME NEW j \in Jobs, Poll(j) PROVE HealthInv'
  <2>1. health' = [p \in Providers |->
          IF Answered(p, attempts[j])
          THEN HealthAfter(health[p], AnswerOf(p, attempts[j])) ELSE health[p]]
    BY <1>1 DEF Poll, Record
  <2>2. ASSUME NEW p \in Providers
        PROVE  health'[p] \in Health /\ Deserved(health'[p])
    BY <2>1, HealthStaysDeserved DEF HealthInv
  <2>3. QED
    BY <2>1, <2>2 DEF HealthInv
<1>2. CASE Reload
  BY <1>2, RouteAssumption DEF HealthInv, Reload, Healthy, Health, Deserved
<1>3. CASE Tick
  <2>1. ASSUME NEW p \in Providers
        PROVE  health'[p] \in Health /\ Deserved(health'[p])
    <3>1. health[p] \in Health /\ Deserved(health[p])
      BY DEF HealthInv
    <3>2. health'[p] = [health[p] EXCEPT !.cooling = IF @ = 0 THEN 0 ELSE @ - 1]
      BY <1>3 DEF Tick
    <3>3. QED
      BY <3>1, <3>2, RouteAssumption DEF Health, Deserved
  <2>2. QED
    BY <1>3, <2>1 DEF Tick, HealthInv
<1>4. ASSUME UNCHANGED health PROVE HealthInv'
  BY <1>4 DEF HealthInv
<1>5. QED
  BY <1>1, <1>2, <1>3, <1>4
  DEF Next, Worker, RouteEnds, Choose, Contact, Answer, Plan, Cancel, controller, vars

\* A provider cools down only after MaxFailures retryable failures in a row:
\* record_failure_at and record_success_at (controller.rs:377-393).
THEOREM CooldownIsDeserved == Spec => []CoolingIsDeserved
<1>1. Init => HealthInv
  BY RouteAssumption DEF Init, HealthInv, Healthy, Health, Deserved
<1>2. HealthInv => CoolingIsDeserved
  BY DEF HealthInv, CoolingIsDeserved, Deserved
<1>3. QED
  BY <1>1, <1>2, StepKeepsHealth, PTL DEF Spec

-----------------------------------------------------------------------------
(***************************************************************************)
(* Routes.                                                                 *)
(***************************************************************************)

\* What the recursion of Route makes of the values g that it has computed before.
Among(order, g, n) ==
  IF n = 0 THEN <<>>
  ELSE IF Available(order[n]) THEN Append(g[n - 1], order[n])
  ELSE g[n - 1]

\* The recursion of Route has a solution, which is what it computes.
LEMMA RouteUnfolds ==
  ASSUME NEW order \in Seq(Providers)
  PROVE  \E f : /\ f = [n \in 0..Len(order) |-> Among(order, f, n)]
                /\ Route(order) = f[Len(order)]
<1> DEFINE Solves(g, n) == g = [m \in 0..n |-> Among(order, g, m)]
           Bad == {n \in Nat : ~ \E g : Solves(g, n)}
<1>1. Len(order) \in Nat
  BY LenProperties
<1>2. Bad = {}
  <2> SUFFICES ASSUME Bad # {} PROVE FALSE
    OBVIOUS
  <2>1. PICK n \in Bad : \A k \in Bad : n <= k
    BY LeastNumber
  <2>2. n \in Nat /\ ~ \E g : Solves(g, n)
    BY <2>1
  <2>3. CASE n = 0
    <3>1. Solves([m \in 0..0 |-> <<>>], 0)
      BY DEF Among
    <3>. QED
      BY <2>2, <2>3, <3>1
  <2>4. CASE n # 0
    <3>1. n - 1 \in Nat /\ n - 1 \notin Bad
      BY <2>1, <2>2, <2>4
    <3>2. PICK g : Solves(g, n - 1)
      BY <3>1
    <3> DEFINE h == [m \in 0..n |-> IF m < n THEN g[m] ELSE Among(order, g, n)]
    <3>3. ASSUME NEW m \in 0..n
          PROVE  h[m] = Among(order, h, m)
      <4>1. m < n => g[m] = Among(order, g, m)
        BY <2>2, <3>2
      <4>2. m # 0 => h[m - 1] = g[m - 1]
        BY <2>2
      <4>3. Among(order, h, m) = Among(order, g, m)
        BY <4>2 DEF Among
      <4>. QED
        BY <2>2, <4>1, <4>3
    <3>4. Solves(h, n)
      BY <3>3
    <3>. QED
      BY <2>2, <3>4
  <2>. QED
    BY <2>3, <2>4
<1>3. \E g : Solves(g, Len(order))
  BY <1>1, <1>2
<1> DEFINE f == CHOOSE g : Solves(g, Len(order))
<1>4. Solves(f, Len(order))
  BY <1>3
<1>5. Route(order) = f[Len(order)]
  BY DEF Route, Among
<1>. QED
  BY <1>4, <1>5

\* A route has available providers of the profile only, and as the profile has each once,
\* the route has each once at most.
LEMMA RouteIsAvailable ==
  ASSUME NEW order \in Seq(Providers),
         \A i, k \in 1..Len(order) : order[i] = order[k] => i = k
  PROVE  /\ Route(order) \in Seq(Providers)
         /\ \A i \in 1..Len(Route(order)) : Available(Route(order)[i])
         /\ \A i, k \in 1..Len(Route(order)) :
              Route(order)[i] = Route(order)[k] => i = k
<1>1. PICK f : /\ f = [n \in 0..Len(order) |-> Among(order, f, n)]
               /\ Route(order) = f[Len(order)]
  BY RouteUnfolds
<1> DEFINE Good(r, n) ==
      /\ r \in Seq(Providers)
      /\ \A i \in 1..Len(r) : Available(r[i]) /\ \E m \in 1..n : r[i] = order[m]
      /\ \A i, k \in 1..Len(r) : r[i] = r[k] => i = k
           Bad == {n \in 0..Len(order) : ~ Good(f[n], n)}
<1>2. Len(order) \in Nat
  BY LenProperties
<1>3. Bad = {}
  <2> SUFFICES ASSUME Bad # {} PROVE FALSE
    OBVIOUS
  <2>0. Bad \subseteq Nat
    BY <1>2
  <2>1. PICK n \in Bad : \A k \in Bad : n <= k
    <3> HIDE DEF Bad
    <3>. QED
      BY <2>0, LeastNumber
  <2>2. n \in 0..Len(order) /\ f[n] = Among(order, f, n) /\ ~ Good(f[n], n)
    BY <1>1, <2>1
  <2>3. CASE n = 0
    <3>1. f[n] = <<>>
      BY <2>2, <2>3 DEF Among
    <3>. QED
      BY <2>2, <3>1
  <2>4. CASE n # 0
    <3> DEFINE r == f[n - 1]
               x == order[n]
    <3>1. n \in 1..Len(order) /\ n - 1 \in 0..Len(order) /\ x \in Providers
      BY <1>2, <2>2, <2>4, ElementOfSeq
    <3>2. Good(r, n - 1)
      BY <1>2, <2>1, <3>1
    <3>3. f[n] = IF Available(x) THEN Append(r, x) ELSE r
      BY <2>2, <2>4 DEF Among
    <3> HIDE DEF r, x
    <3>4. \A i \in 1..Len(r) : Available(r[i]) /\ \E m \in 1..n : r[i] = order[m]
      BY <3>1, <3>2
    <3>5. CASE ~ Available(x)
      BY <2>2, <3>2, <3>3, <3>4, <3>5
    <3>6. CASE Available(x)
      <4>1. /\ Append(r, x) \in Seq(Providers) /\ Len(r) \in Nat
            /\ Len(Append(r, x)) = Len(r) + 1
            /\ \A i \in 1..Len(r) : Append(r, x)[i] = r[i]
            /\ Append(r, x)[Len(r) + 1] = x
        BY <3>1, <3>2, AppendProperties, LenProperties
      <4>2. \A i \in 1..Len(r) : r[i] # x
        BY <1>2, <3>1, <3>2 DEF x
      <4>3. \A i, k \in 1..Len(Append(r, x)) :
              Append(r, x)[i] = Append(r, x)[k] => i = k
        BY <3>2, <4>1, <4>2
      <4>4. \A i \in 1..Len(Append(r, x)) :
              Available(Append(r, x)[i]) /\ \E m \in 1..n : Append(r, x)[i] = order[m]
        BY <3>1, <3>4, <3>6, <4>1 DEF x
      <4>. QED
        BY <2>2, <3>3, <3>6, <4>1, <4>3, <4>4
    <3>. QED
      BY <3>5, <3>6
  <2>. QED
    BY <2>3, <2>4
<1>4. Good(f[Len(order)], Len(order))
  BY <1>2, <1>3
<1>. QED
  BY <1>1, <1>4

-----------------------------------------------------------------------------
(***************************************************************************)
(* Workers and accounts.                                                   *)
(***************************************************************************)
Usage ==
  [attempts : Nat, requests : Nat, successes : Nat, failures : Nat, audio : Nat]

Working == {"choosing", "chosen", "recognizing", "done"}

RecordedJobs == {j \in Jobs : stage[j] = "recorded"}

\* One job at most works without having been cancelled: the current one.
OneWorks ==
  /\ \A j \in Jobs \ cancelled : stage[j] \in Working => current = j
  /\ current # NoJob => stage[current] \in Working /\ current \notin cancelled
  /\ \A j \in cancelled : stage[j] # "idle"

Distinct(tried, left) ==
  /\ \A i, k \in 1..Len(tried) : tried[i].provider = tried[k].provider => i = k
  /\ \A i, k \in 1..Len(left) : left[i] = left[k] => i = k
  /\ \A i \in 1..Len(tried), k \in 1..Len(left) : tried[i].provider # left[k]

\* No provider comes twice among those a worker has tried and those it may still try.
OncePerRoute == \A j \in Jobs : Distinct(attempts[j], todo[j])

\* What a worker knows in each stage.
WorkersInStep ==
  \A j \in Jobs :
    /\ stage[j] = "idle" => heard[j] = {} /\ attempts[j] = <<>>
    /\ stage[j] \in {"chosen", "recognizing"} => todo[j] # <<>>

Tells(tried, p) ==
  \E i \in 1..Len(tried) : tried[i].provider = p /\ MayHaveLeft(tried[i].answer)

\* Until its result is taken, whoever has the audio has given an answer that says so.
AnswersTellAudio ==
  \A j \in Jobs : stage[j] # "recorded" => \A p \in heard[j] : Tells(attempts[j], p)

\* Only a cancelled token is answered with a cancellation.
CancelledIsToken ==
  \A j \in Jobs \ cancelled : \A i \in 1..Len(attempts[j]) :
    attempts[j][i].answer.category # "cancelled"

\* As long as a worker may go on, no provider that is left to it cools down.
RoutesAreCool ==
  \A j \in Jobs \ cancelled : stage[j] \in {"choosing", "chosen", "recognizing"} =>
    \A i \in 1..Len(todo[j]) : health[todo[j][i]].cooling = 0

WorkersInv ==
  /\ TypeOK /\ OneWorks /\ OncePerRoute /\ WorkersInStep
  /\ AnswersTellAudio /\ CancelledIsToken /\ RoutesAreCool

AccountsInv == IsFiniteSet(RecordedJobs) /\ AccountsBalance

LEMMA WorkersInit == Init => WorkersInv /\ AccountsInv
<1> SUFFICES ASSUME Init PROVE WorkersInv /\ AccountsInv
  OBVIOUS
<1>1. TypeOK
  BY RouteAssumption DEF Init, TypeOK, Stages, ReplayPolicies, Healthy, NoUsage
<1>2. OneWorks /\ OncePerRoute /\ WorkersInStep
  BY DEF Init, OneWorks, Working, OncePerRoute, Distinct, WorkersInStep
<1>3. AnswersTellAudio /\ CancelledIsToken /\ RoutesAreCool
  BY DEF Init, AnswersTellAudio, CancelledIsToken, RoutesAreCool
<1>4. RecordedJobs = {}
  BY DEF Init, RecordedJobs
<1>5. AccountsBalance
  <2>1. ASSUME NEW p \in Providers
        PROVE  {j \in Jobs : stage[j] = "recorded" /\ p \in heard[j]} = {}
    BY DEF Init
  <2>2. \A p \in Providers : usage[p] = NoUsage
    BY DEF Init
  <2>3. \A p \in Providers :
          Cardinality({j \in Jobs : stage[j] = "recorded" /\ p \in heard[j]}) = 0
    BY <2>1, FS_EmptySet
  <2>4. Cardinality({j \in Jobs : stage[j] = "recorded"}) = 0
    BY <1>4, FS_EmptySet DEF RecordedJobs
  <2>. QED
    BY <2>2, <2>3, <2>4 DEF AccountsBalance, NoUsage
<1>. QED
  BY <1>1, <1>2, <1>3, <1>4, <1>5, FS_EmptySet DEF WorkersInv, AccountsInv

\* A worker is planned.
LEMMA PlanKeepsWorkers ==
  ASSUME WorkersInv, NEW j \in Jobs, NEW policy \in Policies, Plan(j, policy)
  PROVE  WorkersInv'
<1> DEFINE route == Route(policy.order)
<1>1. /\ policy.order \in Seq(Providers) /\ policy.replay \in ReplayPolicies
      /\ \A i, k \in 1..Len(policy.order) : policy.order[i] = policy.order[k] => i = k
  BY RouteAssumption
<1>2. /\ route \in Seq(Providers)
      /\ \A i \in 1..Len(route) : health[route[i]].cooling = 0
      /\ \A i, k \in 1..Len(route) : route[i] = route[k] => i = k
  BY <1>1, RouteIsAvailable DEF Available
<1>3. /\ current = NoJob /\ stage[j] = "idle"
      /\ todo' = [todo EXCEPT ![j] = route]
      /\ current' = j /\ stage' = [stage EXCEPT ![j] = "choosing"]
      /\ replay' = [replay EXCEPT ![j] = policy.replay]
      /\ UNCHANGED <<registry, health, usage, attempts, cancelled, heard>>
  BY DEF Plan
<1> HIDE DEF route
<1>4. j \notin cancelled /\ attempts[j] = <<>> /\ NoJob \notin Jobs
  BY <1>3, RouteAssumption DEF WorkersInv, OneWorks, WorkersInStep
<1>5. TypeOK'
  BY <1>1, <1>2, <1>3 DEF WorkersInv, TypeOK, Stages
<1>6. OneWorks'
  BY <1>3, <1>4 DEF WorkersInv, OneWorks, Working, TypeOK
<1>7. OncePerRoute'
  <2>1. ASSUME NEW k \in Jobs
        PROVE  Distinct(attempts'[k], todo'[k])
    <3>1. CASE k = j
      BY <1>2, <1>3, <1>4, <3>1 DEF WorkersInv, TypeOK, Distinct
    <3>2. CASE k # j
      BY <1>3, <3>2 DEF WorkersInv, TypeOK, OncePerRoute
    <3>. QED
      BY <3>1, <3>2
  <2>. QED
    BY <2>1 DEF OncePerRoute
<1>8. WorkersInStep' /\ AnswersTellAudio' /\ CancelledIsToken'
  BY <1>3 DEF WorkersInv, TypeOK, WorkersInStep, AnswersTellAudio, CancelledIsToken
<1>9. RoutesAreCool'
  BY <1>2, <1>3 DEF WorkersInv, TypeOK, RoutesAreCool
<1>. QED
  BY <1>5, <1>6, <1>7, <1>8, <1>9 DEF WorkersInv

\* The result of a job is taken: only then may a provider begin to cool down, and no other
\* worker may go on by itself.
LEMMA PollKeepsWorkers ==
  ASSUME WorkersInv, HealthInv', NEW j \in Jobs, Poll(j),
         usage' \in [Providers -> Usage]
  PROVE  WorkersInv'
<1>1. /\ current = j /\ stage[j] = "done"
      /\ stage' = [stage EXCEPT ![j] = "recorded"]
      /\ todo' = [todo EXCEPT ![j] = <<>>]
      /\ attempts' = [attempts EXCEPT ![j] = <<>>]
      /\ current' = NoJob
      /\ UNCHANGED <<registry, replay, cancelled, heard>>
  BY DEF Poll
<1>2. NoJob \notin Jobs
  BY RouteAssumption
<1>3. TypeOK'
  BY <1>1 DEF WorkersInv, TypeOK, Stages, HealthInv, Health, Usage
<1>4. OneWorks'
  BY <1>1, <1>2 DEF WorkersInv, OneWorks, Working, TypeOK
<1>5. OncePerRoute'
  <2>1. ASSUME NEW k \in Jobs
        PROVE  Distinct(attempts'[k], todo'[k])
    <3>1. CASE k = j
      <4>1. attempts'[k] = <<>> /\ todo'[k] = <<>>
        BY <1>1, <3>1 DEF WorkersInv, TypeOK
      <4>. QED
        BY <4>1 DEF Distinct
    <3>2. CASE k # j
      BY <1>1, <3>2 DEF WorkersInv, TypeOK, OncePerRoute
    <3>. QED
      BY <3>1, <3>2
  <2>. QED
    BY <2>1 DEF OncePerRoute
<1>6. WorkersInStep' /\ AnswersTellAudio' /\ CancelledIsToken'
  BY <1>1 DEF WorkersInv, TypeOK, WorkersInStep, AnswersTellAudio, CancelledIsToken
<1>7. RoutesAreCool'
  BY <1>1 DEF WorkersInv, TypeOK, RoutesAreCool, OneWorks, Working
<1>. QED
  BY <1>3, <1>4, <1>5, <1>6, <1>7 DEF WorkersInv

\* A provider answers.
LEMMA AnswerKeepsWorkers ==
  ASSUME WorkersInv, NEW j \in Jobs, NEW a \in Answers, Answer(j, a)
  PROVE  WorkersInv'
<1> DEFINE p == Head(todo[j])
           x == [provider |-> p, answer |-> a]
           tried == Append(attempts[j], x)
           left  == Tail(todo[j])
<1>1. PICK reached \in Reached(p, a) : heard' = [heard EXCEPT ![j] = @ \cup reached]
  BY DEF Answer
<1>2. /\ stage[j] = "recognizing" /\ stage' = [stage EXCEPT ![j] = stage'[j]]
      /\ stage'[j] \in {"choosing", "done"}
      /\ todo' = [todo EXCEPT ![j] = left]
      /\ attempts' = [attempts EXCEPT ![j] = tried]
      /\ a.category = "cancelled" => j \in cancelled
      /\ UNCHANGED <<registry, health, usage, current, replay, cancelled>>
  BY DEF Answer, controller, WorkersInv, TypeOK
<1>3. /\ attempts[j] \in Seq(Attempts) /\ todo[j] \in Seq(Providers) /\ todo[j] # <<>>
      /\ Distinct(attempts[j], todo[j])
  BY <1>2 DEF WorkersInv, TypeOK, WorkersInStep, OncePerRoute
<1>4. /\ Len(todo[j]) \in Nat \ {0} /\ p = todo[j][1] /\ p \in Providers
      /\ left \in Seq(Providers) /\ Len(left) = Len(todo[j]) - 1
      /\ \A i \in 1..Len(left) : left[i] = todo[j][i + 1]
  BY <1>3, HeadTailProperties, ElementOfSeq, LenProperties
<1>5. x \in Attempts /\ x.provider = p /\ x.answer = a
  BY <1>4 DEF Attempts
<1> HIDE DEF p, x, left
<1>6. /\ tried \in Seq(Attempts) /\ Len(attempts[j]) \in Nat
      /\ Len(tried) = Len(attempts[j]) + 1
      /\ \A i \in 1..Len(attempts[j]) : tried[i] = attempts[j][i]
      /\ tried[Len(attempts[j]) + 1] = x
  BY <1>3, <1>5, AppendProperties, LenProperties
<1> HIDE DEF tried
<1>7. reached \subseteq {p} /\ (reached # {} => MayHaveLeft(a))
  BY <1>1 DEF Reached, MayHaveLeft
<1>8. heard'[j] = heard[j] \cup reached
  BY <1>1 DEF WorkersInv, TypeOK
<1>9. \A k \in Jobs \ {j} : /\ heard'[k] = heard[k] /\ stage'[k] = stage[k]
                            /\ attempts'[k] = attempts[k] /\ todo'[k] = todo[k]
  BY <1>1, <1>2 DEF WorkersInv, TypeOK
<1>10. attempts'[j] = tried /\ todo'[j] = left
  BY <1>2 DEF WorkersInv, TypeOK
<1>11. TypeOK'
  <2>1. heard' \in [Jobs -> SUBSET Providers]
    BY <1>1, <1>4, <1>7 DEF WorkersInv, TypeOK
  <2>2. stage' \in [Jobs -> Stages]
    BY <1>2 DEF WorkersInv, TypeOK, Stages
  <2>3. todo' \in [Jobs -> Seq(Providers)] /\ attempts' \in [Jobs -> Seq(Attempts)]
    BY <1>2, <1>4, <1>6 DEF WorkersInv, TypeOK
  <2>. QED
    BY <1>2, <2>1, <2>2, <2>3 DEF WorkersInv, TypeOK
<1>12. OneWorks'
  BY <1>2, <1>9 DEF WorkersInv, OneWorks, Working, TypeOK
<1>13. OncePerRoute'
  <2>1. Distinct(tried, left)
    <3>1. \A i \in 1..Len(attempts[j]) : attempts[j][i].provider # p
      BY <1>3, <1>4 DEF Distinct
    <3>2. \A i \in 1..Len(left) : left[i] # p
      BY <1>3, <1>4 DEF Distinct
    <3>3. \A i, k \in 1..Len(tried) : tried[i].provider = tried[k].provider => i = k
      BY <1>3, <1>5, <1>6, <3>1 DEF Distinct
    <3>4. \A i, k \in 1..Len(left) : left[i] = left[k] => i = k
      BY <1>3, <1>4 DEF Distinct
    <3>5. ASSUME NEW i \in 1..Len(tried), NEW k \in 1..Len(left)
          PROVE  tried[i].provider # left[k]
      <4>1. CASE i = Len(attempts[j]) + 1
        BY <1>5, <1>6, <3>2, <4>1
      <4>2. CASE i \in 1..Len(attempts[j])
        <5>1. attempts[j][i].provider # todo[j][k + 1]
          BY <1>3, <1>4, <4>2 DEF Distinct
        <5>. QED
          BY <1>4, <1>6, <4>2, <5>1
      <4>. QED
        BY <1>6, <4>1, <4>2
    <3>. QED
      BY <3>3, <3>4, <3>5 DEF Distinct
  <2>. QED
    BY <1>9, <1>10, <2>1 DEF WorkersInv, OncePerRoute
<1>14. WorkersInStep'
  BY <1>2, <1>9 DEF WorkersInv, WorkersInStep
<1>15. AnswersTellAudio'
  <2>1. \A q \in heard[j] : Tells(tried, q)
    <3>1. \A q \in heard[j] : Tells(attempts[j], q)
      BY <1>2 DEF WorkersInv, AnswersTellAudio
    <3>2. \A q : Tells(attempts[j], q) => Tells(tried, q)
      BY <1>6 DEF Tells
    <3>. QED
      BY <3>1, <3>2
  <2>2. reached # {} => Tells(tried, p)
    BY <1>5, <1>6, <1>7 DEF Tells
  <2>. QED
    BY <1>7, <1>8, <1>9, <1>10, <2>1, <2>2 DEF WorkersInv, AnswersTellAudio
<1>16. CancelledIsToken'
  <2>1. ASSUME j \notin cancelled, NEW i \in 1..Len(tried)
        PROVE  tried[i].answer.category # "cancelled"
    BY <1>2, <1>5, <1>6, <2>1 DEF WorkersInv, CancelledIsToken
  <2>. QED
    BY <1>2, <1>9, <1>10, <2>1 DEF WorkersInv, CancelledIsToken
<1>17. RoutesAreCool'
  <2>1. ASSUME j \notin cancelled, NEW i \in 1..Len(left)
        PROVE  health[left[i]].cooling = 0
    BY <1>2, <1>4, <2>1 DEF WorkersInv, RoutesAreCool
  <2>. QED
    BY <1>2, <1>9, <1>10, <2>1 DEF WorkersInv, RoutesAreCool
<1>. QED
  BY <1>11, <1>12, <1>13, <1>14, <1>15, <1>16, <1>17 DEF WorkersInv

\* The other steps.
LEMMA WorkersGoOn ==
  ASSUME WorkersInv, NEW j \in Jobs, RouteEnds(j) \/ Choose(j) \/ Contact(j)
  PROVE  WorkersInv'
<1>1. /\ stage[j] \in {"choosing", "chosen"} /\ stage' = [stage EXCEPT ![j] = stage'[j]]
      /\ stage'[j] = "done" \/ (stage'[j] \in {"chosen", "recognizing"} /\ todo[j] # <<>>)
      /\ UNCHANGED <<controller, todo, replay, attempts, cancelled, heard>>
  BY DEF RouteEnds, Choose, Contact, WorkersInv, WorkersInStep, TypeOK
<1>2. UNCHANGED <<registry, health, usage, current>>
  BY <1>1 DEF controller
<1>3. TypeOK'
  BY <1>1, <1>2 DEF WorkersInv, TypeOK, Stages
<1>4. OneWorks' /\ WorkersInStep'
  BY <1>1, <1>2 DEF WorkersInv, OneWorks, Working, WorkersInStep, TypeOK
<1>5. OncePerRoute' /\ AnswersTellAudio' /\ CancelledIsToken'
  <2>1. OncePerRoute' /\ CancelledIsToken'
    BY <1>1 DEF WorkersInv, OncePerRoute, CancelledIsToken
  <2>2. \A k \in Jobs : stage'[k] # "recorded" => stage[k] # "recorded"
    BY <1>1 DEF WorkersInv, TypeOK
  <2>3. AnswersTellAudio'
    BY <1>1, <2>2 DEF WorkersInv, AnswersTellAudio
  <2>. QED
    BY <2>1, <2>3
<1>6. RoutesAreCool'
  <2>1. \A k \in Jobs : stage'[k] \in {"choosing", "chosen", "recognizing"}
                          => stage[k] \in {"choosing", "chosen", "recognizing"}
    BY <1>1 DEF WorkersInv, TypeOK
  <2>. QED
    BY <1>1, <1>2, <2>1 DEF WorkersInv, RoutesAreCool
<1>. QED
  BY <1>3, <1>4, <1>5, <1>6 DEF WorkersInv

LEMMA ControllerKeepsWorkers ==
  ASSUME WorkersInv, HealthInv', Cancel \/ Reload \/ Tick
  PROVE  WorkersInv'
<1>1. CASE Cancel
  <2>1. /\ current # NoJob /\ cancelled' = cancelled \cup {current} /\ current' = NoJob
        /\ current \in Jobs /\ NoJob \notin Jobs
        /\ UNCHANGED <<registry, health, usage, stage, todo, replay, attempts, heard>>
    BY <1>1, RouteAssumption DEF Cancel, WorkersInv, TypeOK
  <2>2. TypeOK'
    BY <2>1 DEF WorkersInv, TypeOK
  <2>3. OneWorks'
    BY <2>1 DEF WorkersInv, OneWorks, Working
  <2>4. OncePerRoute' /\ WorkersInStep' /\ AnswersTellAudio' /\ CancelledIsToken'
    BY <2>1 DEF WorkersInv, OncePerRoute, WorkersInStep, AnswersTellAudio,
                CancelledIsToken
  <2>5. RoutesAreCool'
    BY <2>1 DEF WorkersInv, RoutesAreCool
  <2>. QED
    BY <2>2, <2>3, <2>4, <2>5 DEF WorkersInv
<1>2. CASE Reload \/ Tick
  <2>1. /\ registry' \in Registries
        /\ UNCHANGED <<usage, current, stage, todo, replay, attempts, cancelled, heard>>
    BY <1>2 DEF Reload, Tick, workers, WorkersInv, TypeOK
  <2>2. TypeOK'
    BY <2>1 DEF WorkersInv, TypeOK, HealthInv, Health
  <2>3. OneWorks' /\ OncePerRoute' /\ WorkersInStep' /\ AnswersTellAudio'
        /\ CancelledIsToken'
    BY <2>1 DEF WorkersInv, OneWorks, OncePerRoute, WorkersInStep, AnswersTellAudio,
                CancelledIsToken
  <2>4. \A p \in Providers : health[p].cooling = 0 => health'[p].cooling = 0
    <3>1. CASE Reload
      BY <3>1 DEF Reload, Healthy
    <3>2. CASE Tick
      BY <3>2 DEF Tick, WorkersInv, TypeOK
    <3>. QED
      BY <1>2, <3>1, <3>2
  <2>5. \A k \in Jobs : \A i \in 1..Len(todo[k]) : todo[k][i] \in Providers
    BY ElementOfSeq DEF WorkersInv, TypeOK
  <2>6. RoutesAreCool'
    BY <2>1, <2>4, <2>5 DEF WorkersInv, RoutesAreCool
  <2>. QED
    BY <2>2, <2>3, <2>6 DEF WorkersInv
<1>. QED
  BY <1>1, <1>2

LEMMA StepKeepsWorkers ==
  ASSUME WorkersInv, HealthInv', usage' \in [Providers -> Usage], [Next]_vars
  PROVE  WorkersInv'
<1>1. CASE UNCHANGED vars
  <2>1. UNCHANGED <<registry, health, usage, current,
                    stage, todo, replay, attempts, cancelled, heard>>
    BY <1>1 DEF vars, controller, workers
  <2>2. TypeOK' /\ OneWorks' /\ OncePerRoute'
    BY <2>1 DEF WorkersInv, TypeOK, OneWorks, OncePerRoute
  <2>3. WorkersInStep' /\ AnswersTellAudio' /\ CancelledIsToken' /\ RoutesAreCool'
    BY <2>1
    DEF WorkersInv, WorkersInStep, AnswersTellAudio, CancelledIsToken, RoutesAreCool
  <2>. QED
    BY <2>2, <2>3 DEF WorkersInv
<1>. QED
  BY <1>1, PlanKeepsWorkers, PollKeepsWorkers, AnswerKeepsWorkers, WorkersGoOn,
     ControllerKeepsWorkers DEF Next, Worker

\* The account of one provider.
Balanced(u) ==
  /\ u.attempts = u.successes + u.failures
  /\ u.audio <= u.requests /\ u.requests <= u.attempts

\* The jobs whose results were taken and whose audio the provider has.
AudioJobs(p) == {j \in Jobs : stage[j] = "recorded" /\ p \in heard[j]}

\* An answer that is not a cancellation leaves an account balanced, and charges for the
\* audio that may have left.
LEMMA CountedBalances ==
  ASSUME NEW u \in Usage, Balanced(u), NEW a \in Answers, a.category # "cancelled"
  PROVE  /\ Counted(u, a) \in Usage
         /\ Balanced(Counted(u, a))
         /\ Counted(u, a).attempts = u.attempts + 1
         /\ Counted(u, a).audio = u.audio + IF MayHaveLeft(a) THEN 1 ELSE 0
<1>1. /\ u.attempts \in Nat /\ u.requests \in Nat /\ u.successes \in Nat
      /\ u.failures \in Nat /\ u.audio \in Nat
  BY DEF Usage
<1>2. MayHaveLeft(a) => a.transport = TRUE
  BY DEF Answers, MayHaveLeft
<1>3. Counted(u, a) =
        [attempts  |-> u.attempts + 1,
         requests  |-> u.requests + IF a.transport THEN 1 ELSE 0,
         successes |-> u.successes + IF a.kind = "text" THEN 1 ELSE 0,
         failures  |-> u.failures + IF a.kind = "text" THEN 0 ELSE 1,
         audio     |-> u.audio + IF MayHaveLeft(a) THEN 1 ELSE 0]
  BY DEF Counted
<1> DEFINE x == IF a.transport THEN 1 ELSE 0
           y == IF a.kind = "text" THEN 1 ELSE 0
           n == IF a.kind = "text" THEN 0 ELSE 1
           z == IF MayHaveLeft(a) THEN 1 ELSE 0
<1>4. x \in Nat /\ y \in Nat /\ n \in Nat /\ z \in Nat
      /\ y + n = 1 /\ z <= x /\ x <= 1
  BY <1>2
<1>5. Counted(u, a) = [attempts |-> u.attempts + 1, requests |-> u.requests + x,
                       successes |-> u.successes + y, failures |-> u.failures + n,
                       audio |-> u.audio + z]
  BY <1>3
<1> HIDE DEF x, y, n, z
<1>6. Counted(u, a) \in Usage /\ Balanced(Counted(u, a))
  BY <1>1, <1>4, <1>5 DEF Usage, Balanced
<1>. QED
  BY <1>5, <1>6 DEF z

\* In a route that asks each provider once, its answer is the one it gave.
LEMMA AnswerIsTheOne ==
  ASSUME NEW tried \in Seq(Attempts),
         \A i, k \in 1..Len(tried) : tried[i].provider = tried[k].provider => i = k,
         NEW p
  PROVE  /\ Answered(p, tried) => \E i \in 1..Len(tried) :
              tried[i].provider = p /\ AnswerOf(p, tried) = tried[i].answer
         /\ \A i \in 1..Len(tried) : tried[i].provider = p =>
              Answered(p, tried) /\ AnswerOf(p, tried) = tried[i].answer
<1> DEFINE A == AnswersOf(p, tried)
<1>1. \A a \in A : \E i \in 1..Len(tried) :
        tried[i].provider = p /\ a = tried[i].answer
  BY DEF AnswersOf
<1>2. \A i \in 1..Len(tried) : tried[i].provider = p => tried[i].answer \in A
  BY DEF AnswersOf
<1>3. \A a, b \in A : a = b
  BY <1>1
<1>4. A # {} => AnswerOf(p, tried) \in A
  BY DEF AnswerOf
<1> HIDE DEF A
<1>5. Answered(p, tried) <=> A # {}
  BY DEF Answered, A
<1>. QED
  BY <1>1, <1>2, <1>3, <1>4, <1>5

\* When the result of a job is taken, every provider's account stays balanced, and whoever
\* has the audio of the job is charged for it.
LEMMA PollKeepsAccounts ==
  ASSUME WorkersInv, AccountsInv, NEW j \in Jobs, Poll(j)
  PROVE  usage' \in [Providers -> Usage] /\ AccountsInv'
<1> DEFINE tried == attempts[j]
<1>1. /\ current = j /\ stage[j] = "done"
      /\ stage' = [stage EXCEPT ![j] = "recorded"] /\ heard' = heard
      /\ usage' = [p \in Providers |-> IF Answered(p, tried)
                    THEN Counted(usage[p], AnswerOf(p, tried)) ELSE usage[p]]
  BY DEF Poll, Record
<1>2. /\ tried \in Seq(Attempts) /\ usage \in [Providers -> Usage]
      /\ stage \in [Jobs -> Stages]
  BY DEF WorkersInv, TypeOK, Usage
<1>3. \A i, k \in 1..Len(tried) : tried[i].provider = tried[k].provider => i = k
  BY DEF WorkersInv, OncePerRoute, Distinct
<1>4. j \notin cancelled
  <2>1. j # NoJob
    BY RouteAssumption
  <2>. QED
    BY <1>1, <2>1 DEF WorkersInv, OneWorks
<1>5. \A i \in 1..Len(tried) :
        tried[i].answer \in Answers /\ tried[i].answer.category # "cancelled"
  <2>1. \A i \in 1..Len(tried) : tried[i].answer \in Answers
    <3>1. \A i \in 1..Len(tried) : tried[i] \in Attempts
      BY <1>2, ElementOfSeq
    <3>2. \A x \in Attempts : x.answer \in Answers
      BY DEF Attempts
    <3>. QED
      BY <3>1, <3>2
  <2>. QED
    BY <1>4, <2>1 DEF WorkersInv, CancelledIsToken
<1>6. \A p \in heard[j] : Tells(tried, p)
  BY <1>1 DEF WorkersInv, AnswersTellAudio
<1> HIDE DEF tried
<1>7. \A p : /\ Answered(p, tried) => \E i \in 1..Len(tried) :
                   tried[i].provider = p /\ AnswerOf(p, tried) = tried[i].answer
             /\ \A i \in 1..Len(tried) : tried[i].provider = p =>
                   Answered(p, tried) /\ AnswerOf(p, tried) = tried[i].answer
  BY <1>2, <1>3, AnswerIsTheOne
<1>8. /\ IsFiniteSet(RecordedJobs') /\ Cardinality(RecordedJobs) \in Nat
      /\ Cardinality(RecordedJobs') = Cardinality(RecordedJobs) + 1
  <2>1. RecordedJobs' = RecordedJobs \cup {j} /\ j \notin RecordedJobs
    BY <1>1, <1>2 DEF RecordedJobs
  <2>. QED
    BY <2>1, FS_AddElement, FS_CardinalityType DEF AccountsInv
<1>9. ASSUME NEW p \in Providers
      PROVE  /\ usage'[p] \in Usage /\ Balanced(usage'[p])
             /\ usage'[p].audio >= Cardinality(AudioJobs(p)')
             /\ usage'[p].attempts <= Cardinality(RecordedJobs')
  <2>1. /\ usage[p] \in Usage /\ Balanced(usage[p])
        /\ usage[p].audio >= Cardinality(AudioJobs(p))
        /\ usage[p].attempts <= Cardinality(RecordedJobs)
    BY <1>2 DEF AccountsInv, AccountsBalance, Balanced, AudioJobs, RecordedJobs
  <2>2. usage[p].audio \in Nat /\ usage[p].attempts \in Nat
    BY <2>1 DEF Usage
  <2>3. IsFiniteSet(AudioJobs(p)) /\ Cardinality(AudioJobs(p)) \in Nat
    <3>1. AudioJobs(p) \subseteq RecordedJobs
      BY DEF AudioJobs, RecordedJobs
    <3>. QED
      BY <3>1, FS_Subset, FS_CardinalityType DEF AccountsInv
  <2>4. /\ p \notin heard[j] => AudioJobs(p)' = AudioJobs(p)
        /\ p \in heard[j] => AudioJobs(p)' = AudioJobs(p) \cup {j}
    BY <1>1, <1>2 DEF AudioJobs
  <2>5. j \notin AudioJobs(p)
    BY <1>1 DEF AudioJobs
  <2>6. Cardinality(AudioJobs(p) \cup {j}) = Cardinality(AudioJobs(p)) + 1
    BY <2>3, <2>5, FS_AddElement
  <2>7. CASE Answered(p, tried)
    <3> DEFINE a == AnswerOf(p, tried)
    <3>1. a \in Answers /\ a.category # "cancelled"
      <4>1. PICK i \in 1..Len(tried) : AnswerOf(p, tried) = tried[i].answer
        BY <1>7, <2>7
      <4>. QED
        BY <1>5, <4>1
    <3>2. p \in heard[j] => MayHaveLeft(a)
      <4>1. SUFFICES ASSUME p \in heard[j] PROVE MayHaveLeft(a)
        OBVIOUS
      <4>2. PICK i \in 1..Len(tried) :
              tried[i].provider = p /\ MayHaveLeft(tried[i].answer)
        BY <1>6, <4>1 DEF Tells
      <4>3. a = tried[i].answer
        BY <1>7, <4>2
      <4>. QED
        BY <4>2, <4>3
    <3>3. usage'[p] = Counted(usage[p], a)
      BY <1>1, <2>7
    <3> HIDE DEF a
    <3>4. /\ usage'[p] \in Usage /\ Balanced(usage'[p])
          /\ usage'[p].audio = usage[p].audio + IF MayHaveLeft(a) THEN 1 ELSE 0
          /\ usage'[p].attempts = usage[p].attempts + 1
      BY <2>1, <3>1, <3>3, CountedBalances
    <3>5. usage'[p].audio >= Cardinality(AudioJobs(p)')
      <4>1. CASE p \in heard[j]
        <5>1. usage'[p].audio = usage[p].audio + 1
          BY <3>2, <3>4, <4>1
        <5>2. Cardinality(AudioJobs(p)') = Cardinality(AudioJobs(p)) + 1
          BY <2>4, <2>6, <4>1
        <5>. QED
          BY <2>1, <2>2, <2>3, <5>1, <5>2
      <4>2. CASE p \notin heard[j]
        BY <2>1, <2>2, <2>3, <2>4, <3>4, <4>2
      <4>. QED
        BY <4>1, <4>2
    <3>6. usage'[p].attempts <= Cardinality(RecordedJobs')
      BY <1>8, <2>1, <2>2, <3>4
    <3>. QED
      BY <3>4, <3>5, <3>6
  <2>8. CASE ~ Answered(p, tried)
    <3>1. p \notin heard[j]
      BY <1>6, <1>7, <2>8 DEF Tells
    <3>2. usage'[p] = usage[p]
      BY <1>1, <2>8
    <3>3. usage'[p].attempts <= Cardinality(RecordedJobs')
      BY <1>8, <2>1, <2>2, <3>2
    <3>. QED
      BY <2>1, <2>4, <3>1, <3>2, <3>3
  <2>. QED
    BY <2>7, <2>8
<1>10. usage' \in [Providers -> Usage]
  BY <1>1, <1>9
<1>11. AccountsBalance'
  BY <1>9 DEF AccountsBalance, Balanced, AudioJobs, RecordedJobs
<1>. QED
  BY <1>8, <1>10, <1>11 DEF AccountsInv

\* No other step takes a result, and the audio of the jobs whose results were taken stays
\* where it is.
LEMMA StepKeepsAccounts ==
  ASSUME WorkersInv, AccountsInv, [Next]_vars
  PROVE  usage' \in [Providers -> Usage] /\ AccountsInv'
<1>1. ASSUME NEW j \in Jobs, Poll(j)
      PROVE  usage' \in [Providers -> Usage] /\ AccountsInv'
  BY <1>1, PollKeepsAccounts
<1>2. ASSUME usage' = usage,
             \A j \in Jobs : (stage'[j] = "recorded") <=> (stage[j] = "recorded"),
             \A j \in Jobs : stage[j] = "recorded" => heard'[j] = heard[j]
      PROVE  usage' \in [Providers -> Usage] /\ AccountsInv'
  <2>1. RecordedJobs' = RecordedJobs
    BY <1>2 DEF RecordedJobs
  <2>2. \A p \in Providers : AudioJobs(p)' = AudioJobs(p)
    BY <1>2 DEF AudioJobs
  <2>3. \A p \in Providers : /\ Balanced(usage[p])
                             /\ usage[p].audio >= Cardinality(AudioJobs(p))
                             /\ usage[p].attempts <= Cardinality(RecordedJobs)
    BY DEF AccountsInv, AccountsBalance, Balanced, AudioJobs, RecordedJobs
  <2>4. AccountsBalance'
    BY <1>2, <2>1, <2>2, <2>3 DEF AccountsBalance, Balanced, AudioJobs, RecordedJobs
  <2>. QED
    BY <1>2, <2>1, <2>4 DEF AccountsInv, WorkersInv, TypeOK, Usage
<1>3. ASSUME NEW j \in Jobs, Worker(j)
      PROVE  usage' \in [Providers -> Usage] /\ AccountsInv'
  <2>1. /\ stage' = [stage EXCEPT ![j] = stage'[j]]
        /\ stage[j] # "recorded" /\ stage'[j] # "recorded"
        /\ usage' = usage
        /\ \A k \in Jobs \ {j} : heard'[k] = heard[k]
    BY <1>3 DEF Worker, RouteEnds, Choose, Contact, Answer, controller, WorkersInv, TypeOK
  <2>. QED
    BY <1>2, <2>1 DEF WorkersInv, TypeOK
<1>4. ASSUME NEW j \in Jobs, NEW policy \in Policies, Plan(j, policy)
      PROVE  usage' \in [Providers -> Usage] /\ AccountsInv'
  BY <1>2, <1>4 DEF Plan, WorkersInv, TypeOK
<1>5. CASE Cancel \/ Reload \/ Tick \/ UNCHANGED vars
  BY <1>2, <1>5 DEF Cancel, Reload, Tick, workers, controller, vars
<1>. QED
  BY <1>1, <1>3, <1>4, <1>5 DEF Next

RouteInv == WorkersInv /\ AccountsInv /\ HealthInv

LEMMA RouteIsGood == Spec => []RouteInv
<1>1. Init => HealthInv
  BY RouteAssumption DEF Init, HealthInv, Healthy, Health, Deserved
<1>2. Init => RouteInv
  BY <1>1, WorkersInit DEF RouteInv
<1>3. RouteInv /\ [Next]_vars => RouteInv'
  BY StepKeepsHealth, StepKeepsWorkers, StepKeepsAccounts DEF RouteInv
<1>. QED
  BY <1>2, <1>3, PTL DEF Spec

\* The state of the route is always what its declarations say.
THEOREM RouteTypeCorrect == Spec => []TypeOK
<1>1. RouteInv => TypeOK
  BY DEF RouteInv, WorkersInv
<1>. QED
  BY <1>1, RouteIsGood, PTL

\* Whoever has had the audio of a job whose result was taken is charged for it, and the
\* accounts balance: record_route_result (controller.rs:248), for any providers and jobs.
THEOREM AccountsStayBalanced == Spec => []AccountsBalance
<1>1. RouteInv => AccountsBalance
  BY DEF RouteInv, AccountsInv
<1>. QED
  BY <1>1, RouteIsGood, PTL

\* No worker decides for a provider that is cooling down, whatever else has failed since
\* its route was planned (controller.rs:222); it only calls one if its token was cancelled
\* between the check and the call (provider.rs:161-182).
THEOREM CooldownIsRespected == Spec => CoolingIsRespected
<1> DEFINE Cool ==
      \A j \in Jobs :
        /\ stage[j] = "choosing" /\ stage'[j] = "chosen"
             => health[Head(todo[j])].cooling = 0
        /\ stage[j] = "chosen" /\ stage'[j] = "recognizing"
             => health[Head(todo[j])].cooling = 0 \/ j \in cancelled
<1>1. RouteInv /\ [Next]_vars => [Cool]_vars
  <2> SUFFICES ASSUME RouteInv, Next, NEW j \in Jobs
               PROVE  /\ stage[j] = "choosing" /\ stage'[j] = "chosen"
                           => health[Head(todo[j])].cooling = 0
                      /\ stage[j] = "chosen" /\ stage'[j] = "recognizing"
                           => health[Head(todo[j])].cooling = 0 \/ j \in cancelled
    OBVIOUS
  <2>1. stage \in [Jobs -> Stages] /\ todo[j] \in Seq(Providers)
    BY DEF RouteInv, WorkersInv, TypeOK
  <2>2. ASSUME todo[j] # <<>>, j \notin cancelled, stage[j] \in {"choosing", "chosen"}
        PROVE  health[Head(todo[j])].cooling = 0
    <3>1. Len(todo[j]) \in Nat \ {0} /\ Head(todo[j]) = todo[j][1]
      BY <2>1, <2>2, HeadTailProperties, LenProperties
    <3>. QED
      BY <2>2, <3>1 DEF RouteInv, WorkersInv, RoutesAreCool
  <2>3. ASSUME stage[j] = "choosing", stage'[j] = "chosen"
        PROVE  health[Head(todo[j])].cooling = 0
    <3>1. Choose(j)
      BY <2>1, <2>3 DEF Next, Worker, Poll, RouteEnds, Choose, Contact, Answer, Plan,
                        Cancel, Reload, Tick, workers
    <3>. QED
      BY <2>2, <2>3, <3>1 DEF Choose
  <2>4. stage[j] = "chosen" => todo[j] # <<>>
    BY DEF RouteInv, WorkersInv, WorkersInStep
  <2>. QED
    BY <2>2, <2>3, <2>4
<1>. QED
  BY <1>1, RouteIsGood, PTL DEF Spec, CoolingIsRespected
-----------------------------------------------------------------------------
(***************************************************************************)
(* What JobsEnd rests on: a job that the daemon waits for can always be    *)
(* taken one step further, and there are not many steps.                   *)
(***************************************************************************)

\* The steps that a worker has before it, at most.
StepsOf(where, left) ==
  IF where = "choosing" THEN 3 * Len(left) + 1
  ELSE IF where = "chosen" THEN 3 * Len(left)
  ELSE IF where = "recognizing" THEN 3 * Len(left) - 1
  ELSE 0

StepsLeft(j) == StepsOf(stage[j], todo[j])

\* The worker of the current job has somebody to ask or nothing left to ask; or its result
\* waits for the daemon, whose token nobody cancelled.
CurrentJobGoesOn ==
  current # NoJob =>
    /\ current \notin cancelled
    /\ \/ stage[current] = "choosing"
       \/ stage[current] \in {"chosen", "recognizing"} /\ todo[current] # <<>>
       \/ stage[current] = "done"

\* Every step of a worker brings it nearer to its end, and no other step takes one that was
\* started away from it.
WorkersGetNearer ==
  [][ \A j \in Jobs :
        /\ StepsLeft(j) \in Nat
        /\ Worker(j) => StepsOf(stage'[j], todo'[j]) < StepsLeft(j)
        /\ stage[j] # "idle" => StepsOf(stage'[j], todo'[j]) <= StepsLeft(j)
    ]_vars

\* current_job of controller.rs is never a job that nobody works on: the daemon does not
\* wait in vain.
THEOREM CurrentJobAlwaysGoesOn == Spec => []CurrentJobGoesOn
<1>1. RouteInv => CurrentJobGoesOn
  <2> SUFFICES ASSUME RouteInv, current # NoJob
               PROVE  /\ current \notin cancelled
                      /\ \/ stage[current] = "choosing"
                         \/ stage[current] \in {"chosen", "recognizing"} /\ todo[current] # <<>>
                         \/ stage[current] = "done"
    BY DEF CurrentJobGoesOn
  <2>1. current \in Jobs /\ stage[current] \in Working /\ current \notin cancelled
    BY DEF RouteInv, WorkersInv, TypeOK, OneWorks
  <2>2. stage[current] \in {"chosen", "recognizing"} => todo[current] # <<>>
    BY <2>1 DEF RouteInv, WorkersInv, WorkersInStep
  <2>. QED
    BY <2>1, <2>2 DEF Working
<1>. QED
  BY <1>1, RouteIsGood, PTL

LEMMA StepsAreCounted ==
  ASSUME NEW where, NEW left \in Seq(Providers),
         where \in {"chosen", "recognizing"} => left # <<>>
  PROVE  /\ StepsOf(where, left) \in Nat
         /\ where \notin {"choosing", "chosen", "recognizing"} => StepsOf(where, left) = 0
         /\ where = "choosing" =>
              StepsOf("done", left) < StepsOf(where, left)
              /\ StepsOf("chosen", left) < StepsOf(where, left)
         /\ where = "chosen" => StepsOf("recognizing", left) < StepsOf(where, left)
         /\ where = "recognizing" => \A other \in {"choosing", "done"} :
              StepsOf(other, Tail(left)) < StepsOf(where, left)
<1>1. Len(left) \in Nat
  BY LenProperties
<1>2. left # <<>> => Len(Tail(left)) \in Nat /\ Len(Tail(left)) = Len(left) - 1 /\ Len(left) > 0
  BY HeadTailProperties, LenProperties, EmptySeq
<1>. QED
  BY <1>1, <1>2 DEF StepsOf

\* A route of n providers is over after 3 * n + 1 steps of its worker, however they fail
\* (run_recognition_route, provider.rs).
THEOREM RouteIsFinite == Spec => WorkersGetNearer
<1> DEFINE Near ==
      \A j \in Jobs :
        /\ StepsLeft(j) \in Nat
        /\ Worker(j) => StepsOf(stage'[j], todo'[j]) < StepsLeft(j)
        /\ stage[j] # "idle" => StepsOf(stage'[j], todo'[j]) <= StepsLeft(j)
<1>1. RouteInv /\ [Next]_vars => [Near]_vars
  <2> SUFFICES ASSUME RouteInv, Next, NEW j \in Jobs
               PROVE  /\ StepsLeft(j) \in Nat
                      /\ Worker(j) => StepsOf(stage'[j], todo'[j]) < StepsLeft(j)
                      /\ stage[j] # "idle" => StepsOf(stage'[j], todo'[j]) <= StepsLeft(j)
    OBVIOUS
  <2>1. /\ stage \in [Jobs -> Stages] /\ todo \in [Jobs -> Seq(Providers)]
        /\ todo[j] \in Seq(Providers)
        /\ stage[j] \in {"chosen", "recognizing"} => todo[j] # <<>>
    BY DEF RouteInv, WorkersInv, TypeOK, WorkersInStep
  <2>2. StepsLeft(j) \in Nat
    BY <2>1, StepsAreCounted DEF StepsLeft
  <2>3. ASSUME Worker(j) PROVE StepsOf(stage'[j], todo'[j]) < StepsLeft(j)
    <3>1. CASE RouteEnds(j) \/ Choose(j) \/ Contact(j)
      <4>1. /\ todo'[j] = todo[j]
            /\ \/ stage[j] = "choosing" /\ stage'[j] \in {"done", "chosen"}
               \/ stage[j] = "chosen" /\ stage'[j] = "recognizing"
        BY <2>1, <3>1 DEF RouteEnds, Choose, Contact
      <4>. QED
        BY <2>1, <4>1, StepsAreCounted DEF StepsLeft
    <3>2. CASE \E a \in Answers : Answer(j, a)
      <4>1. stage[j] = "recognizing" /\ stage'[j] \in {"done", "choosing"} /\ todo'[j] = Tail(todo[j])
        BY <2>1, <3>2 DEF Answer
      <4>. QED
        BY <2>1, <4>1, StepsAreCounted DEF StepsLeft
    <3>. QED
      BY <2>3, <3>1, <3>2 DEF Worker
  <2>4. ASSUME stage[j] # "idle" PROVE StepsOf(stage'[j], todo'[j]) <= StepsLeft(j)
    <3>1. CASE stage'[j] = stage[j] /\ todo'[j] = todo[j]
      BY <2>2, <3>1 DEF StepsLeft
    <3>2. CASE Worker(j)
      <4>1. StepsOf(stage'[j], todo'[j]) \in Nat
        <5>1. \/ /\ todo'[j] = todo[j]
                 /\ stage'[j] \in {"chosen", "recognizing"} => todo[j] # <<>>
              \/ /\ todo[j] # <<>> /\ todo'[j] = Tail(todo[j])
                 /\ stage'[j] \in {"choosing", "done"}
          BY <2>1, <3>2 DEF Worker, RouteEnds, Choose, Contact, Answer
        <5>2. todo'[j] \in Seq(Providers)
          BY <2>1, <5>1, HeadTailProperties
        <5>. QED
          BY <5>1, <5>2, StepsAreCounted
      <4>. QED
        BY <2>2, <2>3, <3>2, <4>1
    <3>3. CASE Poll(j)
      <4>1. stage'[j] = "recorded" /\ todo'[j] = <<>>
        BY <2>1, <3>3 DEF Poll
      <4>2. StepsOf(stage'[j], todo'[j]) = 0
        BY <4>1 DEF StepsOf
      <4>. QED
        BY <2>2, <4>2
    <3>4. ASSUME NEW k \in Jobs, k # j, Poll(k) \/ Worker(k) \/ \E policy \in Policies : Plan(k, policy)
          PROVE  stage'[j] = stage[j] /\ todo'[j] = todo[j]
      BY <2>1, <3>4 DEF Poll, Worker, RouteEnds, Choose, Contact, Answer, Plan
    <3>5. ASSUME Cancel \/ Reload \/ Tick
          PROVE  stage'[j] = stage[j] /\ todo'[j] = todo[j]
      BY <3>5 DEF Cancel, Reload, Tick, workers
    <3>6. ~ \E policy \in Policies : Plan(j, policy)
      BY <2>4 DEF Plan
    <3>. QED
      BY <3>1, <3>2, <3>3, <3>4, <3>5, <3>6 DEF Next
  <2>. QED
    BY <2>2, <2>3, <2>4
<1>. QED
  BY <1>1, RouteIsGood, PTL DEF Spec, WorkersGetNearer
=============================================================================
