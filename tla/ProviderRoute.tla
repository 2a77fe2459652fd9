---------------------------- MODULE ProviderRoute ----------------------------
(***************************************************************************)
(* Recognition routes: planning and accounting in the controller           *)
(* (crates/voxtype-app/src/controller.rs), and the worker that tries one   *)
(* provider after the other (crates/voxtype-app/src/provider.rs with       *)
(* crates/voxtype-core/src/routing.rs).                                    *)
(*                                                                         *)
(* The daemon has at most one job, but a worker whose job was cancelled    *)
(* goes on until it notices, beside the worker of the next job.  What an   *)
(* adapter does inside `recognize` is in modules of its own; here it may   *)
(* upload the audio, and answers anything that HonestAttempt allows.       *)
(*                                                                         *)
(* Time is the time that each cooldown still has to run, counted in ticks. *)
(* Durations, tokens and the verification age of a provider are left out.  *)
(***************************************************************************)
EXTENDS Integers, Sequences, FiniteSets, RecognitionAnswer

CONSTANTS
  Providers,
  Registries,   \* the sets of providers that a configuration may register
  Policies,     \* the profiles: [order : the providers, replay : ReplayPolicies]
  Jobs,         \* the recognition jobs, each run at most once
  NoJob,
  MaxFailures,  \* 3 in the source
  Cooldown      \* 60 s in the source, in ticks

ReplayPolicies == {"never", "before-audio-accepted", "buffered-with-consent"}

ASSUME RouteAssumption ==
  /\ Registries \subseteq SUBSET Providers /\ Registries # {}
  /\ Policies \subseteq [order : Seq(Providers), replay : ReplayPolicies]
  /\ \A policy \in Policies : \A i, k \in 1..Len(policy.order) :   \* config.rs:524
       policy.order[i] = policy.order[k] => i = k
  /\ NoJob \notin Jobs
  /\ MaxFailures \in Nat \ {0}
  /\ Cooldown \in Nat \ {0}

VARIABLES
  registry,   \* the registered providers
  health,     \* provider_health: consecutive_failures, and blocked_until
  usage,      \* provider_usage: attempts, requests, successes, failures, audio
  current,    \* the recognition job of the daemon
  stage,      \* per job: where its worker is
  todo,       \* per job: the providers of its route still to be tried
  replay,     \* per job: the replay policy of its route
  attempts,   \* per job: the attempts its worker has made
  cancelled,  \* the jobs whose token is cancelled
  heard       \* external: the providers that the audio of a job has reached

controller == <<registry, health, usage, current>>
workers    == <<stage, todo, replay, attempts, cancelled, heard>>
vars       == <<controller, workers>>

Attempts == [provider : Providers, answer : Answers]

Stages == {"idle", "choosing", "chosen", "recognizing", "done", "recorded"}

Healthy == [failures |-> 0, cooling |-> 0]

NoUsage == [attempts |-> 0, requests |-> 0, successes |-> 0, failures |-> 0,
            audio |-> 0]

Init ==
  /\ registry \in Registries
  /\ health    = [p \in Providers |-> Healthy]
  /\ usage     = [p \in Providers |-> NoUsage]
  /\ current   = NoJob
  /\ stage     = [j \in Jobs |-> "idle"]
  /\ todo      = [j \in Jobs |-> <<>>]
  /\ replay    = [j \in Jobs |-> "never"]
  /\ attempts  = [j \in Jobs |-> <<>>]
  /\ cancelled = {}
  /\ heard     = [j \in Jobs |-> {}]

-----------------------------------------------------------------------------
(***************************************************************************)
(* The controller: planning, accounting, reloading.                        *)
(***************************************************************************)

Available(p) == p \in registry /\ health[p].cooling = 0

\* plan_route: the providers that are available, in the configured order.
Route(order) ==
  LET among[n \in 0..Len(order)] ==
        IF n = 0 THEN <<>>
        ELSE IF Available(order[n]) THEN Append(among[n - 1], order[n])
        ELSE among[n - 1]
  IN among[Len(order)]

\* The start of the worker with its route.
Plan(j, policy) ==
  /\ current = NoJob
  /\ stage[j] = "idle"
  /\ Route(policy.order) # <<>>
  /\ todo'    = [todo EXCEPT ![j] = Route(policy.order)]
  /\ current' = j
  /\ stage'   = [stage EXCEPT ![j] = "choosing"]
  /\ replay'  = [replay EXCEPT ![j] = policy.replay]
  /\ UNCHANGED <<registry, health, usage, attempts, cancelled, heard>>

\* record_failure_at; the count saturates where nothing tells it apart.
AfterFailure(h, a) ==
  IF ~ a.retryable THEN h
  ELSE LET n == IF h.failures = MaxFailures THEN MaxFailures ELSE h.failures + 1
       IN [failures |-> n, cooling |-> IF n = MaxFailures THEN Cooldown ELSE h.cooling]

\* An answer in the account of its provider.
Counted(u, a) ==
  [attempts  |-> u.attempts + 1,
   requests  |-> u.requests + IF a.transport THEN 1 ELSE 0,
   successes |-> u.successes + IF a.kind = "text" THEN 1 ELSE 0,
   failures  |-> u.failures
                 + IF a.kind = "text" \/ a.category = "cancelled" THEN 0 ELSE 1,
   audio     |-> u.audio + IF MayHaveLeft(a) THEN 1 ELSE 0]

HealthAfter(h, a) ==
  IF a.kind = "text" THEN Healthy
  ELSE IF a.category = "cancelled" THEN h
  ELSE AfterFailure(h, a)

\* The answer of a provider in a route: config.rs refuses a profile that names
\* a provider twice, so that there is one at most.
AnswersOf(p, tried) ==
  {tried[i].answer : i \in {k \in 1..Len(tried) : tried[k].provider = p}}

AnswerOf(p, tried) == CHOOSE a \in AnswersOf(p, tried) : TRUE

Answered(p, tried) == AnswersOf(p, tried) # {}

\* Mutant: the answers without an error are forgotten.
Record_Failures(tried) ==
  LET failed == {p \in Providers : /\ Answered(p, tried)
                                  /\ AnswerOf(p, tried).kind # "text"}
  IN /\ usage'  = [p \in Providers |-> IF p \in failed
                    THEN Counted(usage[p], AnswerOf(p, tried)) ELSE usage[p]]
     /\ health' = [p \in Providers |-> IF p \in failed
                    THEN HealthAfter(health[p], AnswerOf(p, tried)) ELSE health[p]]

\* record_route_result
Record(tried) ==
  /\ usage'  = [p \in Providers |-> IF Answered(p, tried)
                 THEN Counted(usage[p], AnswerOf(p, tried)) ELSE usage[p]]
  /\ health' = [p \in Providers |-> IF Answered(p, tried)
                 THEN HealthAfter(health[p], AnswerOf(p, tried)) ELSE health[p]]

\* poll_recognition takes the result of the job.
Poll(j) ==
  /\ current = j
  /\ stage[j] = "done"
  /\ Record(attempts[j])
  /\ stage'    = [stage EXCEPT ![j] = "recorded"]
  /\ todo'     = [todo EXCEPT ![j] = <<>>]
  /\ attempts' = [attempts EXCEPT ![j] = <<>>]
  /\ current'  = NoJob
  /\ UNCHANGED <<registry, replay, cancelled, heard>>

\* Cancel and Quit: the token is set, and the result will not be taken.
Cancel ==
  /\ current # NoJob
  /\ cancelled' = cancelled \cup {current}
  /\ current' = NoJob
  /\ UNCHANGED <<registry, health, usage, stage, todo, replay, attempts, heard>>

\* replace_registry
Reload ==
  /\ current = NoJob
  /\ registry' \in Registries
  /\ health' = [p \in Providers |-> Healthy]
  /\ UNCHANGED <<usage, current, workers>>

\* Time passes for the cooldowns.
Tick ==
  /\ \E p \in Providers : health[p].cooling > 0
  /\ health' = [p \in Providers |->
                  [health[p] EXCEPT !.cooling = IF @ = 0 THEN 0 ELSE @ - 1]]
  /\ UNCHANGED <<registry, usage, current, workers>>

-----------------------------------------------------------------------------
(***************************************************************************)
(* The worker, run_recognition_route.  It has a copy of the registry that  *)
(* its route was planned from, and finds every provider of the route.      *)
(***************************************************************************)

\* Mutant: whoever has not confirmed the audio is taken not to have it.
MayFallBack_UnlessConfirmed(a, policy) ==
  /\ a.category = "transient"
  /\ a.acceptance # "accepted" \/ policy = "buffered-with-consent"

\* fallback_reason and may_fallback
MayFallBack(a, policy) ==
  /\ a.category = "transient"
  /\ a.acceptance = "not-accepted" \/ policy = "buffered-with-consent"

\* Mutant: the end of the route goes unnoticed.
RouteEnds_OnlyCancelled(j) ==
  /\ stage[j] = "choosing"
  /\ j \in cancelled
  /\ stage' = [stage EXCEPT ![j] = "done"]
  /\ UNCHANGED <<controller, todo, replay, attempts, cancelled, heard>>

\* No provider is left, or the token is found cancelled.
RouteEnds(j) ==
  /\ stage[j] = "choosing"
  /\ todo[j] = <<>> \/ j \in cancelled
  /\ stage' = [stage EXCEPT ![j] = "done"]
  /\ UNCHANGED <<controller, todo, replay, attempts, cancelled, heard>>

\* Mutant: the token is looked at before the first provider only.
Choose_ChecksTokenOnce(j) ==
  /\ stage[j] = "choosing"
  /\ todo[j] # <<>>
  /\ attempts[j] = <<>> => j \notin cancelled
  /\ stage' = [stage EXCEPT ![j] = "chosen"]
  /\ UNCHANGED <<controller, todo, replay, attempts, cancelled, heard>>

\* The token is found not cancelled, and the provider is looked up.
Choose(j) ==
  /\ stage[j] = "choosing"
  /\ todo[j] # <<>>
  /\ j \notin cancelled
  /\ stage' = [stage EXCEPT ![j] = "chosen"]
  /\ UNCHANGED <<controller, todo, replay, attempts, cancelled, heard>>

\* recognize is called, whatever became of the token since.
Contact(j) ==
  /\ stage[j] = "chosen"
  /\ stage' = [stage EXCEPT ![j] = "recognizing"]
  /\ UNCHANGED <<controller, todo, replay, attempts, cancelled, heard>>

\* External: whom the audio of an attempt with p reaches, given the evidence.
Reached(p, a) ==
  IF a.acceptance = "accepted" THEN {{p}}
  ELSE IF MayHaveLeft(a) THEN {{}, {p}}
  ELSE {{}}

\* recognize returns.  An adapter reports Cancelled only when the token is.
Answer(j, a) ==
  /\ stage[j] = "recognizing"
  /\ a.category = "cancelled" => j \in cancelled
  /\ LET p == Head(todo[j])
     IN /\ \E reached \in Reached(p, a) :
             heard' = [heard EXCEPT ![j] = @ \cup reached]
        /\ attempts' = [attempts EXCEPT ![j] =
                          Append(@, [provider |-> p, answer |-> a])]
  /\ todo'  = [todo EXCEPT ![j] = Tail(@)]
  /\ stage' = [stage EXCEPT ![j] =
                 IF a.kind = "error" /\ a.retryable /\ MayFallBack(a, replay[j])
                 THEN "choosing" ELSE "done"]
  /\ UNCHANGED <<controller, replay, cancelled>>

Worker(j) == RouteEnds(j) \/ Choose(j) \/ Contact(j) \/ \E a \in Answers : Answer(j, a)

Next ==
  \/ \E j \in Jobs : Poll(j) \/ Worker(j) \/ \E policy \in Policies : Plan(j, policy)
  \/ Cancel
  \/ Reload
  \/ Tick

Spec == Init /\ [][Next]_vars

\* The worker is a thread, an adapter answers or gives up, the loop polls.
Fairness == (\A j \in Jobs : WF_vars(Worker(j))) /\ WF_vars(\E j \in Jobs : Poll(j))

FairSpec == Spec /\ Fairness

-----------------------------------------------------------------------------
(***************************************************************************)
(* Properties.                                                             *)
(***************************************************************************)

TypeOK ==
  /\ registry \in Registries
  /\ health \in [Providers -> [failures : 0..MaxFailures, cooling : 0..Cooldown]]
  /\ usage \in [Providers -> [attempts : Nat, requests : Nat, successes : Nat,
                              failures : Nat, audio : Nat]]
  /\ current \in Jobs \cup {NoJob}
  /\ stage \in [Jobs -> Stages]
  /\ todo \in [Jobs -> Seq(Providers)]
  /\ replay \in [Jobs -> ReplayPolicies]
  /\ attempts \in [Jobs -> Seq(Attempts)]
  /\ cancelled \subseteq Jobs
  /\ heard \in [Jobs -> SUBSET Providers]

\* Without the consent of the profile, the audio of a session reaches one
\* provider at most, whatever the failures and however uncertain the evidence
\* (docs/api-contracts.md:219-222).
ConsentRespected ==
  \A j \in Jobs : replay[j] # "buffered-with-consent" =>
    \A p, q \in heard[j] : p = q

\* Every provider that the audio of a completed job has reached is charged for
\* it; nobody is charged twice for a job; and every answer in the accounts is
\* either a success or a failure: cancelled attempts never come into them, as
\* the result of their job is not taken (controller.rs:262-266 would count them
\* as attempts).
AccountsBalance ==
  \A p \in Providers :
    /\ usage[p].audio >= Cardinality({j \in Jobs : /\ stage[j] = "recorded"
                                                   /\ p \in heard[j]})
    /\ usage[p].attempts <= Cardinality({j \in Jobs : stage[j] = "recorded"})
    /\ usage[p].attempts = usage[p].successes + usage[p].failures
    /\ usage[p].audio <= usage[p].requests /\ usage[p].requests <= usage[p].attempts

\* A provider only cools down after MaxFailures retryable failures in a row: a
\* success in between ends the count as well as the cooldown.
CoolingIsDeserved ==
  \A p \in Providers : health[p].cooling > 0 => health[p].failures = MaxFailures

\* No worker, not even one whose job was cancelled and that runs beside the next, decides
\* for a provider that is cooling down; and if the provider has begun to cool down when the
\* worker gets to call it, then its token was cancelled since it looked at it.
CoolingIsRespected ==
  [][ \A j \in Jobs :
        /\ stage[j] = "choosing" /\ stage'[j] = "chosen"
             => health[Head(todo[j])].cooling = 0
        /\ stage[j] = "chosen" /\ stage'[j] = "recognizing"
             => health[Head(todo[j])].cooling = 0 \/ j \in cancelled
    ]_vars

\* The daemon does not wait for a job for ever.
JobsEnd == \A j \in Jobs : current = j ~> current # j
=============================================================================
