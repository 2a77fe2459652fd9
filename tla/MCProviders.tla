----------------------------- MODULE MCProviders -----------------------------
(***************************************************************************)
(* One attempt of the route with each kind of adapter: the session with    *)
(* Doubao, a request through curl, or the configured command.  The adapter *)
(* is chosen at the beginning; the other two stay where they begin.        *)
(***************************************************************************)
EXTENDS DoubaoRunner, RequestAttempts

VARIABLE adapter

Init ==
  /\ adapter \in {"doubao", "curl", "command"}
  /\ RunnerInit /\ Curl!CurlInit /\ Command!CommandInit

Next ==
  /\ UNCHANGED adapter
  /\ \/ adapter = "doubao"  /\ RunnerNext          /\ UNCHANGED <<curlVars, commandVars>>
     \/ adapter = "curl"    /\ Curl!CurlNext       /\ UNCHANGED <<vars, commandVars>>
     \/ adapter = "command" /\ Command!CommandNext /\ UNCHANGED <<vars, curlVars>>

\* Each adapter is a thread whose waits are bounded by curl, by a deadline or by its
\* polling of the token, and time passes.  Helpers of a command end once their parent
\* is gone.
Fairness ==
  /\ WF_vars(adapter = "doubao" /\ (Driver \/ Pump)) /\ WF_vars(adapter = "doubao" /\ Tick)
  /\ WF_curlVars(adapter = "curl" /\ Curl!Adapter)
  /\ WF_commandVars(adapter = "command" /\ Command!Adapter)
  /\ WF_commandVars(adapter = "command" /\ Command!Tick)
  /\ WF_commandVars(adapter = "command" /\ child # "running" /\ Command!HelperExits)

FairSpec ==
  Init /\ [][Next]_<<adapter, vars, curlVars, commandVars>> /\ Fairness

-----------------------------------------------------------------------------
\* The worker gets its answer: from Doubao whatever the service does, because of the
\* deadlines; from curl, once the attempt is cancelled, even if curl never ended (but
\* nobody looks at the token while secret-tool runs); from a command that never ends
\* because of its timeout, as long as its helpers end by themselves.
AttemptsEnd ==
  /\ adapter = "doubao"  => <>(answer # NoAnswer)
  /\ adapter = "curl"    => (curlCancelled /\ curlStep # "secret" ~> curlAnswer # NoAnswer)
  /\ adapter = "command" => <>(commandAnswer # NoAnswer)
=============================================================================
