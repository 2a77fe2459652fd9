-------------------------- MODULE ProvidersProofs --------------------------
(***************************************************************************)
(* Proofs about the adapters of MCProviders.  An attempt through curl, one *)
(* by the command and one by Doubao each implement HonestAttempt and leave *)
(* nothing behind.  For Doubao, for any service, any number of frames and  *)
(* packets and recordings of any length, the driver keeps step with its    *)
(* session, a text is that of the whole recording, and the refresh replays *)
(* no audio.                                                               *)
(***************************************************************************)
EXTENDS MCProviders, TLAPS

(***************************************************************************)
(* The request through curl.                                               *)
(***************************************************************************)

Reports == [status : Curl!Statuses, uploaded : {"none", "zero", "some"}]

CurlTypeOK ==
  /\ curl \in {"none", "running", "exited"}
  /\ exit \in Curl!ExitCodes
  /\ report \in Reports
  /\ wasCancelled \in BOOLEAN /\ stdinError \in BOOLEAN /\ curlHeard \in BOOLEAN
  /\ curlStep \in {"secret", "stage", "spawn", "wait", "finish"}

\* Nothing is sent but by curl, nothing is staged before its time, and what is
\* concluded at the end is concluded about a curl that has ended.
CurlInOrder ==
  /\ curlStep \in {"secret", "stage", "spawn"} => curl = "none"
  /\ curlStep \in {"secret", "stage"} => wav # "staged"
  /\ curlStep = "wait" => curl # "none"
  /\ curlStep = "finish" => curl = "exited"
  /\ curl = "none" => ~ curlHeard

\* A report of no bytes, and an exit without a connection, are only had of a curl that
\* has sent nothing.
ReportIsTrue ==
  curl = "exited" =>
    /\ report.uploaded = "zero" => ~ curlHeard
    /\ ~ wasCancelled /\ exit \in {"unsent", "certificate"} => ~ curlHeard

CurlAnswerFits ==
  curlAnswer # Curl!NoAnswer =>
    /\ curlHeard => Curl!MayHaveLeft(curlAnswer)
    /\ curl # "running" /\ wav # "staged"

CurlInv == CurlTypeOK /\ CurlInOrder /\ ReportIsTrue /\ CurlAnswerFits

\* The answers of the adapters.
LEMMA CurlErrors ==
  ASSUME NEW category \in Curl!Categories, NEW retryable \in BOOLEAN,
         NEW accepted \in Curl!Acceptances, retryable => category = "transient"
  PROVE  /\ Curl!BeforeTransport(category, retryable) \in Curl!Answers
         /\ Curl!AfterTransport(category, retryable, accepted) \in Curl!Answers
         /\ Curl!MayHaveLeft(Curl!AfterTransport(category, retryable, accepted))
              <=> accepted # "not-accepted"
  BY DEF Curl!BeforeTransport, Curl!AfterTransport, Curl!Answers, Curl!MayHaveLeft,
         Curl!Categories, Curl!Acceptances

LEMMA CurlText == Curl!TextAfterAudio \in Curl!Answers /\ Curl!MayHaveLeft(Curl!TextAfterAudio)
  BY DEF Curl!TextAfterAudio, Curl!Answers, Curl!MayHaveLeft, Curl!Categories, Curl!Acceptances

LEMMA CurlAnswersAreHonest ==
  /\ Curl!Answers = HonestCurl!Answers
  /\ Curl!NoAnswer = HonestCurl!NoAnswer
  /\ \A a \in Curl!Answers : Curl!MayHaveLeft(a) <=> HonestCurl!MayHaveLeft(a)
  BY DEF Curl!Answers, HonestCurl!Answers, Curl!NoAnswer, HonestCurl!NoAnswer,
         Curl!MayHaveLeft, HonestCurl!MayHaveLeft, Curl!Categories, HonestCurl!Categories,
         Curl!Acceptances, HonestCurl!Acceptances

LEMMA NothingIsReport == Curl!Nothing \in Reports /\ Curl!Nothing.uploaded = "none"
  BY DEF Curl!Nothing, Reports, Curl!Statuses

LEMMA CurlInitially == Curl!CurlInit => CurlInv
  BY NothingIsReport DEF Curl!CurlInit, CurlInv, CurlTypeOK, CurlInOrder, ReportIsTrue,
                         CurlAnswerFits, Curl!ExitCodes

\* The failure that is reported is one of the errors.
LEMMA FailuresAreErrors ==
  ASSUME NEW overflowed \in BOOLEAN
  PROVE  LET f == Curl!AttemptFailure(overflowed)
         IN  /\ f.category \in Curl!Categories
             /\ f.retryable \in BOOLEAN
             /\ f.retryable => f.category = "transient"
  BY DEF Curl!AttemptFailure, Curl!Failure, Curl!CurlFailure, Curl!HttpFailure, Curl!Categories

\* Audio is only denied on the word of a curl that has sent none.
LEMMA DenialIsTrue ==
  ASSUME CurlTypeOK, ReportIsTrue, curl = "exited"
  PROVE  LET a == Curl!Acceptance(exit, report, wasCancelled)
         IN  a \in Curl!Acceptances /\ (curlHeard => a # "not-accepted")
  BY DEF CurlTypeOK, ReportIsTrue, Curl!Acceptance, Curl!Acceptances

\* An answer: the abstract step, and what the invariant asks of it.
LEMMA CurlReturns ==
  ASSUME CurlInv, curlAnswer = Curl!NoAnswer, NEW a \in Curl!Answers,
         curlAnswer' = a, curlHeard => Curl!MayHaveLeft(a),
         curl # "running", wav' # "staged",
         UNCHANGED <<curlStep, curl, exit, report, stdinError, wasCancelled, curlHeard>>
  PROVE  CurlInv' /\ HonestCurl!Answer
  <1>1. CurlTypeOK'
    BY DEF CurlInv, CurlTypeOK
  <1>2. CurlInOrder' /\ ReportIsTrue'
    BY DEF CurlInv, CurlInOrder, ReportIsTrue
  <1>3. CurlAnswerFits'
    BY DEF CurlAnswerFits, Curl!MayHaveLeft
  <1>4. HonestCurl!Answer
    BY CurlAnswersAreHonest DEF HonestCurl!Answer
  <1> QED BY <1>1, <1>2, <1>3, <1>4 DEF CurlInv

\* The requests that end before curl is there.
LEMMA CurlGivesUp ==
  ASSUME CurlInv, Curl!SecretFails \/ Curl!StageFails \/ Curl!SpawnFails
  PROVE  CurlInv' /\ HonestCurl!Answer
  <1>1. /\ curlAnswer = Curl!NoAnswer /\ curlStep \in {"secret", "stage", "spawn"}
        /\ UNCHANGED <<curlStep, curl, exit, report, stdinError, wasCancelled, curlHeard>>
    BY DEF Curl!SecretFails, Curl!StageFails, Curl!SpawnFails, Curl!At, Curl!process, Curl!Returns
  <1>2. curl = "none" /\ ~ curlHeard
    BY <1>1 DEF CurlInv, CurlInOrder
  <1>3. wav' # "staged"
    BY DEF Curl!SecretFails, Curl!StageFails, Curl!SpawnFails, Curl!At, Curl!Returns, CurlInv,
           CurlInOrder
  <1>4. \E category \in Curl!Categories : \E retryable \in BOOLEAN :
          /\ retryable => category = "transient"
          /\ curlAnswer' = Curl!BeforeTransport(category, retryable)
    BY DEF Curl!SecretFails, Curl!StageFails, Curl!SpawnFails, Curl!Returns, Curl!Categories
  <1>5. PICK category \in Curl!Categories, retryable \in BOOLEAN :
          /\ retryable => category = "transient"
          /\ curlAnswer' = Curl!BeforeTransport(category, retryable)
    BY <1>4
  <1>6. curlAnswer' \in Curl!Answers
    BY <1>5, CurlErrors DEF Curl!Acceptances
  <1> QED BY <1>1, <1>2, <1>3, <1>6, CurlReturns

\* The requests that end after curl has.
LEMMA CurlConcludes ==
  ASSUME CurlInv, Curl!WaitFails \/ Curl!Finish
  PROVE  CurlInv' /\ HonestCurl!Answer
  <1>1. /\ curlAnswer = Curl!NoAnswer /\ wav' # "staged" /\ curl = "exited"
        /\ UNCHANGED <<curlStep, curl, exit, report, stdinError, wasCancelled, curlHeard>>
    BY DEF Curl!WaitFails, Curl!Finish, Curl!At, Curl!process, Curl!Returns, CurlInv, CurlInOrder
  <1>2. curlAnswer' \in Curl!Answers /\ (curlHeard => Curl!MayHaveLeft(curlAnswer'))
    <2>1. CASE Curl!WaitFails
      <3>1. PICK f \in {Curl!Failure("transient", TRUE), Curl!Failure("other", FALSE)} :
              curlAnswer' = Curl!AfterTransport(f.category, f.retryable, "possibly-accepted")
        BY <2>1 DEF Curl!WaitFails, Curl!Returns
      <3>2. /\ f.category \in Curl!Categories /\ f.retryable \in BOOLEAN
            /\ f.retryable => f.category = "transient"
        <4>1. f = Curl!Failure("transient", TRUE) \/ f = Curl!Failure("other", FALSE)
          BY <3>1
        <4>2. \/ f.category = "transient" /\ f.retryable = TRUE
              \/ f.category = "other" /\ f.retryable = FALSE
          BY <4>1 DEF Curl!Failure
        <4> QED BY <4>2 DEF Curl!Categories
      <3>3. "possibly-accepted" \in Curl!Acceptances
        BY DEF Curl!Acceptances
      <3>4. LET a == Curl!AfterTransport(f.category, f.retryable, "possibly-accepted")
            IN  a \in Curl!Answers /\ Curl!MayHaveLeft(a)
        BY <3>2, <3>3, CurlErrors
      <3> QED BY <3>1, <3>4
    <2>2. CASE Curl!Finish
      <3>1. PICK overflowed \in BOOLEAN :
              \/ curlAnswer' = Curl!TextAfterAudio
              \/ curlAnswer' = Curl!AfterTransport("other", FALSE, "accepted")
              \/ LET f == Curl!AttemptFailure(overflowed)
                 IN  curlAnswer' = Curl!AfterTransport(f.category, f.retryable,
                                     Curl!Acceptance(exit, report, wasCancelled))
        BY <2>2 DEF Curl!Finish, Curl!Returns
      <3>2. CASE curlAnswer' = Curl!TextAfterAudio
        BY <3>2, CurlText
      <3>3. CASE curlAnswer' = Curl!AfterTransport("other", FALSE, "accepted")
        BY <3>3, CurlErrors DEF Curl!Categories, Curl!Acceptances
      <3>4. CASE LET f == Curl!AttemptFailure(overflowed)
                 IN  curlAnswer' = Curl!AfterTransport(f.category, f.retryable,
                                     Curl!Acceptance(exit, report, wasCancelled))
        <4>1. LET a == Curl!Acceptance(exit, report, wasCancelled)
              IN  a \in Curl!Acceptances /\ (curlHeard => a # "not-accepted")
          BY <1>1, DenialIsTrue DEF CurlInv
        <4> QED BY <3>4, <4>1, FailuresAreErrors, CurlErrors
      <3> QED BY <3>1, <3>2, <3>3, <3>4
    <2> QED BY <2>1, <2>2
  <1> QED BY <1>1, <1>2, CurlReturns

\* Curl sends some of the body.
LEMMA CurlUploads == CurlInv /\ Curl!Upload => CurlInv' /\ HonestCurl!Hear
  <1> SUFFICES ASSUME CurlInv, Curl!Upload PROVE CurlInv' /\ HonestCurl!Hear
    OBVIOUS
  <1>1. /\ curl = "running" /\ curlHeard' = TRUE
        /\ UNCHANGED <<curlStep, wav, curl, exit, report, stdinError, wasCancelled, curlAnswer>>
    BY DEF Curl!Upload, Curl!process
  <1>2. curlAnswer = Curl!NoAnswer
    BY <1>1 DEF CurlInv, CurlAnswerFits
  <1>3. HonestCurl!Hear
    BY <1>1, <1>2, CurlAnswersAreHonest DEF HonestCurl!Hear
  <1>4. CurlInv'
    BY <1>1, <1>2 DEF CurlInv, CurlTypeOK, CurlInOrder, ReportIsTrue, CurlAnswerFits
  <1> QED BY <1>3, <1>4

\* Curl ends, by itself or by the hand of the adapter.
LEMMA CurlEnds ==
  ASSUME CurlInv, Curl!Exit \/ Curl!Kill
  PROVE  CurlInv' /\ UNCHANGED <<curlHeard, curlAnswer>>
  <1>1. CASE Curl!Exit
    <2>1. PICK code \in Curl!ExitCodes, s \in Curl!Statuses :
            /\ Curl!Consistent(code, s)
            /\ exit' = code
            /\ report' \in {Curl!Nothing} \cup
                 (IF code = "signal" THEN {} ELSE
                   {[status |-> s, uploaded |-> IF curlHeard THEN "some" ELSE "zero"]})
      BY <1>1 DEF Curl!Exit
    <2>2. /\ curl = "running" /\ curl' = "exited"
          /\ UNCHANGED <<curlStep, wav, stdinError, wasCancelled, curlHeard, curlAnswer>>
      BY <1>1 DEF Curl!Exit
    <2>3. /\ report' \in Reports
          /\ report'.uploaded = "zero" => ~ curlHeard
      BY <2>1 DEF Reports, Curl!Nothing, Curl!Statuses
    <2>4. exit' \in {"unsent", "certificate"} => ~ curlHeard
      BY <2>1 DEF Curl!Consistent
    <2>5. CurlTypeOK'
      BY <2>1, <2>2, <2>3 DEF CurlInv, CurlTypeOK
    <2> QED BY <2>2, <2>3, <2>4, <2>5 DEF CurlInv, CurlInOrder, ReportIsTrue, CurlAnswerFits
  <1>2. CASE Curl!Kill
    <2>1. /\ curlAnswer = Curl!NoAnswer /\ curlStep = "wait" /\ curlStep' = "finish"
          /\ wasCancelled' = TRUE /\ UNCHANGED <<wav, stdinError, curlHeard, curlAnswer>>
          /\ IF curl = "running"
             THEN curl' = "exited" /\ exit' = "signal" /\ report' = Curl!Nothing
             ELSE UNCHANGED <<curl, exit, report>>
      BY <1>2 DEF Curl!Kill, Curl!At, Curl!Goto, Curl!process
    <2>2. CurlTypeOK'
      BY <2>1, NothingIsReport DEF CurlInv, CurlTypeOK, Curl!ExitCodes
    <2>3. CurlInOrder'
      BY <2>1 DEF CurlInv, CurlTypeOK, CurlInOrder
    <2>4. ReportIsTrue'
      BY <2>1, NothingIsReport DEF CurlInv, CurlTypeOK, ReportIsTrue, CurlInOrder
    <2> QED BY <2>1, <2>2, <2>3, <2>4 DEF CurlInv, CurlAnswerFits
  <1> QED BY <1>1, <1>2

\* The other steps of the adapter, and the token.
LEMMA CurlGoesOn ==
  ASSUME CurlInv,
         \/ Curl!Secret \/ Curl!Stage \/ Curl!Spawn \/ Curl!Reap \/ Curl!CancelToken
         \/ UNCHANGED Curl!vars
  PROVE  CurlInv' /\ UNCHANGED <<curlHeard, curlAnswer>>
  <1> USE DEF Curl!At, Curl!Goto, Curl!process, CurlInv, CurlTypeOK, CurlInOrder, ReportIsTrue,
              CurlAnswerFits
  <1>1. CASE Curl!Secret BY <1>1 DEF Curl!Secret
  <1>2. CASE Curl!Stage BY <1>2 DEF Curl!Stage
  <1>3. CASE Curl!Spawn BY <1>3 DEF Curl!Spawn
  <1>4. CASE Curl!Reap BY <1>4 DEF Curl!Reap
  <1>5. CASE Curl!CancelToken BY <1>5 DEF Curl!CancelToken
  <1>6. CASE UNCHANGED Curl!vars BY <1>6 DEF Curl!vars
  <1> QED BY <1>1, <1>2, <1>3, <1>4, <1>5, <1>6

LEMMA CurlStep ==
  CurlInv /\ [Curl!CurlNext]_Curl!vars =>
    CurlInv' /\ [HonestCurl!HonestNext]_<<curlHeard, curlAnswer>>
  BY CurlGivesUp, CurlConcludes, CurlUploads, CurlEnds, CurlGoesOn
     DEF Curl!CurlNext, Curl!Adapter, HonestCurl!HonestNext

THEOREM CurlInvariant ==
  Curl!CurlSpec => []CurlInv /\ [][HonestCurl!HonestNext]_<<curlHeard, curlAnswer>>
  BY CurlInitially, CurlStep, PTL DEF Curl!CurlSpec

-----------------------------------------------------------------------------
(***************************************************************************)
(* The command.                                                            *)
(***************************************************************************)

CommandTypeOK ==
  /\ commandStep \in {"start", "wait", "join"}
  /\ child \in {"none", "running", "exited"}
  /\ helper \in {"none", "running", "silent", "exited"}
  /\ commandHeard \in BOOLEAN

\* A command only runs, and reads, once it is started.
CommandInOrder ==
  /\ commandStep = "start" <=> child = "none"
  /\ child = "none" => helper = "none" /\ ~ commandHeard

Stopped == child = "exited" /\ helper \in {"none", "exited"}

\* A timeout and a cancellation are reported of a command that is stopped.
CommandFailureFits ==
  /\ commandFailure \in
       {Command!NoAnswer, Command!TimedOut, Command!Cancelled,
        Command!AfterTransport("transient", FALSE, "possibly-accepted")}
  /\ commandFailure \in {Command!TimedOut, Command!Cancelled} => Stopped

\* Audio is only denied if there never was a command.
CommandAnswerFits ==
  commandAnswer # Command!NoAnswer =>
    /\ child = "none" \/ Command!MayHaveLeft(commandAnswer)
    /\ commandAnswer \in {Command!TimedOut, Command!Cancelled} => Stopped

CommandInv == CommandTypeOK /\ CommandInOrder /\ CommandFailureFits /\ CommandAnswerFits

LEMMA CommandErrors ==
  ASSUME NEW category \in Command!Categories, NEW retryable \in BOOLEAN,
         NEW accepted \in Command!Acceptances, retryable => category = "transient"
  PROVE  /\ Command!BeforeTransport(category, retryable) \in Command!Answers
         /\ Command!AfterTransport(category, retryable, accepted) \in Command!Answers
         /\ Command!MayHaveLeft(Command!AfterTransport(category, retryable, accepted))
              <=> accepted # "not-accepted"
  BY DEF Command!BeforeTransport, Command!AfterTransport, Command!Answers, Command!MayHaveLeft,
         Command!Categories, Command!Acceptances

LEMMA CommandAnswersAreHonest ==
  /\ Command!Answers = HonestCommand!Answers
  /\ Command!NoAnswer = HonestCommand!NoAnswer
  /\ \A a \in Command!Answers : Command!MayHaveLeft(a) <=> HonestCommand!MayHaveLeft(a)
  BY DEF Command!Answers, HonestCommand!Answers, Command!NoAnswer, HonestCommand!NoAnswer,
         Command!MayHaveLeft, HonestCommand!MayHaveLeft, Command!Categories,
         HonestCommand!Categories, Command!Acceptances, HonestCommand!Acceptances

LEMMA CommandEndsAreAnswers == Command!NoAnswer \notin {Command!TimedOut, Command!Cancelled}
  BY DEF Command!NoAnswer, Command!TimedOut, Command!Cancelled, Command!AfterTransport

LEMMA CommandInitially == Command!CommandInit => CommandInv
  BY CommandEndsAreAnswers DEF Command!CommandInit, CommandInv, CommandTypeOK, CommandInOrder,
                               CommandFailureFits, CommandAnswerFits

\* The command could not be started.
LEMMA CommandNotStarted ==
  CommandInv /\ Command!StartFails => CommandInv' /\ HonestCommand!Answer
  <1> SUFFICES ASSUME CommandInv, Command!StartFails PROVE CommandInv' /\ HonestCommand!Answer
    OBVIOUS
  <1>1. /\ commandAnswer = Command!NoAnswer /\ commandStep = "start"
        /\ UNCHANGED <<commandStep, child, helper, commandFailure, commandHeard>>
        /\ \/ commandAnswer' = Command!BeforeTransport("cancelled", FALSE)
           \/ commandAnswer' = Command!BeforeTransport("transient", TRUE)
    BY DEF Command!StartFails, Command!At, Command!processes
  <1>2. commandAnswer' \in Command!Answers
    BY <1>1, CommandErrors DEF Command!Categories, Command!Acceptances
  <1>3. commandAnswer' \notin {Command!TimedOut, Command!Cancelled}
    BY <1>1 DEF Command!BeforeTransport, Command!AfterTransport, Command!TimedOut,
                Command!Cancelled
  <1>4. child = "none" /\ ~ commandHeard
    BY <1>1 DEF CommandInv, CommandInOrder
  <1>5. CommandInv'
    BY <1>1, <1>3, <1>4 DEF CommandInv, CommandTypeOK, CommandInOrder, CommandFailureFits,
                            CommandAnswerFits, Stopped
  <1>6. HonestCommand!Answer
    BY <1>1, <1>2, <1>4, CommandAnswersAreHonest DEF CommandInv, CommandTypeOK, HonestCommand!Answer
  <1> QED BY <1>5, <1>6

\* The attempt ends with what became of the command.
LEMMA CommandJoined ==
  CommandInv /\ Command!Join => CommandInv' /\ HonestCommand!Answer
  <1> SUFFICES ASSUME CommandInv, Command!Join PROVE CommandInv' /\ HonestCommand!Answer
    OBVIOUS
  <1>1. /\ commandAnswer = Command!NoAnswer /\ commandAnswer' \in Command!Outcomes
        /\ UNCHANGED <<commandStep, child, helper, commandFailure, commandHeard>>
    BY DEF Command!Join, Command!EndOfOutput, Command!At, Command!processes
  <1>2. \/ commandFailure # Command!NoAnswer /\ commandAnswer' = commandFailure
        \/ commandAnswer' = Command!AfterTransport("transient", FALSE, "accepted")
        \/ commandAnswer' = Command!AfterTransport("other", FALSE, "accepted")
        \/ commandAnswer' = Command!AfterTransport("transient", TRUE, "accepted")
        \/ commandAnswer' = Command!TextAfterAudio
    BY <1>1 DEF Command!Outcomes
  <1>3. /\ commandAnswer' \in Command!Answers /\ Command!MayHaveLeft(commandAnswer')
        /\ commandAnswer' \in {Command!TimedOut, Command!Cancelled} =>
             commandFailure \in {Command!TimedOut, Command!Cancelled}
    <2>1. CASE commandFailure # Command!NoAnswer /\ commandAnswer' = commandFailure
      <3>1. \/ commandAnswer' = Command!AfterTransport("transient", TRUE, "possibly-accepted")
            \/ commandAnswer' = Command!AfterTransport("cancelled", FALSE, "possibly-accepted")
            \/ commandAnswer' = Command!AfterTransport("transient", FALSE, "possibly-accepted")
        BY <2>1 DEF CommandInv, CommandFailureFits, Command!TimedOut, Command!Cancelled
      <3> QED BY <2>1, <3>1, CommandErrors DEF Command!Categories, Command!Acceptances
    <2>2. CASE \/ commandAnswer' = Command!AfterTransport("transient", FALSE, "accepted")
               \/ commandAnswer' = Command!AfterTransport("other", FALSE, "accepted")
               \/ commandAnswer' = Command!AfterTransport("transient", TRUE, "accepted")
      <3>1. commandAnswer' \in Command!Answers /\ Command!MayHaveLeft(commandAnswer')
        BY <2>2, CommandErrors DEF Command!Categories, Command!Acceptances
      <3>2. commandAnswer' \notin {Command!TimedOut, Command!Cancelled}
        BY <2>2 DEF Command!AfterTransport, Command!TimedOut, Command!Cancelled
      <3> QED BY <3>1, <3>2
    <2>3. CASE commandAnswer' = Command!TextAfterAudio
      <3>1. commandAnswer' \in Command!Answers /\ Command!MayHaveLeft(commandAnswer')
        BY <2>3 DEF Command!TextAfterAudio, Command!Answers, Command!MayHaveLeft,
                    Command!Categories, Command!Acceptances
      <3>2. commandAnswer' \notin {Command!TimedOut, Command!Cancelled}
        BY <2>3 DEF Command!TextAfterAudio, Command!AfterTransport, Command!TimedOut,
                    Command!Cancelled
      <3> QED BY <3>1, <3>2
    <2> QED BY <1>2, <2>1, <2>2, <2>3
  <1>4. CommandInv'
    BY <1>1, <1>3 DEF CommandInv, CommandTypeOK, CommandInOrder, CommandFailureFits,
                      CommandAnswerFits, Stopped, Command!MayHaveLeft
  <1>5. HonestCommand!Answer
    BY <1>1, <1>3, CommandAnswersAreHonest DEF CommandInv, CommandTypeOK, HonestCommand!Answer
  <1> QED BY <1>4, <1>5

\* Something of the command reads.
LEMMA CommandReads ==
  CommandInv /\ Command!Read => CommandInv' /\ HonestCommand!Hear
  <1> SUFFICES ASSUME CommandInv, Command!Read PROVE CommandInv' /\ HonestCommand!Hear
    OBVIOUS
  <1>1. /\ child # "none" /\ commandHeard' = TRUE
        /\ UNCHANGED <<commandStep, child, helper, commandFailure, commandAnswer>>
    BY DEF Command!Read, Command!Alive, Command!processes, CommandInv, CommandTypeOK, CommandInOrder
  <1>2. CommandInv'
    BY <1>1 DEF CommandInv, CommandTypeOK, CommandInOrder, CommandFailureFits, CommandAnswerFits,
                Stopped
  <1>3. commandAnswer = Command!NoAnswer \/ Command!MayHaveLeft(commandAnswer)
    BY <1>1 DEF CommandInv, CommandAnswerFits
  <1>4. HonestCommand!Hear
    BY <1>1, <1>3 DEF HonestCommand!Hear, HonestCommand!NoAnswer, HonestCommand!MayHaveLeft,
                      Command!NoAnswer, Command!MayHaveLeft
  <1> QED BY <1>2, <1>4

\* The other steps.
LEMMA CommandGoesOn ==
  ASSUME CommandInv,
         \/ Command!Start \/ Command!Reap \/ Command!WaitFails \/ Command!Expires
         \/ Command!Fork \/ Command!ChildExits \/ Command!HelperExits
         \/ Command!Tick \/ Command!CancelToken \/ UNCHANGED Command!vars
  PROVE  CommandInv' /\ UNCHANGED <<commandHeard, commandAnswer>>
  <1> USE DEF Command!At, Command!processes, CommandInv, CommandTypeOK, CommandInOrder,
              CommandFailureFits, CommandAnswerFits, Stopped
  <1>1. CASE Command!Start BY <1>1 DEF Command!Start
  <1>2. CASE Command!Reap BY <1>2 DEF Command!Reap
  <1>3. CASE Command!WaitFails
    <2>1. Command!AfterTransport("transient", FALSE, "possibly-accepted")
            \notin {Command!TimedOut, Command!Cancelled}
      BY DEF Command!AfterTransport, Command!TimedOut, Command!Cancelled
    <2> QED BY <1>3, <2>1 DEF Command!WaitFails
  <1>4. CASE Command!Expires BY <1>4 DEF Command!Expires, Command!Terminated
  <1>5. CASE Command!Fork BY <1>5 DEF Command!Fork
  <1>6. CASE Command!ChildExits BY <1>6 DEF Command!ChildExits
  <1>7. CASE Command!HelperExits BY <1>7 DEF Command!HelperExits
  <1>8. CASE Command!Tick BY <1>8 DEF Command!Tick
  <1>9. CASE Command!CancelToken BY <1>9 DEF Command!CancelToken
  <1>10. CASE UNCHANGED Command!vars BY <1>10 DEF Command!vars
  <1> QED BY <1>1, <1>2, <1>3, <1>4, <1>5, <1>6, <1>7, <1>8, <1>9, <1>10

LEMMA CommandStep ==
  CommandInv /\ [Command!CommandNext]_Command!vars =>
    CommandInv' /\ [HonestCommand!HonestNext]_<<commandHeard, commandAnswer>>
  BY CommandNotStarted, CommandJoined, CommandReads, CommandGoesOn
     DEF Command!CommandNext, Command!Adapter, HonestCommand!HonestNext

THEOREM CommandInvariant ==
  Command!CommandSpec =>
    []CommandInv /\ [][HonestCommand!HonestNext]_<<commandHeard, commandAnswer>>
  BY CommandInitially, CommandStep, PTL DEF Command!CommandSpec

-----------------------------------------------------------------------------
(***************************************************************************)
(* The theorems.                                                           *)
(***************************************************************************)

\* Neither adapter denies audio that the service or the command has received
\* (classify_audio_acceptance, transcribe_command_with_evidence): both implement
\* HonestAttempt.
THEOREM RequestsImplementHonestAttempt == RequestsSpec => RequestsAreHonest
  <1>1. Curl!CurlInit => HonestCurl!HonestInit
    BY DEF Curl!CurlInit, HonestCurl!HonestInit, Curl!NoAnswer, HonestCurl!NoAnswer
  <1>2. Command!CommandInit => HonestCommand!HonestInit
    BY DEF Command!CommandInit, HonestCommand!HonestInit, Command!NoAnswer, HonestCommand!NoAnswer
  <1> QED
    BY <1>1, <1>2, CurlInvariant, CommandInvariant, PTL
       DEF RequestsSpec, RequestsAreHonest, Curl!CurlSpec, Command!CommandSpec,
           HonestCurl!HonestSpec, HonestCommand!HonestSpec

\* No curl and no staged file outlives an attempt, and nothing of a command one that
\* timed out or was cancelled.
THEOREM RequestsCleanUp == RequestsSpec => []RequestsLeaveNothing
  <1>1. CurlInv /\ CommandInv => RequestsLeaveNothing
    <2> SUFFICES ASSUME CurlInv, CommandInv PROVE RequestsLeaveNothing
      OBVIOUS
    <2>1. Curl!NothingIsLeft
      BY DEF CurlInv, CurlAnswerFits, Curl!NothingIsLeft
    <2>2. commandAnswer \in {Command!TimedOut, Command!Cancelled} => Stopped
      BY CommandEndsAreAnswers DEF CommandInv, CommandAnswerFits
    <2>3. Command!NothingSurvives
      BY <2>2 DEF Stopped, Command!NothingSurvives, Command!Alive
    <2> QED BY <2>1, <2>3 DEF RequestsLeaveNothing
  <1> QED BY <1>1, CurlInvariant, CommandInvariant, PTL DEF RequestsSpec

-----------------------------------------------------------------------------
(***************************************************************************)
(* The session.                                                            *)
(***************************************************************************)

USE SessionAssumption DEF SessionAssumption

\* The marker of the end is only sent after a frame, and a session that is
\* finishing has sent it.
MarkedAfterAudio ==
  /\ input = "finished" => sent > 0
  /\ phase \in {"finishing", "finished"} => input = "finished"
  /\ phase = "finished" => final # NoText

\* The final transcript came with a packet that is not newer than the last one.
TextIsKnown == newest <= lastPacket

SessionInv ==
  SessionTypeOK /\ EvidenceCoversAudio /\ MarkedAfterAudio /\ TextIsKnown

\* What a message may be; its packet, text and flags are those of a recognition.
LEMMA MessageKinds ==
  ASSUME NEW m \in Messages, m.kind = "result"
  PROVE  /\ m.packet \in Packets \cup {NoPacket}
         /\ m.packet \in Nat
         /\ m.text \in Texts \cup {Blank, NoText}
  <1>1. m \in Recognitions
    BY DEF Messages
  <1>2. m.packet \in Packets \cup {NoPacket} /\ m.text \in Texts \cup {Blank, NoText}
    BY <1>1 DEF Recognitions
  <1>3. Packets \cup {NoPacket} \subseteq Nat
    OBVIOUS
  <1> QED BY <1>2, <1>3

-----------------------------------------------------------------------------

LEMMA SessionInitially == SessionInit => SessionInv
  BY DEF SessionInit, SessionInv, SessionTypeOK, EvidenceCoversAudio, MarkedAfterAudio,
         TextIsKnown, Phases, Replies

\* The calls of the driver.
LEMMA CallsKeep ==
  ASSUME SessionInv,
         \/ StartTask
         \/ \E valid \in BOOLEAN : StartSession(valid) \/ AudioRequest(valid)
         \/ sent < MaxFrames /\ ConfirmAudioSent
         \/ MarkAudioWriteAmbiguous \/ FinishAudio \/ FinishSession \/ Cancel
  PROVE  SessionInv'
  <1> USE DEF SessionInv, SessionTypeOK, EvidenceCoversAudio, MarkedAfterAudio, TextIsKnown,
              Phases, Replies, Refused, Fail, Proceed, evidence, result
  <1>1. CASE StartTask BY <1>1 DEF StartTask
  <1>2. CASE \E valid \in BOOLEAN : StartSession(valid) BY <1>2 DEF StartSession
  <1>3. CASE \E valid \in BOOLEAN : AudioRequest(valid) BY <1>3 DEF AudioRequest
  <1>4. CASE sent < MaxFrames /\ ConfirmAudioSent BY <1>4 DEF ConfirmAudioSent
  <1>5. CASE MarkAudioWriteAmbiguous BY <1>5 DEF MarkAudioWriteAmbiguous
  <1>6. CASE FinishAudio BY <1>6 DEF FinishAudio
  <1>7. CASE FinishSession BY <1>7 DEF FinishSession
  <1>8. CASE Cancel BY <1>8 DEF Cancel
  <1> QED BY <1>1, <1>2, <1>3, <1>4, <1>5, <1>6, <1>7, <1>8

\* A result: what it changes, and that its packet is a newer one if it has a number.
LEMMA RecognitionKeeps ==
  ASSUME SessionInv, NEW m \in Messages, Recognition(m)
  PROVE  SessionInv'
  <1>1. /\ m.packet \in Packets \cup {NoPacket} /\ m.packet \in Nat
        /\ m.text \in Texts \cup {Blank, NoText}
    BY MessageKinds DEF Recognition
  <1>2. /\ phase \in {"streaming", "finishing"} /\ UNCHANGED <<input, sent>>
        /\ lastPacket \in Nat /\ newest \in Nat
    BY DEF Recognition, SessionInv, SessionTypeOK, Phases, evidence, result, Fail
  <1>3. /\ phase' \in {phase, "failed"} /\ reply' \in Replies
        /\ acceptance' \in {acceptance, "accepted"}
    BY <1>2 DEF Recognition, Fail, evidence, Replies
  <1>4. /\ lastPacket' \in Packets \cup {NoPacket} /\ lastPacket' >= lastPacket
    BY <1>1, <1>2 DEF Recognition, IsDuplicate, result, SessionInv, SessionTypeOK
  <1>5. \/ UNCHANGED <<final, newest>>
        \/ /\ final' \in Texts /\ newest' = lastPacket' /\ acceptance' = "accepted"
    BY <1>1 DEF Recognition, Usable, result
  <1>6. SessionTypeOK'
    BY <1>2, <1>3, <1>4, <1>5 DEF SessionInv, SessionTypeOK, Phases
  <1>7. EvidenceCoversAudio'
    BY <1>2, <1>3, <1>5 DEF SessionInv, EvidenceCoversAudio
  <1>8. MarkedAfterAudio'
    BY <1>2, <1>3, <1>5 DEF SessionInv, SessionTypeOK, MarkedAfterAudio
  <1>9. TextIsKnown'
    BY <1>2, <1>4, <1>5 DEF SessionInv, SessionTypeOK, TextIsKnown
  <1> QED BY <1>6, <1>7, <1>8, <1>9 DEF SessionInv

\* The messages of the service.
LEMMA MessagesKeep ==
  ASSUME SessionInv, NEW m \in Messages, HandleBinary(m)
  PROVE  SessionInv'
  <1>1. CASE Recognition(m) BY <1>1, RecognitionKeeps
  <1> USE DEF SessionInv, SessionTypeOK, EvidenceCoversAudio, MarkedAfterAudio, TextIsKnown,
              Phases, Deaf, Replies, Refused, Fail, Proceed, evidence, result
  <1>2. CASE Unheard BY <1>2 DEF Unheard
  <1>3. CASE Rejected(m) BY <1>3 DEF Rejected
  <1>4. CASE Started(m) BY <1>4 DEF Started
  <1>5. CASE SessionFinished(m) BY <1>5 DEF SessionFinished
  <1>6. CASE NoRecognition(m) BY <1>6 DEF NoRecognition
  <1> QED BY <1>1, <1>2, <1>3, <1>4, <1>5, <1>6 DEF HandleBinary

LEMMA SessionStep == SessionInv /\ [SessionNext]_protocol => SessionInv'
  <1> SUFFICES ASSUME SessionInv, [SessionNext]_protocol PROVE SessionInv'
    OBVIOUS
  <1>1. CASE UNCHANGED protocol
    BY <1>1 DEF protocol, evidence, result, SessionInv, SessionTypeOK, EvidenceCoversAudio,
                MarkedAfterAudio, TextIsKnown
  <1>2. CASE \E m \in Messages : HandleBinary(m)
    BY <1>2, MessagesKeep
  <1> QED BY <1>1, <1>2, CallsKeep DEF SessionNext

THEOREM SessionInvariant == SessionSpec => []SessionInv
  BY SessionInitially, SessionStep, PTL DEF SessionSpec

-----------------------------------------------------------------------------

\* The session stays well typed, whatever the service sends.
THEOREM SessionTypeCorrect == SessionSpec => []SessionTypeOK
  <1>1. SessionInv => SessionTypeOK
    BY DEF SessionInv
  <1> QED BY SessionInvariant, <1>1, PTL

\* Audio that was sent, and a transcript, are covered by the evidence.
THEOREM EvidenceIsHonest == SessionSpec => []EvidenceCoversAudio
  <1>1. SessionInv => EvidenceCoversAudio
    BY DEF SessionInv
  <1> QED BY SessionInvariant, <1>1, PTL

\* A session only finishes when all that belongs to one is there.
THEOREM FinishedSessionIsComplete == SessionSpec => []FinishedIsComplete
  <1>1. SessionInv => FinishedIsComplete
    BY DEF SessionInv, SessionTypeOK, MarkedAfterAudio, FinishedIsComplete
  <1> QED BY SessionInvariant, <1>1, PTL

\* Which steps touch the final transcript: the recognitions.
LEMMA OnlyRecognitionChanges ==
  ASSUME SessionInv, [SessionNext]_protocol, <<final, newest>>' # <<final, newest>>
  PROVE  \E m \in Messages : phase \notin Deaf /\ Recognition(m)
  <1> USE DEF Refused, Fail, Proceed, evidence, result
  <1>1. ~ UNCHANGED protocol
    BY DEF protocol
  <1>2. ~ (StartTask \/ FinishSession \/ Cancel \/ MarkAudioWriteAmbiguous \/ FinishAudio)
    BY DEF StartTask, FinishSession, Cancel, MarkAudioWriteAmbiguous, FinishAudio
  <1>3. ~ ConfirmAudioSent
    BY DEF ConfirmAudioSent
  <1>4. \A valid \in BOOLEAN : ~ (StartSession(valid) \/ AudioRequest(valid))
    BY DEF StartSession, AudioRequest
  <1>5. PICK m \in Messages : HandleBinary(m)
    BY <1>1, <1>2, <1>3, <1>4 DEF SessionNext
  <1>6. ~ (Unheard \/ Rejected(m) \/ Started(m) \/ SessionFinished(m) \/ NoRecognition(m))
    BY DEF Unheard, Rejected, Started, SessionFinished, NoRecognition
  <1> QED BY <1>5, <1>6 DEF HandleBinary

\* A transcript is never exchanged for that of an older packet.
THEOREM TextsComeInOrder == SessionSpec => NewerTextStays
  <1>1. SessionInv /\ [SessionNext]_protocol =>
          [final' # final => phase \notin Deaf /\ newest' >= newest /\ newest' = lastPacket']_protocol
    <2> SUFFICES ASSUME SessionInv, [SessionNext]_protocol, final' # final
                 PROVE  phase \notin Deaf /\ newest' >= newest /\ newest' = lastPacket'
      OBVIOUS
    <2>1. PICK m \in Messages : phase \notin Deaf /\ Recognition(m)
      BY OnlyRecognitionChanges
    <2>2. m.packet \in Nat /\ lastPacket \in Nat /\ newest \in Nat
      <3>1. m.kind = "result"
        BY <2>1 DEF Recognition
      <3>2. m.packet \in Nat
        BY <3>1, MessageKinds
      <3> QED BY <3>2 DEF SessionInv, SessionTypeOK
    <2>3. ~ IsDuplicate(m) /\ newest' = lastPacket'
      BY <2>1 DEF Recognition, result
    <2>4. lastPacket' >= newest
      BY <2>1, <2>2, <2>3 DEF Recognition, IsDuplicate, SessionInv, TextIsKnown
    <2> QED BY <2>1, <2>3, <2>4
  <1> QED BY SessionInvariant, <1>1, PTL DEF SessionSpec, NewerTextStays

\* Neither a late message nor a late call takes evidence back or revives a session.
THEOREM EndsAreFinal == SessionSpec => EndIsFinal
  <1> DEFINE Step == /\ acceptance # "not-accepted" => acceptance' # "not-accepted"
                     /\ phase \in {"failed", "cancelled"} => phase' = phase
                     /\ phase = "finished" => phase' \in {"finished", "failed"}
  <1>1. SessionInv /\ [SessionNext]_protocol => [Step]_protocol
    <2> SUFFICES ASSUME SessionInv, SessionNext PROVE Step
      OBVIOUS
    <2> USE DEF Refused, Fail, Proceed, evidence, result
    <2>1. CASE StartTask \/ FinishSession \/ Cancel \/ MarkAudioWriteAmbiguous \/ FinishAudio
      BY <2>1 DEF StartTask, FinishSession, Cancel, MarkAudioWriteAmbiguous, FinishAudio
    <2>2. CASE ConfirmAudioSent
      BY <2>2 DEF ConfirmAudioSent
    <2>3. CASE \E valid \in BOOLEAN : StartSession(valid) \/ AudioRequest(valid)
      BY <2>3 DEF StartSession, AudioRequest
    <2>4. CASE \E m \in Messages : HandleBinary(m)
      <3>1. PICK m \in Messages : HandleBinary(m)
        BY <2>4
      <3>2. CASE Unheard BY <3>2 DEF Unheard
      <3>3. CASE ~ Unheard
        BY <3>1, <3>3 DEF HandleBinary, Deaf, Rejected, Started, SessionFinished, NoRecognition,
                          Recognition
      <3> QED BY <3>2, <3>3
    <2> QED BY <2>1, <2>2, <2>3, <2>4 DEF SessionNext
  <1> QED BY SessionInvariant, <1>1, PTL DEF SessionSpec, EndIsFinal

-----------------------------------------------------------------------------
(***************************************************************************)
(* The driver.                                                             *)
(***************************************************************************)

USE RunnerAssumption DEF RunnerAssumption

\* DriverInStep, one step at a time.
InStep ==
  failure = NoFailure /\ answer = NoAnswer =>
    /\ step = "task" =>
         phase \in IF io = "build" THEN {"disconnected"} ELSE {"task-starting", "task-started"}
    /\ step = "session" =>
         phase \in IF io = "build" THEN {"task-started"} ELSE {"session-starting", "streaming"}
    /\ step = "audio" =>
         phase = "streaming" /\ input = IF io \in {"queue", "flush"} THEN "pending" ELSE "open"
    /\ step = "marker" =>
         phase = "streaming" /\ sent > 0 /\ input = IF io = "build" THEN "open" ELSE "finished"
    /\ step = "finish" =>
         /\ input = "finished"
         /\ phase \in IF io = "build" THEN {"streaming"} ELSE {"finishing", "finished"}

\* The loop that each step is in; the session is new when the connection is made.
InLoop ==
  /\ step = "fetch"   => io = "http"
  /\ step = "prepare" => io = "local"
  /\ step = "connect" => io \in {"resolve", "tcp", "handshake"} /\ phase = "disconnected"
  /\ step \in {"task", "session", "finish"} => io \in {"build", "queue", "flush", "await"}
  /\ step = "audio"   => io \in {"slot", "queue", "flush", "drain"}
  /\ step = "marker"  => io \in {"build", "queue", "flush"}

Pending == IF input = "pending" THEN 1 ELSE 0

\* Every frame of the recording is still to be read, pending or sent.
Counted ==
  /\ step \in Sends => sent + left + Pending = Frames
  /\ step \in {"connect", "task", "session"} => sent = 0 /\ left = Frames /\ input = "open"
  /\ step \in {"marker", "finish"} => left = 0

\* Audio that may have got to the socket is covered by the evidence of the session.
Covered == heard \/ buffered => step \in Sends /\ acceptance # "not-accepted"

\* An error without transport is one from before the session.
FailureFits ==
  failure # NoFailure =>
    /\ failure.retryable => failure.category = "transient"
    /\ ~ failure.transport => step \notin Sends

AnswerFits ==
  answer # NoAnswer =>
    /\ heard \/ buffered => MayHaveLeft(answer)
    /\ answer.kind = "text" => sent = Frames /\ final # NoText

RunnerInv ==
  /\ RunnerTypeOK /\ SessionInv /\ InStep /\ InLoop
  /\ Counted /\ Covered /\ FailureFits /\ AnswerFits

LEMMA StepsAgree == RunnerTypeOK => (InStep <=> DriverInStep)
  BY DEF RunnerTypeOK, InStep, DriverInStep, Sends

LEMMA RunnerInitially == RunnerInit => RunnerInv
  <1> SUFFICES ASSUME RunnerInit PROVE RunnerInv
    OBVIOUS
  <1>1. SessionInv
    BY SessionInitially DEF RunnerInit
  <1>2. left \in 0..Frames /\ drained \in 0..MaxInbound
    BY DEF RunnerInit
  <1>3. {late, over, cancelled, buffered, heard} \subseteq BOOLEAN
    BY DEF RunnerInit
  <1>4. failure \in Failures \cup {NoFailure} /\ answer \in Answers \cup {NoAnswer}
    BY DEF RunnerInit
  <1>5. RunnerTypeOK
    BY <1>1, <1>2, <1>3, <1>4 DEF RunnerInit, RunnerTypeOK, SessionInv, Sends
  <1> QED
    BY <1>1, <1>5 DEF RunnerInit, RunnerInv, SessionInit, InStep, InLoop, Counted, Pending,
                      Covered, FailureFits, AnswerFits, Sends

-----------------------------------------------------------------------------
(***************************************************************************)
(* Failures.                                                               *)
(***************************************************************************)

LEMMA FailedFits ==
  ASSUME NEW category \in Categories \cup {"authentication"}, NEW retryable \in BOOLEAN
  PROVE  /\ Failed(category, retryable) \in Failures
         /\ Early(category, retryable) \in Failures
         /\ Failed(category, retryable).category = category
         /\ Early(category, retryable).category = category
         /\ Failed(category, retryable).retryable = retryable
         /\ Early(category, retryable).retryable = retryable
         /\ Failed(category, retryable).transport
         /\ ~ Early(category, retryable).transport
  BY DEF Failed, Early, Failures

LEMMA FailureIsOne ==
  ASSUME NEW f \in Failures
  PROVE  f # NoFailure
  BY DEF Failures, NoFailure

\* run gives up, without a call of the protocol.
LEMMA FailingKeeps ==
  ASSUME RunnerInv, answer = NoAnswer, NEW f \in Failures,
         f.retryable => f.category = "transient",
         f.transport \/ step \notin Sends,
         Fails(f), UNCHANGED <<protocol, buffered, heard>>
  PROVE  RunnerInv'
  <1>1. UNCHANGED <<round, step, io, left, drained, late, over, cancelled, answer,
                    phase, input, sent, acceptance, lastPacket, final, newest, reply>>
    BY DEF Fails, driver, clock, protocol, evidence, result
  <1>2. SessionInv'
    BY <1>1 DEF RunnerInv, SessionInv, SessionTypeOK, EvidenceCoversAudio, MarkedAfterAudio,
                TextIsKnown
  <1>3. RunnerTypeOK'
    BY <1>1, <1>2 DEF RunnerInv, RunnerTypeOK, SessionInv, Fails
  <1>4. InStep' /\ InLoop' /\ Counted' /\ Covered' /\ AnswerFits'
    BY <1>1, FailureIsOne DEF RunnerInv, InStep, InLoop, Counted, Pending, Covered, AnswerFits, Fails
  <1>5. FailureFits'
    BY <1>1 DEF FailureFits, Fails
  <1> QED BY <1>2, <1>3, <1>4, <1>5 DEF RunnerInv

LEMMA FetchFailsKeeps == RunnerInv /\ FetchFails => RunnerInv'
  <1> SUFFICES ASSUME RunnerInv, FetchFails PROVE RunnerInv'
    OBVIOUS
  <1>1. /\ answer = NoAnswer /\ step \notin Sends /\ UNCHANGED <<protocol, buffered, heard>>
    BY DEF FetchFails, At, Sends, RunnerInv, RunnerTypeOK
  <1>2. CASE Fails(Early("other", FALSE))
    BY <1>1, <1>2, FailedFits, FailingKeeps DEF Categories
  <1>3. CASE \E retryable \in BOOLEAN : \E category \in {"transient", "authentication", "other"} :
               (retryable => category = "transient") /\ Fails(Failed(category, retryable))
    <2>1. PICK retryable \in BOOLEAN, category \in {"transient", "authentication", "other"} :
               (retryable => category = "transient") /\ Fails(Failed(category, retryable))
      BY <1>3
    <2> QED BY <1>1, <2>1, FailedFits, FailingKeeps DEF Categories
  <1>4. CASE Fails(Failed("cancelled", FALSE))
    BY <1>1, <1>4, FailedFits, FailingKeeps DEF Categories
  <1> QED BY <1>2, <1>3, <1>4 DEF FetchFails

LEMMA PrepareFailsKeeps == RunnerInv /\ PrepareFails => RunnerInv'
  <1> SUFFICES ASSUME RunnerInv, PrepareFails PROVE RunnerInv'
    OBVIOUS
  <1>1. /\ answer = NoAnswer /\ step \notin Sends /\ UNCHANGED <<protocol, buffered, heard>>
    BY DEF PrepareFails, At, Sends, world, RunnerInv, RunnerTypeOK
  <1>2. CASE Fails(Early("other", FALSE))
    BY <1>1, <1>2, FailedFits, FailingKeeps DEF Categories
  <1>3. CASE \E retryable \in BOOLEAN : Fails(Early("transient", retryable))
    BY <1>1, <1>3, FailedFits, FailingKeeps DEF Categories
  <1> QED BY <1>2, <1>3 DEF PrepareFails

LEMMA ConnectFailsKeeps == RunnerInv /\ ConnectFails => RunnerInv'
  <1> SUFFICES ASSUME RunnerInv, ConnectFails PROVE RunnerInv'
    OBVIOUS
  <1>1. /\ answer = NoAnswer /\ step \notin Sends /\ UNCHANGED <<protocol, buffered, heard>>
    BY DEF ConnectFails, At, Sends, world, RunnerInv, RunnerTypeOK
  <1>2. CASE Fails(Early("other", FALSE))
    BY <1>1, <1>2, FailedFits, FailingKeeps DEF Categories
  <1>3. CASE Fails(Failed("transient", TRUE)) \/ Fails(Failed("cancelled", FALSE))
    BY <1>1, <1>3, FailedFits, FailingKeeps DEF Categories
  <1>4. CASE \E category \in {"authentication", "other", "transient"} : Fails(Failed(category, FALSE))
    BY <1>1, <1>4, FailedFits, FailingKeeps DEF Categories
  <1> QED BY <1>2, <1>3, <1>4 DEF ConnectFails

LEMMA SendingFailsKeeps == RunnerInv /\ (FrameFails \/ Expire \/ Lost) => RunnerInv'
  <1> SUFFICES ASSUME RunnerInv, FrameFails \/ Expire \/ Lost PROVE RunnerInv'
    OBVIOUS
  <1>1. /\ answer = NoAnswer /\ UNCHANGED <<protocol, buffered, heard>>
    BY DEF FrameFails, Expire, Lost, Pumping, Looping, At, world, RunnerInv, RunnerTypeOK
  <1>2. \/ Fails(Failed("other", FALSE)) \/ Fails(Failed("transient", TRUE))
        \/ Fails(Failed("cancelled", FALSE))
    BY DEF FrameFails, Expire, Lost
  <1> QED BY <1>1, <1>2, FailedFits, FailingKeeps DEF Categories

-----------------------------------------------------------------------------
(***************************************************************************)
(* Steps without a call of the protocol.                                   *)
(***************************************************************************)

LEMMA QuietKeeps ==
  ASSUME RunnerInv,
         \/ Fetch \/ Connect \/ NoMoreFrames \/ TooEarly \/ Arrived \/ Drained \/ Tick \/ CancelToken
  PROVE  RunnerInv'
  <1>1. UNCHANGED <<phase, input, sent, acceptance, lastPacket, final, newest, reply,
                    round, left, failure, buffered, heard, answer>>
    BY DEF Fetch, Connect, NoMoreFrames, TooEarly, Arrived, Drained, Tick, CancelToken,
           protocol, evidence, result, driver, clock, world
  <1>2. SessionInv'
    BY <1>1 DEF RunnerInv, SessionInv, SessionTypeOK, EvidenceCoversAudio, MarkedAfterAudio,
                TextIsKnown
  <1>3. SessionTypeOK'
    BY <1>2 DEF SessionInv
  <1> USE DEF At, Goto, driver, clock, world
  <1>4. CASE NoMoreFrames \/ TooEarly \/ Arrived \/ Drained
    <2> USE DEF RunnerInv, RunnerTypeOK, InStep, InLoop, Counted, Pending, Covered,
                FailureFits, AnswerFits, Sends, Awaited
    <2>1. CASE NoMoreFrames
      <3>1. /\ step = "audio" /\ io = "slot" /\ step' = "marker" /\ io' = "build"
            /\ left = 0 /\ UNCHANGED <<drained, late, over, cancelled>>
        BY <2>1 DEF NoMoreFrames
      <3>2. phase = "streaming" /\ input = "open" /\ sent > 0
        BY <2>1, <3>1 DEF NoMoreFrames, SessionInv, SessionTypeOK
      <3>3. RunnerTypeOK'
        BY <1>1, <1>3, <3>1
      <3> QED BY <1>1, <1>2, <3>1, <3>2, <3>3
    <2>2. CASE TooEarly BY <1>1, <1>2, <1>3, <2>2 DEF TooEarly
    <2>3. CASE Arrived BY <1>1, <1>2, <1>3, <2>3 DEF Arrived
    <2>4. CASE Drained BY <1>1, <1>2, <1>3, <2>4 DEF Drained
    <2> QED BY <1>4, <2>1, <2>2, <2>3, <2>4
  <1>7. CASE Fetch
    <2>1. /\ step = "fetch" /\ step' = "prepare" /\ io' = "local"
          /\ UNCHANGED <<drained, late, over, cancelled>>
      BY <1>7 DEF Fetch
    <2>2. RunnerTypeOK'
      BY <1>1, <1>3, <2>1 DEF RunnerInv, RunnerTypeOK
    <2>3. InStep' /\ InLoop' /\ Counted'
      BY <2>1 DEF InStep, InLoop, Counted, Sends
    <2>4. Covered' /\ FailureFits' /\ AnswerFits'
      BY <1>1, <2>1 DEF RunnerInv, Covered, FailureFits, AnswerFits, Sends
    <2> QED BY <1>2, <2>2, <2>3, <2>4 DEF RunnerInv
  <1>5. CASE Connect
    <2>1. /\ step = "connect" /\ failure = NoFailure /\ answer = NoAnswer
          /\ \/ step' = "connect" /\ io' \in {"tcp", "handshake"}
             \/ step' = "task" /\ io' = "build"
          /\ UNCHANGED <<drained, late, over, cancelled>>
      BY <1>5 DEF Connect
    <2>2. RunnerTypeOK'
      BY <1>1, <1>3, <2>1 DEF RunnerInv, RunnerTypeOK, Sends
    <2>3. phase = "disconnected" /\ sent = 0 /\ left = Frames /\ input = "open"
      BY <2>1 DEF RunnerInv, InLoop, Counted
    <2>4. InStep' /\ InLoop' /\ Counted'
      BY <1>1, <2>1, <2>3 DEF InStep, InLoop, Counted, Pending, Sends
    <2>5. Covered' /\ FailureFits' /\ AnswerFits'
      BY <1>1, <2>1 DEF RunnerInv, Covered, FailureFits, AnswerFits, Sends
    <2> QED BY <1>2, <2>2, <2>4, <2>5 DEF RunnerInv
  <1>6. CASE Tick \/ CancelToken
    <2>1. /\ {late', over', cancelled'} \subseteq BOOLEAN
          /\ UNCHANGED <<step, io, drained>>
      BY <1>6 DEF Tick, CancelToken, RunnerInv, RunnerTypeOK
    <2>2. RunnerTypeOK'
      BY <1>1, <1>3, <2>1 DEF RunnerInv, RunnerTypeOK
    <2>3. InStep' /\ InLoop' /\ Counted' /\ Covered' /\ FailureFits' /\ AnswerFits'
      BY <1>1, <2>1 DEF RunnerInv, InStep, InLoop, Counted, Pending, Covered, FailureFits, AnswerFits
    <2> QED BY <1>2, <2>2, <2>3 DEF RunnerInv
  <1> QED BY <1>4, <1>5, <1>6, <1>7

LEMMA PrepareKeeps == RunnerInv /\ Prepare => RunnerInv'
  <1> SUFFICES ASSUME RunnerInv, Prepare PROVE RunnerInv'
    OBVIOUS
  <1>1. /\ step = "prepare" /\ failure = NoFailure /\ answer = NoAnswer
        /\ step' = "connect" /\ io' = "resolve" /\ left' = Frames /\ drained' = 0
        /\ late' = FALSE /\ over' = FALSE
        /\ phase' = "disconnected" /\ input' = "open" /\ reply' = "ok" /\ sent' = 0
        /\ acceptance' = "not-accepted" /\ lastPacket' = NoPacket /\ final' = NoText
        /\ newest' = NoPacket
        /\ UNCHANGED <<round, cancelled, failure, buffered, heard, answer>>
    BY DEF Prepare, At, Goto, world
  <1>2. SessionInv'
    <2>1. SessionInit'
      BY <1>1 DEF SessionInit
    <2> QED BY <2>1, SessionInitially, PTL
  <1>3. RunnerTypeOK'
    <2>1. left' \in 0..Frames /\ drained' \in 0..MaxInbound
      BY <1>1
    <2>2. {late, over, cancelled, buffered, heard}' \subseteq BOOLEAN
      BY <1>1 DEF RunnerInv, RunnerTypeOK
    <2> QED BY <1>1, <1>2, <2>1, <2>2 DEF RunnerInv, RunnerTypeOK, SessionInv
  <1>4. InStep' /\ InLoop' /\ Counted'
    BY <1>1 DEF InStep, InLoop, Counted, Sends
  <1>5. Covered' /\ FailureFits' /\ AnswerFits'
    BY <1>1 DEF RunnerInv, Covered, FailureFits, AnswerFits, Sends
  <1> QED BY <1>2, <1>3, <1>4, <1>5 DEF RunnerInv

-----------------------------------------------------------------------------
(***************************************************************************)
(* Calls of the protocol.  None is refused, because driver and session are *)
(* in step.                                                                *)
(***************************************************************************)

LEMMA BuildKeeps == RunnerInv /\ Build => RunnerInv'
  <1> SUFFICES ASSUME RunnerInv, Build PROVE RunnerInv'
    OBVIOUS
  <1>1. /\ failure = NoFailure /\ answer = NoAnswer /\ io = "build" /\ io' = "queue"
        /\ late' = FALSE
        /\ UNCHANGED <<round, step, left, drained, over, cancelled, failure, buffered, heard,
                       answer>>
    BY DEF Build, Builds, At, world
  <1>2. \/ step = "task" /\ StartTask
        \/ step = "session" /\ StartSession(TRUE)
        \/ step = "marker" /\ FinishAudio
        \/ step = "finish" /\ FinishSession
    BY DEF Build, Builds, At
  <1>3. SessionInv'
    <2>1. CASE StartSession(TRUE)
      BY <2>1, CallsKeep DEF RunnerInv
    <2>2. CASE StartTask \/ FinishAudio \/ FinishSession
      BY <2>2, CallsKeep DEF RunnerInv
    <2> QED BY <1>2, <2>1, <2>2
  <1>4. /\ step = "task" => phase' = "task-starting" /\ input' = input
        /\ step = "session" => phase' = "session-starting" /\ input' = input
        /\ step = "marker" => phase' = "streaming" /\ sent > 0 /\ input = "open" /\ input' = "finished"
        /\ step = "finish" => phase' = "finishing" /\ input = "finished" /\ input' = input
        /\ UNCHANGED <<sent, acceptance, lastPacket, final, newest>>
    BY <1>1, <1>2 DEF RunnerInv, InStep, StartTask, StartSession, FinishAudio, FinishSession,
                      Proceed, Refused, evidence, result
  <1>5. RunnerTypeOK'
    BY <1>1, <1>3 DEF RunnerInv, RunnerTypeOK, SessionInv
  <1>6. step \in {"task", "session", "marker", "finish"}
    BY <1>2
  <1>7. InStep' /\ InLoop' /\ Counted'
    BY <1>1, <1>4, <1>6 DEF RunnerInv, InStep, InLoop, Counted, Pending, Sends
  <1>8. Covered' /\ FailureFits' /\ AnswerFits'
    BY <1>1, <1>4 DEF RunnerInv, Covered, FailureFits, AnswerFits
  <1> QED BY <1>3, <1>5, <1>7, <1>8 DEF RunnerInv

LEMMA NextFrameKeeps == RunnerInv /\ NextFrame => RunnerInv'
  <1> SUFFICES ASSUME RunnerInv, NextFrame PROVE RunnerInv'
    OBVIOUS
  <1>1. /\ failure = NoFailure /\ answer = NoAnswer /\ step = "audio" /\ io = "slot" /\ io' = "queue"
        /\ late' = FALSE /\ left > 0 /\ left' = left - 1
        /\ UNCHANGED <<round, step, drained, over, cancelled, failure, buffered, heard,
                       answer>>
    BY DEF NextFrame, At, world
  <1>2. SessionInv'
    <2>1. AudioRequest(TRUE)
      BY DEF NextFrame
    <2> QED BY <2>1, CallsKeep DEF RunnerInv
  <1>3. /\ phase = "streaming" /\ phase' = phase /\ input = "open" /\ input' = "pending"
        /\ UNCHANGED <<sent, acceptance, final>>
    BY <1>1 DEF RunnerInv, InStep, NextFrame, AudioRequest, Refused, evidence, result
  <1>4. RunnerTypeOK'
    <2>1. left' \in 0..Frames
      BY <1>1 DEF RunnerInv, RunnerTypeOK
    <2>2. {late, over, cancelled, buffered, heard}' \subseteq BOOLEAN
      BY <1>1 DEF RunnerInv, RunnerTypeOK
    <2> QED BY <1>1, <1>2, <2>1, <2>2 DEF RunnerInv, RunnerTypeOK, SessionInv
  <1>5. InStep' /\ InLoop' /\ Counted'
    BY <1>1, <1>3 DEF RunnerInv, RunnerTypeOK, SessionTypeOK, InStep, InLoop, Counted, Pending, Sends
  <1>6. Covered' /\ FailureFits' /\ AnswerFits'
    BY <1>1, <1>3 DEF RunnerInv, Covered, FailureFits, AnswerFits
  <1> QED BY <1>2, <1>4, <1>5, <1>6 DEF RunnerInv

\* An audio frame is given to the socket: the session knows before anything leaves.
LEMMA QueuedAudioKeeps ==
  ASSUME RunnerInv, answer = NoAnswer, failure = NoFailure, step = "audio", io = "queue",
         NEW failed, QueuedAudio(failed)
  PROVE  /\ SessionInv'
         /\ UNCHANGED <<phase, input, sent, final>>
         /\ acceptance' = "possibly-accepted"
         /\ buffered' = TRUE /\ heard' \in BOOLEAN
  <1>1. SessionInv'
    BY CallsKeep DEF RunnerInv, QueuedAudio
  <1>2. phase = "streaming" /\ input = "pending"
    BY DEF RunnerInv, InStep
  <1> QED
    BY <1>1, <1>2 DEF QueuedAudio, MarkAudioWriteAmbiguous, Refused, result, RunnerInv, RunnerTypeOK

LEMMA QueueKeeps == RunnerInv /\ (Queue \/ QueueFails) => RunnerInv'
  <1> SUFFICES ASSUME RunnerInv, Queue \/ QueueFails PROVE RunnerInv'
    OBVIOUS
  <1>1. /\ failure = NoFailure /\ answer = NoAnswer /\ step \in Sends /\ io = "queue"
        /\ UNCHANGED <<round, step, left, drained, late, over, cancelled, answer>>
        /\ \/ io' = "flush" /\ failure' = failure
           \/ io' = io /\ failure' \in {Failed("transient", TRUE), Failed("other", FALSE)}
    BY DEF Queue, QueueFails, Sending, Looping, At, Fails, driver, clock
  <1>2. /\ SessionInv'
        /\ UNCHANGED <<phase, input, sent, final>>
        /\ acceptance # "not-accepted" => acceptance' # "not-accepted"
        /\ buffered' \in BOOLEAN /\ heard' \in BOOLEAN
        /\ \/ UNCHANGED <<buffered, heard>>
           \/ acceptance' = "possibly-accepted"
    <2>1. CASE step = "audio"
      <3>1. \E failed \in BOOLEAN : QueuedAudio(failed)
        BY <2>1 DEF Queue, QueueFails
      <3> QED BY <1>1, <2>1, <3>1, QueuedAudioKeeps
    <2>2. CASE step # "audio"
      <3>1. UNCHANGED <<protocol, buffered, heard>>
        BY <2>2 DEF Queue, QueueFails
      <3> QED
        BY <3>1 DEF protocol, evidence, result, RunnerInv, RunnerTypeOK, SessionInv, SessionTypeOK,
                    EvidenceCoversAudio, MarkedAfterAudio, TextIsKnown
    <2> QED BY <2>1, <2>2
  <1>3. /\ failure' \in Failures \cup {NoFailure}
        /\ failure' # NoFailure =>
             failure'.transport /\ (failure'.retryable => failure'.category = "transient")
    <2>1. {"transient", "other"} \subseteq Categories
      BY DEF Categories
    <2>2. LET f == Failed("transient", TRUE)
          IN  f \in Failures /\ f.transport /\ f.category = "transient"
      BY <2>1, FailedFits
    <2>3. LET f == Failed("other", FALSE)
          IN  f \in Failures /\ f.transport /\ ~ f.retryable
      BY <2>1, FailedFits
    <2> QED BY <1>1, <2>2, <2>3
  <1>4. RunnerTypeOK'
    BY <1>1, <1>2, <1>3 DEF RunnerInv, RunnerTypeOK, SessionInv
  <1>5. InStep' /\ InLoop' /\ Counted'
    BY <1>1, <1>2 DEF RunnerInv, InStep, InLoop, Counted, Pending, Sends
  <1>6. Covered'
    BY <1>1, <1>2 DEF RunnerInv, Covered
  <1>7. FailureFits' /\ AnswerFits'
    BY <1>1, <1>3 DEF FailureFits, AnswerFits
  <1> QED BY <1>2, <1>4, <1>5, <1>6, <1>7 DEF RunnerInv

LEMMA FlushKeeps == RunnerInv /\ Flush => RunnerInv'
  <1> SUFFICES ASSUME RunnerInv, Flush PROVE RunnerInv'
    OBVIOUS
  <1>1. /\ failure = NoFailure /\ answer = NoAnswer /\ step \in Sends /\ io = "flush"
        /\ late' = FALSE
        /\ UNCHANGED <<round, left, over, cancelled, failure, answer>>
    BY DEF Flush, Sending, Looping, At
  <1>2. CASE step = "audio"
    <2>1. /\ ConfirmAudioSent /\ buffered' = FALSE /\ heard' = TRUE /\ drained' = 0
          /\ step' = "audio" /\ io' = "drain"
      BY <1>2 DEF Flush, Goto
    <2>2. phase = "streaming" /\ input = "pending"
      BY <1>1, <1>2 DEF RunnerInv, InStep
    <2>3. /\ phase' = phase /\ input' = "open" /\ sent' = sent + 1
          /\ acceptance' = "possibly-accepted" /\ final' = final
      BY <2>1, <2>2 DEF ConfirmAudioSent, Refused, result
    <2>4. sent \in Nat /\ left \in Nat /\ sent + left + 1 = Frames
      BY <1>1, <1>2, <2>2 DEF RunnerInv, RunnerTypeOK, SessionTypeOK, Counted, Pending
    <2>5. SessionInv'
      <3>1. Frames \in Nat /\ MaxFrames \in Nat /\ Frames <= MaxFrames
        BY SessionAssumption, RunnerAssumption
      <3>2. sent < MaxFrames
        BY <2>4, <3>1
      <3> QED BY <2>1, <3>2, CallsKeep DEF RunnerInv
    <2>6. RunnerTypeOK'
      <3>1. {late, over, cancelled, buffered, heard}' \subseteq BOOLEAN
        BY <1>1, <2>1 DEF RunnerInv, RunnerTypeOK
      <3>2. drained' \in 0..MaxInbound
        BY <2>1
      <3> QED BY <1>1, <2>1, <2>5, <3>1, <3>2 DEF RunnerInv, RunnerTypeOK, SessionInv, Sends
    <2>7. InStep' /\ InLoop' /\ Counted'
      BY <1>1, <2>1, <2>2, <2>3, <2>4 DEF InStep, InLoop, Counted, Pending, Sends
    <2>8. Covered' /\ FailureFits' /\ AnswerFits'
      BY <1>1, <2>1, <2>3 DEF Covered, FailureFits, AnswerFits, Sends
    <2> QED BY <2>5, <2>6, <2>7, <2>8 DEF RunnerInv
  <1>3. CASE step # "audio"
    <2>1. /\ UNCHANGED <<protocol, buffered, heard, drained>>
          /\ \/ step = "marker" /\ step' = "finish" /\ io' = "build"
             \/ step \in {"task", "session", "finish"} /\ step' = step /\ io' = "await"
      BY <1>1, <1>3 DEF Flush, Goto, Sends
    <2>2. UNCHANGED <<phase, input, sent, acceptance, lastPacket, final, newest, reply>>
      BY <2>1 DEF protocol, evidence, result
    <2>3. SessionInv'
      BY <2>2 DEF RunnerInv, SessionInv, SessionTypeOK, EvidenceCoversAudio, MarkedAfterAudio,
                  TextIsKnown
    <2>4. RunnerTypeOK'
      <3>1. {late, over, cancelled, buffered, heard}' \subseteq BOOLEAN
        BY <1>1, <2>1 DEF RunnerInv, RunnerTypeOK
      <3> QED BY <1>1, <2>1, <2>3, <3>1 DEF RunnerInv, RunnerTypeOK, SessionInv, Sends
    <2>5. InStep' /\ InLoop' /\ Counted'
      BY <1>1, <2>1, <2>2 DEF RunnerInv, InStep, InLoop, Counted, Pending, Sends
    <2>6. Covered' /\ FailureFits' /\ AnswerFits'
      BY <1>1, <2>1, <2>2 DEF RunnerInv, Covered, FailureFits, AnswerFits, Sends
    <2> QED BY <2>3, <2>4, <2>5, <2>6 DEF RunnerInv
  <1> QED BY <1>2, <1>3

\* The answer of a finished session: all frames were sent before its marker.
LEMMA FinishedKeeps == RunnerInv /\ Finished => RunnerInv'
  <1> SUFFICES ASSUME RunnerInv, Finished PROVE RunnerInv'
    OBVIOUS
  <1>1. /\ step = "finish" /\ io = "await" /\ phase = "finished" /\ failure = NoFailure
        /\ answer = NoAnswer /\ answer' = TextAfterAudio
        /\ UNCHANGED <<phase, input, sent, acceptance, lastPacket, final, newest, reply, round, step,
                       io, left, drained, late, over, cancelled, failure, buffered, heard>>
    BY DEF Finished, At, Awaited, protocol, evidence, result, driver, clock, world
  <1>2. SessionInv'
    BY <1>1 DEF RunnerInv, SessionInv, SessionTypeOK, EvidenceCoversAudio, MarkedAfterAudio,
                TextIsKnown
  <1>3. TextAfterAudio \in Answers /\ MayHaveLeft(TextAfterAudio) /\ TextAfterAudio # NoAnswer
    BY DEF TextAfterAudio, Answers, MayHaveLeft, Acceptances, NoAnswer
  <1>4. RunnerTypeOK'
    BY <1>1, <1>2, <1>3 DEF RunnerInv, RunnerTypeOK, SessionInv
  <1>5. sent = Frames /\ final # NoText
    <2>1. input = "finished" /\ left = 0 /\ final # NoText
      BY <1>1 DEF RunnerInv, SessionInv, MarkedAfterAudio, Counted
    <2>2. sent + left + 0 = Frames /\ sent \in Nat
      BY <1>1, <2>1 DEF RunnerInv, RunnerTypeOK, SessionTypeOK, Counted, Pending, Sends
    <2> QED BY <2>1, <2>2
  <1>6. InStep' /\ InLoop' /\ Counted' /\ Covered' /\ FailureFits'
    BY <1>1, <1>3 DEF RunnerInv, InStep, InLoop, Counted, Pending, Covered, FailureFits
  <1>7. AnswerFits'
    BY <1>1, <1>3, <1>5 DEF AnswerFits
  <1> QED BY <1>2, <1>4, <1>6, <1>7 DEF RunnerInv

LEMMA LeakKeeps == RunnerInv /\ Leak => RunnerInv'
  <1> SUFFICES ASSUME RunnerInv, Leak PROVE RunnerInv'
    OBVIOUS
  <1>1. /\ buffered /\ heard' = TRUE
        /\ UNCHANGED <<phase, input, sent, acceptance, lastPacket, final, newest, reply, round, step,
                       io, left, drained, late, over, cancelled, failure, buffered, answer>>
    BY DEF Leak, protocol, evidence, result, driver, clock
  <1>2. SessionInv'
    BY <1>1 DEF RunnerInv, SessionInv, SessionTypeOK, EvidenceCoversAudio, MarkedAfterAudio,
                TextIsKnown
  <1>3. RunnerTypeOK'
    BY <1>1, <1>2 DEF RunnerInv, RunnerTypeOK, SessionInv
  <1>4. InStep' /\ InLoop' /\ Counted' /\ FailureFits'
    BY <1>1 DEF RunnerInv, InStep, InLoop, Counted, Pending, FailureFits
  <1>5. Covered' /\ AnswerFits'
    BY <1>1 DEF RunnerInv, Covered, AnswerFits
  <1> QED BY <1>2, <1>3, <1>4, <1>5 DEF RunnerInv

-----------------------------------------------------------------------------
(***************************************************************************)
(* The service, and the end of a session that failed.                      *)
(***************************************************************************)

\* What a message can do to a session that hears it.
LEMMA MessageEffect ==
  ASSUME RunnerInv, NEW m \in Messages, HandleBinary(m), phase \notin Deaf
  PROVE  /\ UNCHANGED <<input, sent>>
         /\ acceptance # "not-accepted" => acceptance' # "not-accepted"
         /\ reply' \notin Errors =>
              \/ phase' = phase
              \/ phase = "task-starting" /\ phase' = "task-started"
              \/ phase = "session-starting" /\ phase' = "streaming"
              \/ phase = "finishing" /\ phase' = "finished"
  <1> USE DEF Refused, Fail, Proceed, Errors, evidence, result
  <1>1. CASE Rejected(m) BY <1>1 DEF Rejected
  <1>2. CASE Started(m) BY <1>2 DEF Started
  <1>3. CASE SessionFinished(m) BY <1>3 DEF SessionFinished
  <1>4. CASE NoRecognition(m) BY <1>4 DEF NoRecognition
  <1>5. CASE Recognition(m) BY <1>5 DEF Recognition
  <1> QED BY <1>1, <1>2, <1>3, <1>4, <1>5 DEF HandleBinary, Unheard

\* A session that cannot hear answers every message with an error.
LEMMA DeafAnswer ==
  ASSUME NEW m \in Messages, HandleBinary(m), phase \in Deaf
  PROVE  /\ UNCHANGED <<input, sent, acceptance>>
         /\ reply' \in Errors
  BY DEF HandleBinary, Unheard, Errors, evidence

LEMMA ReceiveKeeps ==
  ASSUME RunnerInv, NEW m \in Messages, Receive(m)
  PROVE  RunnerInv'
  <1>1. /\ HandleBinary(m) /\ failure = NoFailure /\ answer = NoAnswer /\ step \in Sends
        /\ io \in {"queue", "flush", "await", "drain"}
        /\ drained' \in {drained, drained + 1} /\ (drained' # drained => drained < MaxInbound)
        /\ UNCHANGED <<round, step, io, left, late, over, cancelled, buffered, heard,
                       answer>>
    BY DEF Receive, Pumping, Looping, At, Sends, clock, world
  <1>2. SessionInv'
    BY <1>1, MessagesKeep DEF RunnerInv
  <1>3. /\ UNCHANGED <<input, sent>>
        /\ acceptance # "not-accepted" => acceptance' # "not-accepted"
        /\ reply' \notin Errors =>
              \/ phase' = phase
              \/ phase = "task-starting" /\ phase' = "task-started"
              \/ phase = "session-starting" /\ phase' = "streaming"
              \/ phase = "finishing" /\ phase' = "finished"
    BY <1>1, MessageEffect, DeafAnswer
  <1>4. /\ reply' \in Errors =>
             failure' \in {Failed("other", FALSE), Failed("authentication", FALSE)}
        /\ reply' \notin Errors => failure' = NoFailure
    BY DEF Receive, Errors
  <1>5. /\ failure' \in Failures \cup {NoFailure}
        /\ failure' # NoFailure => failure'.transport /\ ~ failure'.retryable
        /\ failure' = NoFailure => reply' \notin Errors
    BY <1>4, FailedFits, FailureIsOne DEF Categories
  <1>6. RunnerTypeOK'
    <2>1. drained' \in 0..MaxInbound
      BY <1>1 DEF RunnerInv, RunnerTypeOK
    <2>2. {late, over, cancelled, buffered, heard}' \subseteq BOOLEAN
      BY <1>1 DEF RunnerInv, RunnerTypeOK
    <2> QED BY <1>1, <1>2, <1>5, <2>1, <2>2 DEF RunnerInv, RunnerTypeOK, SessionInv
  <1>7. InStep'
    BY <1>1, <1>3, <1>5 DEF RunnerInv, InStep, InLoop, Sends
  <1>8. InLoop' /\ Counted' /\ Covered'
    BY <1>1, <1>3 DEF RunnerInv, InLoop, Counted, Pending, Covered, Sends
  <1>9. FailureFits' /\ AnswerFits'
    BY <1>1, <1>5 DEF FailureFits, AnswerFits
  <1> QED BY <1>2, <1>6, <1>7, <1>8, <1>9 DEF RunnerInv

\* The errors that an attempt may report.
LEMMA ReportsAreAnswers ==
  ASSUME NEW category \in Categories, NEW retryable \in BOOLEAN,
         retryable => category = "transient", NEW accepted \in Acceptances
  PROVE  /\ AfterTransport(category, retryable, accepted) \in Answers \ {NoAnswer}
         /\ BeforeTransport(category, retryable) \in Answers \ {NoAnswer}
         /\ AfterTransport(category, retryable, accepted).kind = "error"
         /\ BeforeTransport(category, retryable).kind = "error"
         /\ AfterTransport(category, retryable, accepted).acceptance = accepted
  BY DEF AfterTransport, BeforeTransport, Answers, NoAnswer, Categories, Acceptances

\* What Close reports.
Report ==
  LET category == IF failure.category = "authentication" THEN "other" ELSE failure.category
  IN IF failure.transport
     THEN AfterTransport(category, failure.retryable,
                         IF step \in Sends THEN acceptance ELSE "not-accepted")
     ELSE BeforeTransport(category, failure.retryable)

LEMMA ReportFits ==
  ASSUME RunnerInv, failure # NoFailure
  PROVE  /\ Report \in Answers \ {NoAnswer}
         /\ Report.kind = "error"
         /\ heard \/ buffered => MayHaveLeft(Report)
  <1> DEFINE category == IF failure.category = "authentication" THEN "other" ELSE failure.category
             accepted == IF step \in Sends THEN acceptance ELSE "not-accepted"
  <1>1. failure \in Failures
    BY DEF RunnerInv, RunnerTypeOK
  <1>2. /\ failure.retryable \in BOOLEAN /\ failure.transport \in BOOLEAN
        /\ category \in Categories /\ (failure.retryable => category = "transient")
    BY <1>1 DEF Failures, RunnerInv, FailureFits, Categories
  <1>3. accepted \in Acceptances
    BY DEF RunnerInv, RunnerTypeOK, SessionTypeOK, Acceptances
  <1>4. /\ AfterTransport(category, failure.retryable, accepted) \in Answers \ {NoAnswer}
        /\ BeforeTransport(category, failure.retryable) \in Answers \ {NoAnswer}
        /\ AfterTransport(category, failure.retryable, accepted).kind = "error"
        /\ BeforeTransport(category, failure.retryable).kind = "error"
        /\ AfterTransport(category, failure.retryable, accepted).acceptance = accepted
    BY <1>2, <1>3, ReportsAreAnswers
  <1>5. heard \/ buffered => failure.transport /\ accepted # "not-accepted"
    BY DEF RunnerInv, Covered, FailureFits
  <1> QED BY <1>4, <1>5 DEF Report, MayHaveLeft

LEMMA CloseKeeps == RunnerInv /\ Close => RunnerInv'
  <1> SUFFICES ASSUME RunnerInv, Close PROVE RunnerInv'
    OBVIOUS
  <1>1. /\ failure # NoFailure /\ answer = NoAnswer
        /\ buffered' = FALSE /\ heard' = (heard \/ buffered) /\ failure' = NoFailure
        /\ UNCHANGED <<left, drained, late, over, cancelled>>
    BY DEF Close, clock
  <1>2. SessionInv' /\ UNCHANGED <<input, sent, acceptance, lastPacket, final, newest>>
    <2>1. CASE step \in Sends
      <3>1. Cancel
        BY <2>1 DEF Close
      <3> QED BY <3>1, CallsKeep DEF RunnerInv, Cancel, evidence, result
    <2>2. CASE step \notin Sends
      <3>1. UNCHANGED protocol
        BY <2>2 DEF Close
      <3> QED
        BY <3>1 DEF protocol, evidence, result, RunnerInv, SessionInv, SessionTypeOK,
                    EvidenceCoversAudio, MarkedAfterAudio, TextIsKnown
    <2> QED BY <2>1, <2>2
  <1>3. {late, over, cancelled, buffered, heard}' \subseteq BOOLEAN
    BY <1>1 DEF RunnerInv, RunnerTypeOK
  <1>4. CASE MayRefresh
    <2>1. round' = 2 /\ step' = "fetch" /\ io' = "http" /\ answer' = answer
      BY <1>4 DEF Close, Goto
    <2>2. ~ heard'
      BY <1>1, <1>4 DEF MayRefresh, RunnerInv, Covered
    <2>3. RunnerTypeOK'
      BY <1>1, <1>2, <1>3, <2>1 DEF RunnerInv, RunnerTypeOK, SessionInv
    <2>4. InStep' /\ InLoop' /\ Counted'
      BY <2>1 DEF InStep, InLoop, Counted, Sends
    <2>5. Covered' /\ FailureFits' /\ AnswerFits'
      BY <1>1, <2>1, <2>2 DEF Covered, FailureFits, AnswerFits
    <2> QED BY <1>2, <2>3, <2>4, <2>5 DEF RunnerInv
  <1>5. CASE ~ MayRefresh
    <2>1. answer' = Report /\ UNCHANGED <<round, step, io>>
      BY <1>5 DEF Close, Report
    <2>2. answer' \in Answers /\ answer' # NoAnswer /\ answer'.kind = "error"
          /\ (heard \/ buffered => MayHaveLeft(answer'))
      BY <1>1, <2>1, ReportFits
    <2>3. RunnerTypeOK'
      BY <1>1, <1>2, <1>3, <2>1, <2>2 DEF RunnerInv, RunnerTypeOK, SessionInv
    <2>4. InStep'
      BY <2>2 DEF InStep
    <2>5. InLoop'
      <3>1. step = "connect" => phase' = phase
        BY DEF Close, Sends, protocol
      <3> QED BY <2>1, <3>1 DEF RunnerInv, InLoop
    <2>6. Counted' /\ Covered' /\ FailureFits' /\ AnswerFits'
      BY <1>1, <1>2, <2>1, <2>2 DEF RunnerInv, Counted, Pending, Covered, FailureFits, AnswerFits
    <2> QED BY <1>2, <2>3, <2>4, <2>5, <2>6 DEF RunnerInv
  <1> QED BY <1>4, <1>5

LEMMA RunnerStep == RunnerInv /\ [RunnerNext]_vars => RunnerInv'
  <1> SUFFICES ASSUME RunnerInv, [RunnerNext]_vars PROVE RunnerInv'
    OBVIOUS
  <1>1. CASE UNCHANGED vars
    <2>1. UNCHANGED <<phase, input, sent, acceptance, lastPacket, final, newest, reply, round, step,
                      io, left, drained, late, over, cancelled, failure, buffered, heard,
                      answer>>
      BY <1>1 DEF vars, protocol, evidence, result, driver, clock, world
    <2> QED
      BY <2>1 DEF RunnerInv, RunnerTypeOK, SessionInv, SessionTypeOK, EvidenceCoversAudio,
                  MarkedAfterAudio, TextIsKnown, InStep, InLoop, Counted, Pending, Covered,
                  FailureFits, AnswerFits
  <1>2. CASE Driver
    BY <1>2, FetchFailsKeeps, PrepareFailsKeeps, ConnectFailsKeeps, SendingFailsKeeps, QuietKeeps,
       PrepareKeeps, BuildKeeps, NextFrameKeeps, QueueKeeps, FlushKeeps, FinishedKeeps, CloseKeeps
    DEF Driver
  <1>3. CASE Pump
    BY <1>3, ReceiveKeeps DEF Pump
  <1>4. CASE Leak \/ Tick \/ CancelToken
    BY <1>4, LeakKeeps, QuietKeeps
  <1> QED BY <1>1, <1>2, <1>3, <1>4 DEF RunnerNext

THEOREM RunnerInvariant == RunnerSpec => []RunnerInv
  BY RunnerInitially, RunnerStep, PTL DEF RunnerSpec

-----------------------------------------------------------------------------

\* Driver and session stay well typed.
THEOREM RunnerTypeCorrect == RunnerSpec => []RunnerTypeOK
  <1>1. RunnerInv => RunnerTypeOK
    BY DEF RunnerInv
  <1> QED BY RunnerInvariant, <1>1, PTL

\* Whatever the service sends, the next call of the driver is one the session allows.
THEOREM DriverKeepsStep == RunnerSpec => []DriverInStep
  <1>1. RunnerInv => DriverInStep
    BY StepsAgree DEF RunnerInv
  <1> QED BY RunnerInvariant, <1>1, PTL

\* No frame of the recording is lost on the way to a text.
THEOREM NoFrameIsLost == RunnerSpec => []TextIsOfTheWholeRecording
  <1>1. RunnerInv => TextIsOfTheWholeRecording
    <2> SUFFICES ASSUME RunnerInv PROVE TextIsOfTheWholeRecording
      OBVIOUS
    <2>1. answer.kind = "text" => answer # NoAnswer
      BY DEF NoAnswer
    <2> QED BY <2>1 DEF RunnerInv, Counted, Pending, AnswerFits, TextIsOfTheWholeRecording
  <1> QED BY RunnerInvariant, <1>1, PTL

\* The token is refreshed once at most, and never after audio may have left.
THEOREM RefreshReplaysNothing == RunnerSpec => RefreshIsNoReplay
  <1> DEFINE Step == round' # round => round = 1 /\ round' = 2 /\ ~ heard /\ ~ buffered
  <1>1. RunnerInv /\ [RunnerNext]_vars => [Step]_vars
    <2> SUFFICES ASSUME RunnerInv, RunnerNext, round' # round
                 PROVE  round = 1 /\ round' = 2 /\ ~ heard /\ ~ buffered
      OBVIOUS
    <2>1. Close
      <3> USE DEF driver, clock, world, Fails
      <3>1. ~ (Leak \/ Tick \/ CancelToken)
        BY DEF Leak, Tick, CancelToken
      <3>2. ~ Pump
        BY DEF Pump, Receive
      <3>3. ~ (Fetch \/ FetchFails \/ Prepare \/ PrepareFails \/ Connect \/ ConnectFails)
        BY DEF Fetch, FetchFails, Prepare, PrepareFails, Connect, ConnectFails
      <3>4. ~ (Build \/ NextFrame \/ FrameFails \/ NoMoreFrames \/ TooEarly)
        BY DEF Build, Builds, NextFrame, FrameFails, NoMoreFrames, TooEarly
      <3>5. ~ (Queue \/ QueueFails \/ Flush \/ Arrived \/ Finished \/ Expire \/ Lost \/ Drained)
        BY DEF Queue, QueueFails, Flush, Arrived, Finished, Expire, Lost, Drained
      <3> QED BY <3>1, <3>2, <3>3, <3>4, <3>5 DEF RunnerNext, Driver
    <2> QED BY <2>1 DEF Close, MayRefresh, RunnerInv, Covered
  <1> QED BY RunnerInvariant, <1>1, PTL DEF RunnerSpec, RefreshIsNoReplay

\* Steps that do not answer, and leave heard alone or raise it.
Unanswered ==
  /\ UNCHANGED answer
  /\ heard' # heard => heard' = TRUE /\ (answer = NoAnswer \/ MayHaveLeft(answer))

LEMMA UnansweredIsHonest == Unanswered => [Honest!HonestNext]_<<heard, answer>>
  BY DEF Unanswered, Honest!HonestNext, Honest!Hear, Honest!NoAnswer, Honest!MayHaveLeft,
         NoAnswer, MayHaveLeft

\* Every step of an attempt is one of HonestAttempt, or none.
LEMMA StepIsHonest ==
  ASSUME RunnerInv, [RunnerNext]_vars
  PROVE  [Honest!HonestNext]_<<heard, answer>>
  <1>1. heard \in BOOLEAN /\ buffered \in BOOLEAN
    BY DEF RunnerInv, RunnerTypeOK
  <1>2. CASE \/ Fetch \/ FetchFails \/ Prepare \/ PrepareFails \/ Connect \/ ConnectFails
             \/ Build \/ NextFrame \/ FrameFails \/ NoMoreFrames \/ TooEarly \/ Arrived
             \/ Expire \/ Lost \/ Drained \/ Tick \/ CancelToken \/ UNCHANGED vars
    <2>1. UNCHANGED <<heard, answer>>
      BY <1>2 DEF Fetch, FetchFails, Prepare, PrepareFails, Connect, ConnectFails, Build, Builds,
                  NextFrame, FrameFails, NoMoreFrames, TooEarly, Arrived, Expire, Lost, Drained,
                  Tick, CancelToken, vars, world, Fails
    <2> QED BY <2>1
  <1>3. CASE Pump
    BY <1>3 DEF Pump, Receive, world
  <1>4. CASE Leak \/ Queue \/ QueueFails \/ Flush
    <2>1. UNCHANGED answer /\ (heard' = heard \/ heard' = TRUE)
      BY <1>4 DEF Leak, Queue, QueueFails, QueuedAudio, Flush, Fails
    <2>2. answer = NoAnswer \/ (Leak /\ buffered /\ MayHaveLeft(answer))
      BY <1>4 DEF Leak, Queue, QueueFails, Flush, Sending, Looping, At, RunnerInv, AnswerFits
    <2> QED BY <2>1, <2>2, UnansweredIsHonest DEF Unanswered
  <1>5. CASE Finished
    <2>1. answer = NoAnswer /\ answer' = TextAfterAudio /\ heard' = heard
      BY <1>5 DEF Finished, At, world
    <2>2. TextAfterAudio \in Honest!Answers /\ Honest!MayHaveLeft(TextAfterAudio)
      BY DEF TextAfterAudio, Honest!Answers, Honest!MayHaveLeft, Honest!Acceptances,
             Honest!Categories
    <2> QED BY <1>1, <2>1, <2>2 DEF Honest!HonestNext, Honest!Answer, Honest!NoAnswer, NoAnswer
  <1>6. CASE Close /\ MayRefresh
    <2>1. UNCHANGED <<heard, answer>>
      BY <1>1, <1>6 DEF Close, MayRefresh, RunnerInv, Covered
    <2> QED BY <2>1
  <1>7. CASE Close /\ ~ MayRefresh
    <2>1. /\ answer = NoAnswer /\ answer' = Report /\ heard' = (heard \/ buffered)
          /\ failure # NoFailure
      BY <1>7 DEF Close, Report
    <2>2. answer' \in Answers /\ (heard' => MayHaveLeft(answer'))
      BY <2>1, ReportFits
    <2>3. answer' \in Honest!Answers /\ (heard' => Honest!MayHaveLeft(answer'))
      BY <2>2 DEF Answers, Acceptances, Categories, MayHaveLeft, Honest!Answers,
                  Honest!Acceptances, Honest!Categories, Honest!MayHaveLeft
    <2> QED
      BY <1>1, <2>1, <2>3 DEF Honest!HonestNext, Honest!Answer, Honest!NoAnswer, NoAnswer
  <1> QED BY <1>2, <1>3, <1>4, <1>5, <1>6, <1>7 DEF RunnerNext, Driver

\* An attempt over Doubao never denies that audio was received, and none is
\* received after an answer that does.
THEOREM AttemptIsHonest == RunnerSpec => IsHonest
  <1>1. RunnerInit => Honest!HonestInit
    BY DEF RunnerInit, Honest!HonestInit, Honest!NoAnswer, NoAnswer
  <1>2. RunnerInv /\ [RunnerNext]_vars => [Honest!HonestNext]_<<heard, answer>>
    BY StepIsHonest
  <1> QED BY RunnerInvariant, <1>1, <1>2, PTL DEF RunnerSpec, IsHonest, Honest!HonestSpec

-----------------------------------------------------------------------------
(***************************************************************************)
(* What AttemptsEnd rests on for Doubao, once the token is cancelled:      *)
(* there is always a step that the driver can take, and few are left.      *)
(***************************************************************************)

\* The steps that are left in each loop, at most; n messages have been drained.
StepsFrom(i, n) ==
  IF i = "build" THEN 3
  ELSE IF i \in {"local", "slot"} THEN 4
  ELSE IF i = "await" THEN 5
  ELSE IF i = "drain" THEN 5 + MaxInbound - n
  ELSE 2

StepsToEnd(a, f, i, n) ==
  IF a # NoAnswer THEN 0 ELSE IF f # NoFailure THEN 1 ELSE StepsFrom(i, n)

CancelledSteps == StepsToEnd(answer, failure, io, drained)

\* Cancelled, every step of the driver and every message bring the end nearer, and no
\* other step takes it away.
CancellationGetsNearer ==
  [][ cancelled =>
        /\ CancelledSteps \in 0..5 + MaxInbound
        /\ StepsToEnd(answer', failure', io', drained') <= CancelledSteps
        /\ Driver \/ Pump => StepsToEnd(answer', failure', io', drained') < CancelledSteps
    ]_vars

\* A driver that is cancelled is in none of its loops without a way on: it fails, builds
\* a request that the session allows, takes what it waited for, or checks the token.
CancelledGoesOn ==
  cancelled /\ answer = NoAnswer =>
    \/ failure # NoFailure
    \/ At("fetch", "http") \/ At("prepare", "local")
    \/ \E i \in {"resolve", "tcp", "handshake"} : At("connect", i)
    \/ At("task", "build") /\ phase = "disconnected"
    \/ At("session", "build") /\ phase = "task-started"
    \/ At("marker", "build") /\ phase = "streaming" /\ input = "open" /\ sent > 0 /\ left = 0
    \/ At("finish", "build") /\ phase = "streaming" /\ input = "finished"
    \/ Looping
    \/ At("audio", "slot") /\ left = 0
    \/ At("audio", "drain")
    \/ \E s \in {"task", "session", "finish"} : At(s, "await") /\ phase = Awaited[s]


\* Cancelled in whatever loop, the driver does not wait for the service: every recognition
\* can be taken to its end by the driver alone (runner.rs, websocket.rs, managed.rs).
THEOREM CancelledDriverGoesOn == RunnerSpec => []CancelledGoesOn
  <1>1. RunnerInv => CancelledGoesOn
    <2> SUFFICES ASSUME RunnerInv, cancelled, answer = NoAnswer, failure = NoFailure,
                        ~ Looping
                 PROVE  CancelledGoesOn
      BY DEF CancelledGoesOn
    <2> USE DEF CancelledGoesOn, At
    <2>1. step \in Sends \cup {"fetch", "prepare", "connect"} /\ left \in Nat
      BY DEF RunnerInv, RunnerTypeOK
    <2>2. CASE step \in {"fetch", "prepare", "connect"}
      BY <2>2 DEF RunnerInv, InLoop
    <2>3. CASE step \in {"task", "session", "finish"}
      <3>1. io \in {"build", "await"} /\ (io = "await" => phase = Awaited[step])
        BY <2>3 DEF RunnerInv, InLoop, Looping, Sends
      <3> QED BY <2>3, <3>1 DEF RunnerInv, InStep
    <2>4. CASE step = "audio"
      <3>1. io = "drain" \/ (io = "slot" /\ left = 0)
        BY <2>1, <2>4 DEF RunnerInv, InLoop, Looping, Sends
      <3> QED BY <2>4, <3>1
    <2>5. CASE step = "marker"
      <3>1. io = "build" /\ left = 0
        BY <2>5 DEF RunnerInv, InLoop, Looping, Sends, Counted
      <3> QED BY <2>5, <3>1 DEF RunnerInv, InStep
    <2> QED BY <2>1, <2>2, <2>3, <2>4, <2>5 DEF Sends
  <1> QED BY RunnerInvariant, <1>1, PTL

LEMMA StepsAreFew ==
  ASSUME NEW i, NEW n \in 0..MaxInbound
  PROVE  /\ StepsFrom(i, n) \in 2..5 + MaxInbound
         /\ i \notin {"build", "local", "slot", "await", "drain"} => StepsFrom(i, n) = 2
         /\ i = "build" => StepsFrom(i, n) = 3
         /\ i \in {"local", "slot"} => StepsFrom(i, n) = 4
         /\ i = "await" => StepsFrom(i, n) = 5
         /\ i = "drain" => StepsFrom(i, n) = 5 + MaxInbound - n
  BY DEF StepsFrom

LEMMA StepsToEndAreFew ==
  ASSUME NEW a, NEW f, NEW i, NEW n \in 0..MaxInbound
  PROVE  /\ StepsToEnd(a, f, i, n) \in 0..5 + MaxInbound
         /\ a # NoAnswer => StepsToEnd(a, f, i, n) = 0
         /\ a = NoAnswer /\ f # NoFailure => StepsToEnd(a, f, i, n) = 1
         /\ a = NoAnswer /\ f = NoFailure =>
              StepsToEnd(a, f, i, n) = StepsFrom(i, n) /\ StepsToEnd(a, f, i, n) > 1
  BY StepsAreFew DEF StepsToEnd

LEMMA FailedIsOne ==
  ASSUME NEW category, NEW retryable
  PROVE  Failed(category, retryable) # NoFailure /\ Early(category, retryable) # NoFailure
  <1>1. Failed(category, retryable).kind = "error" /\ Early(category, retryable).kind = "error"
    BY DEF Failed, Early
  <1>2. NoFailure.kind = "none"
    BY DEF NoFailure
  <1> QED BY <1>1, <1>2

\* A driver that is cancelled only builds, takes, fails or ends.
LEMMA CancelledDriverEnds ==
  ASSUME RunnerInv, cancelled, Driver
  PROVE  /\ answer = NoAnswer
         /\ \/ answer' # NoAnswer
            \/ failure = NoFailure /\ failure' # NoFailure /\ answer' = answer
            \/ /\ UNCHANGED <<answer, failure>> /\ failure = NoFailure
               /\ \/ io = "local" /\ io' = "resolve"
                  \/ io = "build" /\ io' = "queue"
                  \/ io = "slot"  /\ io' \in {"queue", "build"}
                  \/ io = "await" /\ io' \in {"build", "slot"}
                  \/ io = "drain" /\ io' = "slot"
  <1> USE DEF At
  <1>1. ~ (Fetch \/ Connect \/ TooEarly \/ Queue \/ QueueFails \/ Flush)
    BY DEF Fetch, Connect, TooEarly, Queue, QueueFails, Flush, Sending, Expired
  <1>2. CASE FetchFails \/ PrepareFails \/ ConnectFails \/ FrameFails \/ Expire
    <2>1. answer = NoAnswer /\ failure = NoFailure /\ answer' = answer
      BY <1>2 DEF FetchFails, PrepareFails, ConnectFails, FrameFails, Expire, Looping, Fails
    <2>2. failure' # NoFailure
      BY <1>2, FailedIsOne
      DEF FetchFails, PrepareFails, ConnectFails, FrameFails, Expire, Fails
    <2> QED BY <2>1, <2>2
  <1>3. CASE Lost
    <2>1. answer = NoAnswer /\ failure = NoFailure /\ answer' = answer
      BY <1>3 DEF Lost, Pumping, Looping, Fails
    <2>2. failure' # NoFailure
      BY <1>3, FailedIsOne DEF Lost, Fails
    <2> QED BY <2>1, <2>2
  <1>4. CASE Prepare \/ NextFrame \/ NoMoreFrames \/ Drained
    BY <1>4 DEF Prepare, NextFrame, NoMoreFrames, Drained, Goto
  <1>5. CASE Build
    BY <1>5 DEF Build, Builds
  <1>6. CASE Arrived
    BY <1>6 DEF Arrived, Goto
  <1>7. CASE Finished
    BY <1>7 DEF Finished, TextAfterAudio, NoAnswer
  <1>8. CASE Close
    <2>1. answer = NoAnswer /\ failure # NoFailure /\ answer' = Report
      BY <1>8 DEF Close, MayRefresh, Report
    <2> QED BY <2>1, ReportFits
  <1> QED
    BY <1>1, <1>2, <1>3, <1>4, <1>5, <1>6, <1>7, <1>8 DEF Driver

\* And only what is drained is still heard.
LEMMA CancelledPumpEnds ==
  ASSUME RunnerInv, cancelled, Pump
  PROVE  /\ answer = NoAnswer /\ failure = NoFailure /\ answer' = answer
         /\ io = "drain" /\ io' = io /\ drained < MaxInbound /\ drained' = drained + 1
  BY DEF Pump, Receive, Pumping, Looping, Expired, At

\* However the service behaves, a cancelled recognition ends after few steps: the token is
\* looked at before everything that could wait (check_deadlines in runner.rs), and the
\* loop that drains without looking takes MaxInbound messages at most.
THEOREM CancellationIsShort == RunnerSpec => CancellationGetsNearer
  <1> DEFINE Rest == StepsToEnd(answer', failure', io', drained')
             Near == cancelled =>
                       /\ CancelledSteps \in 0..5 + MaxInbound
                       /\ Rest <= CancelledSteps
                       /\ Driver \/ Pump => Rest < CancelledSteps
  <1>1. RunnerInv /\ RunnerInv' /\ [RunnerNext]_vars => [Near]_vars
    <2> SUFFICES ASSUME RunnerInv, RunnerInv', RunnerNext, cancelled
                 PROVE  /\ CancelledSteps \in 0..5 + MaxInbound
                        /\ Rest <= CancelledSteps
                        /\ Driver \/ Pump => Rest < CancelledSteps
      OBVIOUS
    <2>1. drained \in 0..MaxInbound /\ drained' \in 0..MaxInbound /\ MaxInbound \in Nat
      BY DEF RunnerInv, RunnerTypeOK
    <2>2. CancelledSteps \in 0..5 + MaxInbound /\ Rest \in 0..5 + MaxInbound
      BY <2>1, StepsToEndAreFew DEF CancelledSteps
    <2>3. ASSUME Driver PROVE Rest < CancelledSteps
      <3>1. CASE answer' # NoAnswer
        BY <2>1, <2>3, <3>1, CancelledDriverEnds, StepsToEndAreFew DEF CancelledSteps
      <3>2. CASE failure = NoFailure /\ failure' # NoFailure /\ answer' = answer
        BY <2>1, <2>3, <3>2, CancelledDriverEnds, StepsToEndAreFew DEF CancelledSteps
      <3>3. CASE /\ UNCHANGED <<answer, failure>> /\ failure = NoFailure /\ answer = NoAnswer
                 /\ \/ io = "local" /\ io' = "resolve"
                    \/ io = "build" /\ io' = "queue"
                    \/ io = "slot"  /\ io' \in {"queue", "build"}
                    \/ io = "await" /\ io' \in {"build", "slot"}
                    \/ io = "drain" /\ io' = "slot"
        <4>1. CancelledSteps = StepsFrom(io, drained) /\ Rest = StepsFrom(io', drained')
          BY <2>1, <3>3, StepsToEndAreFew DEF CancelledSteps
        <4>2. StepsFrom(io', drained') < StepsFrom(io, drained)
          BY <2>1, <3>3, StepsAreFew
        <4> QED BY <4>1, <4>2
      <3> QED BY <2>3, <3>1, <3>2, <3>3, CancelledDriverEnds
    <2>4. ASSUME Pump PROVE Rest < CancelledSteps
      <3>1. /\ answer = NoAnswer /\ failure = NoFailure /\ answer' = answer
            /\ io = "drain" /\ io' = io /\ drained' = drained + 1
        BY <2>4, CancelledPumpEnds
      <3>2. CancelledSteps = 5 + MaxInbound - drained
        BY <2>1, <3>1, StepsToEndAreFew, StepsAreFew DEF CancelledSteps
      <3>3. CASE failure' # NoFailure
        <4>1. Rest = 1
          BY <2>1, <3>1, <3>3, StepsToEndAreFew
        <4> QED BY <2>1, <3>2, <4>1
      <3>4. CASE failure' = NoFailure
        <4>1. Rest = 5 + MaxInbound - drained'
          BY <2>1, <3>1, <3>4, StepsToEndAreFew, StepsAreFew
        <4> QED BY <2>1, <3>1, <3>2, <4>1
      <3> QED BY <3>3, <3>4
    <2>5. ASSUME Leak \/ Tick \/ CancelToken PROVE Rest = CancelledSteps
      BY <2>5 DEF Leak, Tick, CancelToken, driver, CancelledSteps
    <2> QED
      BY <2>2, <2>3, <2>4, <2>5 DEF RunnerNext
  <1> QED
    BY <1>1, RunnerInvariant, PTL DEF RunnerSpec, CancellationGetsNearer

=============================================================================
