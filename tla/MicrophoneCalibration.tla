------------------------ MODULE MicrophoneCalibration ------------------------
(***************************************************************************)
(* The analysis of a quiet and of a speaking phase (src/calibration.rs):   *)
(* from the levels of the frames to a threshold that may be applied.  Only *)
(* percentiles of the levels and counts matter, so that their order in     *)
(* time is abstracted: a phase is its sorted levels.  Whether samples were *)
(* clipped is an input.  Decibels are compared as ratios in 1/10000.       *)
(***************************************************************************)
EXTENDS Integers, FiniteSets, Sequences

CONSTANTS
  PhaseLevels,    \* levels of a frame
  MinPhase,       \* MIN_PHASE_FRAMES
  MaxPhase        \* bound of a phase

MaxLevel == 65535

CalibrationAssumption ==
  /\ PhaseLevels \subseteq 0..MaxLevel
  /\ MinPhase \in Nat \ {0} /\ MaxPhase \in Nat

VARIABLES silence, speech, clipping, result

inputs == <<silence, speech, clipping>>

NoResult == [reason |-> "none"]
TooShort == [reason |-> "too-short"]

Sorted(s) == \A i, j \in 1..Len(s) : i < j => s[i] <= s[j]

Phases == {s \in UNION {[1..n -> PhaseLevels] : n \in 0..MaxPhase} : Sorted(s)}

CalibrationInit ==
  /\ silence \in Phases /\ speech \in Phases
  /\ clipping \in BOOLEAN
  /\ result = NoResult

-----------------------------------------------------------------------------
\* percentile, of sorted levels
Percentile(levels, p) == levels[((Len(levels) - 1) * p) \div 100 + 1]

AtLeast(a, b) == IF a < b THEN b ELSE a
AtMost(a, b)  == IF a < b THEN a ELSE b

\* Mutant: only the normal case is capped.
Suggested_Uncapped(noise95, speech50) ==
  IF speech50 <= noise95 THEN noise95 + 80
                         ELSE AtMost(noise95 + AtLeast((speech50 - noise95) \div 4, 80), 10000)

\* suggested_threshold
Suggested(noise95, speech50) ==
  AtMost(IF speech50 <= noise95 THEN noise95 + 80
                                ELSE noise95 + AtLeast((speech50 - noise95) \div 4, 80), 10000)

\* Less than 6, 12 or 16 dB: powers of ten to 0.3, 0.6 and 0.8.
Ratio == [d \in {6, 12, 16} |-> IF d = 6 THEN 19953 ELSE IF d = 12 THEN 39811 ELSE 63096]
SnrBelow(d, noise50, speech50) == 10000 * AtLeast(speech50, 1) < Ratio[d] * AtLeast(noise50, 1)

\* Mutant: the voice may be as loud as the noise.
Reason_AnyVoice(noise20, noise50, noise95, speech50, speech95, clipped) ==
  IF clipped                              THEN "clipping"
  ELSE IF speech95 < 500                  THEN "too-quiet"
  ELSE IF noise95 > 3 * noise20 + 200     THEN "unstable-noise"
  ELSE "good"

\* What is wrong, in the order of the checks.
Reason(noise20, noise50, noise95, speech50, speech95, clipped) ==
  IF clipped                              THEN "clipping"
  ELSE IF speech50 <= noise95 + 100 \/ SnrBelow(6, noise50, speech50) THEN "no-speech"
  ELSE IF speech95 < 500                  THEN "too-quiet"
  ELSE IF noise95 > 3 * noise20 + 200     THEN "unstable-noise"
  ELSE IF SnrBelow(12, noise50, speech50) THEN "marginal-snr"
  ELSE "good"

Low == {"no-speech", "too-quiet", "clipping", "unstable-noise"}

Voiced(levels, threshold) == Cardinality({i \in 1..Len(levels) : levels[i] >= threshold})

\* Mutant: the cap of the suggestion is not considered.
CanApply_Capped(reason, threshold, noise95, levels) ==
  reason \notin Low /\ 5 * Voiced(levels, threshold) >= Len(levels)

CanApply(reason, threshold, noise95, levels) ==
  /\ reason \notin Low
  /\ 5 * Voiced(levels, threshold) >= Len(levels)
  /\ threshold > noise95

Analyze ==
  /\ result = NoResult
  /\ result' =
       IF Len(silence) < MinPhase \/ Len(speech) < MinPhase THEN TooShort
       ELSE LET noise95   == Percentile(silence, 95)
                speech50  == Percentile(speech, 50)
                reason    == Reason(Percentile(silence, 20), Percentile(silence, 50), noise95,
                                    speech50, Percentile(speech, 95), clipping)
                threshold == Suggested(noise95, speech50)
            IN [reason |-> reason, threshold |-> threshold,
                canApply |-> CanApply(reason, threshold, noise95, speech)]
  /\ UNCHANGED inputs

CalibrationNext == Analyze

CalibrationSpec == CalibrationInit /\ [][CalibrationNext]_<<inputs, result>>

-----------------------------------------------------------------------------
Analyzed == result.reason \notin {"none", "too-short"}

\* A suggestion is a threshold that the configuration accepts (config.rs:299),
\* whatever was recorded.
SuggestionIsValid == Analyzed => 1 <= result.threshold /\ result.threshold <= 10000

\* A suggestion that may be applied hears at least half of the voice, and hardly
\* any of the noise: the twentieth part, rounded up, and one frame more.
AppliedHearsTheVoice ==
  Analyzed /\ result.canApply =>
    /\ 2 * Voiced(speech, result.threshold) >= Len(speech)
    /\ 20 * (Voiced(silence, result.threshold) - 1) <= Len(silence) + 19

\* No suggestion is applied that clipped, or in which the voice is not twice as
\* loud as the noise (docs/configuration.md:59: low confidence cannot be applied).
LowConfidenceIsNotApplied ==
  Analyzed /\ result.canApply =>
    /\ ~ clipping
    /\ Percentile(speech, 50) > Percentile(silence, 95) + 100
    /\ ~ SnrBelow(6, Percentile(silence, 50), Percentile(speech, 50))
=============================================================================
