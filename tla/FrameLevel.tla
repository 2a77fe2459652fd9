----------------------------- MODULE FrameLevel -----------------------------
(***************************************************************************)
(* The level of a frame: the root of the mean of the squares of its        *)
(* samples, by Newton's iteration in integers.  There are two programs for *)
(* it, which differ in where the iteration begins: integer_sqrt of         *)
(* src/vad.rs (and of calibration.rs) for finished recordings, and that of *)
(* src/audio.rs for the frames of a live one.                              *)
(***************************************************************************)
EXTENDS Integers, Sequences, FiniteSetsExt

CONSTANTS
  Amplitudes, \* magnitudes of a sample
  FrameSize   \* samples of a frame, at most

\* The magnitude of i16::MIN.
MaxAmplitude == 32768

FrameAssumption == Amplitudes \subseteq 0..MaxAmplitude /\ FrameSize \in Nat

\* The lowest sample has no positive counterpart.
Samples == (Amplitudes \cup {-a : a \in Amplitudes}) \ {MaxAmplitude}

VARIABLES
  frame,           \* the samples
  value,           \* the mean of their squares
  estimate, next,  \* integer_sqrt
  level            \* the result

vars == <<frame, value, estimate, next, level>>

Unknown == -1

Magnitude(sample) == IF sample < 0 THEN -sample ELSE sample

Magnitudes == {Magnitude(frame[i]) : i \in DOMAIN frame}

Peak == Max({0} \cup Magnitudes)

SquareSum(f) ==
  LET upTo[n \in 0..Len(f)] == IF n = 0 THEN 0 ELSE upTo[n - 1] + f[n] * f[n]
  IN upTo[Len(f)]

\* checked_div: nothing is divided by zero samples.
Mean(f) == IF f = <<>> THEN 0 ELSE SquareSum(f) \div Len(f)

\* Mutant: the quotient alone is the next estimate.
Improved_Quotient(e, v) == v \div e

\* u64::midpoint does not overflow.
Improved(e, v) == (e + v \div e) \div 2

PowerOfTwo[k \in 0..30] == IF k = 0 THEN 1 ELSE 2 * PowerOfTwo[k - 1]

\* ilog2, of a mean of squares
Log2(v) == CHOOSE k \in 0..30 : PowerOfTwo[k] <= v /\ v \div 2 < PowerOfTwo[k]

\* integer_sqrt of vad.rs begins with the value itself.
BeginsAtValue ==
  /\ estimate = value
  /\ next = IF value < 2 THEN value ELSE Improved(value, value)

\* Mutant: half of the logarithm is rounded down.
BeginsNearby_Lower ==
  /\ estimate = IF value = 0 THEN 0 ELSE PowerOfTwo[Log2(value) \div 2]
  /\ next = IF value = 0 THEN 0 ELSE Improved(estimate, value)

\* integer_sqrt of audio.rs: a power of two, of half the logarithm, rounded up.
BeginsNearby ==
  /\ estimate = IF value = 0 THEN 0 ELSE PowerOfTwo[(Log2(value) + 1) \div 2]
  /\ next = IF value = 0 THEN 0 ELSE Improved(estimate, value)

FrameInit ==
  /\ frame \in UNION {[1..n -> Samples] : n \in 0..FrameSize}
  /\ value = Mean(frame)
  /\ level = Unknown

Iterate ==
  /\ level = Unknown
  /\ next < estimate
  /\ estimate' = next
  /\ next' = Improved(next, value)
  /\ UNCHANGED <<frame, value, level>>

Converged ==
  /\ level = Unknown
  /\ next >= estimate
  /\ level' = estimate
  /\ UNCHANGED <<frame, value, estimate, next>>

LevelNext == Iterate \/ Converged

\* Of a live recording.
LiveSpec == FrameInit /\ BeginsNearby /\ [][LevelNext]_vars

-----------------------------------------------------------------------------
\* The level is the root of the mean, rounded down: vad.rs:159 takes the level of a
\* live frame for its RMS value.
LevelIsRoot == level # Unknown => level * level <= value /\ value < (level + 1) * (level + 1)

\* The level of a finished recording lies between the least and the greatest magnitude: a
\* loud frame is never taken for a quiet one, and the level is one of 16 bits.
LevelWithinFrame ==
  level # Unknown => level <= Peak /\ (frame # <<>> => Min(Magnitudes) <= level)

\* The level of a live frame is at worst too low, if also for the least magnitude: its
\* square is more than half of the mean, but for the rounding.
LiveLevelIsNear ==
  level # Unknown => level * level <= value /\ value < 2 * (level + 1) * (level + 1)
=============================================================================
