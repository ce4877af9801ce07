-------------------------- MODULE LevelCalibration --------------------------
(***************************************************************************)
(* The level calibration (flight/sensors/level_calibration.c) fed by the    *)
(* samples of the IMU service.  A sample is whether it is new, how old it   *)
(* is, and what the checks make of it; the failed states are one, and a     *)
(* result is handed to the caller in the step that finds it.  The counters  *)
(* matter only while it collects, and are 0 otherwise.                      *)
(***************************************************************************)
EXTENDS Naturals

CONSTANTS
  Duration,        \* sample_duration_us, in ticks
  MinimumSamples,  \* minimum_sample_count
  MaximumSamples,  \* LEVEL_CALIBRATION_MAXIMUM_SAMPLES
  FreshThrough     \* fresh_through_us of the IMU, in ticks

ASSUME LevelConstants ==
  /\ Duration \in Nat \ {0} /\ FreshThrough \in Nat
  /\ MinimumSamples \in Nat \ {0} /\ MaximumSamples \in Nat
  /\ MinimumSamples <= MaximumSamples

VARIABLES
  level,      \* state
  elapsed,    \* now - started_at_us while it collects
  samples,    \* sample_count; a sequence was seen when it is not 0
  sampleAge   \* age of the latest IMU sample

calibration == <<level, elapsed, samples>>
levelVars   == <<level, elapsed, samples, sampleAge>>

LevelTypeOK ==
  /\ level \in {"UNCALIBRATED", "READY", "COLLECTING", "FAILED"}
  /\ elapsed \in 0..Duration /\ samples \in 0..MaximumSamples
  /\ sampleAge \in 0..FreshThrough + 1

LevelSet(calibrated) ==
  /\ level' = IF calibrated THEN "READY" ELSE "UNCALIBRATED"
  /\ elapsed' = 0 /\ samples' = 0

\* Wrong on purpose: a start begins anew what is under way.
LevelStartAnyTime ==
  level' = "COLLECTING" /\ elapsed' = 0 /\ samples' = 0

\* level_calibration_start refuses only while a calibration runs.
LevelStart ==
  /\ level # "COLLECTING"
  /\ level' = "COLLECTING" /\ elapsed' = 0 /\ samples' = 0

\* imu_service_process_once: the source delivers a sample or fails.
Acquire(new) ==
  sampleAge' = IF new THEN 0 ELSE sampleAge

FreshSample == sampleAge' <= FreshThrough
Usable(new) == FreshSample /\ (new \/ samples = 0)

\* level_calibration_process while it collects, by what it returns with.
Collects(new) ==
  /\ FreshSample
  /\ UNCHANGED level
  /\ IF Usable(new)
     THEN /\ samples < MaximumSamples /\ elapsed < Duration
          /\ samples' = samples + 1
     ELSE UNCHANGED samples
  /\ UNCHANGED elapsed

\* Stale input, movement, an implausible sample, too many or, at the end, too
\* few samples, a variance or a trim beyond the limits.
LevelFails(new) ==
  /\ ~FreshSample \/ Usable(new)
  /\ level' = "FAILED" /\ elapsed' = 0 /\ samples' = 0

\* RESULT_PENDING_PERSISTENCE
Result(new) ==
  /\ Usable(new)
  /\ samples < MaximumSamples /\ elapsed = Duration
  /\ samples + 1 >= MinimumSamples

LevelTick ==
  /\ elapsed' = IF level = "COLLECTING" /\ elapsed < Duration
                THEN elapsed + 1 ELSE elapsed
  /\ sampleAge' = IF sampleAge <= FreshThrough THEN sampleAge + 1 ELSE sampleAge
  /\ UNCHANGED <<level, samples>>

=============================================================================
