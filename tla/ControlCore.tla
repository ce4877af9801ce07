----------------------------- MODULE ControlCore -----------------------------
(***************************************************************************)
(* What the flight-control task makes of the sticks: the Easy behaviour    *)
(* with its take-off leveling, the rate controllers, the mixer, and the    *)
(* core that joins them (flight/behavior, flight/control).  Measured and   *)
(* commanded values are integers of a small unit, Full being the largest   *)
(* throttle and correction; a quotient is rounded.  Values that are not    *)
(* finite, and null pointers, are left out.  FlightControl shows when the  *)
(* core is called; MCFlightControl evaluates what is assumed here.         *)
(***************************************************************************)
EXTENDS Integers, FiniteSetsExt, SequencesExt

Full == 100
Axes == {"ROLL", "PITCH", "YAW"}
Tilt == {"ROLL", "PITCH"}
Level == [a \in Tilt |-> 0]

Clamped(value, lower, upper) == Max({lower, Min({value, upper})})

(***************************************************************************)
(* Sticks: control_curve.c, control_input_shaping.c.                       *)
(***************************************************************************)
\* A curve is a sequence of points, from (0, 0) to (Full, Full).
CurveApply(curve, input) ==
  LET i == Min({ n \in 1 .. Len(curve) - 1 : input <= curve[n + 1].input })
      rise == curve[i + 1].output - curve[i].output
      run  == curve[i + 1].input - curve[i].input
  IN Clamped(curve[i].output + (rise * (input - curve[i].input)) \div run, 0, Full)

ApplyAxis(axis, input) ==
  LET magnitude == IF input < 0 THEN -input ELSE input
      curved == CurveApply(axis.curve,
                  ((magnitude - axis.deadband) * Full) \div (Full - axis.deadband))
  IN IF magnitude <= axis.deadband THEN 0 ELSE IF input < 0 THEN -curved ELSE curved

\* control_input_shaping_apply: with the throttle in its deadband nothing is asked for.
Shape(shaping, sticks) ==
  LET t == shaping.throttle
  IN IF sticks.throttle <= t.deadband
     THEN [throttle |-> 0, pilot |-> Level, yawRate |-> 0]
     ELSE [throttle |-> (ApplyAxis(t, sticks.throttle) * t.maximum) \div Full,
           pilot |-> [a \in Tilt |->
             (ApplyAxis(shaping[a], sticks[a]) * shaping[a].maximum) \div Full],
           yawRate |-> (ApplyAxis(shaping["YAW"], sticks["YAW"]) * shaping["YAW"].maximum) \div Full]

\* create_stage_one_setpoint: the configured controls are taken as they are.
StageOneSetpoint(shaping, sticks) ==
  [throttle |-> sticks.throttle,
   pilot    |-> [a \in Tilt |-> (sticks[a] * shaping[a].maximum) \div Full],
   yawRate  |-> (sticks["YAW"] * shaping["YAW"].maximum) \div Full]

(***************************************************************************)
(* takeoff_leveling.c.                                                     *)
(***************************************************************************)
MoveTowardZero(value, change) ==
  IF value > change THEN value - change ELSE IF value < -change THEN value + change ELSE 0

LevelingReset(easy) ==
  [state |-> IF easy.leveling THEN "CAPTURING" ELSE "DISABLED",
   offset |-> Level, effective |-> Level, sampleAt |-> 0]

LevelingComplete(l, pilot) ==
  [l EXCEPT !.state = "COMPLETE", !.offset = Level, !.effective = pilot]

Captured(l, throttle, pilot, vehicle) ==
  IF l.state # "CAPTURING" THEN l
  ELSE [l EXCEPT !.offset = [a \in Tilt |-> vehicle.attitude[a] - pilot[a]],
                 !.sampleAt = vehicle.at, !.state = IF throttle > 0 THEN "ACTIVE" ELSE @]

Leveled(l, easy, throttle, vehicle) ==
  LET offset == [a \in Tilt |->
                   MoveTowardZero(l.offset[a], easy.rate * (vehicle.at - l.sampleAt))]
  IN IF l.state # "ACTIVE" \/ throttle = 0 \/ vehicle.at <= l.sampleAt THEN l
     ELSE [l EXCEPT !.offset = offset, !.sampleAt = vehicle.at,
                    !.state = IF offset = Level THEN "COMPLETE" ELSE @]

LevelingApply(l, easy, throttle, pilot, vehicle) ==
  LET prepared == CASE ~easy.leveling -> LevelingComplete(l, pilot)
                    [] easy.leveling /\ l.state = "DISABLED" -> LevelingReset(easy)
                    [] OTHER -> l
      leveled  == Leveled(Captured(prepared, throttle, pilot, vehicle), easy, throttle, vehicle)
  IN [leveled EXCEPT !.effective = [a \in Tilt |-> pilot[a] + leveled.offset[a]]]

(***************************************************************************)
(* manual_easy_behavior.c.  The behaviour is its leveling; no vehicle      *)
(* state is the one that is not valid.                                     *)
(***************************************************************************)
Objective(l, setpoint) ==
  [angle |-> l.effective, yawRate |-> setpoint.yawRate, throttle |-> setpoint.throttle]
Behaved(l, result) == [leveling |-> l, result |-> result]
Ready(l, setpoint) ==
  [leveling |-> l, result |-> "OBJECTIVE_READY", objective |-> Objective(l, setpoint)]

Fly(l, easy, action, setpoint, vehicle, freshness) ==
  LET applied == LevelingApply(l, easy, setpoint.throttle, setpoint.pilot, vehicle)
  IN CASE setpoint.throttle = 0 -> Ready(IF vehicle.valid THEN applied ELSE l, setpoint)
       [] setpoint.throttle > 0 /\ freshness = "STALE" -> Behaved(l, "WAITING_FOR_STATE")
       [] setpoint.throttle > 0 /\ freshness # "STALE" /\ (freshness # "FRESH" \/ ~vehicle.valid)
            -> Behaved(l, "INVALID_STATE")
       [] OTHER -> Ready(IF action = "STAGE_ONE" THEN LevelingComplete(l, setpoint.pilot)
                         ELSE applied, setpoint)

BehaviorUpdate(l, shaping, easy, action, sticks, vehicle, freshness) ==
  CASE action = "NONE" -> Behaved(LevelingReset(easy), "INACTIVE")
    [] action = "STOP" -> Behaved(LevelingReset(easy), "STOP_REQUESTED")
    [] action = "STAGE_ONE" ->
         Fly(l, easy, action, StageOneSetpoint(shaping, sticks), vehicle, freshness)
    [] OTHER -> Fly(l, easy, action, Shape(shaping, sticks), vehicle, freshness)

(***************************************************************************)
(* rate_pid.c, rate_controller.c.                                          *)
(***************************************************************************)
NoHistory == [a \in Axes |-> 0]
RateReset == [seeded |-> FALSE, at |-> 0, sequence |-> 0, saturated |-> FALSE,
              integral |-> NoHistory, previous |-> NoHistory]

\* rate_pid_update, of one axis.
Pid(config, integral, previous, desired, measured, dt, integrates) ==
  LET error     == desired - measured
      driving   == config.kp * error - (config.kd * (measured - previous)) \div dt
      candidate == IF integrates
                   THEN Clamped(integral + config.ki * error * dt,
                                -config.integralLimit, config.integralLimit)
                   ELSE integral
      further   == \/ driving + candidate > config.outputLimit /\ error > 0
                   \/ driving + candidate < -config.outputLimit /\ error < 0
      kept      == IF integrates /\ ~further THEN candidate ELSE integral
  IN [integral |-> kept,
      total    |-> Clamped(driving + kept, -config.outputLimit, config.outputLimit)]

Seeded(r, vehicle) ==
  [r EXCEPT !.seeded = TRUE, !.at = vehicle.at, !.sequence = vehicle.sequence,
            !.previous = vehicle.rate]
Processed(r, result, correction) == [rate |-> r, result |-> result, correction |-> correction]

\* rate_controller_process, always with control enabled.
Process(r, config, desired, vehicle, enabled) ==
  LET gap == vehicle.at - r.at
      same == vehicle.sequence = r.sequence /\ gap = 0
      reversed == vehicle.sequence <= r.sequence \/ gap <= 0
      pid == [a \in Axes |-> Pid(config, r.integral[a], r.previous[a], desired[a],
                                 vehicle.rate[a], gap, enabled /\ ~r.saturated)]
  IN CASE ~r.seeded -> Processed(Seeded(r, vehicle), "SEEDED", NoHistory)
       [] r.seeded /\ same -> Processed(r, "NO_NEW_SAMPLE", NoHistory)
       [] r.seeded /\ ~same /\ reversed -> Processed(RateReset, "CONTINUITY_LOST", NoHistory)
       [] r.seeded /\ ~reversed /\ gap > config.maximumGap ->
            Processed(Seeded(RateReset, vehicle), "CONTINUITY_LOST", NoHistory)
       [] OTHER -> Processed([Seeded(r, vehicle) EXCEPT !.integral = [a \in Axes |-> pid[a].integral]],
                             "UPDATED", [a \in Axes |-> pid[a].total])

(***************************************************************************)
(* quad_x_mixer.c.                                                         *)
(***************************************************************************)
Motors == 1 .. 4
Coefficient(propsOut) ==
  LET yaw == IF propsOut THEN 1 ELSE -1
      Row(r, p, y) == [ROLL |-> r, PITCH |-> p, YAW |-> y]
  IN << Row(1, 1, yaw), Row(1, -1, -yaw), Row(-1, 1, -yaw), Row(-1, -1, yaw) >>

Deltas(propsOut, correction) ==
  LET rows == Coefficient(propsOut)
      Sum(row) == correction["ROLL"] * row["ROLL"] + correction["PITCH"] * row["PITCH"]
                    + correction["YAW"] * row["YAW"]
  IN [m \in Motors |-> Sum(rows[m])]

\* correction_scale_for_headroom, a fraction of what there is and what is needed.
Headroom(throttle, floor, delta) ==
  LET least == Min(ToSet(delta))  most == Max(ToSet(delta))
      fits  == { [room |-> 1, need |-> 1] }
      lower == IF least < 0 THEN { [room |-> throttle - floor, need |-> -least] } ELSE {}
      upper == IF most > 0 THEN { [room |-> Full - throttle, need |-> most] } ELSE {}
  IN CHOOSE s \in fits \cup lower \cup upper :
       \A t \in fits \cup lower \cup upper : s.room * t.need <= t.room * s.need

Scaled(delta, scale) == (delta * scale.room) \div scale.need

Mix(propsOut, throttle, floor, correction) ==
  LET delta == Deltas(propsOut, correction)
      scale == Headroom(throttle, floor, delta)
  IN [saturated |-> scale.room < scale.need,
      motor |-> [m \in Motors |-> Clamped(throttle + Scaled(delta[m], scale), floor, Full)]]

(***************************************************************************)
(* flight_control_core.c, and the attitude controllers.                    *)
(***************************************************************************)
DesiredRates(profile, vehicle, objective) ==
  LET asked == [a \in Axes |-> IF a = "YAW" THEN objective.yawRate
                               ELSE profile.gain * (objective.angle[a] - vehicle.attitude[a])]
  IN [a \in Axes |-> Clamped(asked[a], -profile.maximumRate, profile.maximumRate)]

Result(r, result, motor) == [rate |-> r, result |-> result, motor |-> motor]
NoCommand == <<>>

\* flight_control_update, for the axis modes of the Easy behaviour; a result without
\* a command sends nothing.
CoreUpdate(r, profile, vehicle, objective) ==
  LET idle    == [m \in Motors |-> profile.idle]
      active  == objective.throttle >= profile.activation
      cleared == IF active THEN r ELSE [r EXCEPT !.integral = NoHistory]
      p == Process(cleared, profile.pid, DesiredRates(profile, vehicle, objective), vehicle, active)
      throttle == IF p.result = "SEEDED" THEN 0 ELSE objective.throttle
      mixed == Mix(profile.propsOut, profile.idle + (throttle * (Full - profile.idle)) \div Full,
                   profile.idle, p.correction)
  IN CASE objective.throttle = 0 -> Result(RateReset, "UPDATED", idle)
       [] objective.throttle > 0 /\ ~vehicle.valid -> Result(r, "INVALID_INPUT", NoCommand)
       [] objective.throttle > 0 /\ vehicle.valid /\ p.result = "NO_NEW_SAMPLE" ->
            Result(p.rate, "WAITING_FOR_STATE", NoCommand)
       [] objective.throttle > 0 /\ vehicle.valid /\ p.result = "CONTINUITY_LOST" ->
            Result(p.rate, "INVALID_INPUT", NoCommand)
       [] OTHER -> Result([p.rate EXCEPT !.saturated = mixed.saturated], "UPDATED", mixed.motor)

(***************************************************************************)
(* Sticks.                                                                 *)
(***************************************************************************)
Point(i, o) == [input |-> i, output |-> o]
Curves == { << Point(0, 0), Point(Full, Full) >>,
            << Point(0, 0), Point(30, 10), Point(60, 10), Point(Full, Full) >> }
Shapings == { [deadband |-> d, maximum |-> Full, curve |-> c] : d \in {0, 5, 25}, c \in Curves }

\* More stick never asks for less, both sides are alike, and a full stick is full,
\* whatever the curve and the deadband (control_input_shaping.c:80-101).
ASSUME SticksAreMonotone ==
  \A axis \in Shapings :
    /\ ApplyAxis(axis, Full) = Full
    /\ \A i \in -Full .. Full : ApplyAxis(axis, -i) = -ApplyAxis(axis, i)
    /\ \A i \in -Full .. Full - 1 : ApplyAxis(axis, i) <= ApplyAxis(axis, i + 1)

(***************************************************************************)
(* Take-off leveling, over every sequence of samples.  Only what is left   *)
(* of the offset matters, so the states are those of the leveling and the  *)
(* age of its last sample.                                                 *)
(***************************************************************************)
Abs(n) == IF n < 0 THEN -n ELSE n
EasyMode == [leveling |-> TRUE, rate |-> 2]
Samples ==
  [throttle : {0, 50}, pilot : {Level, [a \in Tilt |-> 4]}, elapsed : {0, 1, 2},
   attitude : { Level, [a \in Tilt |-> IF a = "ROLL" THEN 7 ELSE -3] }]

\* A run of the behaviour: the leveling, the time and the age of the last sample.
LevelingStep(s, i) ==
  LET vehicle == [attitude |-> i.attitude, at |-> s.at + i.elapsed]
      leveling == LevelingApply(s.leveling, EasyMode, i.throttle, i.pilot, vehicle)
      \* Time is counted from the last sample that the leveling has kept.
  IN [leveling |-> [leveling EXCEPT !.sampleAt = 0],
      at |-> Min({vehicle.at - leveling.sampleAt, 4})]

\* What is reached from a state within so many steps.
Within(steps, state, Step(_, _), inputs) ==
  LET More(reached, n) ==
        LET next == { Step(s, i) : s \in reached.last, i \in inputs }
        IN [all |-> reached.all \cup next, last |-> next \ reached.all]
  IN FoldLeft(More, [all |-> {state}, last |-> {state}], [n \in 1 .. steps |-> n]).all

LevelingStates ==
  Within(6, [leveling |-> LevelingReset(EasyMode), at |-> 0], LevelingStep, Samples)

\* The command takes over from where the aircraft stands, then goes to the pilot's
\* angle without ever passing it, and no faster than the configured rate, counted
\* from the last sample with throttle (takeoff_leveling.c:114-150).
ASSUME LevelingIsGradual ==
  \A s \in LevelingStates, i \in Samples :
    LET before == s.leveling  after == LevelingStep(s, i).leveling
    IN /\ before.state = "CAPTURING" => after.effective = i.attitude
       /\ before.state = "ACTIVE" => \A a \in Tilt :
            /\ Abs(after.offset[a]) <= Abs(before.offset[a])
            /\ after.offset[a] * before.offset[a] >= 0
            /\ Abs(after.offset[a] - before.offset[a]) <= EasyMode.rate * (s.at + i.elapsed)
            /\ i.throttle = 0 => after.offset[a] = before.offset[a]
       /\ after.state = "COMPLETE" => after.effective = i.pilot

\* Time at zero throttle is not taken out: it levels in one sample what it had
\* paused (takeoff_leveling.c:132-145).
ASSUME PauseIsMadeUpAtOnce ==
  \E s \in LevelingStates, i \in Samples :
    /\ s.leveling.state = "ACTIVE" /\ i.throttle > 0
    /\ Abs(LevelingStep(s, i).leveling.offset["ROLL"] - s.leveling.offset["ROLL"])
         > EasyMode.rate * i.elapsed

(***************************************************************************)
(* Rate control and mixer, over every sequence of samples.  Only roll is   *)
(* excited: the axes have controllers of their own and meet in the mixer.  *)
(***************************************************************************)
Profile ==
  [idle |-> 5, gain |-> 1, maximumRate |-> 30, activation |-> 20, propsOut |-> FALSE,
   pid |-> [kp |-> 1, ki |-> 1, kd |-> 1, integralLimit |-> 15, outputLimit |-> 60,
            maximumGap |-> 2]]
Rolling(rate) == [a \in Axes |-> IF a = "ROLL" THEN rate ELSE 0]
Steps ==
  [throttle : {0, 10, 60, Full}, angle : {0, 5}, rate : {-40, 0, 3},
   gap : {-1, 0, 1, 2, 3}, valid : {TRUE}]
  \cup [throttle : {0, 60}, angle : {0}, rate : {0}, gap : {1}, valid : {FALSE}]

\* The time and the number of a sample only matter against those of the last one.
CoreCall(r, i) ==
  CoreUpdate(r, Profile,
    [attitude |-> Level, rate |-> Rolling(i.rate), at |-> i.gap, sequence |-> i.gap, valid |-> i.valid],
    [angle |-> [a \in Tilt |-> IF a = "ROLL" THEN i.angle ELSE 0], yawRate |-> 0,
     throttle |-> i.throttle])
CoreStep(r, i) ==
  LET after == CoreCall(r, i).rate
  IN IF after.seeded /\ after.at = i.gap THEN [after EXCEPT !.at = 0, !.sequence = 0] ELSE after

\* All states of the controller: more steps reach no more.
CoreStates == Within(8, RateReset, CoreStep, Steps)
ASSUME CoreStatesAreAll ==
  LET states == CoreStates
  IN \A r \in states, i \in Steps : CoreStep(r, i) \in states

\* Power beyond idle needs a sample that follows another within the accepted gap;
\* a sample steers once; no motor falls below idle while one is commanded
\* (flight_control_core.c:193-257).
ASSUME PowerNeedsContinuity ==
  \A r \in CoreStates, i \in Steps :
    LET c == CoreCall(r, i)
    IN /\ \A m \in DOMAIN c.motor : c.motor[m] \in Profile.idle .. Full
       /\ (\E m \in DOMAIN c.motor : c.motor[m] > Profile.idle)
            => r.seeded /\ i.valid /\ i.gap \in 1 .. Profile.pid.maximumGap
       /\ r.seeded /\ i.valid /\ i.throttle > 0 /\ i.gap \notin 1 .. Profile.pid.maximumGap
            => c.motor = NoCommand

\* The integral stays within its limit, does not grow while the mixer is out of
\* headroom, and is gone below the activation throttle
\* (flight_control_core.c:207-220, docs/flight-configuration.md:246-250).
ASSUME IntegralDoesNotWindUp ==
  \A r \in CoreStates, i \in Steps :
    LET after == CoreCall(r, i).rate
        grows == Abs(after.integral["ROLL"]) > Abs(r.integral["ROLL"])
        error == i.angle - i.rate
    IN /\ Abs(after.integral["ROLL"]) <= Profile.pid.integralLimit
       /\ grows => ~r.saturated /\ i.throttle >= Profile.activation
       /\ i.throttle < Profile.activation /\ i.valid => after.integral = NoHistory

\* A controller at its own limit holds its integral, unless the error opposes the
\* output: then it unwinds (rate_pid.c:103-119).
ASSUME LimitHoldsIntegral ==
  \A integral \in {-15, -8, 0, 8, 15}, rate \in {-40, -3, 0, 3, 40}, previous \in {-40, 0, 40} :
    LET P(limit) == Pid([Profile.pid EXCEPT !.outputLimit = limit], integral, previous, 0, rate, 1, TRUE)
        unlimited == P(1000).total
        limited == P(30)
    IN /\ limited.integral # integral => Abs(unlimited) <= 30 \/ unlimited * rate > 0
       /\ integral * rate > 0 /\ unlimited * rate > 0 => Abs(limited.integral - integral) > 0

\* What the mixer does with every mixture of corrections: none is cut off motor by
\* motor, no more is given up than headroom asks for, and the collective power is
\* what the throttle says, up to rounding (quad_x_mixer.c:42-65, 130-153).
Corrections == [Axes -> {-60, -25, 0, 25, 60}]
ASSUME MixerKeepsCollective ==
  \A propsOut \in BOOLEAN, floor \in {0, 5}, throttle \in {5, 20, 50, 97, Full}, c \in Corrections :
    LET mixed == Mix(propsOut, throttle, floor, c)
        delta == Deltas(propsOut, c)
        scale == Headroom(throttle, floor, delta)
        sum   == FoldFunction(+, 0, mixed.motor)
    IN /\ \A m \in Motors : mixed.motor[m] = throttle + Scaled(delta[m], scale)
       /\ sum \in 4 * throttle - 3 .. 4 * throttle
       /\ mixed.saturated => \E m \in Motors : mixed.motor[m] \in {floor, Full}

\* Since the power is kept, full throttle leaves no headroom at all: whatever the
\* controllers ask for, the motors turn alike and the integrals stand still.
ASSUME FullThrottleIsUnsteered ==
  \A c \in Corrections :
    LET mixed == Mix(FALSE, Full, 5, c)
    IN mixed.motor = [m \in Motors |-> Full] /\ (mixed.saturated <=> c # NoHistory)

\* Behaviour and core together: power beyond idle comes of a fresh, valid state and
\* of a decision that flies; losing the state commands nothing, losing the receiver
\* stops and starts the take-off anew (manual_easy_behavior.c:95-173).
ASSUME OnlyFreshStateSteers ==
  LET stick == [deadband |-> 5, maximum |-> 30, curve |-> CHOOSE c \in Curves : Len(c) = 2]
      shaping == [throttle |-> [stick EXCEPT !.maximum = Full], ROLL |-> stick, PITCH |-> stick, YAW |-> stick]
      sticks(throttle) == [throttle |-> throttle, ROLL |-> 40, PITCH |-> 0, YAW |-> 0]
  IN \A s \in LevelingStates, throttle \in {0, 4, 60}, valid \in BOOLEAN,
        action \in {"NONE", "LIVE", "HOLD_LAST", "STAGE_ONE", "STOP"},
        freshness \in {"UNAVAILABLE", "FRESH", "STALE", "LOST"} :
       LET vehicle == [attitude |-> Level, rate |-> NoHistory, at |-> 1, sequence |-> 1, valid |-> valid]
           b == BehaviorUpdate(s.leveling, shaping, EasyMode, action, sticks(throttle), vehicle, freshness)
           flying == CoreUpdate(Seeded(RateReset, [vehicle EXCEPT !.at = 0, !.sequence = 0]),
                                Profile, vehicle, b.objective)
       IN /\ b.result = "OBJECTIVE_READY" /\ (\E m \in DOMAIN flying.motor : flying.motor[m] > Profile.idle)
               => /\ freshness = "FRESH" /\ valid
                  /\ action \in {"LIVE", "HOLD_LAST", "STAGE_ONE"}
                  /\ action = "STAGE_ONE" => b.leveling.state = "COMPLETE"
          /\ action \in {"NONE", "STOP"} =>
               b.result \in {"INACTIVE", "STOP_REQUESTED"} /\ b.leveling.state = "CAPTURING"

=============================================================================
