----------------------------- MODULE JsonProtocol -----------------------------
(***************************************************************************)
(* Requests of the USB protocol (peripherals/usb/usb_json_protocol.c): the *)
(* command and its arguments in an object with exactly the members that    *)
(* the command takes, and the configuration as an object of sections.      *)
(*                                                                         *)
(* A request is the sequence of the members of its object.  A member has a *)
(* name and a value: a string stands for itself, a number for the class of *)
(* texts it is written in (DecimalText has the digits), an object for its  *)
(* name, and any other value is "other".                                   *)
(***************************************************************************)
EXTENDS DecimalText, FiniteSetsExt

(***************************************************************************)
(* Numbers: the classes of texts, and what each reader accepts.            *)
(***************************************************************************)
NumberClasses == {"bit", "fraction", "byte", "count", "long_count", "decimal",
                  "negative_fraction", "negative_decimal"}

Accepts(reader) ==
  CASE reader = "uint32"     -> {"bit", "byte", "count"}
    [] reader = "uint64"     -> {"bit", "byte", "count", "long_count"}
    [] reader = "normalized" -> {"bit", "fraction"}
    [] reader = "ratio"      -> {"bit", "fraction"}   \* signed, then refused below zero
    [] reader = "signed"     -> {"bit", "fraction", "negative_fraction"}
    [] reader = "positive"   -> {"bit", "fraction", "byte", "count", "decimal"}
    [] reader = "decimal"    -> {"bit", "fraction", "byte", "count", "decimal",
                                 "negative_fraction", "negative_decimal"}
    [] reader = "bool"       -> {"true", "false"}
    [] reader = "directions" -> {"four_directions"}
    [] reader = "layout"     -> {"PROPS_IN", "PROPS_OUT"}
    [] OTHER                 -> {reader}              \* a name: a fixed string or a section

(***************************************************************************)
(* Objects.  A name is looked for from the front; an absent member is read *)
(* as "absent".  Where the code checks no NULL, it reads the first word of *)
(* the vector table as a token, whose type is not a primitive.             *)
(***************************************************************************)
Named(members, name) == {k \in DOMAIN members : members[k].name = name}

Member(members, name) ==
  IF Named(members, name) = {} THEN "absent" ELSE members[Min(Named(members, name))].value

Has(members, name) == Named(members, name) # {}

\* An object of as many members as the table has, each found and readable.
Matches(members, table) ==
  /\ Len(members) = Cardinality(DOMAIN table)
  /\ \A name \in DOMAIN table : Member(members, name) \in Accepts(table[name])

(***************************************************************************)
(* The configuration.                                                      *)
(***************************************************************************)
Axis == [deadband |-> "normalized", maximum_angle_degrees |-> "positive",
         maximum_rate_dps |-> "positive", curve |-> "curve"]

Pid == [kp |-> "positive", ki |-> "positive", kd |-> "positive",
        integral_limit |-> "positive", output_limit |-> "positive"]

ControlSections ==
  [control |-> [roll |-> "axis_roll", pitch |-> "axis_pitch", yaw |-> "axis_yaw",
                throttle |-> "throttle", attitude_controller |-> "attitude_controller",
                rate_controller |-> "rate_controller"],
   axis_roll |-> Axis, axis_pitch |-> Axis, axis_yaw |-> Axis,
   throttle |-> [zero_deadband |-> "normalized", maximum |-> "normalized", curve |-> "curve"],
   attitude_controller |-> [roll_gain_per_s |-> "positive", pitch_gain_per_s |-> "positive"],
   rate_controller |-> [type |-> "PID", maximum_gap_us |-> "uint32",
                        integral_activation_throttle |-> "normalized",
                        roll |-> "pid_roll", pitch |-> "pid_pitch", yaw |-> "pid_yaw"],
   pid_roll |-> Pid, pid_pitch |-> Pid, pid_yaw |-> Pid]

FailsafeSection ==
  [stale_after_us |-> "uint64", loss_detected_after_us |-> "uint64",
   hold_last_until_us |-> "uint64", stage_two_after_us |-> "uint64",
   recovery_stable_us |-> "uint64", stage_one_roll |-> "signed",
   stage_one_pitch |-> "signed", stage_one_yaw |-> "signed",
   stage_one_throttle |-> "ratio", recovery_throttle_maximum |-> "ratio"]

ImuSections ==
  [imu |-> [gyro_calibration |-> "gyro_calibration", level_calibration |-> "level_calibration",
            gyro_filter |-> "gyro_filter", accelerometer_filter |-> "accelerometer_filter",
            attitude_estimator |-> "attitude_estimator"],
   gyro_calibration |-> [settling_duration_us |-> "uint64", sample_duration_us |-> "uint64",
                         maximum_rate_dps |-> "positive",
                         maximum_standard_deviation_dps |-> "positive"],
   level_calibration |-> [calibrated |-> "bool", sample_duration_us |-> "uint64",
                          maximum_acceleration_standard_deviation_g |-> "positive",
                          maximum_acceleration_magnitude_error_g |-> "positive",
                          maximum_trim_degrees |-> "positive",
                          roll_trim_degrees |-> "decimal", pitch_trim_degrees |-> "decimal"],
   gyro_filter |-> [type |-> "FIRST_ORDER_LOW_PASS", cutoff_hz |-> "positive"],
   accelerometer_filter |-> [type |-> "FIRST_ORDER_LOW_PASS", cutoff_hz |-> "positive"],
   attitude_estimator |-> [type |-> "COMPLEMENTARY",
                           accelerometer_correction_time_constant_s |-> "positive",
                           maximum_gap_us |-> "uint32"]]

ConfigurationSections ==
  [configuration |-> [schema_version |-> "version_11", behavior |-> "behavior",
                      motors |-> "motors", easy_mode |-> "easy_mode", control |-> "control",
                      receiver_failsafe |-> "receiver_failsafe", imu |-> "imu"],
   behavior |-> [name |-> "manual_easy", settings |-> "no_settings"],
   motors |-> [propeller_layout |-> "layout", directions |-> "directions"],
   easy_mode |-> [armed_idle_throttle |-> "normalized",
                  stabilization_activation_throttle |-> "normalized",
                  takeoff_leveling_enabled |-> "bool",
                  takeoff_leveling_rate_dps |-> "positive"],
   receiver_failsafe |-> FailsafeSection]

Table == ConfigurationSections @@ ControlSections @@ ImuSections

ParseConfiguration(sections) ==
  \A section \in DOMAIN Table : Matches(sections[section], Table[section])

(***************************************************************************)
(* What the device writes of its configuration: for every field the        *)
(* classes of text that configuration_to_usb and the format of the         *)
(* response can give it.                                                   *)
(***************************************************************************)
Millionths == {"fraction", "decimal"}   \* %lu.%06lu
Written(reader) ==
  CASE reader = "normalized"           -> {"fraction"}  \* never above one
    [] reader = "ratio"                -> {"fraction"}
    [] reader = "signed"               -> {"fraction", "negative_fraction"}
    [] reader = "positive"             -> Millionths
    [] reader = "decimal"              -> Millionths \cup {"negative_fraction", "negative_decimal"}
    [] reader \in {"uint32", "uint64"} -> {"bit", "byte", "count"}
    [] OTHER                           -> Accepts(reader)

\* A member for each field of a table.
Formatted(table) ==
  FoldSet(LAMBDA name, members :
            Append(members, [name |-> name, value |-> CHOOSE c \in Written(table[name]) : TRUE]),
          <<>>, DOMAIN table)

FormatConfiguration == [section \in DOMAIN Table |-> Formatted(Table[section])]

\* A configuration that was read can be written back, whatever its numbers are
\* (docs/usb-json-protocol.md, config_read).
ASSUME ReadConfigurationIsWritable ==
  /\ \A section \in DOMAIN Table : \A name \in DOMAIN Table[section] :
       Written(Table[section][name]) \subseteq Accepts(Table[section][name])
  /\ ParseConfiguration(FormatConfiguration)

(***************************************************************************)
(* The tokens of a request: one for a key and one for a value.  The        *)
(* longest configuration fits in the table of the parser.                  *)
(***************************************************************************)
TokenCapacity == 352     \* USB_JSON_TOKEN_CAPACITY
CurvePoints   == 8       \* USB_JSON_CONFIGURATION_CURVE_MAXIMUM_POINTS

ValueTokens(reader) ==
  CASE reader = "directions" -> 5
    [] reader = "curve"      -> 7 + 3 * CurvePoints
    [] OTHER                 -> 1

ConfigurationTokens ==
  MapThenSumSet(LAMBDA section :
    MapThenSumSet(LAMBDA name : 1 + ValueTokens(Table[section][name]), DOMAIN Table[section]),
    DOMAIN Table)

\* Three members and the configuration: a full set of curves is not refused.
ASSUME LongestConfigurationFits ==
  1 + 3 * 2 + 2 + ConfigurationTokens <= TokenCapacity

(***************************************************************************)
(* Configurations a host may send, by name: as it was read, and with one   *)
(* member missing, renamed, twice or too many, or with a wrong number.     *)
(***************************************************************************)
With(section, k, member) == [FormatConfiguration EXCEPT ![section][k] = member]

Configurations ==
  [as_read    |-> FormatConfiguration,
   missing    |-> [FormatConfiguration EXCEPT !["motors"] = Tail(@)],
   renamed    |-> With("easy_mode", 1, [name |-> "idle", value |-> "fraction"]),
   repeated   |-> With("gyro_filter", 1, FormatConfiguration["gyro_filter"][2]),
   extra      |-> [FormatConfiguration EXCEPT
                     !["imu"] = Append(@, [name |-> "gyro", value |-> "gyro_filter"])],
   older      |-> With("configuration",
                       Min(Named(FormatConfiguration["configuration"], "schema_version")),
                       [name |-> "schema_version", value |-> "count"]),
   below_zero |-> With("receiver_failsafe",
                       Min(Named(FormatConfiguration["receiver_failsafe"], "stage_one_throttle")),
                       [name |-> "stage_one_throttle", value |-> "negative_fraction"])]

ReadableConfigurations ==
  {name \in DOMAIN Configurations : ParseConfiguration(Configurations[name])}

\* Only the configuration with every member, once and in range is written
\* (docs/usb-json-protocol.md, config_write).
ASSUME OnlyCompleteConfigurationsAreRead == ReadableConfigurations = {"as_read"}

(***************************************************************************)
(* usb_json_parse_request.                                                 *)
(***************************************************************************)
PlainCommands ==
  {"status", "health", "receiver", "imu", "imu_level_calibration_start",
   "control_trace_read", "control_trace_stop", "arm", "disarm", "bootloader_enter",
   "config_read", "config_reset", "storage_status", "storage_initialize"}

Commands ==
  PlainCommands \cup {"control_trace_start", "motor_test", "config_write",
                      "flight_log_list", "flight_log_read"}

TraceLevels == {"EVENTS", "LOW_RATE", "HIGH_RATE", "FULL_RATE"}

Uint32(value) == value \in Accepts("uint32")

Absent(members, names) == \A name \in names : ~Has(members, name)

\* The members that are there in every request.
Envelope(members) ==
  /\ Member(members, "type") = "command"
  /\ Member(members, "command") \notin NumberClasses \cup {"absent", "other"}
  /\ Uint32(Member(members, "request_id"))

\* The members the command takes: their number, and each of them.
Arguments(members) ==
  LET command == Member(members, "command")
      value(name) == Member(members, name)
  IN CASE command = "motor_test" ->
            /\ Len(members) = 5
            /\ value("motor") \in {"bit", "byte"}
            /\ value("throttle") \in Accepts("normalized")
       [] command = "config_write" ->
            /\ Len(members) = 4 /\ Has(members, "configuration")
            /\ Absent(members, {"motor", "throttle"})
            /\ value("configuration") \in ReadableConfigurations
       [] command = "control_trace_start" ->
            /\ Len(members) = 4
            /\ value("level") \in TraceLevels
       [] command = "flight_log_read" ->
            /\ Len(members) = 5
            /\ Uint32(value("log_id")) /\ Uint32(value("sector_offset"))
       [] command = "flight_log_list" ->
            \/ Len(members) = 3 /\ Absent(members, {"offset", "limit"})
            \/ /\ Len(members) = 5
               /\ Uint32(value("offset")) /\ value("limit") \in {"bit", "byte"}
       [] OTHER ->
            /\ Len(members) = 3
            /\ Absent(members, {"motor", "throttle", "configuration", "log_id", "sector_offset"})

\* "malformed", "unsupported", or the command.
ParseRequest(members) ==
  IF ~Envelope(members) \/ ~Arguments(members) THEN "malformed"
  ELSE IF Member(members, "command") \in Commands THEN Member(members, "command")
  ELSE "unsupported"

=============================================================================
