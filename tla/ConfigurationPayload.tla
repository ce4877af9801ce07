------------------------- MODULE ConfigurationPayload -------------------------
(***************************************************************************)
(* What a configuration record holds: the 512 bytes written today, and the  *)
(* nine older payloads that a unit may still have in its flash when it gets *)
(* this firmware (board_flight_configuration_storage.c), with the codec of  *)
(* the blackbox header (flight_configuration_snapshot.c).                   *)
(*                                                                         *)
(* A payload is a function from the fields it has to their contents; the    *)
(* ones that grew by appending are prefixes of today's layout, which the    *)
(* code copies as bytes.  The contents of a field are left alone except     *)
(* where the code changes them: the words cut to 32 bits, the curves padded *)
(* with zeros, the packed word of the easy mode, the flag.                  *)
(***************************************************************************)
EXTENDS Integers, Sequences, FiniteSets
LOCAL INSTANCE FiniteSetsExt

Layout == <<
  <<"version", 4>>, <<"schema_version", 4>>, <<"timing_us", 20>>,
  <<"level_thresholds", 12>>, <<"failsafe_controls", 20>>,
  <<"gyro_timing_us", 8>>, <<"gyro_thresholds_dps", 8>>,
  <<"processing_parameters", 8>>, <<"attitude_maximum_gap_us", 4>>,
  <<"propeller_layout", 1>>, <<"directions", 4>>, <<"gyro_filter_type", 1>>,
  <<"attitude_estimator_type", 1>>, <<"level_calibrated", 1>>,
  <<"control_axis_parameters", 36>>, <<"throttle_parameters", 8>>,
  <<"control_curves", 272>>, <<"rate_controller_maximum_gap_us", 4>>,
  <<"rate_controller_type", 1>>, <<"acceleration_filter_type", 1>>,
  <<"behavior_id", 1>>, <<"behavior_settings_version", 1>>,
  <<"rate_pid_parameters", 60>>, <<"attitude_angle_gain_per_s", 8>>,
  <<"level_sample_duration_us", 4>>, <<"level_trim_degrees", 8>>,
  <<"acceleration_filter_cutoff_hz", 4>>, <<"integral_activation_throttle", 4>>,
  <<"easy_mode_packed", 4>> >>

\* Where the k-th field ends, and what starts at an offset.
End[k \in 0 .. Len(Layout)] == IF k = 0 THEN 0 ELSE End[k - 1] + Layout[k][2]
FieldAt(offset) == Layout[CHOOSE k \in DOMAIN Layout : End[k - 1] = offset][1]
Prefix(length) == {Layout[k][1] : k \in {j \in DOMAIN Layout : End[j] <= length}}

PayloadFields == Prefix(512)
Header == {"version", "schema_version", "behavior_settings_version"}
FlightFields == PayloadFields \ Header

Points == 8     \* CONTROL_CURVE_MAXIMUM_POINTS

\* Fields with one legal value, the enumerator 0.
OneChoice == {"gyro_filter_type", "attitude_estimator_type", "rate_controller_type",
              "acceleration_filter_type", "behavior_id"}

\* Fields whose contents are not a name below.
Shaped == {"easy_mode_packed", "timing_us", "control_curves", "level_calibrated"}

Bad == "bad"              \* contents the validation refuses
Refused == <<>>           \* no configuration, no payload
Zeros(n) == [k \in 1 .. n |-> 0]

-----------------------------------------------------------------------------
(* The policy of the easy mode: a flag and three counts in one word.        *)

Easy(enabled, idle, activation, rate) ==
  [enabled |-> enabled, idle |-> idle, activation |-> activation, rate |-> rate]

EasyIsValid(easy) ==
  /\ easy.idle \in 1 .. 999 /\ easy.activation \in 1 .. 999
  /\ easy.rate \in 1 .. 2000

\* The word in two halves, bits 0 to 20 and 21 to 31: TLC's integers end at
\* 2^31.  Within the bounds above the shifted counts do not overlap, and the
\* bitwise or is the sum.
Pack(easy) ==
  <<(IF easy.enabled THEN 1 ELSE 0) + easy.idle * 2 + easy.activation * 2^11,
    easy.rate>>

Unpack(word) ==
  Easy(word[1] % 2 # 0, (word[1] \div 2) % 2^10, (word[1] \div 2^11) % 2^10,
       word[2] % 2^11)

-----------------------------------------------------------------------------
(* Configurations: compiled defaults and validity.                          *)

DefaultFlight ==
  [field \in FlightFields |->
     CASE field \in OneChoice -> 0
       [] field = "level_calibrated" -> FALSE
       [] field = "level_trim_degrees" -> "0.0"
       [] field = "timing_us" -> [high |-> 0, low |-> "default"]
       [] field = "control_curves" -> <<"default">>
       [] field = "easy_mode_packed" -> Easy(TRUE, 50, 180, 100)
       [] OTHER -> "default"]

IsValid(flight) ==
  /\ \A field \in OneChoice : flight[field] = 0
  /\ \A field \in FlightFields \ (OneChoice \cup Shaped) : flight[field] # Bad
  /\ flight["timing_us"].high = 0 /\ flight["timing_us"].low # Bad
  /\ Len(flight["control_curves"]) \in 1 .. Points
  /\ EasyIsValid(flight["easy_mode_packed"])

-----------------------------------------------------------------------------
(* Today's payload.                                                         *)

Encode(flight) ==
  [field \in PayloadFields |->
     CASE field = "version" -> 10
       [] field = "schema_version" -> 11
       [] field = "behavior_settings_version" -> 0
       [] field = "timing_us" -> flight[field].low
       [] field = "level_calibrated" -> IF flight[field] THEN 1 ELSE 0
       [] field = "control_curves" ->
            [count  |-> Len(flight[field]),
             points |-> flight[field] \o Zeros(Points - Len(flight[field]))]
       [] field = "easy_mode_packed" -> Pack(flight[field])
       [] OTHER -> flight[field]]

Decode(payload) ==
  IF \/ payload["version"] # 10 \/ payload["schema_version"] # 11
     \/ payload["behavior_settings_version"] # 0
     \/ payload["control_curves"].count > Points
  THEN Refused
  ELSE LET flight ==
             [field \in FlightFields |->
                CASE field = "timing_us" -> [high |-> 0, low |-> payload[field]]
                  [] field = "level_calibrated" -> payload[field] # 0
                  [] field = "control_curves" ->
                       SubSeq(payload[field].points, 1, payload[field].count)
                  [] field = "easy_mode_packed" -> Unpack(payload[field])
                  [] OTHER -> payload[field]]
       IN IF IsValid(flight) THEN flight ELSE Refused

\* The codec of the blackbox header, the same code once more.
SnapshotEncode(flight) == IF IsValid(flight) THEN Encode(flight) ELSE Refused
SnapshotDecode(payload) ==
  IF DOMAIN payload = PayloadFields THEN Decode(payload) ELSE Refused

-----------------------------------------------------------------------------
(* The older payloads, each upgraded to a newer one.                        *)

Is(payload, version, schemas) ==
  payload["version"] = version /\ payload["schema_version"] \in schemas

\* The payload copied into a zeroed one of `fields', with a new header, and
\* with what the compiled defaults supply.
Upgraded(payload, fields, version, schema, supplied) ==
  [field \in fields |->
     CASE field = "version" -> version
       [] field = "schema_version" -> schema
       [] field \in supplied -> Encode(DefaultFlight)[field]
       [] field \notin supplied \cup {"version", "schema_version"} ->
            IF field \in DOMAIN payload THEN payload[field]
            ELSE IF field = "control_curves" THEN [count |-> 0, points |-> Zeros(Points)]
            ELSE IF field = "easy_mode_packed" THEN <<0, 0>> ELSE 0]

SinceNine == {"easy_mode_packed"}
SinceEight == SinceNine \cup {"acceleration_filter_cutoff_hz", "integral_activation_throttle"}
\* The trims and the flag are set to zero, as the defaults have them.
Level == {"level_thresholds", "level_calibrated", "level_sample_duration_us",
          "level_trim_degrees"}
AttitudeGains == {FieldAt(8 + 472)}
RateController == {"rate_controller_maximum_gap_us", "rate_controller_type",
                   "rate_pid_parameters"}

DecodeSchemaTen(payload) ==
  IF Is(payload, 9, {10})
  THEN Decode(Upgraded(payload, PayloadFields, 10, 11,
                       {"behavior_id", "behavior_settings_version"}))
  ELSE Refused

DecodeSchemaNine(payload) ==
  IF Is(payload, 8, {9})
  THEN Decode(Upgraded(payload, PayloadFields, 10, 11, SinceNine)) ELSE Refused

DecodeSchemaEight(payload) ==
  IF Is(payload, 7, {8})
  THEN Decode(Upgraded(payload, PayloadFields, 10, 11, SinceEight)) ELSE Refused

DecodeSchemaSeven(payload) ==
  IF Is(payload, 6, {6, 7})
  THEN Decode(Upgraded(payload, PayloadFields, 10, 11, SinceEight \cup Level)) ELSE Refused

DecodePrevious(payload) ==
  IF Is(payload, 5, {5})
  THEN DecodeSchemaSeven(Upgraded(payload, Prefix(488), 6, 7, AttitudeGains)) ELSE Refused

DecodeSchemaFour(payload) ==
  IF Is(payload, 4, {4})
  THEN DecodePrevious(Upgraded(payload, Prefix(480), 5, 5, RateController)) ELSE Refused

\* The oldest ones are read field by field over the defaults.
Over(payload, fields) ==
  LET flight == [field \in FlightFields |->
                   IF field \notin fields THEN DefaultFlight[field]
                   ELSE IF field = "timing_us"
                     THEN IF payload["version"] = 1 THEN payload[field]
                          ELSE [high |-> 0, low |-> payload[field]]
                   ELSE payload[field]]
  IN IF IsValid(flight) THEN flight ELSE Refused

EarliestFields == {"timing_us", "failsafe_controls", "propeller_layout", "directions"}
OldestFields == EarliestFields \cup {"gyro_timing_us", "gyro_thresholds_dps"}
OlderFields ==
  OldestFields \cup {"gyro_filter_type", "processing_parameters", "attitude_estimator_type",
                     "attitude_maximum_gap_us"}

DecodeOlder(payload) ==
  IF Is(payload, 3, {3}) THEN Over(payload, OlderFields) ELSE Refused
DecodeOldest(payload) ==
  IF Is(payload, 2, {2}) THEN Over(payload, OldestFields) ELSE Refused
DecodeEarliest(payload) ==
  IF Is(payload, 1, {1}) THEN Over(payload, EarliestFields) ELSE Refused
DecodeLegacy(payload) ==
  IF payload["version"] = 1 THEN Over(payload, {"directions"}) ELSE Refused

-----------------------------------------------------------------------------
(* A sector: what a slot holds is [format, length, sequence, payload]; a    *)
(* slot that is neither erased nor whole is of format 0.                    *)

Newest(found) ==
  CHOOSE r \in found : \A other \in found : other.sequence <= r.sequence

\* board_persistent_storage_read: the payload, if there is one.
Read(content, length) ==
  LET Of(format) == {r \in content : r.format = format /\ r.length = length}
  IN IF Of(3) # {} THEN {Newest(Of(3)).payload}
     ELSE IF length <= 96 /\ Of(2) # {} THEN {Newest(Of(2)).payload}
     ELSE {}

ReadLegacy(content) ==
  LET found == {r \in content : r.format = 1 /\ r.length = 8}
  IN IF found = {} THEN {} ELSE {Newest(found).payload}

DecodeAs(length, payload) ==
  CASE length = 512 -> IF SnapshotDecode(payload) # Refused
                       THEN SnapshotDecode(payload) ELSE DecodeSchemaTen(payload)
    [] length = 508 -> DecodeSchemaNine(payload)
    [] length = 500 -> DecodeSchemaEight(payload)
    [] length = 488 -> DecodeSchemaSeven(payload)
    [] length = 480 -> DecodePrevious(payload)
    [] length = 412 -> DecodeSchemaFour(payload)
    [] length = 96  -> DecodeOlder(payload)
    [] length = 84  -> DecodeOldest(payload)
    [] length = 88  -> DecodeEarliest(payload)
    [] length = 8   -> DecodeLegacy(payload)

Lengths == <<512, 508, 500, 488, 480, 412, 96, 84, 88, 8>>

\* load_configuration: the first length whose latest record can be decoded.
LoadConfiguration(content) ==
  LET ReadOf(length) == IF length = 8 THEN ReadLegacy(content) ELSE Read(content, length)
      Decoded(k) == {DecodeAs(Lengths[k], p) : p \in ReadOf(Lengths[k])} \ {Refused}
      usable == {k \in DOMAIN Lengths : Decoded(k) # {}}
  IN IF content = {} THEN [result |-> "LOAD_EMPTY"]
     ELSE IF usable = {} THEN [result |-> "LOAD_ERROR"]
     ELSE [result |-> "LOAD_OK", flight |-> CHOOSE f \in Decoded(Min(usable)) : TRUE]

SaveConfiguration(flight) == SnapshotEncode(flight)

(***************************************************************************)
(* What the formats mean, checked over a configuration in which every       *)
(* field has contents of its own.                                          *)
(***************************************************************************)
Flights ==
  {[field \in FlightFields |->
      CASE field \in OneChoice -> 0
        [] field = "level_calibrated" -> calibrated
        [] field = "timing_us" -> [high |-> 0, low |-> field]
        [] field = "control_curves" -> [k \in 1 .. count |-> <<field, k>>]
        [] field = "easy_mode_packed" -> easy
        [] OTHER -> field] :
     calibrated \in BOOLEAN, count \in {2, 3, Points},
     easy \in {Easy(TRUE, 1, 1, 1), Easy(FALSE, 999, 999, 2000)}}

\* The payloads that older firmware wrote: its fields are the first bytes of
\* today's, with the retired mixer factors where the level thresholds are now
\* and zeros in the reserved bytes.
Grown(length, version, schema, flight) ==
  [field \in Prefix(length) |->
     CASE field = "version" -> version
       [] field = "schema_version" -> schema
       [] field = "level_thresholds" /\ schema < 8 -> "mixer_factors"
       [] field = "level_calibrated" /\ schema < 8 -> 0
       [] OTHER -> Encode(flight)[field]]

Wrote(schema, flight) ==
  CASE schema = 11 -> Encode(flight)
    [] schema = 10 -> Grown(512, 9, 10, flight)
    [] schema = 9  -> Grown(508, 8, 9, flight)
    [] schema = 8  -> Grown(500, 7, 8, flight)
    [] schema \in {6, 7} -> Grown(488, 6, schema, flight)
    [] schema = 5  -> Grown(480, 5, 5, flight)
    [] schema = 4  -> Grown(412, 4, 4, flight)
    [] schema = 3  -> Grown(96, 3, 3, flight)
    [] schema = 2  -> [f \in OldestFields \cup {"version", "schema_version"} |->
                         IF f \in OldestFields THEN Encode(flight)[f] ELSE 2]
    [] schema = 1  -> [f \in EarliestFields \cup {"version", "schema_version"} |->
                         IF f \in EarliestFields THEN flight[f] ELSE 1]
    [] schema = 0  -> [f \in {"version", "directions"} |->
                         IF f = "version" THEN 1 ELSE flight[f]]

LengthOf(schema) ==
  <<8, 88, 84, 96, 412, 480, 488, 488, 500, 508, 512, 512>>[schema + 1]
FormatOf(schema) == IF schema = 0 THEN 1 ELSE IF schema <= 3 THEN 2 ELSE 3
SlotOf(schema, sequence, payload) ==
  [format |-> FormatOf(schema), length |-> LengthOf(schema), sequence |-> sequence,
   payload |-> payload]
Schemas == 0 .. 11

\* What a schema had, in today's terms.
Had(schema) ==
  IF schema <= 3
  THEN <<{"directions"}, EarliestFields, OldestFields, OlderFields>>[schema + 1]
  ELSE FlightFields \cap (DOMAIN Wrote(schema, DefaultFlight)
                          \ IF schema < 8 THEN Level ELSE {})

\* The packed word keeps every policy that is valid.
ASSUME PolicyIsKept ==
  \A enabled \in BOOLEAN, idle \in {1, 511, 512, 999}, activation \in {1, 511, 512, 999},
     rate \in {1, 1023, 1024, 2000} :
    Unpack(Pack(Easy(enabled, idle, activation, rate))) = Easy(enabled, idle, activation, rate)

\* The static assertions of the layout, and the copy at a literal offset.
ASSUME LayoutIsAsAsserted ==
  /\ End[Len(Layout)] = 512
  /\ FieldAt(480) = "attitude_angle_gain_per_s" /\ AttitudeGains = {FieldAt(480)}
  /\ FieldAt(488) = "level_sample_duration_us"
  /\ \A length \in {508, 500, 488, 480, 412, 96} : \E k \in DOMAIN Layout : End[k] = length

\* A saved configuration is loaded as it was, and the blackbox reads the same.
ASSUME SavedIsLoaded ==
  \A flight \in Flights :
    /\ SnapshotDecode(SaveConfiguration(flight)) = flight
    /\ LoadConfiguration({SlotOf(11, 1, Encode(flight))}) =
         [result |-> "LOAD_OK", flight |-> flight]

\* docs/flight-configuration.md:122: a migration preserves all fields that the
\* old payload had, and fills the new ones from the defaults; a calibration is
\* taken over only from a payload that holds one.
ASSUME MigrationPreserves ==
  \A flight \in Flights, schema \in Schemas :
    LoadConfiguration({SlotOf(schema, 1, Wrote(schema, flight))}) =
      [result |-> "LOAD_OK",
       flight |-> [f \in FlightFields |->
                     IF f \in Had(schema) THEN flight[f] ELSE DefaultFlight[f]]]

Sample == CHOOSE flight \in Flights : flight["level_calibrated"]
Damaged == [Sample EXCEPT !["directions"] = Bad]

\* A payload has one reader: with its header and another length it is refused.
ASSUME OneReader ==
  \A schema \in Schemas, other \in Schemas :
    LengthOf(schema) # LengthOf(other) /\ 8 \notin {LengthOf(schema), LengthOf(other)} =>
      DecodeAs(LengthOf(other), Wrote(schema, Sample)) = Refused

\* Of several formats in the sector the newest one is loaded, whatever the
\* order in which they were written.  One that is damaged gives way to an
\* older one; a sector with nothing to decode is refused, never taken as empty.
ASSUME NewestFormatIsLoaded ==
  \A newer \in Schemas, older \in Schemas, a \in 1 .. 2, b \in 1 .. 2 :
    LengthOf(older) # LengthOf(newer) /\ older < newer =>
      LET old == SlotOf(older, a, Wrote(older, Sample))
          Both(flight) == {SlotOf(newer, b, Wrote(newer, flight)), old}
      IN /\ LoadConfiguration(Both(Sample)) =
              LoadConfiguration({SlotOf(newer, b, Wrote(newer, Sample))})
         /\ LoadConfiguration(Both(Damaged)) = LoadConfiguration({old})

ASSUME UndecodableIsRefused ==
  /\ \A schema \in Schemas :
       LoadConfiguration({SlotOf(schema, 1, Wrote(schema, Damaged))}).result = "LOAD_ERROR"
  /\ LoadConfiguration({[format |-> 0, length |-> 0, sequence |-> 0]}).result = "LOAD_ERROR"
  /\ \A flight \in {Damaged, [Sample EXCEPT !["timing_us"].high = 1],
                     [Sample EXCEPT !["easy_mode_packed"].idle = 1000]} :
       SaveConfiguration(flight) = Refused

=============================================================================
