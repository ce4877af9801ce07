------------------------ MODULE ConfigurationStorage ------------------------
(***************************************************************************)
(* The flash sector of the configuration: fixed slots written once each, in *)
(* order, with the commit word last, and erased only all together           *)
(* (board_persistent_storage.c, board_flight_configuration_storage.c).      *)
(*                                                                         *)
(* The CPU does nothing else while it programs, so what a reset or a flash  *)
(* error can cut off is the sector a call leaves behind.  The checksum is    *)
(* taken to reject every slot that was not programmed to its end.  What is   *)
(* in a record, and records of older formats, are in ConfigurationPayload.  *)
(***************************************************************************)
EXTENDS Naturals

CONSTANTS
  Settings,        \* what a configuration holds besides the level calibration
  DefaultSettings,
  Trims,           \* roll and pitch trims
  DefaultTrim,     \* no trim at all
  WithinLimit,     \* the settings and trims with trim <= maximum_trim_degrees
  Unreadable,      \* FLIGHT_CONFIGURATION_LOAD_ERROR
  Capacity,        \* record_capacity()
  MaxSequence      \* UINT32_MAX

ASSUME StorageConstants ==
  /\ DefaultSettings \in Settings /\ DefaultTrim \in Trims
  /\ \A settings \in Settings : <<settings, DefaultTrim>> \in WithinLimit
  /\ Capacity \in Nat \ {0} /\ MaxSequence \in Nat \ {0}

IsWithinLimit(c) == <<c.settings, c.trim>> \in WithinLimit

\* flight_configuration_is_valid bounds the trims by maximum_trim_degrees only
\* where the configuration says that they were measured ...
Configurations ==
  {c \in [settings : Settings, calibrated : BOOLEAN, trim : Trims] :
     c.calibrated => IsWithinLimit(c)}

\* ... but prepare_runtime, by level_calibration_initialize, always does.
Applicable == {c \in Configurations : IsWithinLimit(c)}

ASSUME UnreadableIsNone == Unreadable \notin Configurations

Defaults ==
  [settings |-> DefaultSettings, calibrated |-> FALSE, trim |-> DefaultTrim]

VARIABLE sector

Slots   == 1..Capacity
Erased  == [status |-> "ERASED"]
Torn    == [status |-> "TORN"]
Record(sequence, payload) ==
  [status |-> "VALID", sequence |-> sequence, payload |-> payload]
Records == {Record(n, c) : n \in 1..MaxSequence, c \in Configurations}

StorageTypeOK == sector \in [Slots -> {Erased, Torn} \cup Records]

EmptySector == [slot \in Slots |-> Erased]

-----------------------------------------------------------------------------
Valid(content) == {slot \in Slots : content[slot].status = "VALID"}
Free == {slot \in Slots : sector[slot].status = "ERASED"}

\* The first of the records with the highest sequence.
Latest(content) ==
  CHOOSE slot \in Valid(content) : \A other \in Valid(content) :
    \/ content[other].sequence < content[slot].sequence
    \/ content[other].sequence = content[slot].sequence /\ slot <= other

\* load_configuration on board_persistent_storage_read.
Load(content) ==
  IF Valid(content) # {} THEN content[Latest(content)].payload
  ELSE IF content = EmptySector THEN Defaults
  ELSE Unreadable

\* Wrong on purpose: a new record has the sequence of the latest.
LatestSequenceLagging ==
  IF Valid(sector) = {} THEN 0 ELSE sector[Latest(sector)].sequence - 1

LatestSequence ==
  IF Valid(sector) = {} THEN 0 ELSE sector[Latest(sector)].sequence

\* Wrong on purpose: the sequence may run past its last value.
CanWriteWrapping == Free # {}

CanWrite == Free # {} /\ LatestSequence # MaxSequence

Destination == CHOOSE slot \in Free : \A other \in Free : slot <= other

Programmed(payload) ==
  [sector EXCEPT ![Destination] = Record(LatestSequence + 1, payload)]

Save(payload) == CanWrite /\ sector' = Programmed(payload)

\* No room, or a flash call that fails or is cut off: before the first word, at
\* any word, or after the commit word, when only the lock is missing.
SaveFails(payload) ==
  IF CanWrite
  THEN sector' \in {sector, [sector EXCEPT ![Destination] = Torn],
                    Programmed(payload)}
  ELSE UNCHANGED sector

EraseSector == sector' = EmptySector

\* An erase that fails or is cut off leaves any mixture behind.
EraseFails ==
  sector' \in {[slot \in Slots |-> IF fate[slot] = "KEPT" THEN sector[slot]
                                  ELSE IF fate[slot] = "TORN" THEN Torn
                                  ELSE Erased] :
                 fate \in [Slots -> {"KEPT", "TORN", "ERASED"}]}

=============================================================================
