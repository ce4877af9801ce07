---------------------- MODULE ConfigurationServiceProofs ----------------------
(***************************************************************************)
(* Proofs about the configuration service: its storage, its contract and    *)
(* the arming interlock, for any flash, any configurations and any timing   *)
(* of the calibration.                                                      *)
(***************************************************************************)
EXTENDS ConfigurationService, WellFoundedInduction, TLAPS

-----------------------------------------------------------------------------
(* The sector. *)

LEMMA LeastNatural ==
  ASSUME NEW T \in SUBSET Nat, T # {}
  PROVE  \E m \in T : \A n \in T : m <= n
<1>1. PICK m \in T : \A n \in T : <<n, m>> \notin OpToRel(<, Nat)
  BY NatLessThanWellFounded, WFMin
<1>2. \A n \in T : ~(n < m)
  BY <1>1 DEF OpToRel
<1> QED BY <1>2

Contents == [Slots -> {Erased, Torn} \cup Records]

\* Status, sequence and payload of a slot.
LEMMA SlotFields ==
  ASSUME NEW content \in Contents, NEW slot \in Slots
  PROVE  /\ Erased.status = "ERASED" /\ Torn.status = "TORN"
         /\ \A n, c : /\ Record(n, c).status = "VALID"
                      /\ Record(n, c).sequence = n /\ Record(n, c).payload = c
         /\ content[slot].status \in {"ERASED", "TORN", "VALID"}
         /\ content[slot].status = "ERASED" <=> content[slot] = Erased
         /\ slot \in Valid(content) =>
              /\ content[slot].sequence \in 1..MaxSequence
              /\ content[slot].payload \in Configurations
<1>1. /\ Erased.status = "ERASED" /\ Torn.status = "TORN"
      /\ \A n, c : /\ Record(n, c).status = "VALID"
                   /\ Record(n, c).sequence = n /\ Record(n, c).payload = c
  BY DEF Erased, Torn, Record
<1>2. \/ content[slot] = Erased \/ content[slot] = Torn
      \/ \E n \in 1..MaxSequence, c \in Configurations : content[slot] = Record(n, c)
  BY DEF Contents, Records
<1> QED BY <1>1, <1>2 DEF Valid

\* The latest record is well defined: it is the first of those with the highest
\* sequence.
LEMMA LatestIsDefined ==
  ASSUME NEW content \in Contents, Valid(content) # {}
  PROVE  /\ Latest(content) \in Valid(content)
         /\ \A other \in Valid(content) :
              content[other].sequence <= content[Latest(content)].sequence
<1> DEFINE Rank(slot) == MaxSequence - content[slot].sequence
<1>1. \A slot \in Valid(content) : slot \in Nat /\ content[slot].sequence \in 1..MaxSequence
  BY SlotFields DEF Valid, Slots
<1>2. \A slot \in Valid(content) : Rank(slot) \in Nat
  BY <1>1, StorageConstants
<1>3. PICK r \in {Rank(slot) : slot \in Valid(content)} :
        \A q \in {Rank(slot) : slot \in Valid(content)} : r <= q
  <2>1. {Rank(slot) : slot \in Valid(content)} \in SUBSET Nat
    BY <1>2
  <2>2. {Rank(slot) : slot \in Valid(content)} # {}
    OBVIOUS
  <2> QED BY <2>1, <2>2, LeastNatural
<1>4. \A slot, other \in Valid(content) :
        Rank(slot) = r => content[other].sequence <= content[slot].sequence
  <2> SUFFICES ASSUME NEW slot \in Valid(content), NEW other \in Valid(content),
                      Rank(slot) = r
               PROVE  content[other].sequence <= content[slot].sequence
    OBVIOUS
  <2>1. Rank(slot) <= Rank(other)
    BY <1>3
  <2> QED BY <1>1, <2>1, StorageConstants
<1>5. PICK first \in {slot \in Valid(content) : Rank(slot) = r} :
        \A slot \in {slot \in Valid(content) : Rank(slot) = r} : first <= slot
  <2> DEFINE Best == {slot \in Valid(content) : Rank(slot) = r}
  <2>1. Best \in SUBSET Nat /\ Best # {}
    BY <1>1, <1>3
  <2> HIDE DEF Best
  <2>2. \E m \in Best : \A n \in Best : m <= n
    BY <2>1, LeastNatural
  <2> QED BY <2>2 DEF Best
<1>6. \A other \in Valid(content) :
         \/ content[other].sequence < content[first].sequence
         \/ content[other].sequence = content[first].sequence /\ first <= other
  <2> SUFFICES ASSUME NEW other \in Valid(content),
                      content[other].sequence = content[first].sequence
               PROVE  first <= other
    BY <1>1, <1>4, <1>5
  <2> QED BY <1>5
<1>7. /\ Latest(content) \in Valid(content)
      /\ \A other \in Valid(content) :
           \/ content[other].sequence < content[Latest(content)].sequence
           \/ content[other].sequence = content[Latest(content)].sequence
              /\ Latest(content) <= other
  BY <1>5, <1>6 DEF Latest
<1> QED BY <1>1, <1>7

\* A load finds a complete configuration, the defaults, or fails on a sector that
\* is neither empty nor holds a record.
LEMMA LoadType ==
  ASSUME NEW content \in Contents
  PROVE  /\ Load(content) \in Configurations \cup {Unreadable}
         /\ Defaults \in Configurations
         /\ Load(content) = Unreadable =>
              Valid(content) = {} /\ content # EmptySector
<1>1. Defaults \in Configurations
  BY StorageConstants DEF Defaults, Configurations, IsWithinLimit
<1>2. CASE Valid(content) # {}
  <2>1. Load(content) \in Configurations
    BY <1>2, LatestIsDefined, SlotFields DEF Load, Valid
  <2> QED BY <1>1, <2>1, UnreadableIsNone
<1>3. CASE Valid(content) = {}
  BY <1>1, <1>3, UnreadableIsNone DEF Load
<1> QED BY <1>2, <1>3

\* The slot a write goes to, and what is in it when the write is complete.
LEMMA WriteTarget ==
  ASSUME StorageTypeOK, CanWrite, NEW payload \in Configurations
  PROVE  /\ Destination \in Free /\ Destination \in Slots
         /\ LatestSequence + 1 \in 1..MaxSequence
         /\ Programmed(payload) \in Contents
         /\ \A slot \in Valid(sector) : sector[slot].sequence < LatestSequence + 1
<1>1. sector \in Contents
  BY DEF StorageTypeOK, Contents
<1>2. Destination \in Free
  <2>1. Free \in SUBSET Nat /\ Free # {}
    BY DEF Free, CanWrite, Slots
  <2> QED BY <2>1, LeastNatural DEF Destination
<1>3. /\ LatestSequence \in Nat /\ LatestSequence < MaxSequence
      /\ \A slot \in Valid(sector) : sector[slot].sequence <= LatestSequence
  <2>1. CASE Valid(sector) = {}
    BY <2>1, StorageConstants DEF LatestSequence
  <2>2. CASE Valid(sector) # {}
    <3>1. /\ LatestSequence \in 1..MaxSequence
          /\ \A slot \in Valid(sector) : sector[slot].sequence <= LatestSequence
      BY <1>1, <2>2, LatestIsDefined, SlotFields DEF LatestSequence, Valid
    <3> QED BY <3>1, StorageConstants DEF CanWrite
  <2> QED BY <2>1, <2>2
<1>4. \A slot \in Valid(sector) : sector[slot].sequence \in 1..MaxSequence
  BY <1>1, SlotFields DEF Valid
<1>5. Record(LatestSequence + 1, payload) \in Records
  <2>1. LatestSequence + 1 \in 1..MaxSequence
    BY <1>3, StorageConstants
  <2> QED BY <2>1 DEF Records
<1> QED
  BY <1>1, <1>2, <1>3, <1>4, <1>5, StorageConstants DEF Programmed, Contents, Free

\* A complete write is what the next boot loads.
LEMMA ProgrammedIsLatest ==
  ASSUME StorageTypeOK, CanWrite, NEW payload \in Configurations
  PROVE  Load(Programmed(payload)) = payload
<1> DEFINE new == Programmed(payload)
<1>1. new \in Contents /\ sector \in Contents
  BY WriteTarget DEF StorageTypeOK, Contents
<1>2. /\ new[Destination] = Record(LatestSequence + 1, payload)
      /\ \A slot \in Slots : slot # Destination => new[slot] = sector[slot]
  BY <1>1, WriteTarget DEF Programmed, Contents
<1>3. Destination \in Valid(new)
  BY <1>1, <1>2, WriteTarget, SlotFields DEF Valid
<1>4. new[Latest(new)].sequence >= LatestSequence + 1 /\ Latest(new) \in Valid(new)
  BY <1>1, <1>2, <1>3, LatestIsDefined, SlotFields, WriteTarget
<1>5. Latest(new) = Destination
  <2> SUFFICES ASSUME Latest(new) # Destination PROVE FALSE
    OBVIOUS
  <2>1. Latest(new) \in Valid(sector) /\ new[Latest(new)] = sector[Latest(new)]
    BY <1>2, <1>4 DEF Valid
  <2>2. /\ sector[Latest(new)].sequence < LatestSequence + 1
        /\ sector[Latest(new)].sequence \in Nat /\ LatestSequence + 1 \in Nat
    BY <1>1, <2>1, WriteTarget, SlotFields DEF Valid
  <2> QED BY <1>4, <2>1, <2>2
<1> QED BY <1>2, <1>3, <1>5, SlotFields, <1>1, WriteTarget DEF Load

TornSector == [sector EXCEPT ![Destination] = Torn]

\* A write that stops half way changes nothing for the next boot, unless there
\* was no record at all.
LEMMA TornChangesNothing ==
  ASSUME StorageTypeOK, CanWrite
  PROVE  /\ TornSector \in Contents
         /\ \/ Load(TornSector) = Load(sector)
            \/ Load(TornSector) = Unreadable /\ Load(sector) = Defaults
<1>1. sector \in Contents /\ Destination \in Slots /\ Destination \in Free
  BY WriteTarget, LoadType, UnreadableIsNone DEF StorageTypeOK, Contents
<1>2. TornSector \in Contents
  BY <1>1 DEF Contents, TornSector
<1>3. /\ Valid(TornSector) = Valid(sector)
      /\ \A slot \in Valid(sector) : TornSector[slot] = sector[slot]
  BY <1>1, SlotFields DEF Valid, Contents, Free, TornSector
<1>4. Latest(TornSector) = Latest(sector)
  BY <1>3 DEF Latest
<1>5. TornSector # EmptySector
  BY <1>1, SlotFields DEF EmptySector, Contents, TornSector
<1>6. CASE Valid(sector) # {}
  BY <1>1, <1>2, <1>3, <1>4, <1>6, LatestIsDefined DEF Load
<1>7. CASE Valid(sector) = {}
  BY <1>2, <1>3, <1>5, <1>7 DEF Load
<1> QED BY <1>2, <1>6, <1>7

LEMMA EmptyLoads == EmptySector \in Contents /\ Load(EmptySector) = Defaults
<1>1. EmptySector \in Contents
  BY DEF EmptySector, Contents
<1>2. Valid(EmptySector) = {}
  BY <1>1, SlotFields DEF Valid, EmptySector
<1> QED BY <1>1, <1>2 DEF Load

\* What the four flash operations leave behind.
LEMMA SaveOutcome ==
  ASSUME StorageTypeOK, NEW payload \in Configurations, Save(payload)
  PROVE  StorageTypeOK' /\ Load(sector') = payload
BY WriteTarget, ProgrammedIsLatest DEF Save, StorageTypeOK, Contents

LEMMA SaveFailsOutcome ==
  ASSUME StorageTypeOK, NEW payload \in Configurations, SaveFails(payload)
  PROVE  /\ StorageTypeOK'
         /\ \/ Load(sector') \in {Load(sector), payload}
            \/ Load(sector') = Unreadable /\ Load(sector) = Defaults
<1>1. CASE ~CanWrite
  BY <1>1 DEF SaveFails, StorageTypeOK
<1>2. CASE CanWrite
  <2>1. CASE sector' = sector
    BY <2>1 DEF StorageTypeOK
  <2>2. CASE sector' = TornSector
    BY <1>2, <2>2, TornChangesNothing DEF StorageTypeOK, Contents
  <2>3. CASE sector' = Programmed(payload)
    BY <1>2, <2>3, WriteTarget, ProgrammedIsLatest DEF StorageTypeOK, Contents
  <2> QED BY <1>2, <2>1, <2>2, <2>3 DEF SaveFails, TornSector
<1> QED BY <1>1, <1>2

LEMMA EraseOutcome ==
  ASSUME StorageTypeOK
  PROVE  /\ EraseSector => StorageTypeOK' /\ Load(sector') = Defaults
         /\ EraseFails =>
              StorageTypeOK' /\ Load(sector') \in Configurations \cup {Unreadable}
<1>1. ASSUME EraseSector PROVE StorageTypeOK' /\ Load(sector') = Defaults
  BY <1>1, EmptyLoads DEF EraseSector, StorageTypeOK, Contents
<1>2. ASSUME EraseFails PROVE sector' \in Contents
  BY <1>2 DEF EraseFails, StorageTypeOK, Contents
<1>3. ASSUME EraseFails
      PROVE  StorageTypeOK' /\ Load(sector') \in Configurations \cup {Unreadable}
  BY <1>2, <1>3, LoadType DEF StorageTypeOK, Contents
<1> QED BY <1>1, <1>3

-----------------------------------------------------------------------------
(* Type correctness. *)

\* The configuration a boot comes up with.
Booted == IF Load(sector) = Unreadable THEN Defaults ELSE Load(sector)

LEMMA BootedType == StorageTypeOK => Booted \in Configurations
BY LoadType DEF Booted, StorageTypeOK, Contents

\* Only a configuration that is not calibrated may be one that cannot be applied.
LEMMA ConfigurationFields ==
  ASSUME NEW configuration \in Configurations
  PROVE  /\ configuration.calibrated \in BOOLEAN
         /\ configuration.calibrated => configuration \in Applicable
BY DEF Configurations, Applicable

\* The result of a calibration is a configuration that can be applied.
LEMMA LeveledType ==
  ASSUME active \in Configurations, NEW trim \in Measurable
  PROVE  /\ Leveled(trim) \in Configurations /\ Leveled(trim) \in Applicable
         /\ Leveled(trim).calibrated = TRUE
<1>1. /\ active.settings \in Settings /\ trim \in Trims
      /\ <<active.settings, trim>> \in WithinLimit
  BY DEF Measurable, Configurations
<1>2. active \in [settings : Settings, calibrated : BOOLEAN, trim : Trims]
  BY DEF Configurations
<1>3. active = [settings |-> active.settings, calibrated |-> active.calibrated,
                trim |-> active.trim]
  BY <1>2
<1>4. /\ Leveled(trim) \in [settings : Settings, calibrated : BOOLEAN, trim : Trims]
      /\ Leveled(trim).settings = active.settings
      /\ Leveled(trim).calibrated = TRUE /\ Leveled(trim).trim = trim
  BY <1>1, <1>2, <1>3 DEF Leveled
<1> QED BY <1>1, <1>4 DEF Configurations, Applicable, IsWithinLimit

LEMMA DefaultsApply == Defaults \in Configurations /\ Defaults \in Applicable
BY StorageConstants DEF Defaults, Configurations, Applicable, IsWithinLimit

LevelCounters ==
  /\ 0 \in 0..Duration /\ 0 \in 0..MaximumSamples /\ 0 \in 0..FreshThrough + 1

LEMMA LevelBounds == LevelCounters
BY LevelConstants DEF LevelCounters

LEMMA InitType == Init => TypeOK
<1> SUFFICES ASSUME Init PROVE TypeOK
  OBVIOUS
<1>1. StorageTypeOK
  BY EmptyLoads DEF Init, StorageTypeOK, Contents
<1>2. Defaults \in Configurations
  BY EmptyLoads, LoadType
<1> QED
  BY <1>1, <1>2, LevelBounds
     DEF Init, TypeOK, LevelTypeOK, LevelCounters, AuthorityInit, Modes

LEMMA BootType == TypeOK /\ Boot => TypeOK'
<1> SUFFICES ASSUME TypeOK, Boot PROVE TypeOK'
  OBVIOUS
<1>1. {active', runtime', pipeline'} \subseteq Configurations
  BY BootedType DEF Boot, Booted, TypeOK
<1>2. armReady' \in BOOLEAN
  BY <1>1, ConfigurationFields DEF Boot, Configurations
<1>3. LevelTypeOK'
  BY LevelBounds DEF Boot, TypeOK, LevelTypeOK, LevelSet, LevelCounters
<1> QED BY <1>1, <1>2, <1>3 DEF Boot, TypeOK, StorageTypeOK, Modes

LEMMA ResetType == TypeOK /\ Reset => TypeOK'
<1> SUFFICES ASSUME TypeOK, Reset PROVE TypeOK'
  OBVIOUS
<1>1. StorageTypeOK'
  BY SaveFailsOutcome, EraseOutcome DEF Reset, TypeOK, StorageTypeOK
<1>2. LevelTypeOK'
  BY LevelBounds DEF Reset, TypeOK, LevelTypeOK, LevelSet, LevelCounters
<1> QED BY <1>1, <1>2 DEF Reset, TypeOK, service, Modes

\* Whatever the service does, the sector and its configurations keep their types.
ServiceTypeOK ==
  /\ StorageTypeOK
  /\ {active, runtime, pipeline} \subseteq Configurations
  /\ source \in {"DEFAULT", "PERSISTENT"}

LEMMA ServiceType ==
  ASSUME ServiceTypeOK
  PROVE  /\ \A c \in Configurations : WriteSucceeds(c) => ServiceTypeOK' /\ active' = c
         /\ \A c \in Configurations : WriteFails(c) \/ WriteNotApplied(c) =>
              ServiceTypeOK' /\ active' = active
         /\ ResetSucceeds => ServiceTypeOK'
         /\ ResetFails \/ Refuse => ServiceTypeOK' /\ active' = active
<1>1. ASSUME NEW c \in Configurations, WriteSucceeds(c)
      PROVE  ServiceTypeOK' /\ active' = c
  BY <1>1, SaveOutcome DEF WriteSucceeds, Replace, ServiceTypeOK
<1>2. ASSUME NEW c \in Configurations, WriteFails(c)
      PROVE  ServiceTypeOK' /\ active' = active
  BY <1>2, SaveFailsOutcome DEF WriteFails, service, ServiceTypeOK
<1>6. ASSUME NEW c \in Configurations, WriteNotApplied(c)
      PROVE  ServiceTypeOK' /\ active' = active
  BY <1>6, SaveOutcome DEF WriteNotApplied, ServiceTypeOK
<1>3. ASSUME ResetSucceeds PROVE ServiceTypeOK'
  BY <1>3, EraseOutcome, EmptyLoads, LoadType
     DEF ResetSucceeds, Replace, ServiceTypeOK
<1>4. ASSUME ResetFails PROVE ServiceTypeOK' /\ active' = active
  BY <1>4, EraseOutcome DEF ResetFails, service, ServiceTypeOK
<1>5. ASSUME Refuse PROVE ServiceTypeOK' /\ active' = active
  BY <1>5 DEF Refuse, service, ServiceTypeOK, StorageTypeOK
<1> QED BY <1>1, <1>2, <1>3, <1>4, <1>5, <1>6

LEMMA ConfigureType == TypeOK /\ Configure => TypeOK'
<1> SUFFICES ASSUME TypeOK, Configure PROVE TypeOK'
  OBVIOUS
<1>1. ServiceTypeOK
  BY DEF TypeOK, ServiceTypeOK
<1>2. ServiceTypeOK'
  BY <1>1, ServiceType DEF Configure
<1>3. armReady' \in BOOLEAN
  BY <1>2, ConfigurationFields
     DEF Configure, SetArmReady, TypeOK, ServiceTypeOK, Configurations
<1>4. LevelTypeOK'
  BY LevelBounds
     DEF Configure, TypeOK, LevelTypeOK, LevelSet, LevelCounters, calibration
<1> QED
  BY <1>2, <1>3, <1>4 DEF Configure, TypeOK, ServiceTypeOK, authorityVars

LEMMA StartCalibrationType == TypeOK /\ StartCalibration => TypeOK'
<1> SUFFICES ASSUME TypeOK, StartCalibration PROVE TypeOK'
  OBVIOUS
<1>1. armReady' \in BOOLEAN
  BY ConfigurationFields
     DEF StartCalibration, SetArmReady, TypeOK, Configurations
<1>2. LevelTypeOK'
  BY LevelBounds
     DEF StartCalibration, TypeOK, LevelTypeOK, LevelStart, LevelCounters, calibration
<1> QED
  BY <1>1, <1>2
     DEF StartCalibration, TypeOK, StorageTypeOK, service, authorityVars

LEMMA ImuTaskType == TypeOK /\ ImuTask => TypeOK'
<1> SUFFICES ASSUME TypeOK, ImuTask PROVE TypeOK'
  OBVIOUS
<1> PICK new \in BOOLEAN :
      /\ Acquire(new)
      /\ \/ NotCalibrating
         \/ KeepsCollecting(new)
         \/ CalibrationFails(new)
         \/ CalibrationEnds(new)
  BY DEF ImuTask
<1>1. ServiceTypeOK
  BY DEF TypeOK, ServiceTypeOK
<1>2. sampleAge' \in 0..FreshThrough + 1
  BY LevelBounds DEF Acquire, TypeOK, LevelTypeOK, LevelCounters
<1>3. \A trim \in Measurable : Leveled(trim) \in Configurations
  BY LeveledType DEF TypeOK
<1>4. ServiceTypeOK'
  <2>1. CASE UNCHANGED <<sector, service>>
    BY <1>1, <2>1 DEF ServiceTypeOK, StorageTypeOK, service
  <2>2. CASE CalibrationEnds(new)
    BY <1>1, <1>3, <2>2, ServiceType DEF CalibrationEnds
  <2> QED BY <2>1, <2>2 DEF NotCalibrating, KeepsCollecting, CalibrationFails
<1>5. armReady' \in BOOLEAN
  BY ConfigurationFields
     DEF NotCalibrating, KeepsCollecting, CalibrationFails, CalibrationEnds,
         SetArmReady, TypeOK, Configurations
<1>6. LevelTypeOK'
  <2>1. CASE NotCalibrating
    BY <1>2, <2>1 DEF NotCalibrating, TypeOK, LevelTypeOK, calibration
  <2>2. CASE KeepsCollecting(new)
    BY <1>2, <2>2, LevelConstants
       DEF KeepsCollecting, Collects, TypeOK, LevelTypeOK
  <2>3. CASE CalibrationFails(new)
    BY <1>2, <2>3, LevelBounds
       DEF CalibrationFails, LevelFails, TypeOK, LevelTypeOK, LevelCounters
  <2>4. CASE CalibrationEnds(new)
    BY <1>2, <2>4, LevelBounds
       DEF CalibrationEnds, TypeOK, LevelTypeOK, LevelCounters
  <2> QED BY <2>1, <2>2, <2>3, <2>4
<1> QED
  BY <1>4, <1>5, <1>6 DEF ImuTask, TypeOK, ServiceTypeOK, authorityVars

LEMMA GateMovesType == TypeOK /\ GateMoves => TypeOK'
BY DEF TypeOK, GateMoves, StorageTypeOK, LevelTypeOK, service, levelVars,
       Enable, Request, Cancel, Grant, Withdraw, Modes

LEMMA TickType == TypeOK /\ Tick => TypeOK'
BY LevelConstants
   DEF TypeOK, Tick, StorageTypeOK, LevelTypeOK, LevelTick, service, authorityVars

\* TypeOK: the flash holds records only, and nothing else is ever in force.
THEOREM TypeCorrect == Spec => []TypeOK
<1>1. TypeOK /\ [Next]_vars => TypeOK'
  <2>1. TypeOK /\ UNCHANGED vars => TypeOK'
    BY DEF vars, TypeOK, StorageTypeOK, LevelTypeOK, service, levelVars, authorityVars
  <2> QED
    BY <2>1, BootType, ResetType, ConfigureType, StartCalibrationType,
       ImuTaskType, GateMovesType, TickType DEF Next
<1> QED BY InitType, <1>1, PTL DEF Spec

-----------------------------------------------------------------------------
(* The interlock. *)

\* Whoever has, or waits for, authority got it with the interlock open, and it
\* cannot close on them; a unit that is off has nobody with authority.
AuthorityNeedsInterlock ==
  /\ requested # None \/ mode \in {"ARMED", "FAILSAFE"} => armReady
  /\ unit = "OFF" => requested = None
  /\ unit # "RUNNING" => mode \in {"STARTING", "FAULT"}

\* InterlockIsGivenBack is not inductive: a calibration that ends while the
\* motors are armed finds its setter refused, and it matters that the interlock
\* was open already.
InterlockInv ==
  TypeOK /\ InterlockIsGivenBack /\ RuntimeIsActive /\ AuthorityNeedsInterlock

LEMMA InterlockInit == Init => InterlockInv
BY InitType
   DEF Init, InterlockInv, InterlockIsGivenBack, RuntimeIsActive,
       AuthorityNeedsInterlock, AuthorityInit

LEMMA InterlockStep == InterlockInv /\ [Next]_vars => InterlockInv'
<1> SUFFICES ASSUME InterlockInv, [Next]_vars PROVE InterlockInv'
  OBVIOUS
<1>0. TypeOK' /\ TypeOK
  BY BootType, ResetType, ConfigureType, StartCalibrationType, ImuTaskType,
     GateMovesType, TickType
     DEF InterlockInv, Next, vars, TypeOK, StorageTypeOK, LevelTypeOK, service,
         levelVars, authorityVars
<1> USE <1>0 DEF InterlockInv, InterlockIsGivenBack, RuntimeIsActive,
                 AuthorityNeedsInterlock
<1>1. CASE Boot
  BY <1>1 DEF Boot
<1>2. CASE Reset
  BY <1>2 DEF Reset, service
<1>3. CASE Configure
  <2>1. CASE UNCHANGED <<service, armReady, calibration>>
    BY <1>3, <2>1 DEF Configure, service, calibration, authorityVars
  <2>2. CASE /\ RuntimeIsSafe /\ runtime' = active' /\ pipeline' = active'
             /\ SetArmReady(active'.calibrated)
    <3>1. armReady' = active'.calibrated
      BY <2>2 DEF SetArmReady, RuntimeIsSafe
    <3> QED BY <1>3, <2>2, <3>1 DEF Configure, RuntimeIsSafe, authorityVars
  <2>3. CASE /\ UNCHANGED <<active, source, runtime, armReady, calibration>>
             /\ pipeline' \notin Applicable
    BY <1>3, <2>3 DEF Configure, calibration, authorityVars
  <2> QED
    BY <1>3, <2>1, <2>2, <2>3
       DEF Configure, WriteSucceeds, WriteNotApplied, ResetSucceeds, Replace,
           Refuse, WriteFails, ResetFails, service
<1>4. CASE StartCalibration
  BY <1>4
     DEF StartCalibration, RuntimeIsSafe, SetArmReady, LevelStart, service,
         calibration, authorityVars
<1>5. CASE ImuTask
  <2> PICK new \in BOOLEAN :
        /\ Acquire(new)
        /\ \/ NotCalibrating
           \/ KeepsCollecting(new)
           \/ CalibrationFails(new)
           \/ CalibrationEnds(new)
    BY <1>5 DEF ImuTask
  <2>1. CASE NotCalibrating
    BY <1>5, <2>1 DEF ImuTask, NotCalibrating, service, calibration, authorityVars
  <2>2. CASE KeepsCollecting(new)
    BY <1>5, <2>2 DEF ImuTask, KeepsCollecting, Collects, service, authorityVars
  <2>3. CASE CalibrationFails(new)
    BY <1>5, <2>3
       DEF ImuTask, CalibrationFails, LevelFails, SetArmReady, service, authorityVars
  <2>4. CASE CalibrationEnds(new)
    <3> PICK trim \in Measurable :
          \/ /\ WriteSucceeds(Leveled(trim))
             /\ level' = "READY" /\ SetArmReady(TRUE)
          \/ /\ Refuse \/ WriteFails(Leveled(trim))
             /\ level' = "FAILED" /\ SetArmReady(active.calibrated)
      BY <2>4 DEF CalibrationEnds
    <3>1. CASE WriteSucceeds(Leveled(trim)) /\ SetArmReady(TRUE)
      <4>1. active'.calibrated = TRUE /\ runtime' = active' /\ pipeline' = active'
        BY <3>1, LeveledType DEF WriteSucceeds, Replace, TypeOK
      <4>2. armReady' = TRUE
        BY <3>1 DEF WriteSucceeds, RuntimeIsSafe, SetArmReady
      <4> QED BY <1>5, <4>1, <4>2 DEF ImuTask, authorityVars
    <3>2. CASE UNCHANGED service /\ SetArmReady(active.calibrated)
      BY <1>5, <3>2 DEF ImuTask, SetArmReady, service, authorityVars
    <3> QED BY <3>1, <3>2 DEF Refuse, WriteFails
  <2> QED BY <2>1, <2>2, <2>3, <2>4
<1>6. CASE GateMoves
  BY <1>6
     DEF GateMoves, Enable, Request, Cancel, Grant, Withdraw, Modes, service,
         levelVars
<1>7. CASE Tick
  BY <1>7 DEF Tick, LevelTick, service, authorityVars
<1>8. CASE UNCHANGED vars
  BY <1>8 DEF vars, service, levelVars, authorityVars
<1> QED
  BY <1>1, <1>2, <1>3, <1>4, <1>5, <1>6, <1>7, <1>8 DEF Next

THEOREM InterlockIsSound == Spec => []InterlockInv
BY InterlockInit, InterlockStep, PTL DEF Spec

\* The interlock always comes back to what the active configuration says.
THEOREM InterlockReturns == Spec => []InterlockIsGivenBack
BY InterlockIsSound, PTL DEF InterlockInv

\* What runs is what config_read reports.
THEOREM RuntimeAgrees == Spec => []RuntimeIsActive
BY InterlockIsSound, PTL DEF InterlockInv

\* The level calibration follows the configuration in every step that changes
\* either of the two.
LEMMA LevelStep ==
  TypeOK /\ TypeOK' /\ LevelIsActive /\ [Next]_vars => LevelIsActive'
<1> SUFFICES ASSUME TypeOK, TypeOK', LevelIsActive, [Next]_vars
             PROVE  LevelIsActive'
  OBVIOUS
<1> USE DEF LevelIsActive
<1>1. CASE Boot BY <1>1 DEF Boot, LevelSet
<1>2. CASE Reset BY <1>2 DEF Reset
<1>3. CASE Configure
  BY <1>3 DEF Configure, LevelSet, Refuse, WriteFails, WriteNotApplied,
              ResetFails, service, calibration
<1>4. CASE StartCalibration
  BY <1>4 DEF StartCalibration, LevelStart, service, calibration
<1>5. CASE ImuTask
  <2> PICK new \in BOOLEAN :
        \/ NotCalibrating
        \/ KeepsCollecting(new)
        \/ CalibrationFails(new)
        \/ CalibrationEnds(new)
    BY <1>5 DEF ImuTask
  <2>1. CASE NotCalibrating
    BY <1>5, <2>1 DEF ImuTask, NotCalibrating, service, calibration
  <2>2. CASE KeepsCollecting(new)
    BY <1>5, <2>2 DEF ImuTask, KeepsCollecting, Collects, service
  <2>3. CASE CalibrationFails(new) BY <2>3 DEF CalibrationFails, LevelFails
  <2>4. CASE CalibrationEnds(new)
    <3> PICK trim \in Measurable :
          \/ WriteSucceeds(Leveled(trim)) /\ level' = "READY"
          \/ level' = "FAILED"
      BY <2>4 DEF CalibrationEnds
    <3>1. WriteSucceeds(Leveled(trim)) => active'.calibrated
      BY LeveledType DEF WriteSucceeds, Replace, TypeOK
    <3> QED BY <3>1
  <2> QED BY <2>1, <2>2, <2>3, <2>4
<1>6. CASE GateMoves BY <1>6 DEF GateMoves, service, levelVars
<1>7. CASE Tick BY <1>7 DEF Tick, LevelTick, service
<1>8. CASE UNCHANGED vars BY <1>8 DEF vars, service, levelVars
<1> QED BY <1>1, <1>2, <1>3, <1>4, <1>5, <1>6, <1>7, <1>8 DEF Next

\* A calibration that reports READY is the one in force: imu_service.c and
\* flight_configuration_service.c agree after every write, failure and boot.
THEOREM LevelAgrees == Spec => []LevelIsActive
<1>1. Init => LevelIsActive BY DEF Init, LevelIsActive
<1> QED BY <1>1, TypeCorrect, LevelStep, PTL DEF Spec

\* Nothing changes configuration, interlock or flash under armed motors.
THEOREM FlightIsUndisturbed == Spec => FlightKeepsConfiguration
<1>1. InterlockInv /\ [Next]_vars =>
        (/\ unit = "RUNNING" /\ unit' = "RUNNING"
         /\ requested # None \/ mode \in {"ARMED", "FAILSAFE"}
         => UNCHANGED <<sector, service, armReady>>)
  <2> SUFFICES ASSUME [Next]_vars, unit = "RUNNING", unit' = "RUNNING",
                      requested # None \/ mode \in {"ARMED", "FAILSAFE"}
               PROVE  UNCHANGED <<sector, service, armReady>>
    OBVIOUS
  <2>1. ~RuntimeIsSafe /\ (\A ready : SetArmReady(ready) => UNCHANGED armReady)
    BY DEF RuntimeIsSafe, SetArmReady
  <2>2. CASE Configure
    BY <2>1, <2>2
       DEF Configure, WriteSucceeds, WriteNotApplied, ResetSucceeds, WriteFails,
           ResetFails, Refuse
  <2>3. CASE ImuTask
    BY <2>1, <2>3
       DEF ImuTask, NotCalibrating, KeepsCollecting, CalibrationFails,
           CalibrationEnds, WriteSucceeds, WriteFails, Refuse
  <2> QED
    BY <2>1, <2>2, <2>3
       DEF Next, Boot, Reset, StartCalibration, GateMoves, Tick, vars
<1> QED BY <1>1, InterlockIsSound, PTL DEF Spec, FlightKeepsConfiguration

-----------------------------------------------------------------------------
(* The contract. *)

\* The configuration in force, as the contract sees it.
InForce == IF unit = "RUNNING" THEN active ELSE Unreadable

\* What a sector makes of the next boot.
BootsWith(loaded) == IF loaded \in Applicable THEN loaded ELSE Unreadable

LEMMA AtBootOf ==
  /\ AtBoot = BootsWith(Load(sector)) /\ AtBoot' = BootsWith(Load(sector'))
  /\ \A c : BootsWith(c) \in Applicable \cup {Unreadable}
  /\ BootsWith(Defaults) = Defaults /\ BootsWith(Unreadable) = Unreadable
  /\ Unreadable \notin Applicable
BY DefaultsApply, UnreadableIsNone DEF AtBoot, BootsWith, Applicable

LEMMA ContractInitialized == Init => Contract!ContractInit
BY EmptyLoads, AtBootOf DEF Init, Contract!ContractInit

\* A save that works is an acceptance, or a failure of the contract where the
\* configuration cannot be applied; one that fails is a failure.
LEMMA WriteIsContract ==
  ASSUME StorageTypeOK, NEW c \in Configurations,
         InForce' \in {InForce, Unreadable}
  PROVE  SaveFails(c) \/ (Save(c) /\ c \notin Applicable)
           => Contract!WriteFailure(c)
<1>1. ASSUME SaveFails(c) PROVE Contract!WriteFailure(c)
  <2>1. \/ Load(sector') \in {Load(sector), c}
        \/ Load(sector') = Unreadable /\ Load(sector) = Defaults
    BY <1>1, SaveFailsOutcome
  <2>2. AtBoot' \in {AtBoot, BootsWith(c)} \/ (AtBoot' = Unreadable /\ AtBoot = Defaults)
    BY <2>1, AtBootOf
  <2> QED BY <2>2 DEF Contract!WriteFailure, Contract!MayGoOff, InForce, BootsWith
<1>2. ASSUME Save(c), c \notin Applicable PROVE Contract!WriteFailure(c)
  <2>1. AtBoot' = Unreadable BY <1>2, SaveOutcome, AtBootOf DEF BootsWith
  <2> QED BY <1>2, <2>1 DEF Contract!WriteFailure, Contract!MayGoOff, InForce
<1> QED BY <1>1, <1>2

LEMMA AcceptIsContract ==
  ASSUME StorageTypeOK, unit' = "RUNNING"
  PROVE  /\ \A c \in Configurations : WriteSucceeds(c) =>
              c \in Applicable /\ Contract!Accept(c)
         /\ ResetSucceeds => Contract!Accept(Defaults)
<1>1. ASSUME NEW c \in Configurations, WriteSucceeds(c)
      PROVE  c \in Applicable /\ Contract!Accept(c)
  <2>1. AtBoot' = c
    BY <1>1, SaveOutcome, AtBootOf DEF WriteSucceeds, BootsWith
  <2> QED BY <1>1, <2>1 DEF WriteSucceeds, Replace, Contract!Accept
<1>2. ASSUME ResetSucceeds PROVE Contract!Accept(Defaults)
  <2>1. AtBoot' = Defaults BY <1>2, EraseOutcome, AtBootOf DEF ResetSucceeds
  <2> QED BY <1>2, <2>1 DEF ResetSucceeds, Replace, Contract!Accept
<1> QED BY <1>1, <1>2

LEMMA EraseIsContract ==
  ASSUME StorageTypeOK, InForce' \in {InForce, Unreadable}
  PROVE  EraseFails => Contract!ResetFailure
BY AtBootOf DEF Contract!ResetFailure, Contract!MayGoOff, InForce

LEMMA ContractStep ==
  TypeOK /\ [Next]_vars => [Contract!ContractNext]_<<InForce, AtBoot>>
<1> SUFFICES ASSUME TypeOK, [Next]_vars
             PROVE  Contract!ContractNext \/ UNCHANGED <<InForce, AtBoot>>
  OBVIOUS
<1> USE DEF Contract!ContractNext
<1>a. StorageTypeOK /\ Defaults \in Applicable
  BY DefaultsApply DEF TypeOK
<1>b. sector' = sector => AtBoot' = AtBoot BY AtBootOf
<1>1. CASE Boot
  <2>1. InForce = Unreadable /\ AtBoot' = AtBoot BY <1>1, <1>b DEF Boot, InForce
  <2>2. InForce' = AtBoot
    BY <1>1, AtBootOf DEF Boot, InForce, AtBoot
  <2>3. Contract!Boot BY <2>1, <2>2 DEF Contract!Boot, InForce
  <2> QED BY <2>3
<1>2. CASE Reset
  <2>1. InForce' = Unreadable BY <1>2 DEF Reset, InForce
  <2>2. CASE sector' = sector
    <3>1. Contract!PowerLoss BY <1>b, <2>1, <2>2 DEF Contract!PowerLoss, InForce
    <3> QED BY <3>1
  <2>3. ASSUME NEW c \in Configurations, SaveFails(c)
        PROVE  Contract!ContractNext
    BY <1>a, <2>1, <2>3, WriteIsContract
  <2>4. CASE EraseFails BY <1>a, <2>1, <2>4, EraseIsContract
  <2> QED BY <1>2, <2>2, <2>3, <2>4 DEF Reset
<1>3. CASE Configure
  <2>0. unit = "RUNNING" /\ unit' = "RUNNING" BY <1>3 DEF Configure
  <2>1. ASSUME NEW c \in Configurations, WriteSucceeds(c)
        PROVE  Contract!ContractNext
    BY <1>a, <2>0, <2>1, AcceptIsContract
  <2>2. CASE ResetSucceeds BY <1>a, <2>0, <2>2, AcceptIsContract
  <2>3. active' = active => InForce' = InForce BY <2>0 DEF InForce
  <2>4. ASSUME NEW c \in Configurations, WriteNotApplied(c) \/ WriteFails(c)
        PROVE  Contract!ContractNext
    <3>1. InForce' = InForce
      BY <2>3, <2>4 DEF WriteNotApplied, WriteFails, service
    <3> QED BY <1>a, <2>4, <3>1, WriteIsContract DEF WriteNotApplied, WriteFails
  <2>5. CASE ResetFails
    <3>1. InForce' = InForce BY <2>3, <2>5 DEF ResetFails, service
    <3> QED BY <1>a, <2>5, <3>1, EraseIsContract DEF ResetFails
  <2>6. CASE Refuse BY <1>b, <2>3, <2>6 DEF Refuse, service
  <2> QED BY <1>3, <2>1, <2>2, <2>4, <2>5, <2>6 DEF Configure
<1>4. CASE StartCalibration
  BY <1>4, <1>b DEF StartCalibration, service, InForce
<1>5. CASE ImuTask
  <2>0. unit = "RUNNING" /\ unit' = "RUNNING" BY <1>5 DEF ImuTask
  <2>1. ASSUME NEW trim \in Measurable
        PROVE  Leveled(trim) \in Configurations
    BY LeveledType DEF TypeOK
  <2>2. ASSUME NEW trim \in Measurable, WriteSucceeds(Leveled(trim))
        PROVE  Contract!ContractNext
    BY <1>a, <2>0, <2>1, <2>2, AcceptIsContract
  <2>3. ASSUME NEW trim \in Measurable, WriteFails(Leveled(trim))
        PROVE  Contract!ContractNext
    <3>1. InForce' = InForce /\ SaveFails(Leveled(trim))
      BY <2>0, <2>3 DEF WriteFails, service, InForce
    <3> QED BY <1>a, <2>1, <3>1, WriteIsContract
  <2>4. CASE UNCHANGED <<sector, service>>
    BY <1>b, <2>0, <2>4 DEF service, InForce
  <2> QED
    BY <1>5, <2>2, <2>3, <2>4
       DEF ImuTask, NotCalibrating, KeepsCollecting, CalibrationFails,
           CalibrationEnds, Refuse
<1>6. CASE GateMoves \/ Tick
  BY <1>6, <1>b DEF GateMoves, Tick, service, InForce
<1>7. CASE UNCHANGED vars BY <1>7, <1>b DEF vars, service, InForce
<1> QED BY <1>1, <1>2, <1>3, <1>4, <1>5, <1>6, <1>7 DEF Next

\* The service over its flash keeps the promise of ConfigurationContract.
THEOREM ServiceImplementsContract == Spec => ImplementsContract
<1>1. TypeOK /\ [Next]_vars => [Contract!ContractNext]_Contract!contractVars
  BY ContractStep DEF Contract!contractVars, InForce
<1> QED
  BY ContractInitialized, TypeCorrect, <1>1, PTL
     DEF Spec, ImplementsContract, Contract!ContractSpec

=============================================================================
