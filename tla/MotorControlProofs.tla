-------------------------- MODULE MotorControlProofs --------------------------
(***************************************************************************)
(* Proofs about the motor gate, for any number of sources, mappings,       *)
(* configurations and faults and any timing constants; the last part is    *)
(* that it implements MotorAuthority.                                      *)
(***************************************************************************)
EXTENDS MotorControl, TLAPS

-----------------------------------------------------------------------------
(* The lifecycle table and the fault registry. *)

LEMMA EventTable ==
  /\ Accepting("INITIALIZATION_COMPLETED") = {"INITIALIZING"}
  /\ Accepting("DISARM_REQUESTED") = {"ARMED", "FAILSAFE"}
  /\ Accepting("FAILSAFE_DETECTED") = {"ARMED"}
  /\ Target("INITIALIZATION_COMPLETED") = "DISARMED"
  /\ Target("ARM_REQUESTED") = "ARMED"
  /\ Target("DISARM_REQUESTED") = "DISARMED"
  /\ Target("FAILSAFE_DETECTED") = "FAILSAFE"
BY DEF Accepting, Target

\* A lifecycle and a registry that agree: what FaultsInhibit says of any pair.
Agree(s, f) == f.dropped \/ f.records \cap Critical # {} => s = "FAULT"

\* Every report keeps the registry well formed and the two in agreement, and
\* either leaves the lifecycle alone or takes it to FAULT.
LEMMA ReportAgrees ==
  ASSUME NEW s \in States, NEW f \in FaultStates, NEW id \in FaultIds
  PROVE  /\ Noted(f, id) \in FaultStates
         /\ StateAfterReport(s, f, id) \in {s, "FAULT"}
         /\ id \in Critical => StateAfterReport(s, f, id) = "FAULT"
         /\ Agree(s, f) => Agree(StateAfterReport(s, f, id), Noted(f, id))
<1>1. CASE HasSlot(f, id)
  <2>1. Noted(f, id) = [f EXCEPT !.records = @ \cup {id}]
    BY <1>1 DEF Noted
  <2> QED BY <1>1, <2>1 DEF FaultStates, StateAfterReport, Agree, Critical, States
<1>2. CASE ~HasSlot(f, id)
  BY <1>2 DEF Noted, FaultStates, StateAfterReport, Agree, Critical, States
<1> QED BY <1>1, <1>2

\* Clearing a fault that is not critical keeps the agreement.
LEMMA ClearAgrees ==
  ASSUME NEW s \in States, NEW f \in FaultStates, NEW id, Agree(s, f)
  PROVE  LET g == [f EXCEPT !.records = @ \ {id}]
         IN  g \in FaultStates /\ Agree(s, g)
BY DEF Agree, FaultStates

-----------------------------------------------------------------------------
(* Type correctness. *)

USE DEF lifecycle, authority, stream, sequence, transfer, settings, wire

\* The four kinds of frame differ.
LEMMA FrameKinds ==
  /\ Power # Low /\ Power # Stop /\ Low # Stop
  /\ Power \notin DirectionFrames /\ Low \notin DirectionFrames
  /\ Stop \notin DirectionFrames
<1>1. PICK output \in Motors : TRUE BY GateConstants
<1>2. Power[output] = "POWER" /\ Low[output] = "LOW" /\ Stop[output] = "STOP"
  BY <1>1 DEF Power, Low, Stop
<1>3. \A f \in DirectionFrames : f[output] \in {"NORMAL", "REVERSED"}
  BY <1>1 DEF DirectionFrames
<1> QED BY <1>2, <1>3

\* What the ESCs are to hear is a direction frame: every output has a motor.
LEMMA DirectionsArePhysical ==
  ASSUME NEW c \in Configurations, NEW m \in Mappings
  PROVE  PhysicalDirections(c, m) \in DirectionFrames
<1>1. ASSUME NEW output \in Motors
      PROVE  c[CHOOSE motor \in Motors : m[motor] = output]
               \in {"NORMAL", "REVERSED"}
  <2>1. \E motor \in Motors : m[motor] = output BY GateConstants
  <2>2. (CHOOSE motor \in Motors : m[motor] = output) \in Motors BY <2>1
  <2> QED BY <2>2, GateConstants
<1> QED BY <1>1 DEF PhysicalDirections, DirectionFrames

LEMMA DueIsDirections == TypeOK => Due \in DirectionFrames
BY DirectionsArePhysical DEF TypeOK, Due

LEMMA DueStays ==
  ASSUME UNCHANGED <<configuration, mapping>>
  PROVE  Due' = Due
BY DEF Due

LEMMA Bounds ==
  /\ 0 \in 0..Preparation /\ 0 \in 0..Repetitions /\ 0 \in 0..TransferTimeout
  /\ Repetitions \in 0..Repetitions
BY GateConstants

LEMMA ForceStopType ==
  ASSUME TypeOK, NEW s \in States, NEW f \in FaultStates,
         NEW confirmed \in BOOLEAN, ForceStopFrom(s, f, confirmed)
  PROVE  TypeOK'
<1>1. faults' \in FaultStates /\ state' \in States
  BY ReportAgrees, MotorFaultPolicy DEF ForceStopFrom, States, Critical
<1> QED BY <1>1, Bounds DEF ForceStopFrom, TypeOK, Frames

LEMMA OutputFailureType == TypeOK /\ OutputFailure => TypeOK'
<1> SUFFICES ASSUME TypeOK, NEW confirmed \in BOOLEAN,
                    ForceStopFrom(StateAfterReport(state, faults, "MOTOR_OUTPUT"),
                                  Noted(faults, "MOTOR_OUTPUT"), confirmed)
             PROVE  TypeOK'
  BY DEF OutputFailure
<1>1. /\ Noted(faults, "MOTOR_OUTPUT") \in FaultStates
      /\ StateAfterReport(state, faults, "MOTOR_OUTPUT") \in States
  BY ReportAgrees, MotorFaultPolicy DEF TypeOK, States, Critical
<1> QED BY <1>1, ForceStopType

\* A frame sent keeps the types of all it assigns.
LEMMA SendFrameType ==
  ASSUME TypeOK, NEW f \in Frames, SendFrame(f)
  PROVE  /\ board' \in {"IDLE", "ACTIVE", "ERROR"} /\ frame' \in Frames
         /\ transferring' \in BOOLEAN /\ transferAge' \in 0..TransferTimeout
         /\ outputsStopped' \in BOOLEAN /\ heard' \in 0..Repetitions
         /\ sinceStop' \in 0..Preparation
BY Bounds DEF TypeOK, SendFrame

LEMMA SynchronizeType == TypeOK /\ Synchronize => TypeOK'
<1> SUFFICES ASSUME TypeOK, Synchronize PROVE TypeOK' OBVIOUS
<1> USE GateConstants, EventTable
<1>1. CASE SyncBackendError BY <1>1, OutputFailureType DEF SyncBackendError
<1>2. CASE SyncStopped
  <2>1. transferring' \in BOOLEAN BY <1>2 DEF SyncStopped
  <2>2. transferAge' \in 0..TransferTimeout BY <1>2 DEF SyncStopped, TypeOK
  <2> QED BY <1>2, <2>1, <2>2 DEF SyncStopped, TypeOK
<1>3. CASE SyncInhibits
  <2>1. PICK confirmed \in BOOLEAN : ForceStopFrom(state, faults, confirmed)
    BY <1>3 DEF SyncInhibits
  <2> QED BY <2>1, ForceStopType DEF TypeOK
<1>4. CASE SyncTransferStuck BY <1>4, OutputFailureType DEF SyncTransferStuck
<1>5. CASE SyncTransferBusy
  BY <1>5 DEF SyncTransferBusy, CheckLease, TypeOK, States
<1>6. CASE SyncRefused BY <1>6, OutputFailureType DEF SyncRefused
<1>7. CASE SyncDirections
  <2>1. Due \in Frames BY DueIsDirections DEF Frames
  <2> QED BY <1>7, <2>1, SendFrameType DEF SyncDirections, WithdrawAuthority, TypeOK
<1>8. CASE SyncSequenceEnds
  <2>1. Stop \in Frames BY DEF Frames
  <2> QED BY <1>8, <2>1, SendFrameType
          DEF SyncSequenceEnds, SendStopFrame, TypeOK, States
<1>9. CASE SyncCommand
  <2>1. Stop \in Frames /\ Power \in Frames BY DEF Frames
  <2> QED BY <1>9, <2>1, SendFrameType DEF SyncCommand, SendStopFrame, TypeOK
<1>10. CASE SyncStopFrame
  <2>1. Stop \in Frames BY DEF Frames
  <2> QED BY <1>10, <2>1, SendFrameType
          DEF SyncStopFrame, SendStopFrame, CheckLease, TypeOK, States
<1> QED BY <1>1, <1>2, <1>3, <1>4, <1>5, <1>6, <1>7, <1>8, <1>9, <1>10
        DEF Synchronize

LEMMA SubmitType == TypeOK /\ Submit => TypeOK'
<1> SUFFICES ASSUME TypeOK, Submit PROVE TypeOK' OBVIOUS
<1>1. CASE SubmitBlockedState
  BY <1>1 DEF SubmitBlockedState, WithdrawAuthority, TypeOK
<1>2. ASSUME NEW source \in Sources, SubmitRefused(source) PROVE TypeOK'
  <2>1. CASE outputsStopped
    BY <1>2, <2>1 DEF SubmitRefused, WithdrawAuthority, TypeOK, States
  <2>2. CASE ~outputsStopped
    <3>1. PICK confirmed \in BOOLEAN : ForceStopFrom("FAILSAFE", faults, confirmed)
      BY <1>2, <2>2 DEF SubmitRefused
    <3> QED BY <3>1, ForceStopType DEF TypeOK, States
  <2> QED BY <2>1, <2>2
<1>3. ASSUME NEW source \in Sources, NEW power \in BOOLEAN,
             NEW age \in 0..CommandTimeout, SubmitAccepted(source, power, age)
      PROVE  TypeOK'
  <2>1. retained' \in Commands
    BY <1>3, GateConstants DEF SubmitAccepted, Commands, TypeOK
  <2> QED BY <1>3, <2>1 DEF SubmitAccepted, TypeOK
<1> QED BY <1>1, <1>2, <1>3 DEF Submit

LEMMA CallsType == TypeOK /\ Calls => TypeOK'
<1> SUFFICES ASSUME TypeOK, Calls PROVE TypeOK' OBVIOUS
<1> USE GateConstants, EventTable
<1>1. ASSUME NEW source \in Sources, Arm(source) PROVE TypeOK'
  BY <1>1, Bounds DEF Arm, StartDirectionSequence, TypeOK
<1>2. CASE DisarmPending BY <1>2 DEF DisarmPending, TypeOK
<1>3. CASE DisarmArmed
  BY <1>3 DEF DisarmArmed, HandleEvent, WithdrawAuthority, TypeOK, States
<1>4. CASE EnterFailsafe
  BY <1>4 DEF EnterFailsafe, HandleEvent, WithdrawAuthority, TypeOK, States
<1>5. CASE ForceStop
  <2>1. PICK confirmed \in BOOLEAN : ForceStopFrom(state, faults, confirmed)
    BY <1>5 DEF ForceStop
  <2> QED BY <2>1, ForceStopType DEF TypeOK
<1>6. ASSUME NEW m \in Mappings, ConfigureMapping(m) PROVE TypeOK'
  BY <1>6 DEF ConfigureMapping, TypeOK
<1>7. ASSUME NEW c \in Configurations, ApplyConfiguration(c) PROVE TypeOK'
  BY <1>7, Bounds DEF ApplyConfiguration, StartDirectionSequence, TypeOK
<1>8. ASSUME NEW ready \in BOOLEAN, SetExternalArmReady(ready) PROVE TypeOK'
  BY <1>8 DEF SetExternalArmReady, TypeOK
<1>9. CASE Submit BY <1>9, SubmitType
<1> QED BY <1>1, <1>2, <1>3, <1>4, <1>5, <1>6, <1>7, <1>8, <1>9
        DEF Calls, Disarm, RecoverToDisarmed

LEMMA EnvironmentType == TypeOK /\ Environment => TypeOK'
<1> SUFFICES ASSUME TypeOK, Environment PROVE TypeOK' OBVIOUS
<1> USE GateConstants, EventTable
<1>1. CASE InitializationCompleted
  BY <1>1 DEF InitializationCompleted, HandleEvent, TypeOK, States
<1>2. CASE DmaCompletes BY <1>2 DEF DmaCompletes, TypeOK
<1>3. CASE DmaFails BY <1>3 DEF DmaFails, TypeOK, Frames
<1>4. ASSUME NEW id \in FaultIds, ReportFault(id) PROVE TypeOK'
  BY <1>4, ReportAgrees DEF ReportFault, Report, TypeOK, States
<1>5. ASSUME NEW id \in FaultIds, ClearFault(id) PROVE TypeOK'
  BY <1>5 DEF ClearFault, Clear, TypeOK, FaultStates
<1>6. CASE Tick
  <2>1. retained' \in Commands \cup {NoCommand}
    <3>1. CASE retained \in Commands
      <4>1. Older(retained.age, CommandTimeout + 1) \in 0..(CommandTimeout + 1)
        BY <3>1 DEF Commands, Older
      <4>2. retained' = [retained EXCEPT
                           !.age = Older(retained.age, CommandTimeout + 1)]
        BY <1>6, <3>1 DEF Tick, Commands
      <4> QED BY <3>1, <4>1, <4>2 DEF Commands
    <3>2. CASE retained = NoCommand
      BY <1>6, <3>2 DEF Tick, NoCommand
    <3> QED BY <3>1, <3>2 DEF TypeOK
  <2> QED BY <1>6, <2>1 DEF Tick, TypeOK, Older
<1> QED BY <1>1, <1>2, <1>3, <1>4, <1>5, <1>6 DEF Environment

\* Every variable keeps the values its C type and its bounds allow: the counters
\* never pass their limits, and no call leaves a half-written command.
THEOREM TypeCorrect == Spec => []TypeOK
<1>1. Init => TypeOK
  <2> SUFFICES ASSUME Init PROVE TypeOK OBVIOUS
  <2>1. faults \in FaultStates BY DEF Init, FaultStates, NoFaults
  <2> QED BY <2>1, Bounds, IdentityIsMapping DEF Init, TypeOK, States, Frames
<1>2. TypeOK /\ [Next]_vars => TypeOK'
  <2>1. TypeOK /\ UNCHANGED vars => TypeOK' BY DEF TypeOK, vars
  <2> QED BY <2>1, SynchronizeType, CallsType, EnvironmentType DEF Next
<1> QED BY <1>1, <1>2, PTL DEF Spec

-----------------------------------------------------------------------------
(* The inductive invariant. *)

\* Authority lives only in ARMED, or for a moment in FAULT; a pending arming only
\* in DISARMED, or for a moment in FAULT; start-up knows neither.
AuthorityMatchesLifecycle ==
  /\ active # None => state \in {"ARMED", "FAULT"}
  /\ pending # None => state \in {"DISARMED", "FAULT"}
  /\ state \in {"BOOT", "INITIALIZING"} => notified # "PREPARATION"

AuthorityInv ==
  /\ FaultsInhibit
  /\ AuthorityMatchesLifecycle
  /\ CommandHasOwner
  /\ InterlockHolds
  /\ BeliefMatchesOutput
  /\ NotificationsMatchAuthority

InFlight == IF board = "ACTIVE" /\ frame = Due THEN 1 ELSE 0

\* While a direction sequence runs, the frames of the directions due that the
\* ESCs have got, the one under way and those still due make up all repetitions,
\* unless a remap changed the directions meanwhile, and after the first of them
\* the lines carry no power.
SequenceInv ==
  directionActive =>
     /\ state \in {"DISARMED", "FAULT"}
     /\ board # "ERROR" /\ ~remapped => heard + InFlight + directionsLeft >= Repetitions
     /\ directionsLeft < Repetitions => frame # Power

\* Preparation is time since the last forced stop.
PreparationInv ==
  /\ streamAge <= sinceStop
  /\ prepared => sinceStop = Preparation

LEMMA InitInv == Init => AuthorityInv /\ SequenceInv /\ PreparationInv
BY GateConstants
   DEF Init, AuthorityInv, FaultsInhibit, AuthorityMatchesLifecycle,
       CommandHasOwner, InterlockHolds, BeliefMatchesOutput,
       NotificationsMatchAuthority, SequenceInv, PreparationInv, NoFaults,
       NoCommand

\* After a forced stop the gate knows nothing of the past: the invariant holds of
\* any lifecycle that agrees with its registry.
LEMMA ForceStopInv ==
  ASSUME TypeOK, AuthorityInv, NEW s \in States, NEW f \in FaultStates,
         NEW confirmed \in BOOLEAN, ForceStopFrom(s, f, confirmed), Agree(s, f),
         s \in {state, "FAULT"} \/ (state = "ARMED" /\ s = "FAILSAFE"),
         s = "DISARMED" => pending = None
  PROVE  AuthorityInv'
<1>1. /\ Agree(state', faults')
      /\ state' \in {s, "FAULT"}
  BY ReportAgrees, MotorFaultPolicy DEF ForceStopFrom, Critical
<1>2. FaultsInhibit' BY <1>1 DEF FaultsInhibit, Agree
<1>3. /\ active' = None /\ pending' = None /\ retained' = NoCommand
      /\ externalReady' = externalReady /\ notified' = notified
      /\ outputsStopped' => board' = "IDLE" /\ frame' = Low
  BY DEF ForceStopFrom
<1>4. CommandHasOwner' /\ BeliefMatchesOutput'
  BY <1>3 DEF CommandHasOwner, BeliefMatchesOutput, NoCommand
<1>5. AuthorityMatchesLifecycle' /\ InterlockHolds' /\ NotificationsMatchAuthority'
  BY <1>1, <1>3 DEF AuthorityInv, AuthorityMatchesLifecycle, InterlockHolds,
                    NotificationsMatchAuthority, States
<1> QED BY <1>2, <1>4, <1>5 DEF AuthorityInv

LEMMA OutputFailureInv == TypeOK /\ AuthorityInv /\ OutputFailure => AuthorityInv'
<1> SUFFICES ASSUME TypeOK, AuthorityInv, NEW confirmed \in BOOLEAN,
                    ForceStopFrom(StateAfterReport(state, faults, "MOTOR_OUTPUT"),
                                  Noted(faults, "MOTOR_OUTPUT"), confirmed)
             PROVE  AuthorityInv'
  BY DEF OutputFailure
<1> DEFINE s == StateAfterReport(state, faults, "MOTOR_OUTPUT")
           f == Noted(faults, "MOTOR_OUTPUT")
<1>1. Agree(state, faults) BY DEF AuthorityInv, FaultsInhibit, Agree
<1>2. s = "FAULT" /\ f \in FaultStates /\ Agree(s, f)
  BY <1>1, ReportAgrees, MotorFaultPolicy DEF TypeOK, Critical
<1> HIDE DEF s, f
<1>3. ForceStopFrom(s, f, confirmed) BY DEF s, f
<1> QED BY <1>2, <1>3, ForceStopInv DEF States

\* Withdrawing authority leaves no valid command.
LEMMA NotCommand == NoCommand.valid = FALSE
BY DEF NoCommand

LEMMA SynchronizeInv == TypeOK /\ AuthorityInv /\ Synchronize => AuthorityInv'
<1> SUFFICES ASSUME TypeOK, AuthorityInv, Synchronize PROVE AuthorityInv' OBVIOUS
<1> USE EventTable, NotCommand, GateConstants
    DEF AuthorityInv, FaultsInhibit, AuthorityMatchesLifecycle,
        CommandHasOwner, InterlockHolds, BeliefMatchesOutput,
        NotificationsMatchAuthority
<1>0. Agree(state, faults) BY DEF Agree
<1>1. CASE SyncBackendError BY <1>1, OutputFailureInv DEF SyncBackendError
<1>2. CASE SyncStopped BY <1>2 DEF SyncStopped, Inhibited
<1>3. CASE SyncInhibits
  <2>1. PICK confirmed \in BOOLEAN : ForceStopFrom(state, faults, confirmed)
    BY <1>3 DEF SyncInhibits
  <2>2. state # "DISARMED" BY <1>3 DEF SyncInhibits, Inhibited
  <2> QED BY <1>0, <2>1, <2>2, ForceStopInv DEF TypeOK
<1>4. CASE SyncTransferStuck BY <1>4, OutputFailureInv DEF SyncTransferStuck
<1>5. CASE SyncTransferBusy
  BY <1>5 DEF SyncTransferBusy, CheckLease, LeaseLost
<1>6. CASE SyncRefused BY <1>6, OutputFailureInv DEF SyncRefused
<1>7. CASE SyncDirections
  BY <1>7 DEF SyncDirections, SendFrame, WithdrawAuthority
<1>8. CASE SyncSequenceEnds
  BY <1>8 DEF SyncSequenceEnds, SendStopFrame, SendFrame, ArmCompletes, TypeOK
<1>9. CASE SyncCommand
  BY <1>9 DEF SyncCommand, SendStopFrame, SendFrame
<1>10. CASE SyncStopFrame
  BY <1>10 DEF SyncStopFrame, SendStopFrame, SendFrame, CheckLease, LeaseLost
<1> QED BY <1>1, <1>2, <1>3, <1>4, <1>5, <1>6, <1>7, <1>8, <1>9, <1>10
        DEF Synchronize

LEMMA SubmitInv == TypeOK /\ AuthorityInv /\ Submit => AuthorityInv'
<1> SUFFICES ASSUME TypeOK, AuthorityInv, Submit PROVE AuthorityInv' OBVIOUS
<1> USE NotCommand, GateConstants
    DEF AuthorityInv, FaultsInhibit, AuthorityMatchesLifecycle,
        CommandHasOwner, InterlockHolds, BeliefMatchesOutput,
        NotificationsMatchAuthority
<1>1. CASE SubmitBlockedState
  BY <1>1 DEF SubmitBlockedState, WithdrawAuthority
<1>2. ASSUME NEW source \in Sources, SubmitRefused(source) PROVE AuthorityInv'
  <2>1. CASE outputsStopped
    BY <1>2, <2>1 DEF SubmitRefused, WithdrawAuthority
  <2>2. CASE ~outputsStopped
    <3>1. PICK confirmed \in BOOLEAN : ForceStopFrom("FAILSAFE", faults, confirmed)
      BY <1>2, <2>2 DEF SubmitRefused
    <3>2. Agree("FAILSAFE", faults) /\ state = "ARMED"
      BY <1>2 DEF SubmitRefused, Agree
    <3> QED BY <3>1, <3>2, ForceStopInv DEF TypeOK, States
  <2> QED BY <2>1, <2>2
<1>3. ASSUME NEW source \in Sources, NEW power \in BOOLEAN,
             NEW age \in 0..CommandTimeout, SubmitAccepted(source, power, age)
      PROVE  AuthorityInv'
  BY <1>3 DEF SubmitAccepted
<1> QED BY <1>1, <1>2, <1>3 DEF Submit

LEMMA CallsInv == TypeOK /\ AuthorityInv /\ Calls => AuthorityInv'
<1> SUFFICES ASSUME TypeOK, AuthorityInv, Calls PROVE AuthorityInv' OBVIOUS
<1> USE EventTable, NotCommand, GateConstants
    DEF AuthorityInv, FaultsInhibit, AuthorityMatchesLifecycle,
        CommandHasOwner, InterlockHolds, BeliefMatchesOutput,
        NotificationsMatchAuthority
<1>1. ASSUME NEW source \in Sources, Arm(source) PROVE AuthorityInv'
  BY <1>1 DEF Arm
<1>2. CASE DisarmPending BY <1>2 DEF DisarmPending
<1>3. CASE DisarmArmed BY <1>3 DEF DisarmArmed, HandleEvent, WithdrawAuthority
<1>4. CASE EnterFailsafe
  BY <1>4 DEF EnterFailsafe, HandleEvent, WithdrawAuthority
<1>5. CASE ForceStop
  <2>1. PICK confirmed \in BOOLEAN : ForceStopFrom(state, faults, confirmed)
    BY <1>5 DEF ForceStop
  <2>2. Agree(state, faults) /\ pending = None BY <1>5 DEF ForceStop, Agree
  <2> QED BY <2>1, <2>2, ForceStopInv DEF TypeOK
<1>6. ASSUME NEW m \in Mappings, ConfigureMapping(m) PROVE AuthorityInv'
  BY <1>6 DEF ConfigureMapping
<1>7. ASSUME NEW c \in Configurations, ApplyConfiguration(c) PROVE AuthorityInv'
  BY <1>7 DEF ApplyConfiguration
<1>8. ASSUME NEW ready \in BOOLEAN, SetExternalArmReady(ready) PROVE AuthorityInv'
  BY <1>8 DEF SetExternalArmReady
<1>9. CASE Submit BY <1>9, SubmitInv
<1> QED BY <1>1, <1>2, <1>3, <1>4, <1>5, <1>6, <1>7, <1>8, <1>9
        DEF Calls, Disarm, RecoverToDisarmed

LEMMA EnvironmentInv == TypeOK /\ AuthorityInv /\ Environment => AuthorityInv'
<1> SUFFICES ASSUME TypeOK, AuthorityInv, Environment PROVE AuthorityInv' OBVIOUS
<1> USE EventTable
    DEF AuthorityInv, FaultsInhibit, AuthorityMatchesLifecycle,
        CommandHasOwner, InterlockHolds, BeliefMatchesOutput,
        NotificationsMatchAuthority
<1>0. Agree(state, faults) BY DEF Agree
<1>1. CASE InitializationCompleted
  BY <1>1 DEF InitializationCompleted, HandleEvent
<1>2. CASE DmaCompletes BY <1>2 DEF DmaCompletes
<1>3. CASE DmaFails BY <1>3 DEF DmaFails
<1>4. ASSUME NEW id \in FaultIds, ReportFault(id) PROVE AuthorityInv'
  <2>1. Agree(state', faults') /\ state' \in {state, "FAULT"}
    BY <1>0, <1>4, ReportAgrees DEF ReportFault, Report, TypeOK
  <2> QED BY <1>4, <2>1 DEF ReportFault, Agree
<1>5. ASSUME NEW id \in FaultIds, ClearFault(id) PROVE AuthorityInv'
  <2>1. Agree(state', faults') /\ state' = state
    BY <1>0, <1>5, ClearAgrees DEF ClearFault, Clear, TypeOK
  <2> QED BY <1>5, <2>1 DEF ClearFault, Agree
<1>6. CASE Tick
  <2>1. \/ retained' = retained
        \/ /\ retained \in Commands
           /\ retained' = [retained EXCEPT
                             !.age = Older(retained.age, CommandTimeout + 1)]
    BY <1>6, NotCommand DEF Tick, TypeOK
  <2>2. /\ retained'.valid = retained.valid
        /\ retained'.source = retained.source
        /\ retained'.mapping = retained.mapping
    BY <2>1 DEF Commands
  <2> QED BY <1>6, <2>2 DEF Tick
<1> QED BY <1>1, <1>2, <1>3, <1>4, <1>5, <1>6 DEF Environment

\* Who may command the motors is consistent across the gate in every reachable
\* state: lifecycle, owner, pending arming, retained command, interlock, fault
\* registry, notifications and the belief that the output is stopped agree.
THEOREM AuthorityIsSound == Spec => []AuthorityInv
<1>1. Init => AuthorityInv BY InitInv
<1>2. TypeOK /\ AuthorityInv /\ [Next]_vars => AuthorityInv'
  <2>1. AuthorityInv /\ UNCHANGED vars => AuthorityInv'
    BY DEF vars, AuthorityInv, FaultsInhibit, AuthorityMatchesLifecycle,
           CommandHasOwner, InterlockHolds, BeliefMatchesOutput,
           NotificationsMatchAuthority
  <2> QED BY <2>1, SynchronizeInv, CallsInv, EnvironmentInv DEF Next
<1> QED BY <1>1, <1>2, TypeCorrect, PTL DEF Spec

-----------------------------------------------------------------------------
(* The safety properties of the runs, for every value of the constants. *)

\* The gate believes the motors stopped only while the lines are low and idle.
COROLLARY BeliefIsSound == Spec => []BeliefMatchesOutput
BY AuthorityIsSound, PTL DEF AuthorityInv

\* No retained command outlives the authority or the mapping it came under.
COROLLARY CommandOwned == Spec => []CommandHasOwner
BY AuthorityIsSound, PTL DEF AuthorityInv

\* The calibration interlock holds from the arm request to the disarm.
COROLLARY InterlockKept == Spec => []InterlockHolds
BY AuthorityIsSound, PTL DEF AuthorityInv

\* The last notification tells whether authority is held or requested.
COROLLARY NotificationsTrue == Spec => []NotificationsMatchAuthority
BY AuthorityIsSound, PTL DEF AuthorityInv

\* A critical or lost fault record puts the lifecycle in FAULT at once.
COROLLARY FaultsStopTheSystem == Spec => []FaultsInhibit
BY AuthorityIsSound, PTL DEF AuthorityInv

\* Only SyncCommand starts a power frame, and only under a live lease.
LEMMA PowerFrame ==
  ASSUME TypeOK, AuthorityInv, Next,
         frame' = Power, board' = "ACTIVE", board = "IDLE"
  PROVE  SyncCommand /\ retained.power
<1> USE GateConstants
<1>1. ASSUME NEW s, NEW f, NEW confirmed, ForceStopFrom(s, f, confirmed)
      PROVE  FALSE
  BY <1>1 DEF ForceStopFrom
<1>2. ~OutputFailure BY <1>1 DEF OutputFailure
<1>3. ~Environment
  BY DEF Environment, InitializationCompleted, DmaCompletes, DmaFails,
         ReportFault, ClearFault, Tick
<1>4. ~Submit
  BY <1>1 DEF Submit, SubmitBlockedState, SubmitRefused, SubmitAccepted
<1>5. ~Calls
  BY <1>1, <1>4 DEF Calls, Arm, Disarm, DisarmPending, DisarmArmed,
     RecoverToDisarmed, EnterFailsafe, ForceStop, ConfigureMapping,
     ApplyConfiguration, SetExternalArmReady
<1>6. ~SyncDirections /\ ~SyncSequenceEnds /\ ~SyncStopFrame
  BY FrameKinds, DueIsDirections
     DEF SyncDirections, SyncSequenceEnds, SyncStopFrame, SendStopFrame, SendFrame
<1>7. ~SyncStopped /\ ~SyncInhibits /\ ~SyncTransferBusy
  BY <1>1 DEF SyncStopped, SyncInhibits, SyncTransferBusy
<1>8. SyncCommand
  BY <1>2, <1>3, <1>5, <1>6, <1>7
     DEF Next, Synchronize, SyncBackendError, SyncTransferStuck, SyncRefused
<1>9. retained.power BY <1>8, FrameKinds DEF SyncCommand, SendStopFrame, SendFrame
<1> QED BY <1>8, <1>9

\* Power is sent only for an armed owner within its lease, whatever the sources,
\* their timing and the faults.
THEOREM PowerIsAuthorized == Spec => PowerNeedsAuthority
<1> DEFINE Licence ==
      frame' = Power /\ board' = "ACTIVE" /\ board = "IDLE" =>
        /\ state = "ARMED" /\ state' = "ARMED"
        /\ active # None /\ retained.valid /\ retained.source = active
        /\ retained.age <= CommandTimeout
        /\ prepared /\ HealthAllowsOutput
<1>1. TypeOK /\ AuthorityInv /\ [Next]_vars => [Licence]_vars
  <2> SUFFICES ASSUME TypeOK, AuthorityInv, Next,
                      frame' = Power, board' = "ACTIVE", board = "IDLE"
               PROVE  /\ state = "ARMED" /\ state' = "ARMED"
                      /\ active # None /\ retained.valid
                      /\ retained.source = active
                      /\ retained.age <= CommandTimeout
                      /\ prepared /\ HealthAllowsOutput
    OBVIOUS
  <2>1. SyncCommand BY PowerFrame
  <2>2. CommandDue /\ state' = state BY <2>1 DEF SyncCommand
  <2>3. retained \in Commands BY <2>2, NotCommand DEF CommandDue, TypeOK
  <2>4. ~(retained.age > CommandTimeout) /\ HealthAllowsOutput
    BY <2>2 DEF CommandDue, LeaseLost
  <2>5. retained.age <= CommandTimeout
    BY <2>3, <2>4, GateConstants DEF Commands
  <2> QED BY <2>2, <2>4, <2>5 DEF CommandDue, AuthorityInv, CommandHasOwner
<1> QED BY <1>1, TypeCorrect, AuthorityIsSound, PTL
        DEF Spec, PowerNeedsAuthority

-----------------------------------------------------------------------------
(* Direction sequence and preparation time. *)

PreparedInv == SequenceInv /\ PreparationInv

\* A forced stop ends the sequence and starts the preparation time again.
LEMMA ForceStopPrepared ==
  ASSUME NEW s, NEW f, NEW confirmed, ForceStopFrom(s, f, confirmed)
  PROVE  PreparedInv'
BY GateConstants DEF ForceStopFrom, PreparedInv, SequenceInv, PreparationInv

LEMMA OutputFailurePrepared == OutputFailure => PreparedInv'
BY ForceStopPrepared DEF OutputFailure

\* A stop frame counts as preparation only when the stream is old enough.
LEMMA StopFramePrepared ==
  TypeOK /\ PreparedInv /\ SendStopFrame => PreparationInv'
<1> SUFFICES ASSUME TypeOK, PreparedInv, SendStopFrame PROVE PreparationInv'
  OBVIOUS
<1>1. /\ streamAge \in 0..Preparation /\ sinceStop \in 0..Preparation
      /\ streamAge' = streamAge /\ sinceStop' = sinceStop
  BY DEF TypeOK, SendStopFrame, SendFrame
<1>2. prepared' => prepared \/ streamAge >= Preparation
  BY DEF SendStopFrame
<1>3. prepared' => sinceStop' = Preparation
  BY <1>1, <1>2, GateConstants DEF PreparedInv, PreparationInv
<1> QED BY <1>1, <1>3 DEF PreparedInv, PreparationInv

LEMMA SynchronizePrepared ==
  TypeOK /\ AuthorityInv /\ PreparedInv /\ Synchronize => PreparedInv'
<1> SUFFICES ASSUME TypeOK, AuthorityInv, PreparedInv, Synchronize
             PROVE  PreparedInv'
  OBVIOUS
<1>1. CASE SyncBackendError BY <1>1, OutputFailurePrepared DEF SyncBackendError
<1>2. CASE SyncStopped
  BY <1>2 DEF SyncStopped, PreparedInv, SequenceInv, PreparationInv
<1>3. CASE SyncInhibits BY <1>3, ForceStopPrepared DEF SyncInhibits
<1>4. CASE SyncTransferStuck BY <1>4, OutputFailurePrepared DEF SyncTransferStuck
<1>5. CASE SyncTransferBusy
  <2>1. directionActive => state' = state
    BY <1>5 DEF SyncTransferBusy, CheckLease, LeaseLost, PreparedInv, SequenceInv
  <2>2. SequenceInv'
    BY <1>5, <2>1, DueStays
       DEF SyncTransferBusy, PreparedInv, SequenceInv, InFlight
  <2> QED BY <1>5, <2>2 DEF SyncTransferBusy, PreparedInv, PreparationInv
<1>6. CASE SyncRefused BY <1>6, OutputFailurePrepared DEF SyncRefused
<1>7. CASE SyncDirections
  <2>1. /\ heard \in 0..Repetitions /\ directionsLeft \in 0..Repetitions
        /\ Repetitions \in Nat /\ board = "IDLE" /\ directionActive
        /\ ~remapped => heard + InFlight + directionsLeft >= Repetitions
        /\ InFlight = 0
    BY <1>7, GateConstants
       DEF SyncDirections, TypeOK, PreparedInv, SequenceInv, InFlight
  <2>2. /\ heard' = heard /\ directionsLeft' = directionsLeft - 1
        /\ state' = state /\ board' = "ACTIVE"
        /\ frame' = Due /\ Due' = Due /\ remapped' = remapped
    BY <1>7, DueIsDirections, DueStays DEF SyncDirections, SendFrame
  <2>3. InFlight' = 1 BY <2>2 DEF InFlight
  <2>4. ~remapped' => heard' + InFlight' + directionsLeft' >= Repetitions
    BY <2>1, <2>2, <2>3
  <2>5. frame' # Power BY <2>2, FrameKinds, DueIsDirections
  <2>6. SequenceInv'
    BY <1>7, <2>2, <2>4, <2>5 DEF SyncDirections, SequenceInv
  <2> QED BY <1>7, <2>6 DEF SyncDirections, SendFrame, PreparedInv, PreparationInv
<1>8. CASE SyncSequenceEnds
  BY <1>8, StopFramePrepared DEF SyncSequenceEnds, PreparedInv, SequenceInv
<1>9. CASE SyncCommand
  <2>1. ~directionActive /\ directionActive' = directionActive
    BY <1>9 DEF SyncCommand, CommandDue, PreparedInv, SequenceInv
  <2>2. PreparationInv'
    BY <1>9, StopFramePrepared DEF SyncCommand, SendFrame, PreparedInv, PreparationInv
  <2> QED BY <2>1, <2>2 DEF PreparedInv, SequenceInv
<1>10. CASE SyncStopFrame
  <2>1. ~directionActive /\ directionActive' = directionActive
    BY <1>10 DEF SyncStopFrame, Inhibited, DirectionsDue, PreparedInv, SequenceInv
  <2> QED BY <1>10, <2>1, StopFramePrepared DEF SyncStopFrame, PreparedInv, SequenceInv
<1> QED BY <1>1, <1>2, <1>3, <1>4, <1>5, <1>6, <1>7, <1>8, <1>9, <1>10
        DEF Synchronize

\* All repetitions due are enough, whatever was heard before.
LEMMA FullSequence ==
  ASSUME NEW got \in 0..Repetitions, NEW under \in {0, 1}
  PROVE  got + under + Repetitions >= Repetitions /\ ~(Repetitions < Repetitions)
<1>1. Repetitions \in Nat BY GateConstants
<1> QED BY <1>1

LEMMA CallsPrepared ==
  TypeOK /\ AuthorityInv /\ PreparedInv /\ Calls => PreparedInv'
<1> SUFFICES ASSUME TypeOK, AuthorityInv, PreparedInv, Calls PROVE PreparedInv'
  OBVIOUS
<1> USE EventTable
\* A sequence starts with every repetition due.
<1>0. ASSUME heard' \in 0..Repetitions, directionsLeft' = Repetitions,
             state' = "DISARMED"
      PROVE  SequenceInv'
  <2>1. InFlight' \in {0, 1} BY DEF InFlight
  <2>2. /\ heard' + InFlight' + directionsLeft' >= Repetitions
        /\ ~(directionsLeft' < Repetitions)
    BY <1>0, <2>1, FullSequence
  <2> QED BY <1>0, <2>2 DEF SequenceInv
<1>1. ASSUME NEW source \in Sources, Arm(source) PROVE PreparedInv'
  <2>1. SequenceInv'
    BY <1>0, <1>1 DEF Arm, StartDirectionSequence, TypeOK
  <2>2. PreparationInv'
    BY <1>1, GateConstants DEF Arm, ReadyForArm, TypeOK, PreparedInv, PreparationInv
  <2> QED BY <2>1, <2>2 DEF PreparedInv
\* What leaves both parts alone.
<1> DEFINE Quiet == /\ UNCHANGED <<stream, sequence, board, frame, mapping,
                                   configuration, heard, sinceStop>>
                    /\ directionActive => state' = state
<1>2. Quiet => PreparedInv'
  BY DueStays DEF PreparedInv, SequenceInv, PreparationInv, InFlight
<1>3. CASE DisarmPending BY <1>2, <1>3 DEF DisarmPending
<1>4. CASE DisarmArmed
  BY <1>2, <1>4 DEF DisarmArmed, HandleEvent, PreparedInv, SequenceInv
<1>5. CASE EnterFailsafe
  BY <1>2, <1>5 DEF EnterFailsafe, HandleEvent, PreparedInv, SequenceInv
<1>6. CASE ForceStop BY <1>6, ForceStopPrepared DEF ForceStop
<1>7. ASSUME NEW m \in Mappings, ConfigureMapping(m) PROVE PreparedInv'
  <2>1. /\ UNCHANGED <<state, stream, directionsLeft, directionActive, board,
                       frame, sinceStop>>
        /\ Due' = PhysicalDirections(configuration, m)
    BY <1>7 DEF ConfigureMapping, Due
  <2>2. CASE Due' = Due
    <3>1. heard' = heard /\ remapped' = remapped
      BY <1>7, <2>1, <2>2, Zenon DEF ConfigureMapping, TypeOK
    <3> QED BY <2>1, <2>2, <3>1
            DEF PreparedInv, SequenceInv, PreparationInv, InFlight
  <2>3. CASE Due' # Due
    <3>1. directionActive => remapped'
      BY <1>7, <2>1, <2>3 DEF ConfigureMapping
    <3> QED BY <2>1, <3>1 DEF PreparedInv, SequenceInv, PreparationInv
  <2> QED BY <2>2, <2>3
<1>8. ASSUME NEW c \in Configurations, ApplyConfiguration(c) PROVE PreparedInv'
  <2>1. heard' \in 0..Repetitions
    BY <1>8, GateConstants DEF ApplyConfiguration, TypeOK
  <2>2. SequenceInv'
    BY <1>0, <1>8, <2>1 DEF ApplyConfiguration, StartDirectionSequence
  <2> QED BY <1>8, <2>2 DEF ApplyConfiguration, PreparedInv, PreparationInv
<1>9. ASSUME NEW ready \in BOOLEAN, SetExternalArmReady(ready)
      PROVE  PreparedInv'
  BY <1>2, <1>9 DEF SetExternalArmReady
<1>10. CASE Submit
  <2>1. CASE SubmitBlockedState BY <1>2, <2>1 DEF SubmitBlockedState
  <2>2. ASSUME NEW source \in Sources, SubmitRefused(source) PROVE PreparedInv'
    BY <1>2, <2>2, ForceStopPrepared DEF SubmitRefused, PreparedInv, SequenceInv
  <2>3. ASSUME NEW source \in Sources, NEW power \in BOOLEAN,
               NEW age \in 0..CommandTimeout, SubmitAccepted(source, power, age)
        PROVE  PreparedInv'
    BY <1>2, <2>3 DEF SubmitAccepted
  <2> QED BY <1>10, <2>1, <2>2, <2>3 DEF Submit
<1> QED BY <1>1, <1>3, <1>4, <1>5, <1>6, <1>7, <1>8, <1>9, <1>10
        DEF Calls, Disarm, RecoverToDisarmed

LEMMA EnvironmentPrepared ==
  TypeOK /\ AuthorityInv /\ PreparedInv /\ Environment => PreparedInv'
<1> SUFFICES ASSUME TypeOK, AuthorityInv, PreparedInv, Environment
             PROVE  PreparedInv'
  OBVIOUS
<1> USE EventTable
<1> DEFINE Quiet == /\ UNCHANGED <<stream, sequence, board, frame, mapping,
                                   configuration, heard, sinceStop>>
                    /\ directionActive => state' \in {state, "FAULT"}
<1>0. Quiet => PreparedInv'
  BY DueStays DEF PreparedInv, SequenceInv, PreparationInv, InFlight
<1>1. CASE InitializationCompleted
  BY <1>0, <1>1 DEF InitializationCompleted, HandleEvent, PreparedInv, SequenceInv
<1>2. CASE DmaCompletes
  <2>1. /\ heard \in 0..Repetitions /\ directionsLeft \in 0..Repetitions
        /\ Repetitions \in Nat
        /\ board = "ACTIVE" /\ board' = "IDLE" /\ frame' = frame
        /\ heard' = IF frame = Due /\ heard < Repetitions
                    THEN heard + 1 ELSE heard
    BY <1>2, GateConstants DEF DmaCompletes, TypeOK
  <2>2. InFlight \in {0, 1} /\ InFlight' = 0
        /\ (InFlight = 1 <=> frame = Due)
    BY <2>1 DEF InFlight
  <2>3. heard + InFlight + directionsLeft >= Repetitions =>
          heard' + InFlight' + directionsLeft >= Repetitions
    BY <2>1, <2>2
  <2>4. SequenceInv'
    BY <1>2, <2>1, <2>3 DEF DmaCompletes, PreparedInv, SequenceInv
  <2> QED BY <1>2, <2>4 DEF DmaCompletes, PreparedInv, PreparationInv
<1>3. CASE DmaFails
  BY <1>3, FrameKinds DEF DmaFails, PreparedInv, SequenceInv, PreparationInv
<1>4. ASSUME NEW id \in FaultIds, ReportFault(id) PROVE PreparedInv'
  <2>1. state' \in {state, "FAULT"}
    BY <1>4, ReportAgrees DEF ReportFault, Report, TypeOK
  <2> QED BY <1>0, <1>4, <2>1 DEF ReportFault
<1>5. ASSUME NEW id \in FaultIds, ClearFault(id) PROVE PreparedInv'
  BY <1>0, <1>5 DEF ClearFault, Clear
<1>6. CASE Tick
  <2>1. SequenceInv' 
    BY <1>6, DueStays DEF Tick, PreparedInv, SequenceInv, InFlight
  <2>2. PreparationInv'
    BY <1>6, GateConstants DEF Tick, Older, TypeOK, PreparedInv, PreparationInv
  <2> QED BY <2>1, <2>2 DEF PreparedInv
<1> QED BY <1>1, <1>2, <1>3, <1>4, <1>5, <1>6 DEF Environment

\* A running direction sequence that was not remapped has lost no frame of the
\* directions that the mapping gives each output, and preparation is time that
\* really passed since the last forced stop.
THEOREM PreparationIsSound == Spec => []PreparedInv
<1>1. Init => PreparedInv BY InitInv DEF PreparedInv
<1>2. TypeOK /\ AuthorityInv /\ PreparedInv /\ [Next]_vars => PreparedInv'
  <2>1. PreparedInv /\ UNCHANGED vars => PreparedInv'
    BY DueStays DEF vars, PreparedInv, SequenceInv, PreparationInv, InFlight
  <2> QED BY <2>1, SynchronizePrepared, CallsPrepared, EnvironmentPrepared DEF Next
<1> QED BY <1>1, <1>2, TypeCorrect, AuthorityIsSound, PTL DEF Spec

\* Only the end of a direction sequence makes the system ARMED.
LEMMA OnlySequenceEnds ==
  ASSUME TypeOK, Next, state # "ARMED", state' = "ARMED"
  PROVE  SyncSequenceEnds /\ ArmCompletes
<1> USE EventTable
<1>1. ASSUME NEW s \in States \ {"ARMED"}, NEW f \in FaultStates,
             NEW confirmed, ForceStopFrom(s, f, confirmed)
      PROVE  FALSE
  BY <1>1, ReportAgrees, MotorFaultPolicy DEF ForceStopFrom, Critical
<1>2. state \in States \ {"ARMED"} /\ faults \in FaultStates
  BY DEF TypeOK
<1>3. ~OutputFailure
  <2>1. /\ StateAfterReport(state, faults, "MOTOR_OUTPUT") \in States \ {"ARMED"}
        /\ Noted(faults, "MOTOR_OUTPUT") \in FaultStates
    BY <1>2, ReportAgrees, MotorFaultPolicy DEF Critical, States
  <2> QED BY <1>1, <2>1 DEF OutputFailure
<1>4. ~Environment
  <2>1. ASSUME NEW id \in FaultIds, ReportFault(id) PROVE FALSE
    BY <1>2, <2>1, ReportAgrees DEF ReportFault, Report
  <2> QED BY <2>1 DEF Environment, InitializationCompleted, HandleEvent,
                      DmaCompletes, DmaFails, ClearFault, Clear, Tick
<1>5. ~Submit
  BY DEF Submit, SubmitBlockedState, SubmitRefused, SubmitAccepted
<1>6. ~Calls
  BY <1>1, <1>2, <1>5 DEF Calls, Arm, Disarm, DisarmPending, DisarmArmed,
     HandleEvent, RecoverToDisarmed, EnterFailsafe, ForceStop,
     ConfigureMapping, ApplyConfiguration, SetExternalArmReady
<1>7. /\ ~SyncStopped /\ ~SyncInhibits /\ ~SyncTransferBusy
      /\ ~SyncDirections /\ ~SyncCommand /\ ~SyncStopFrame
  BY <1>1, <1>2 DEF SyncStopped, SyncInhibits, SyncTransferBusy,
     SyncDirections, SyncCommand, SyncStopFrame, CheckLease
<1>8. SyncSequenceEnds
  BY <1>3, <1>4, <1>6, <1>7
     DEF Next, Synchronize, SyncBackendError, SyncTransferStuck, SyncRefused
<1> QED BY <1>8 DEF SyncSequenceEnds

\* Arming completes only with every repetition of the mapped directions heard,
\* unless the pending arming was remapped, a whole preparation period after the
\* last forced stop, no power on the lines and the interlock closed, for any
\* motors, mappings, number of repetitions and preparation time.
THEOREM ArmingIsPrepared == Spec => ArmedOnlyWhenPrepared
<1> DEFINE Licence == state # "ARMED" /\ state' = "ARMED" =>
                        /\ heard = Repetitions \/ remapped
                        /\ sinceStop = Preparation
                        /\ frame # Power /\ frame' # Power
                        /\ externalReady
<1>1. TypeOK /\ AuthorityInv /\ PreparedInv /\ [Next]_vars => [Licence]_vars
  <2> SUFFICES ASSUME TypeOK, AuthorityInv, PreparedInv, Next,
                      state # "ARMED", state' = "ARMED"
               PROVE  /\ heard = Repetitions \/ remapped
                      /\ sinceStop = Preparation
                      /\ frame # Power /\ frame' # Power
                      /\ externalReady
    OBVIOUS
  <2>1. /\ SyncSequenceEnds /\ ArmCompletes
        /\ board = "IDLE" /\ directionActive /\ directionsLeft = 0
        /\ pending # None /\ prepared
    BY OnlySequenceEnds DEF SyncSequenceEnds, ArmCompletes
  <2>2. InFlight = 0 BY <2>1 DEF InFlight
  <2>3. heard = Repetitions \/ remapped
    <3>1. ~remapped => heard + InFlight + directionsLeft >= Repetitions
      BY <2>1 DEF PreparedInv, SequenceInv
    <3> QED BY <2>1, <2>2, <3>1, GateConstants DEF TypeOK
  <2>4. frame # Power
    BY <2>1, GateConstants DEF PreparedInv, SequenceInv
  <2>5. frame' # Power
    BY <2>1, FrameKinds DEF SyncSequenceEnds, SendStopFrame, SendFrame
  <2>6. externalReady BY <2>1 DEF AuthorityInv, InterlockHolds
  <2>7. sinceStop = Preparation BY <2>1 DEF PreparedInv, PreparationInv
  <2> QED BY <2>3, <2>4, <2>5, <2>6, <2>7
<1> QED BY <1>1, TypeCorrect, AuthorityIsSound, PreparationIsSound, PTL
        DEF Spec, ArmedOnlyWhenPrepared

-----------------------------------------------------------------------------
(* The motor gate implements MotorAuthority: every step of the gate is a    *)
(* step of the abstract machine or leaves what it sees alone.               *)

Mode == IF state \in {"BOOT", "INITIALIZING"} THEN "STARTING" ELSE state

Powered == frame = Power

\* A step of the promise or a stutter.
AbstractStep ==
  \/ Authority!AuthorityNext
  \/ /\ Mode' = Mode /\ PendingSource' = PendingSource
     /\ ActiveSource' = ActiveSource /\ Powered' = Powered

\* What an observer of the gate sees of authority.
SameAuthority ==
  /\ state' = state
  /\ state = "ARMED" => active' = active
  /\ state = "DISARMED" => pending' = pending

\* Authority, held or requested, goes.
LosesAuthority ==
  \/ state # "FAULT" /\ state' = "FAULT"
  \/ state = "ARMED" /\ state' = "FAILSAFE"
  \/ state \in {"ARMED", "FAILSAFE"} /\ state' = "DISARMED" /\ pending' = None

USE EventTable
    DEF Authority!AuthorityNext, Authority!Enable, Authority!Request,
        Authority!Cancel, Authority!Grant, Authority!Power, Authority!Unpower,
        Authority!Withdraw, Authority!Modes, Mode, PendingSource, ActiveSource,
        Powered

\* A step that keeps authority, or takes it, and brings no power to the lines.
LEMMA UnpoweredStep ==
  ASSUME TypeOK, frame' = frame \/ frame' # Power,
         SameAuthority \/ LosesAuthority
  PROVE  AbstractStep
<1>1. CASE SameAuthority
  BY <1>1 DEF AbstractStep, SameAuthority
<1>2. CASE LosesAuthority
  BY <1>2 DEF AbstractStep, LosesAuthority, TypeOK, States
<1> QED BY <1>1, <1>2

\* A forced stop takes power off the lines and, where it changes the lifecycle,
\* takes authority away.
LEMMA ForceStopStep ==
  ASSUME TypeOK, NEW s \in States, NEW f \in FaultStates,
         NEW confirmed \in BOOLEAN, ForceStopFrom(s, f, confirmed),
         \/ s = "FAULT"
         \/ s = state /\ state # "ARMED" /\ (state = "DISARMED" => pending = None)
         \/ s = "FAILSAFE" /\ state = "ARMED"
  PROVE  AbstractStep
<1>1. state' \in {s, "FAULT"}
  BY ReportAgrees, MotorFaultPolicy DEF ForceStopFrom, Critical
<1>2. frame' # Power /\ pending' = None /\ active' = None
  BY FrameKinds DEF ForceStopFrom
<1>3. SameAuthority \/ LosesAuthority
  BY <1>1, <1>2 DEF SameAuthority, LosesAuthority, TypeOK, States
<1> QED BY <1>2, <1>3, UnpoweredStep

LEMMA OutputFailureStep == TypeOK /\ OutputFailure => AbstractStep
<1> SUFFICES ASSUME TypeOK, NEW confirmed \in BOOLEAN,
                    ForceStopFrom(StateAfterReport(state, faults, "MOTOR_OUTPUT"),
                                  Noted(faults, "MOTOR_OUTPUT"), confirmed)
             PROVE  AbstractStep
  BY DEF OutputFailure
<1> DEFINE s == StateAfterReport(state, faults, "MOTOR_OUTPUT")
           f == Noted(faults, "MOTOR_OUTPUT")
<1>1. s = "FAULT" /\ f \in FaultStates
  BY ReportAgrees, MotorFaultPolicy DEF TypeOK, Critical
<1> HIDE DEF s, f
<1>2. ForceStopFrom(s, f, confirmed) BY DEF s, f
<1> QED BY <1>1, <1>2, ForceStopStep DEF States

LEMMA SynchronizeStep ==
  TypeOK /\ AuthorityInv /\ PreparedInv /\ Synchronize => AbstractStep
<1> SUFFICES ASSUME TypeOK, AuthorityInv, PreparedInv, Synchronize
             PROVE  AbstractStep
  OBVIOUS
<1>0. CheckLease /\ pending' = pending => SameAuthority \/ LosesAuthority
  BY DEF CheckLease, LeaseLost, SameAuthority, LosesAuthority
<1>1. CASE SyncBackendError BY <1>1, OutputFailureStep DEF SyncBackendError
<1>2. CASE SyncStopped
  <2>1. SameAuthority BY <1>2 DEF SyncStopped, Inhibited, SameAuthority
  <2> QED BY <1>2, <2>1, UnpoweredStep DEF SyncStopped
<1>3. CASE SyncInhibits
  <2>1. PICK confirmed \in BOOLEAN : ForceStopFrom(state, faults, confirmed)
    BY <1>3 DEF SyncInhibits
  <2>2. state \notin {"ARMED", "DISARMED"}
    BY <1>3 DEF SyncInhibits, Inhibited
  <2> QED BY <2>1, <2>2, ForceStopStep DEF TypeOK
<1>4. CASE SyncTransferStuck BY <1>4, OutputFailureStep DEF SyncTransferStuck
<1>5. CASE SyncTransferBusy
  BY <1>0, <1>5, UnpoweredStep DEF SyncTransferBusy
<1>6. CASE SyncRefused BY <1>6, OutputFailureStep DEF SyncRefused
<1>7. CASE SyncDirections
  <2>1. frame' # Power /\ SameAuthority
    BY <1>7, FrameKinds, DueIsDirections
       DEF SyncDirections, SendFrame, SameAuthority
  <2> QED BY <2>1, UnpoweredStep
<1>8. CASE SyncSequenceEnds
  <2>1. /\ state = "DISARMED" /\ pending' = None
        /\ frame # Power /\ frame' # Power
    BY <1>8, GateConstants, FrameKinds
       DEF SyncSequenceEnds, SendStopFrame, SendFrame, TypeOK, PreparedInv,
           SequenceInv
  <2>2. CASE ArmCompletes
    <3>1. /\ state' = "ARMED" /\ active' = pending
          /\ pending \in Sources /\ pending # None
      BY <1>8, <2>2 DEF SyncSequenceEnds, ArmCompletes, TypeOK
    <3>2. Authority!Grant BY <2>1, <3>1
    <3> QED BY <3>2 DEF AbstractStep
  <2>3. CASE ~ArmCompletes
    <3>1. state' = state BY <1>8, <2>3 DEF SyncSequenceEnds
    <3>2. CASE pending = None
      BY <2>1, <3>1, <3>2, UnpoweredStep DEF SameAuthority
    <3>3. CASE pending # None
      <4>1. Authority!Cancel BY <2>1, <3>1, <3>3
      <4> QED BY <4>1 DEF AbstractStep
    <3> QED BY <3>2, <3>3
  <2> QED BY <2>2, <2>3
<1>9. CASE SyncCommand
  <2>1. /\ state = "ARMED" /\ state' = state /\ active' = active
        /\ active # None
    BY <1>9 DEF SyncCommand, CommandDue, AuthorityInv, CommandHasOwner
  <2>2. CASE frame' = Power
    <3>1. Authority!Power BY <2>1, <2>2
    <3> QED BY <3>1 DEF AbstractStep
  <2>3. CASE frame' # Power
    BY <2>1, <2>3, UnpoweredStep DEF SameAuthority
  <2> QED BY <2>2, <2>3
<1>10. CASE SyncStopFrame
  <2>1. frame' # Power
    BY <1>10, FrameKinds DEF SyncStopFrame, SendStopFrame, SendFrame
  <2> QED BY <1>0, <1>10, <2>1, UnpoweredStep DEF SyncStopFrame
<1> QED BY <1>1, <1>2, <1>3, <1>4, <1>5, <1>6, <1>7, <1>8, <1>9, <1>10
        DEF Synchronize

LEMMA CallsStep == TypeOK /\ AuthorityInv /\ Calls => AbstractStep
<1> SUFFICES ASSUME TypeOK, AuthorityInv, Calls PROVE AbstractStep OBVIOUS
<1>1. ASSUME NEW source \in Sources, Arm(source) PROVE AbstractStep
  <2>1. Authority!Request(source) BY <1>1 DEF Arm
  <2> QED BY <2>1 DEF AbstractStep
<1>2. CASE DisarmPending
  <2>1. Authority!Cancel BY <1>2 DEF DisarmPending
  <2> QED BY <2>1 DEF AbstractStep
<1>3. CASE DisarmArmed
  <2>1. LosesAuthority
    BY <1>3 DEF DisarmArmed, HandleEvent, LosesAuthority, AuthorityInv,
                AuthorityMatchesLifecycle
  <2> QED BY <1>3, <2>1, UnpoweredStep DEF DisarmArmed
<1>4. CASE EnterFailsafe
  <2>1. LosesAuthority BY <1>4 DEF EnterFailsafe, HandleEvent, LosesAuthority
  <2> QED BY <1>4, <2>1, UnpoweredStep DEF EnterFailsafe
<1>5. CASE ForceStop
  <2>1. PICK confirmed \in BOOLEAN : ForceStopFrom(state, faults, confirmed)
    BY <1>5 DEF ForceStop
  <2> QED BY <1>5, <2>1, ForceStopStep DEF ForceStop, TypeOK
<1>6. ASSUME NEW m \in Mappings, ConfigureMapping(m) PROVE AbstractStep
  BY <1>6, UnpoweredStep DEF ConfigureMapping, SameAuthority
<1>7. ASSUME NEW c \in Configurations, ApplyConfiguration(c) PROVE AbstractStep
  BY <1>7, UnpoweredStep DEF ApplyConfiguration, SameAuthority
<1>8. ASSUME NEW ready \in BOOLEAN, SetExternalArmReady(ready)
      PROVE  AbstractStep
  BY <1>8, UnpoweredStep DEF SetExternalArmReady, SameAuthority
<1>9. CASE Submit
  <2>1. CASE SubmitBlockedState
    BY <2>1, UnpoweredStep DEF SubmitBlockedState, SameAuthority
  <2>2. ASSUME NEW source \in Sources, SubmitRefused(source) PROVE AbstractStep
    <3>1. CASE outputsStopped
      BY <2>2, <3>1, UnpoweredStep DEF SubmitRefused, LosesAuthority
    <3>2. CASE ~outputsStopped
      <4>1. PICK confirmed \in BOOLEAN :
              ForceStopFrom("FAILSAFE", faults, confirmed)
        BY <2>2, <3>2 DEF SubmitRefused
      <4> QED BY <2>2, <4>1, ForceStopStep DEF SubmitRefused, TypeOK, States
    <3> QED BY <3>1, <3>2
  <2>3. ASSUME NEW source \in Sources, NEW power \in BOOLEAN,
               NEW age \in 0..CommandTimeout, SubmitAccepted(source, power, age)
        PROVE  AbstractStep
    BY <2>3, UnpoweredStep DEF SubmitAccepted, SameAuthority
  <2> QED BY <1>9, <2>1, <2>2, <2>3 DEF Submit
<1> QED BY <1>1, <1>2, <1>3, <1>4, <1>5, <1>6, <1>7, <1>8, <1>9
        DEF Calls, Disarm, RecoverToDisarmed

LEMMA EnvironmentStep == TypeOK /\ AuthorityInv /\ Environment => AbstractStep
<1> SUFFICES ASSUME TypeOK, AuthorityInv, Environment PROVE AbstractStep OBVIOUS
<1>1. CASE InitializationCompleted
  <2>1. Authority!Enable
    BY <1>1 DEF InitializationCompleted, HandleEvent, AuthorityInv,
                AuthorityMatchesLifecycle
  <2> QED BY <2>1 DEF AbstractStep
<1>2. CASE DmaCompletes
  BY <1>2, UnpoweredStep DEF DmaCompletes, SameAuthority
<1>3. CASE DmaFails
  BY <1>3, FrameKinds, UnpoweredStep DEF DmaFails, SameAuthority
<1>4. ASSUME NEW id \in FaultIds, ReportFault(id) PROVE AbstractStep
  <2>1. state' \in {state, "FAULT"}
    BY <1>4, ReportAgrees DEF ReportFault, Report, TypeOK
  <2> QED BY <1>4, <2>1, UnpoweredStep
          DEF ReportFault, SameAuthority, LosesAuthority
<1>5. ASSUME NEW id \in FaultIds, ClearFault(id) PROVE AbstractStep
  BY <1>5, UnpoweredStep DEF ClearFault, Clear, SameAuthority
<1>6. CASE Tick BY <1>6, UnpoweredStep DEF Tick, SameAuthority
<1> QED BY <1>1, <1>2, <1>3, <1>4, <1>5, <1>6 DEF Environment

\* The gate implements the promise of MotorAuthority: an owner is granted only
\* from DISARMED with unpowered lines, and power comes only while it is owned.
THEOREM GateImplementsAuthority == Spec => ImplementsAuthority
<1>1. Init => Authority!AuthorityInit
  BY FrameKinds DEF Init, Authority!AuthorityInit
<1>2. TypeOK /\ AuthorityInv /\ PreparedInv /\ [Next]_vars
        => [Authority!AuthorityNext]_(Authority!authorityVars)
  <2>1. UNCHANGED vars => UNCHANGED Authority!authorityVars
    BY DEF vars, Authority!authorityVars
  <2>2. AbstractStep => [Authority!AuthorityNext]_(Authority!authorityVars)
    BY DEF AbstractStep, Authority!authorityVars
  <2> QED BY <2>1, <2>2, SynchronizeStep, CallsStep, EnvironmentStep DEF Next
<1> QED BY <1>1, <1>2, TypeCorrect, AuthorityIsSound, PreparationIsSound, PTL
        DEF Spec, ImplementsAuthority, Authority!AuthoritySpec

===============================================================================
