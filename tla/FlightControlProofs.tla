------------------------- MODULE FlightControlProofs -------------------------
(***************************************************************************)
(* Flying by receiver, for any sources and any thresholds the policy       *)
(* accepts.  The properties speak of the end of a run of the task, so the  *)
(* invariant has to say what each phase of the run has settled: StartRun   *)
(* what the policy made of the input, ProcessArming what the switch did to *)
(* authority, UpdateConnectionFault what is on record.                     *)
(***************************************************************************)
EXTENDS FlightControl, TLAPS

\* A source waits only in DISARMED and owns the motors only in ARMED.
AuthorityInv ==
  /\ requested # None => mode = "DISARMED"
  /\ owner # None => mode = "ARMED"

\* At every phase, the last input the interlock judged still allows the
\* receiver what it has.
SwitchInv ==
  /\ requested = Receiver => sample = "HIGH"
  /\ owner = Receiver => sample # "LOW"

\* The pending receiver goes when the interlock runs, the active one when the
\* behaviour does; a recovery can only have begun in an earlier run.
StageTwoInv ==
  latched => /\ phase # "ARMING" \/ recovering => requested # Receiver
             /\ phase = "IDLE" \/ recovering => owner # Receiver

\* During a run the policy is what the age of the input says it is.
PolicyInv ==
  phase # "IDLE" =>
    /\ policy = "LIVE" => Fresh
    /\ policy \in {"LOSS_HOLD", "STAGE_ONE"} => age > LossAfter

\* From the fault update on, also for a receiver that is still to be granted
\* authority.
ReportInv ==
  phase \in {"ACT", "IDLE"} /\ Receiver \in {requested, owner} =>
    /\ policy \in {"LOSS_HOLD", "STAGE_ONE"} => lossReported
    /\ policy = "LIVE" => ~lossReported

\* The interlock forgets the low switch whenever the history does.
ReleaseInv == lowSeen => released

\* The recovery timer is never ahead of the safe input.
RecoveryInv == recovering => safe /\ safeFor >= recoveryAge

FlightInv ==
  TypeOK /\ AuthorityInv /\ SwitchInv /\ StageTwoInv /\ PolicyInv /\ ReportInv
    /\ ReleaseInv /\ RecoveryInv

\* The thresholds are ordered numbers.
LEMMA Thresholds ==
  /\ StaleAfter \in Nat /\ LossAfter \in Nat /\ HoldUntil \in Nat
  /\ StageTwoAfter \in Nat /\ RecoveryStable \in Nat
  /\ RecoveryStable # 0 /\ StaleAfter < LossAfter /\ LossAfter < HoldUntil
  /\ HoldUntil < StageTwoAfter
  /\ 0 \in 0..RecoveryStable /\ 0 \in 0..(StageTwoAfter + 1)
  BY FailsafeConfig

USE ReceiverIsSource, Thresholds
USE DEF authorityVars, link, latch, receiverVars, arming, history

-----------------------------------------------------------------------------

LEMMA InitIsSafe == Init => FlightInv
<1> SUFFICES ASSUME Init PROVE FlightInv OBVIOUS
<1> USE DEF Init, AuthorityInit, ReceiverInit
<1>1. control \in Controls BY DEF Controls
<1>2. age \in 0..(StageTwoAfter + 1) /\ recoveryAge \in 0..RecoveryStable
  BY Thresholds
<1>3. ReceiverTypeOK BY <1>1, <1>2 DEF ReceiverTypeOK, Policies
<1>4. safeFor \in 0..RecoveryStable BY Thresholds
<1>5. TypeOK BY <1>3, <1>4 DEF TypeOK, Modes
<1> QED BY <1>5 DEF FlightInv, AuthorityInv, SwitchInv, StageTwoInv, PolicyInv,
                    ReportInv, ReleaseInv, RecoveryInv

\* The parts of a snapshot have their types, a valid one or not.
LEMMA SnapshotParts ==
  ASSUME control \in Controls
  PROVE  /\ control.valid \in BOOLEAN /\ control.high \in BOOLEAN
         /\ control.throttle \in Throttles
<1>1. CASE control = NoControl BY <1>1 DEF NoControl, Throttles
<1>2. CASE control \in [valid : {TRUE}, high : BOOLEAN, throttle : Throttles]
  BY <1>2
<1> QED BY <1>1, <1>2 DEF Controls

\* The actions that are not the task's do not touch what the others read.
LEMMA PolicyTypes ==
  TypeOK /\ UpdateFailsafe => ReceiverTypeOK'
<1> SUFFICES ASSUME TypeOK, UpdateFailsafe PROVE ReceiverTypeOK' OBVIOUS
<1> USE DEF TypeOK, ReceiverTypeOK, Policies
<1>1. CASE Classify
  <2>1. Classified \in Policies /\ Classified # "STAGE_TWO_RECOVERING"
    BY DEF Classified
  <2>2. latched' <=> policy' = "STAGE_TWO_LATCHED" BY <1>1 DEF Classify
  <2>3. latched' \in BOOLEAN BY <1>1 DEF Classify
  <2>4. /\ ~recovering' /\ ~ready' /\ policy' \in Policies
        /\ policy' # "STAGE_TWO_RECOVERING"
    BY <1>1, <2>1 DEF Classify
  <2> QED BY <1>1, <2>2, <2>3, <2>4 DEF Classify
<1>2. CASE RecoveryFails BY <1>2 DEF RecoveryFails
<1>3. CASE RecoveryStarts BY <1>3 DEF RecoveryStarts
<1>4. CASE RecoveryContinues BY <1>4 DEF RecoveryContinues
<1> QED BY <1>1, <1>2, <1>3, <1>4 DEF UpdateFailsafe

\* Every value stays of its type.
LEMMA TypesStay == TypeOK /\ [Next]_vars => TypeOK'
<1> SUFFICES ASSUME TypeOK, [Next]_vars PROVE TypeOK' OBVIOUS
<1> USE DEF TypeOK
<1>1. CASE StartRun
  BY <1>1, PolicyTypes, SnapshotParts
     DEF StartRun, SafeControls, Fresh, ReceiverTypeOK
<1>2. CASE ProcessArming
  <2>0. ReceiverTypeOK' BY <1>2 DEF ProcessArming, ReceiverTypeOK
  <2>1. CASE InputUnusable
    BY <1>2, <2>0, <2>1 DEF ProcessArming, InputUnusable, Cancel, ClearQualification
  <2>2. CASE OtherSourceActive
    BY <1>2, <2>0, <2>2 DEF ProcessArming, OtherSourceActive, ClearQualification
  <2>3. CASE ReceiverActive BY <1>2, <2>0, <2>3 DEF ProcessArming, ReceiverActive
  <2>4. CASE ReceiverDisarms
    BY <1>2, <2>0, <2>4
       DEF ProcessArming, ReceiverDisarms, Cancel, Withdraw, Modes
  <2>5. CASE SwitchLow BY <1>2, <2>0, <2>5 DEF ProcessArming, SwitchLow
  <2>6. CASE WaitingForLow BY <1>2, <2>0, <2>6 DEF ProcessArming, WaitingForLow
  <2>7. CASE SwitchRises
    BY <1>2, <2>0, <2>7 DEF ProcessArming, SwitchRises, Request
  <2> QED BY <1>2, <2>1, <2>2, <2>3, <2>4, <2>5, <2>6, <2>7 DEF ProcessArming
<1>3. CASE UpdateConnectionFault
  <2>1. ReceiverTypeOK' BY <1>3 DEF UpdateConnectionFault, ReceiverTypeOK
  <2>2. /\ lossReported' \in BOOLEAN
        /\ UNCHANGED authorityVars \/ Withdraw("FAULT")
    BY <1>3 DEF UpdateConnectionFault, ReportLoss, ClearLoss
  <2> QED BY <1>3, <2>1, <2>2 DEF UpdateConnectionFault, Withdraw, Modes
<1>4. CASE FinishRun
  <2>0. \/ UNCHANGED authorityVars
        \/ \E next \in {"DISARMED", "FAILSAFE", "FAULT"} : Withdraw(next)
    BY <1>4 DEF FinishRun, Recover, Behave
  <2>1. ReceiverTypeOK'
    <3>1. CASE UNCHANGED receiverVars BY <3>1 DEF ReceiverTypeOK
    <3>2. CASE ReleaseStageTwo
      BY <3>2 DEF ReleaseStageTwo, Unlatched, ReceiverTypeOK, Policies
    <3> QED BY <1>4, <3>1, <3>2 DEF FinishRun, Recover, Behave
  <2>2. CASE UNCHANGED authorityVars BY <1>4, <2>1, <2>2 DEF FinishRun
  <2>3. CASE \E next \in {"DISARMED", "FAILSAFE", "FAULT"} : Withdraw(next)
    BY <1>4, <2>1, <2>3 DEF FinishRun, Withdraw, Modes
  <2> QED BY <2>0, <2>2, <2>3
<1>5. CASE GateMoves
  <2>1. ReceiverTypeOK' BY <1>5 DEF GateMoves, ReceiverTypeOK
  <2>2. mode' \in Modes /\ powered' \in BOOLEAN
    BY <1>5 DEF GateMoves, Enable, Request, Cancel, Grant, Power, Unpower, Withdraw,
                Modes
  <2>3. requested' \in Sources \cup {None} /\ owner' \in Sources \cup {None}
    BY <1>5 DEF GateMoves, Enable, Request, Cancel, Grant, Power, Unpower, Withdraw
  <2> QED BY <1>5, <2>1, <2>2, <2>3 DEF GateMoves
<1>6. CASE ReceiverTask
  BY <1>6 DEF ReceiverTask, ReceiveFrame, ReceiverTypeOK, Controls
<1>7. CASE ApplyConfiguration
  BY <1>7 DEF ApplyConfiguration, Unlatched, ReceiverTypeOK, Policies
<1>8. CASE Tick
  BY <1>8 DEF Tick, ReceiverTick, Aged, ReceiverTypeOK
<1>9. CASE UNCHANGED vars BY <1>9 DEF vars, ReceiverTypeOK
<1> QED BY <1>1, <1>2, <1>3, <1>4, <1>5, <1>6, <1>7, <1>8, <1>9
        DEF Next, FlightControlTask

\* The gate keeps its own promises, in the task's steps as between them.
LEMMA AuthorityStays == TypeOK /\ AuthorityInv /\ [Next]_vars => AuthorityInv'
<1> SUFFICES ASSUME TypeOK, AuthorityInv, [Next]_vars PROVE AuthorityInv' OBVIOUS
<1> USE DEF AuthorityInv, Withdraw, Request, Cancel
<1>1. CASE StartRun BY <1>1 DEF StartRun
<1>2. CASE ProcessArming
  BY <1>2 DEF ProcessArming, InputUnusable, OtherSourceActive, ReceiverActive,
              ReceiverDisarms, SwitchLow, WaitingForLow, SwitchRises, Source
<1>3. CASE UpdateConnectionFault
  BY <1>3 DEF UpdateConnectionFault, ReportLoss, ClearLoss
<1>4. CASE FinishRun BY <1>4 DEF FinishRun, Recover, Behave
<1>5. CASE GateMoves BY <1>5 DEF GateMoves, Enable, Grant, Power, Unpower
<1>6. CASE ReceiverTask \/ ApplyConfiguration \/ Tick
  BY <1>6 DEF ReceiverTask, ApplyConfiguration, Tick
<1>7. CASE UNCHANGED vars BY <1>7 DEF vars
<1> QED BY <1>1, <1>2, <1>3, <1>4, <1>5, <1>6, <1>7 DEF Next, FlightControlTask

\* Whoever waits or owns kept the last input's leave, or lost it in this step.
LEMMA SwitchStays ==
  TypeOK /\ AuthorityInv /\ SwitchInv /\ [Next]_vars => SwitchInv'
<1> SUFFICES ASSUME TypeOK, AuthorityInv, SwitchInv, [Next]_vars PROVE SwitchInv'
  OBVIOUS
<1> USE DEF AuthorityInv, SwitchInv, Withdraw, Request, Cancel
<1>1. CASE StartRun BY <1>1 DEF StartRun
<1>2. CASE ProcessArming
  <2>1. CASE InputUnusable BY <2>1 DEF InputUnusable
  <2>2. CASE OtherSourceActive BY <2>2 DEF OtherSourceActive, Source
  <2>3. CASE ReceiverDisarms BY <2>3 DEF ReceiverDisarms, Source
  <2>4. CASE SwitchLow BY <2>4 DEF SwitchLow, Source
  <2>5. CASE ReceiverActive \/ WaitingForLow \/ SwitchRises
    BY <2>5 DEF ReceiverActive, WaitingForLow, SwitchRises
  <2> QED BY <1>2, <2>1, <2>2, <2>3, <2>4, <2>5 DEF ProcessArming
<1>3. CASE UpdateConnectionFault
  BY <1>3 DEF UpdateConnectionFault, ReportLoss, ClearLoss
<1>4. CASE FinishRun BY <1>4 DEF FinishRun, Recover, Behave
<1>5. CASE GateMoves
  <2>1. sample' = sample BY <1>5 DEF GateMoves
  <2>2. requested' = Receiver => requested = Receiver
    BY <1>5 DEF GateMoves, Enable, Grant, Power, Unpower
  <2>3. owner' = Receiver => Receiver \in {owner, requested}
    BY <1>5 DEF GateMoves, Enable, Grant, Power, Unpower
  <2> QED BY <2>1, <2>2, <2>3
<1>6. CASE ReceiverTask \/ ApplyConfiguration \/ Tick
  BY <1>6 DEF ReceiverTask, ApplyConfiguration, Tick
<1>7. CASE UNCHANGED vars BY <1>7 DEF vars
<1> QED BY <1>1, <1>2, <1>3, <1>4, <1>5, <1>6, <1>7 DEF Next, FlightControlTask

\* A latch of this run is met by the interlock and then by the behaviour; one of
\* an earlier run has met both.
LEMMA StageTwoStays ==
  TypeOK /\ AuthorityInv /\ StageTwoInv /\ [Next]_vars => StageTwoInv'
<1> SUFFICES ASSUME TypeOK, AuthorityInv, StageTwoInv, [Next]_vars
             PROVE  StageTwoInv'
  OBVIOUS
<1> USE DEF TypeOK, AuthorityInv, StageTwoInv, Withdraw, Request, Cancel
<1>1. CASE StartRun
  BY <1>1 DEF StartRun, UpdateFailsafe, Classify, RecoveryFails, RecoveryStarts,
              RecoveryContinues, ReceiverTypeOK
<1>2. CASE ProcessArming
  <2>1. latched => ~Usable BY DEF Usable, ReceiverTypeOK
  <2>2. CASE latched
    <3>1. InputUnusable
      BY <1>2, <2>1, <2>2
         DEF ProcessArming, OtherSourceActive, ReceiverActive, ReceiverDisarms,
             SwitchLow, WaitingForLow, SwitchRises
    <3> QED BY <1>2, <3>1 DEF ProcessArming, InputUnusable
  <2>3. CASE ~latched BY <1>2, <2>3 DEF ProcessArming
  <2> QED BY <2>2, <2>3
<1>3. CASE UpdateConnectionFault
  BY <1>3 DEF UpdateConnectionFault, ReportLoss, ClearLoss
<1>4. CASE FinishRun
  BY <1>4 DEF FinishRun, Recover, Behave, ReleaseStageTwo, Unlatched,
              ReceiverTypeOK
<1>5. CASE GateMoves BY <1>5 DEF GateMoves, Enable, Grant, Power, Unpower
<1>6. CASE ReceiverTask BY <1>6 DEF ReceiverTask, ReceiveFrame
<1>7. CASE ApplyConfiguration BY <1>7 DEF ApplyConfiguration, Unlatched
<1>8. CASE Tick BY <1>8 DEF Tick, ReceiverTick
<1>9. CASE UNCHANGED vars BY <1>9 DEF vars
<1> QED BY <1>1, <1>2, <1>3, <1>4, <1>5, <1>6, <1>7, <1>8, <1>9
        DEF Next, FlightControlTask

\* Only StartRun makes the policy, and the input keeps still during the run.
LEMMA PolicyStays == TypeOK /\ PolicyInv /\ [Next]_vars => PolicyInv'
<1> SUFFICES ASSUME TypeOK, PolicyInv, [Next]_vars PROVE PolicyInv' OBVIOUS
<1> USE DEF PolicyInv, Fresh
<1>1. CASE StartRun
  BY <1>1 DEF StartRun, UpdateFailsafe, Classify, Classified, RecoveryFails,
              RecoveryStarts, RecoveryContinues, TypeOK, ReceiverTypeOK
<1>2. CASE ProcessArming \/ UpdateConnectionFault
  BY <1>2 DEF ProcessArming, UpdateConnectionFault
<1>3. CASE FinishRun BY <1>3 DEF FinishRun
<1>4. CASE GateMoves \/ ReceiverTask \/ ApplyConfiguration \/ Tick
  BY <1>4 DEF GateMoves, ReceiverTask, ApplyConfiguration, Tick
<1>5. CASE UNCHANGED vars BY <1>5 DEF vars
<1> QED BY <1>1, <1>2, <1>3, <1>4, <1>5 DEF Next, FlightControlTask

\* A run that ends with the receiver in command, or in waiting, has just put the
\* loss on record or taken it off.
LEMMA ReportStays ==
  TypeOK /\ AuthorityInv /\ PolicyInv /\ ReportInv /\ [Next]_vars => ReportInv'
<1> SUFFICES ASSUME TypeOK, AuthorityInv, PolicyInv, ReportInv, [Next]_vars
             PROVE  ReportInv'
  OBVIOUS
<1> USE DEF AuthorityInv, ReportInv, Withdraw, Request, Cancel
<1>1. CASE StartRun \/ ProcessArming
  BY <1>1 DEF StartRun, ProcessArming
<1>2. CASE UpdateConnectionFault
  <2>1. /\ policy \in {"LOSS_HOLD", "STAGE_ONE"} => LossDetected
        /\ policy = "LIVE" => ~LossDetected
    BY <1>2 DEF UpdateConnectionFault, PolicyInv, LossDetected, Fresh, TypeOK,
                ReceiverTypeOK
  <2>2. policy' = policy BY <1>2 DEF UpdateConnectionFault
  <2>3. CASE ReportLoss BY <2>1, <2>2, <2>3 DEF ReportLoss
  <2>4. CASE ClearLoss BY <2>1, <2>2, <2>4 DEF ClearLoss
  <2>5. CASE LossDetected = lossReported /\ UNCHANGED <<lossReported, authorityVars>>
    BY <2>1, <2>2, <2>5 DEF TypeOK
  <2> QED BY <1>2, <2>3, <2>4, <2>5 DEF UpdateConnectionFault
<1>3. CASE FinishRun
  BY <1>3 DEF FinishRun, Recover, Behave, ReleaseStageTwo, Unlatched
<1>4. CASE GateMoves
  <2>1. UNCHANGED <<policy, lossReported, phase>>
    BY <1>4 DEF GateMoves
  <2>2. Receiver \in {requested', owner'} => Receiver \in {requested, owner}
    BY <1>4 DEF GateMoves, Enable, Grant, Power, Unpower
  <2> QED BY <2>1, <2>2
<1>5. CASE ReceiverTask BY <1>5 DEF ReceiverTask, ReceiveFrame
<1>6. CASE ApplyConfiguration BY <1>6 DEF ApplyConfiguration, Unlatched
<1>7. CASE Tick BY <1>7 DEF Tick, ReceiverTick
<1>8. CASE UNCHANGED vars BY <1>8 DEF vars
<1> QED BY <1>1, <1>2, <1>3, <1>4, <1>5, <1>6, <1>7, <1>8
        DEF Next, FlightControlTask

\* The history forgets a low switch only where the interlock does.
LEMMA ReleaseStays == ReleaseInv /\ [Next]_vars => ReleaseInv'
<1> SUFFICES ASSUME ReleaseInv, [Next]_vars PROVE ReleaseInv' OBVIOUS
<1> USE DEF ReleaseInv
<1>1. CASE ProcessArming
  BY <1>1 DEF ProcessArming, InputUnusable, OtherSourceActive, ReceiverActive,
              ReceiverDisarms, SwitchLow, WaitingForLow, SwitchRises,
              ClearQualification
<1>2. CASE StartRun \/ UpdateConnectionFault \/ FinishRun
  BY <1>2 DEF StartRun, UpdateConnectionFault, FinishRun
<1>3. CASE GateMoves \/ ReceiverTask \/ ApplyConfiguration \/ Tick
  BY <1>3 DEF GateMoves, ReceiverTask, ApplyConfiguration, Tick
<1>4. CASE UNCHANGED vars BY <1>4 DEF vars
<1> QED BY <1>1, <1>2, <1>3, <1>4 DEF Next, FlightControlTask

\* The recovery timer starts at a safe input and stops at an unsafe one.
LEMMA RecoveryStays == TypeOK /\ RecoveryInv /\ [Next]_vars => RecoveryInv'
<1> SUFFICES ASSUME TypeOK, RecoveryInv, [Next]_vars PROVE RecoveryInv' OBVIOUS
<1> USE DEF RecoveryInv, TypeOK, ReceiverTypeOK
<1>1. CASE StartRun
  <2>1. CASE Classify \/ RecoveryFails
    BY <2>1 DEF Classify, RecoveryFails
  <2>2. CASE RecoveryStarts BY <1>1, <2>2 DEF StartRun, RecoveryStarts
  <2>3. CASE RecoveryContinues BY <1>1, <2>3 DEF StartRun, RecoveryContinues
  <2> QED BY <1>1, <2>1, <2>2, <2>3 DEF StartRun, UpdateFailsafe
<1>2. CASE ProcessArming \/ UpdateConnectionFault
  BY <1>2 DEF ProcessArming, UpdateConnectionFault
<1>3. CASE FinishRun
  BY <1>3 DEF FinishRun, Recover, Behave, ReleaseStageTwo, Unlatched
<1>4. CASE GateMoves BY <1>4 DEF GateMoves
<1>5. CASE ReceiverTask BY <1>5 DEF ReceiverTask, ReceiveFrame
<1>6. CASE ApplyConfiguration BY <1>6 DEF ApplyConfiguration, Unlatched
<1>7. CASE Tick BY <1>7 DEF Tick, ReceiverTick, Aged
<1>8. CASE UNCHANGED vars BY <1>8 DEF vars
<1> QED BY <1>1, <1>2, <1>3, <1>4, <1>5, <1>6, <1>7, <1>8
        DEF Next, FlightControlTask

-----------------------------------------------------------------------------

\* The invariant and its consequences hold in every reachable state.
THEOREM FlightIsInvariant == Spec => []FlightInv
<1>1. FlightInv /\ [Next]_vars => FlightInv'
  BY TypesStay, AuthorityStays, SwitchStays, StageTwoStays, PolicyStays,
     ReportStays, ReleaseStays, RecoveryStays DEF FlightInv
<1> QED BY InitIsSafe, <1>1, PTL DEF Spec

\* Every variable of the flying component keeps its type, the flags of the
\* policy included: receiver_failsafe.c never lets them disagree with the state.
THEOREM FlightTypes == Spec => []TypeOK
  BY FlightIsInvariant, PTL DEF FlightInv

\* receiver_arming.c and the gate: a pending receiver arming has the switch up
\* in the last input, and an active one never saw it down, however many sources
\* there are.
THEOREM SwitchRulesAuthority == Spec => []SwitchHoldsAuthority
<1>1. FlightInv => SwitchHoldsAuthority
  BY DEF FlightInv, SwitchInv, SwitchHoldsAuthority
<1> QED BY FlightIsInvariant, <1>1, PTL

\* receiver_failsafe.c, receiver_arming.c and flight_control.c together: no run
\* ends with stage two latched and the receiver active or pending, for any
\* thresholds.
THEOREM StageTwoEndsAuthority == Spec => []StageTwoStops
<1>1. FlightInv => StageTwoStops
  BY DEF FlightInv, StageTwoInv, StageTwoStops, Source
<1> QED BY FlightIsInvariant, <1>1, PTL

\* update_receiver_connection_fault against receiver_failsafe_update: whoever
\* flies past the loss threshold does so on record.
THEOREM BlindFlightReported == Spec => []BlindFlightIsReported
<1>1. FlightInv => BlindFlightIsReported
  BY DEF FlightInv, ReportInv, BlindFlightIsReported
<1> QED BY FlightIsInvariant, <1>1, PTL

\* receiver_arming_process: the receiver asks only after the switch was released
\* and on live input.
THEOREM ReleaseBeforeArm == Spec => ArmNeedsRelease
<1>1. FlightInv /\ [Next]_vars =>
        [requested # Receiver /\ requested' = Receiver =>
           /\ released /\ control.high /\ control.throttle = "STOP"
           /\ Fresh /\ ~latched]_vars
  <2> SUFFICES ASSUME FlightInv, [Next]_vars,
                      requested # Receiver, requested' = Receiver
               PROVE  /\ released /\ control.high /\ control.throttle = "STOP"
                      /\ Fresh /\ ~latched
    OBVIOUS
  <2> USE DEF FlightInv, Withdraw, Cancel
  <2>1. ProcessArming
    <3>1. ~StartRun BY DEF StartRun
    <3>2. ~UpdateConnectionFault
      BY DEF UpdateConnectionFault, ReportLoss, ClearLoss
    <3>3. ~FinishRun BY DEF FinishRun, Recover, Behave
    <3>4. ~GateMoves
      BY DEF GateMoves, Enable, Request, Grant, Power, Unpower
    <3>5. ~ReceiverTask /\ ~ApplyConfiguration /\ ~Tick
      BY DEF ReceiverTask, ApplyConfiguration, Tick
    <3>6. ~UNCHANGED vars BY DEF vars
    <3> QED BY <3>1, <3>2, <3>3, <3>4, <3>5, <3>6 DEF Next, FlightControlTask
  <2>2. SwitchRises /\ control.throttle = "STOP"
    BY <2>1 DEF ProcessArming, InputUnusable, OtherSourceActive, ReceiverActive,
                ReceiverDisarms, SwitchLow, WaitingForLow, SwitchRises
  <2>3. policy = "LIVE" /\ control.high /\ lowSeen
    BY <2>2 DEF SwitchRises, Usable
  <2> QED BY <2>1, <2>2, <2>3
          DEF ProcessArming, ReleaseInv, PolicyInv, TypeOK, ReceiverTypeOK
<1> QED BY FlightIsInvariant, <1>1, PTL DEF Spec, ArmNeedsRelease

\* update_stage_two_recovery and flight_control_recover_receiver: the task leaves
\* stage two, or FAILSAFE, only after input that was safe all along.
THEOREM RecoveryEarned == Spec => RecoveryIsEarned
<1>1. FlightInv /\ [Next]_vars =>
        [phase = "ACT" /\ (latched # latched' \/ (mode # mode' /\ mode' = "DISARMED"))
           => /\ safeFor = RecoveryStable
              /\ mode' = "DISARMED" /\ requested' = None]_vars
  <2> SUFFICES ASSUME FlightInv, [Next]_vars, phase = "ACT",
                      latched # latched' \/ (mode # mode' /\ mode' = "DISARMED")
               PROVE  /\ safeFor = RecoveryStable
                      /\ mode' = "DISARMED" /\ requested' = None
    OBVIOUS
  <2>1. FinishRun
    BY DEF Next, FlightControlTask, StartRun, ProcessArming,
           UpdateConnectionFault, GateMoves, ReceiverTask, ApplyConfiguration,
           Tick, vars
  <2>2. ready /\ mode' = "DISARMED" /\ requested' = None
    BY <2>1 DEF FinishRun, Recover, Behave, ReleaseStageTwo, Unlatched, Withdraw
  <2>3. safeFor >= RecoveryStable
    BY <2>2 DEF FlightInv, RecoveryInv, TypeOK, ReceiverTypeOK
  <2> QED BY <2>2, <2>3 DEF FlightInv, TypeOK
<1> QED BY FlightIsInvariant, <1>1, PTL DEF Spec, RecoveryIsEarned

=============================================================================
