--------------------------- MODULE FaultLifecycle ---------------------------
(***************************************************************************)
(* The lifecycle and the fault registry on their own, under every user of  *)
(* the two: start-up that completes or fails, tasks that report and clear  *)
(* faults, and the runtime events of the motor gate.                       *)
(***************************************************************************)
EXTENDS FaultSystem

VARIABLES
  halted,      \* start-up or the scheduler failed: no task runs any more
  outstanding  \* history: ids reported and not successfully cleared since

vars == <<state, faults, halted, outstanding>>

TypeOK ==
  /\ state \in States
  /\ faults \in FaultStates
  /\ Cardinality(faults.records) <= FaultCapacity
  /\ halted \in BOOLEAN
  /\ outstanding \in SUBSET FaultIds

Init ==
  /\ state = "BOOT"
  /\ faults = NoFaults
  /\ halted = FALSE
  /\ outstanding = {}

\* application_runtime_initialize_with_services starts the initialization.
InitializationStarted ==
  /\ ~halted
  /\ HandleEvent("INITIALIZATION_STARTED")
  /\ UNCHANGED <<faults, halted, outstanding>>

\* A start-up step can fail with any id, the running scheduler with its own,
\* which is critical.
CanStop(id) == ~halted /\ (state \in {"BOOT", "INITIALIZING"} \/ id \in Critical)

\* Wrong on purpose: the unit stops without a record of why.
StopSilently(id) ==
  /\ CanStop(id)
  /\ state' = "FAULT"
  /\ halted' = TRUE
  /\ outstanding' = outstanding \cup {id}
  /\ UNCHANGED faults

\* fail_initialization and stop_with_fault: report, make sure of FAULT whatever
\* the severity of the id, and halt.
StopWithFault(id) ==
  /\ CanStop(id)
  /\ faults' = Noted(faults, id)
  /\ state' = "FAULT"
  /\ halted' = TRUE
  /\ outstanding' = outstanding \cup {id}

\* The startup task, and the events the motor gate raises.
Advance(event) ==
  /\ ~halted
  /\ HandleEvent(event)
  /\ UNCHANGED <<faults, halted, outstanding>>

ReportFault(id) ==
  /\ ~halted
  /\ Report(id)
  /\ outstanding' = outstanding \cup {id}
  /\ UNCHANGED halted

ClearFault(id) ==
  /\ ~halted
  /\ Clear(id)
  /\ outstanding' = outstanding \ {id}
  /\ UNCHANGED halted

Next ==
  \/ InitializationStarted
  \/ \E event \in {"INITIALIZATION_COMPLETED", "ARM_REQUESTED",
                   "DISARM_REQUESTED", "FAILSAFE_DETECTED"} : Advance(event)
  \/ \E id \in FaultIds :
        \/ StopWithFault(id)
        \/ ReportFault(id)
        \/ ClearFault(id)

Spec == Init /\ [][Next]_vars

-----------------------------------------------------------------------------
\* Whenever health lets the motors run, every fault that was reported and not
\* cleared is still on record, and none of them is critical: capacity, reuse of
\* cleared slots and repeated reports never make health look better than the
\* reports were.
HealthHidesNothing ==
  HealthAllowsOutput => /\ outstanding \subseteq faults.records
                        /\ outstanding \cap Critical = {}

\* A unit found in FAULT can be diagnosed: it holds a critical record, a lost
\* record, or the record of the failure that halted it.
FaultIsDiagnosable ==
  state = "FAULT" => \/ faults.dropped
                     \/ faults.records \cap Critical # {}
                     \/ halted /\ faults.records # {}

\* FAULT is left only by a reset, and no critical record is ever lost, whatever
\* is reported and cleared later.
FaultLatches ==
  [][ /\ state = "FAULT" => state' = "FAULT"
      /\ faults.records \cap Critical \subseteq faults'.records ]_vars

=============================================================================
