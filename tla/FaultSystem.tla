----------------------------- MODULE FaultSystem -----------------------------
(***************************************************************************)
(* The fault registry (app/fault.c) and the health it implies              *)
(* (app/health.c).  A record is kept per fault id, in a registry of bounded *)
(* capacity; timestamps, contexts and occurrence counts are left out.      *)
(* `faults.dropped' says that dropped_record_count is not zero.            *)
(***************************************************************************)
EXTENDS SystemState, Naturals, FiniteSets

CONSTANTS
  FaultIds,       \* the ids of the catalogue
  Severity,       \* the severity the catalogue gives each id
  FaultCapacity   \* FAULT_SYSTEM_CAPACITY

ASSUME FaultCatalogue ==
  /\ Severity \in [FaultIds -> {"WARNING", "FAULT", "CRITICAL"}]
  /\ FaultCapacity \in Nat \ {0}

VARIABLE faults

FaultStates == [records : SUBSET FaultIds, dropped : BOOLEAN]

NoFaults == [records |-> {}, dropped |-> FALSE]

Critical == {id \in FaultIds : Severity[id] = "CRITICAL"}

\* Wrong on purpose: an off-by-one in the search for a free slot.
HasSlotPastTheEnd(f, id) ==
  id \in f.records \/ Cardinality(f.records) <= FaultCapacity

\* record_for_id finds the record of the id, or first_free_record a free slot.
HasSlot(f, id) == id \in f.records \/ Cardinality(f.records) < FaultCapacity

\* The registry after a report of id: update_record, initialize_record, or the
\* count of a record that no slot is left for.
Noted(f, id) ==
  IF HasSlot(f, id) THEN [f EXCEPT !.records = @ \cup {id}]
                    ELSE [f EXCEPT !.dropped = TRUE]

\* Wrong on purpose: a lost record does not raise FAULT_DETECTED.
StateAfterKeptReport(s, f, id) == IF id \in Critical THEN "FAULT" ELSE s

\* The lifecycle after a report of id: a critical fault, and a record that
\* could not be kept, raise FAULT_DETECTED unless the state is FAULT already.
StateAfterReport(s, f, id) ==
  IF id \in Critical \/ ~HasSlot(f, id) THEN "FAULT" ELSE s

\* fault_system_report.
Report(id) ==
  /\ faults' = Noted(faults, id)
  /\ state' = StateAfterReport(state, faults, id)

\* Wrong on purpose: record_for_id returns an active record of another id.
ClearAnyRecord(id) ==
  /\ id \in FaultIds \ Critical
  /\ \E other \in faults.records \ Critical :
        faults' = [faults EXCEPT !.records = @ \ {other}]
  /\ UNCHANGED state

\* Wrong on purpose: critical records are not latched.
ClearCritical(id) ==
  /\ id \in faults.records
  /\ faults' = [faults EXCEPT !.records = @ \ {id}]
  /\ UNCHANGED state

\* fault_system_clear, of an active record that is not latched.
Clear(id) ==
  /\ id \in faults.records \ Critical
  /\ faults' = [faults EXCEPT !.records = @ \ {id}]
  /\ UNCHANGED state

SeveritiesOf(f) == {Severity[id] : id \in f.records}

\* health_evaluate.
Health(s, f) ==
  IF s = "FAULT" \/ "CRITICAL" \in SeveritiesOf(f) THEN "CRITICAL"
  ELSE IF f.dropped THEN "UNKNOWN"
  ELSE IF "FAULT" \in SeveritiesOf(f) THEN "DEGRADED"
  ELSE IF "WARNING" \in SeveritiesOf(f) THEN "WARNING"
  ELSE "OK"

\* motor_health_allows_output and motor_fault_state_allows_arm.
HealthAllowsOutput == Health(state, faults) \in {"OK", "WARNING", "DEGRADED"}

=============================================================================
