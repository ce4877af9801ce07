------------------------ MODULE FaultLifecycleProofs ------------------------
(***************************************************************************)
(* Proofs about the fault registry and the lifecycle, for any catalogue of *)
(* faults and any capacity of the registry.                                *)
(***************************************************************************)
EXTENDS FaultLifecycle, FiniteSetTheorems, TLAPS

-----------------------------------------------------------------------------
(* The operators of the registry. *)

\* A report keeps the registry within its capacity; the id is on record after
\* it, or the registry says that a record was lost; nothing else goes.
LEMMA NotedKeepsRecords ==
  ASSUME NEW f \in FaultStates, NEW id \in FaultIds,
         IsFiniteSet(f.records), Cardinality(f.records) <= FaultCapacity
  PROVE  /\ Noted(f, id) \in FaultStates
         /\ IsFiniteSet(Noted(f, id).records)
         /\ Cardinality(Noted(f, id).records) <= FaultCapacity
         /\ f.records \subseteq Noted(f, id).records
         /\ f.dropped => Noted(f, id).dropped
         /\ id \in Noted(f, id).records \/ Noted(f, id).dropped
         /\ id \notin Noted(f, id).records => ~HasSlot(f, id)
         /\ Noted(f, id).dropped => f.dropped \/ ~HasSlot(f, id)
<1>1. CASE HasSlot(f, id)
  <2>1. Noted(f, id) = [records |-> f.records \cup {id}, dropped |-> f.dropped]
    BY <1>1 DEF Noted, FaultStates
  <2>2. /\ IsFiniteSet(f.records \cup {id})
        /\ Cardinality(f.records \cup {id}) =
             IF id \in f.records THEN Cardinality(f.records) ELSE Cardinality(f.records) + 1
    BY FS_AddElement
  <2>3. Cardinality(f.records) \in Nat
    BY FS_CardinalityType
  <2>4. Cardinality(f.records \cup {id}) <= FaultCapacity
    BY <1>1, <2>2, <2>3, FaultCatalogue DEF HasSlot
  <2> QED
    BY <2>1, <2>2, <2>4 DEF FaultStates
<1>2. CASE ~HasSlot(f, id)
  <2>1. Noted(f, id) = [records |-> f.records, dropped |-> TRUE]
    BY <1>2 DEF Noted, FaultStates
  <2> QED
    BY <1>2, <2>1 DEF FaultStates
<1> QED BY <1>1, <1>2

\* A clear takes one record that is not critical.
LEMMA ClearedKeepsRecords ==
  ASSUME NEW f \in FaultStates, NEW id \in f.records \ Critical,
         IsFiniteSet(f.records), Cardinality(f.records) <= FaultCapacity,
         NEW g, g = [f EXCEPT !.records = @ \ {id}]
  PROVE  /\ g \in FaultStates
         /\ IsFiniteSet(g.records)
         /\ Cardinality(g.records) <= FaultCapacity
         /\ g.records = f.records \ {id}
         /\ g.dropped = f.dropped
<1>1. g = [records |-> f.records \ {id}, dropped |-> f.dropped]
  BY DEF FaultStates
<1>2. /\ IsFiniteSet(f.records \ {id})
      /\ Cardinality(f.records \ {id}) = Cardinality(f.records) - 1
  BY FS_RemoveElement
<1>3. Cardinality(f.records) \in Nat
  BY FS_CardinalityType
<1> QED BY <1>1, <1>2, <1>3, FaultCatalogue DEF FaultStates

\* The events of the tasks neither leave FAULT nor lead to it.
TaskEvents == {"INITIALIZATION_STARTED", "INITIALIZATION_COMPLETED", "ARM_REQUESTED",
               "DISARM_REQUESTED", "FAILSAFE_DETECTED"}

LEMMA EventsAvoidFault ==
  ASSUME NEW event \in TaskEvents
  PROVE  Target(event) \in States \ {"FAULT"} /\ "FAULT" \notin Accepting(event)
BY DEF TaskEvents, Target, Accepting, States

-----------------------------------------------------------------------------
(* The inductive invariant: the properties, and what they rest on.          *)

\* A critical or a lost record has taken the lifecycle to FAULT.
FaultsInhibit == faults.dropped \/ faults.records \cap Critical # {} => state = "FAULT"

\* A report is only forgotten by the registry that says so.
NothingForgotten == faults.dropped \/ outstanding \subseteq faults.records

FaultInv ==
  /\ TypeOK
  /\ IsFiniteSet(faults.records)
  /\ FaultsInhibit
  /\ NothingForgotten
  /\ FaultIsDiagnosable

USE DEF FaultsInhibit, NothingForgotten, FaultIsDiagnosable

LEMMA InitFaultInv == Init => FaultInv
<1> SUFFICES ASSUME Init PROVE FaultInv
  OBVIOUS
<1>1. IsFiniteSet({}) /\ Cardinality({}) = 0
  BY FS_EmptySet
<1>2. faults.records = {} /\ faults.dropped = FALSE /\ faults \in FaultStates
  BY DEF Init, NoFaults, FaultStates
<1>3. Cardinality(faults.records) <= FaultCapacity /\ IsFiniteSet(faults.records)
  BY <1>1, <1>2, FaultCatalogue
<1>4. TypeOK
  BY <1>2, <1>3 DEF Init, TypeOK, States
<1> QED
  BY <1>2, <1>3, <1>4 DEF Init, FaultInv

\* What each action does to the registry and the lifecycle, in terms that the
\* properties tell apart.
LEMMA EventStep ==
  ASSUME FaultInv, NEW event \in TaskEvents, HandleEvent(event),
         UNCHANGED <<faults, halted, outstanding>>
  PROVE  FaultInv' /\ state # "FAULT"
<1>1. state' \in States /\ state # "FAULT" /\ state' # "FAULT"
  BY EventsAvoidFault DEF HandleEvent
<1> QED BY <1>1 DEF FaultInv, TypeOK

LEMMA StopStep ==
  ASSUME FaultInv, NEW id \in FaultIds, StopWithFault(id)
  PROVE  FaultInv' /\ faults.records \subseteq faults'.records
<1>1. /\ faults' \in FaultStates /\ IsFiniteSet(faults'.records)
      /\ Cardinality(faults'.records) <= FaultCapacity
      /\ faults.records \subseteq faults'.records
      /\ faults.dropped => faults'.dropped
      /\ id \in faults'.records \/ faults'.dropped
  BY NotedKeepsRecords DEF FaultInv, TypeOK, StopWithFault
<1>2. state' = "FAULT" /\ halted' = TRUE /\ outstanding' = outstanding \cup {id}
  BY DEF StopWithFault
<1> QED BY <1>1, <1>2 DEF FaultInv, TypeOK, States

LEMMA ReportStep ==
  ASSUME FaultInv, NEW id \in FaultIds, ReportFault(id)
  PROVE  /\ FaultInv' /\ faults.records \subseteq faults'.records
         /\ state' \in {state, "FAULT"}
<1>1. /\ faults' \in FaultStates /\ IsFiniteSet(faults'.records)
      /\ Cardinality(faults'.records) <= FaultCapacity
      /\ faults.records \subseteq faults'.records
      /\ faults.dropped => faults'.dropped
      /\ id \in faults'.records \/ faults'.dropped
      /\ faults'.dropped => faults.dropped \/ ~HasSlot(faults, id)
  BY NotedKeepsRecords DEF FaultInv, TypeOK, ReportFault, Report
<1>2. faults'.records \subseteq faults.records \cup {id}
  BY DEF ReportFault, Report, Noted, FaultInv, TypeOK, FaultStates
<1>3. halted' = FALSE /\ halted = FALSE /\ outstanding' = outstanding \cup {id}
  BY DEF ReportFault, FaultInv, TypeOK
<1>4. CASE id \in Critical \/ ~HasSlot(faults, id)
  <2>1. state' = "FAULT"
    BY <1>4 DEF ReportFault, Report, StateAfterReport
  <2>2. faults'.dropped \/ faults'.records \cap Critical # {}
    <3>1. CASE id \in Critical
      BY <3>1, <1>1
    <3>2. CASE ~HasSlot(faults, id)
      BY <3>2 DEF ReportFault, Report, Noted, FaultInv, TypeOK, FaultStates
    <3> QED BY <1>4, <3>1, <3>2
  <2> QED BY <1>1, <1>3, <2>1, <2>2 DEF FaultInv, TypeOK, States
<1>5. CASE id \notin Critical /\ HasSlot(faults, id)
  <2>1. state' = state
    BY <1>5 DEF ReportFault, Report, StateAfterReport
  <2>2. faults'.records \cap Critical = faults.records \cap Critical
    BY <1>1, <1>2, <1>5
  <2>3. faults'.dropped <=> faults.dropped
    BY <1>1, <1>5
  <2> QED BY <1>1, <1>3, <2>1, <2>2, <2>3 DEF FaultInv, TypeOK
<1> QED BY <1>4, <1>5

LEMMA ClearStep ==
  ASSUME FaultInv, NEW id \in FaultIds, ClearFault(id)
  PROVE  /\ FaultInv' /\ faults.records \cap Critical \subseteq faults'.records
         /\ state' = state
<1>1. /\ id \in faults.records \ Critical
      /\ faults' = [faults EXCEPT !.records = @ \ {id}]
      /\ state' = state /\ halted' = halted /\ halted = FALSE
      /\ outstanding' = outstanding \ {id}
  BY DEF ClearFault, Clear, FaultInv, TypeOK
<1>2. /\ faults' \in FaultStates /\ IsFiniteSet(faults'.records)
      /\ Cardinality(faults'.records) <= FaultCapacity
      /\ faults'.records = faults.records \ {id}
      /\ faults'.dropped = faults.dropped
  BY <1>1, ClearedKeepsRecords DEF FaultInv, TypeOK
<1>3. faults'.records \cap Critical = faults.records \cap Critical
  BY <1>1, <1>2
<1> QED BY <1>1, <1>2, <1>3 DEF FaultInv, TypeOK

-----------------------------------------------------------------------------
(* Every step: the invariant, and what FaultLatches forbids.                *)

Latched ==
  /\ state = "FAULT" => state' = "FAULT"
  /\ faults.records \cap Critical \subseteq faults'.records

LEMMA StepKeepsFaultInv == FaultInv /\ [Next]_vars => FaultInv' /\ Latched
<1> SUFFICES ASSUME FaultInv, [Next]_vars PROVE FaultInv' /\ Latched
  OBVIOUS
<1> USE DEF Latched
<1>1. CASE InitializationStarted
  BY <1>1, EventStep DEF InitializationStarted, TaskEvents
<1>2. CASE \E event \in {"INITIALIZATION_COMPLETED", "ARM_REQUESTED",
                         "DISARM_REQUESTED", "FAILSAFE_DETECTED"} : Advance(event)
  <2>1. PICK event \in TaskEvents : Advance(event)
    BY <1>2 DEF TaskEvents
  <2> QED BY <2>1, EventStep DEF Advance
<1>3. CASE \E id \in FaultIds : StopWithFault(id)
  <2>1. PICK id \in FaultIds : StopWithFault(id)
    BY <1>3
  <2> QED BY <2>1, StopStep DEF StopWithFault
<1>4. CASE \E id \in FaultIds : ReportFault(id)
  BY <1>4, ReportStep
<1>5. CASE \E id \in FaultIds : ClearFault(id)
  BY <1>5, ClearStep
<1>6. CASE UNCHANGED vars
  BY <1>6 DEF vars, FaultInv, TypeOK
<1> QED BY <1>1, <1>2, <1>3, <1>4, <1>5, <1>6 DEF Next

THEOREM FaultInvariant == Spec => []FaultInv
<1>1. FaultInv /\ [Next]_vars => FaultInv'
  BY StepKeepsFaultInv
<1> QED BY InitFaultInv, <1>1, PTL DEF Spec

-----------------------------------------------------------------------------
(* What the runs check. *)

\* The registry never holds more records than it has slots.
THEOREM TypeCorrect == Spec => []TypeOK
<1>1. FaultInv => TypeOK
  BY DEF FaultInv
<1> QED BY FaultInvariant, <1>1, PTL

\* Health that lets the motors run has every outstanding fault on record, and
\* none of them is critical.
THEOREM HealthIsHonest == Spec => []HealthHidesNothing
<1>1. FaultInv => HealthHidesNothing
  <2> SUFFICES ASSUME FaultInv, HealthAllowsOutput PROVE
        outstanding \subseteq faults.records /\ outstanding \cap Critical = {}
    BY DEF HealthHidesNothing
  <2>1. state # "FAULT"
    BY DEF HealthAllowsOutput, Health
  <2>2. ~faults.dropped /\ faults.records \cap Critical = {}
    BY <2>1 DEF FaultInv
  <2> QED BY <2>2 DEF FaultInv
<1> QED BY FaultInvariant, <1>1, PTL

\* A unit in FAULT holds the record of why, or says that one was lost.
THEOREM FaultHasItsCause == Spec => []FaultIsDiagnosable
<1>1. FaultInv => FaultIsDiagnosable
  BY DEF FaultInv
<1> QED BY FaultInvariant, <1>1, PTL

\* FAULT and critical records last until the reset.
THEOREM FaultIsFinal == Spec => FaultLatches
<1>1. FaultInv /\ [Next]_vars =>
        [ /\ state = "FAULT" => state' = "FAULT"
          /\ faults.records \cap Critical \subseteq faults'.records ]_vars
  BY StepKeepsFaultInv DEF Latched
<1> QED BY FaultInvariant, <1>1, PTL DEF Spec, FaultLatches

=============================================================================
