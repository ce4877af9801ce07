-------------------------- MODULE MCFaultLifecycle --------------------------
(***************************************************************************)
(* Six ids, two per severity, in a registry of three slots: every mixture  *)
(* of severities can fill it, and more ids than slots remain, as the       *)
(* production catalogue (20 ids, 16 slots) has.                            *)
(***************************************************************************)
EXTENDS FaultLifecycle, Scheduler

MCFaultIds == {"w1", "w2", "f1", "f2", "c1", "c2"}

MCSeverity ==
  [id \in MCFaultIds |-> CASE id \in {"w1", "w2"} -> "WARNING"
                           [] id \in {"f1", "f2"} -> "FAULT"
                           [] id \in {"c1", "c2"} -> "CRITICAL"]

=============================================================================
