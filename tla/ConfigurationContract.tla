------------------------ MODULE ConfigurationContract ------------------------
(***************************************************************************)
(* What the configuration service promises across resets: the              *)
(* configuration in force and the one the next boot will start with.  An    *)
(* accepted command moves both together.  A command that fails, or that a   *)
(* reset cuts off, never puts another configuration in force; a write        *)
(* leaves the next boot the old or the new one.  It leaves it none at all    *)
(* in two cases only: where the compiled defaults stood, whose storage may  *)
(* be empty, and where the new one is valid but cannot be applied.  A reset *)
(* that fails promises nothing.                                             *)
(***************************************************************************)
CONSTANTS
  Configurations,  \* complete, valid configurations
  Applicable,      \* those that the runtime takes
  Defaults,        \* the compiled one
  Unreadable       \* none

VARIABLES
  active,  \* the configuration in force while the unit runs
  atBoot   \* what the next boot will start with

contractVars == <<active, atBoot>>

ContractInit == active = Unreadable /\ atBoot = Defaults

Accept(configuration) == active' = configuration /\ atBoot' = configuration

\* Power is lost, or stays.
MayGoOff == active' \in {active, Unreadable}

\* A failed write has left nothing, half a record or the whole record behind.
WriteFailure(configuration) ==
  /\ atBoot' \in {atBoot,
                  IF configuration \in Applicable THEN configuration
                                                 ELSE Unreadable}
                   \cup (IF atBoot = Defaults THEN {Unreadable} ELSE {})
  /\ MayGoOff

ResetFailure ==
  /\ atBoot' \in Applicable \cup {Unreadable}
  /\ MayGoOff

PowerLoss == active' = Unreadable /\ UNCHANGED atBoot

Boot ==
  /\ active = Unreadable
  /\ active' = atBoot
  /\ UNCHANGED atBoot

ContractNext ==
  \/ \E configuration \in Applicable : Accept(configuration)
  \/ \E configuration \in Configurations : WriteFailure(configuration)
  \/ ResetFailure
  \/ PowerLoss
  \/ Boot

ContractSpec == ContractInit /\ [][ContractNext]_contractVars

=============================================================================
