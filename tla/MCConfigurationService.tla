------------------------ MODULE MCConfigurationService ------------------------
(***************************************************************************)
(* The configuration service with, beside it, the format of what it stores. *)
(* Configurations differ in their trims; the steep one is beyond the limit,  *)
(* and makes a valid configuration that cannot be applied.                   *)
(***************************************************************************)
EXTENDS ConfigurationService, ConfigurationPayload

MCWithinLimit == Settings \X (Trims \ {"steep"})

=============================================================================
