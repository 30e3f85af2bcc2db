------------------------ MODULE MCConfigurationLoad ------------------------
(* ConfigurationLoad with a few results and delegate requests. *)
EXTENDS ConfigurationLoad
=============================================================================
