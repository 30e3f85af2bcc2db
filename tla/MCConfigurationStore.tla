------------------------ MODULE MCConfigurationStore ------------------------
(* ConfigurationStore with a few requests over two names, one of them embedded. *)
EXTENDS ConfigurationStore

ThreeRequests == 1..3
TwoNames == 1..2
OneEmbedded == {2}
=============================================================================
