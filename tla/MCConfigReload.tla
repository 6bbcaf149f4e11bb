--------------------------- MODULE MCConfigReload ---------------------------
(* An instance of ConfigReload for TLC.                                    *)
EXTENDS ConfigReload

MCPaths == [w \in Watchers |-> IF w = Config THEN {"configuration.yaml"} ELSE {"a", "b"}]
=============================================================================
