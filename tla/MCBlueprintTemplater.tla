------------------------ MODULE MCBlueprintTemplater ------------------------
(* Small instance of BlueprintTemplater for TLC.                           *)
EXTENDS BlueprintTemplater

MCNames       == {"a", "b"}
MCTypes       == {"GoTemplate", "Spiff", "Unknown"}
MCSources     == {"inline", "file", "none"}
MCOrigImports == {"i"}
MCBindingKeys == {"x"}
MCExportKeys  == {"e"}
=============================================================================
