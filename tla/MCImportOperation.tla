------------------------ MODULE MCImportOperation ------------------------
(* Small instance of ImportOperation for TLC.                              *)
EXTENDS ImportOperation

MCNames       == {"a", "b"}
MCTypes       == {"GoTemplate", "Spiff", "Unknown"}
MCSources     == {"inline", "file", "none"}
MCOrigImports == {"i"}
MCBindingKeys == {"x"}
MCExportKeys  == {"e"}
\* f renders, g is a file that is not a JSON string, h is no file.
MCIncludeNames   == {"f", "g", "h"}
MCBlueprintFiles == {"f", "g"}
MCJsonFiles      == {"f"}
=============================================================================
