CONSTANTS
    Names <- MCNames
    Types <- MCTypes
    Sources <- MCSources
    OrigImports <- MCOrigImports
    BindingKeys <- MCBindingKeys
    ExportKeys <- MCExportKeys
    MaxExecs = 2
    MaxPasses = 2
    MaxGen = 2
    Empty = Empty
    Nil = Nil
    IncludeNames <- MCIncludeNames
    BlueprintFiles <- MCBlueprintFiles
    JsonFiles <- MCJsonFiles
    RecursionMaxNums = 1
    MaxIncludes = 3
SPECIFICATION OpSpec
CHECK_DEADLOCK FALSE
INVARIANT OpTypeOK
INVARIANT ImportErrorsStopBatch
INVARIANT ExportLastWriteWins
INVARIANT IncludeCountsTrackNesting
PROPERTY EnsureReportsImportPass
PROPERTY IncludeRecursionBound
