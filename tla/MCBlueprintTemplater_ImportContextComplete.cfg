CONSTANTS
    Names <- MCNames
    Types <- MCTypes
    Sources <- MCSources
    OrigImports <- MCOrigImports
    BindingKeys <- MCBindingKeys
    ExportKeys <- MCExportKeys
    MaxExecs = 2
    MaxPasses = 2
    MaxGen = 2
    Empty = Empty
    Nil = Nil
SPECIFICATION Spec
CHECK_DEADLOCK FALSE
INVARIANT ImportContextComplete
