CONSTANTS
    PickupTimeout = 2
    AbortingTimeout = 2
    DefaultTimeout = 3
    ItemTimeouts <- MCItemTimeouts
    Margin = 1
    MaxEnvSteps = 3
    None = None
    Unparsable = Unparsable
    Edits <- NoEdits

SPECIFICATION Spec

PROPERTY AbortAnnotationCleared
