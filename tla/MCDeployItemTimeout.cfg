CONSTANTS
    PickupTimeout = 2
    AbortingTimeout = 2
    DefaultTimeout = 3
    ItemTimeouts <- MCItemTimeouts
    Margin = 1
    MaxEnvSteps = 3
    None = None
    Unparsable = Unparsable
    Edits <- MCEdits

SPECIFICATION Spec

INVARIANT TypeOK
INVARIANT PickupCheckScheduled
INVARIANT UnparsableAnnotationRetried
PROPERTY TimeoutsActedOn
PROPERTY TimeoutSpecRefined
