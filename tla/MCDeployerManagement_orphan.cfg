SPECIFICATION Spec
CONSTANTS
    Environments = {e1}
    Registrations = {r1}
    LiveEnvs = {e1}
    LiveRegs = {r1}
    MaxFailures = 0
INVARIANT NoOrphanInstallation
CHECK_DEADLOCK FALSE
