SPECIFICATION Spec
CONSTANTS
    Environments = {e1}
    Registrations = {r1, r2}
    LiveEnvs = {}
    LiveRegs = {r1}
    MaxFailures = 1
INVARIANT ConvergedInstallations
PROPERTY DeletionCompletes InstallationsEventuallyCreated
\* Once every object is deleted the controllers wait for new objects.
CHECK_DEADLOCK FALSE
