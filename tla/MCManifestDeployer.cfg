SPECIFICATION Spec
CONSTANTS
    o1 = o1
    o2 = o2
    o3 = o3
    o4 = o4
    Objs <- MCObjs
    Policy <- MCPolicy
    MaxCrashes = 1
INVARIANT TypeOK
PROPERTY FinalizerRemovedAfterObjectsGone DeletionCompletes
\* Once the DeployItem is removed the deployer has nothing left to do.
CHECK_DEADLOCK FALSE
