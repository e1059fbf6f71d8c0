CONSTANTS
    a = a
    x1 = x1  x2 = x2  x3 = x3
    t1 = t1  t2 = t2
    ImportNames <- MCImportNames
    TargetObjs <- MCTargetObjs
    TargetTypes <- MCTargetTypes
    ObjType <- MCObjType
    DeclaredType = t1
    LitName = LitName
    Scalar = Scalar
    Missing = Missing
    MaxLen = 2
SPECIFICATION Spec
INVARIANT TypeOK ResolvedTargetHasDeclaredType SingleTargetResolution
CHECK_DEADLOCK FALSE
