CONSTANTS
    Shapes <- MCShapes
    TargetTypes = {"t1", "t2"}
    DeclaredType = "t1"
    TargetListValues <- MCTargetListValues
    Absent = Absent
    Unparsable = Unparsable
    NoType = NoType
    NotList = NotList
    Valid = Valid
    Invalid = Invalid
    Broken = Broken
    DataExecutions <- MCDataExecutions
SPECIFICATION Spec
CHECK_DEADLOCK FALSE
INVARIANT TypeOK
INVARIANT ConstructMatchesReference
INVARIANT DataMappingsMatchReference
