SPECIFICATION Spec
CONSTANT MemFiles <- Files
INVARIANT TypeOK
PROPERTY AgreesWithCore
CHECK_DEADLOCK FALSE
