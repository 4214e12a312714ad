SPECIFICATION Spec
CONSTANTS
    Paths = {p1}
    Contents = {a, b}
    Languages = {go, rust}
    None = None
    Garbled = Garbled
    MaxVersion = 3
INVARIANTS
    TypeOK
    AsksOnSnapshot
    RetiredInOrder
PROPERTIES
    VersionsGrow
    CloseReaps
CHECK_DEADLOCK FALSE
