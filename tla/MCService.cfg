SPECIFICATION Spec
CONSTANTS
    Workers = {"agent"}
    Events = {"e1", "e2", "e3", "e4", "e5"}
    Kind <- KindOf
    FileId <- FileIdOf
    MaxDeliveries = 2
    MaxFaults = 2
INVARIANTS
    TypeOK
    AckedIsStored
    UploadsAccounted
    WorkersLeaveFirst
    EverythingClosed
