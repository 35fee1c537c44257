CONSTANTS
    Rover = Rover
    Ops = Ops
    Event = Event
    Command = Command
    NoRecord = NoRecord
    Sources <- MCSources
    Kinds <- MCKinds
    Ids <- MCIds
    Records <- MCRecords
    MaxRecords = 2
SPECIFICATION Spec
INVARIANTS
    TypeOK
    SeenIsDurable
    StateMatchesStore
PROPERTIES
    RestartKeepsState
    ImplementsBoundary
