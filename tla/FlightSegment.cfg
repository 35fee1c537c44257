CONSTANTS
    Traffic <- MCTraffic
    QueueCapacity = 1
    ArchiveCapacity = 2
    AckSequence = 1
    TelemetrySequence = 3
    ReceiveCapacity = 7
    RecordCapacity = 5
    MaxSimulated = 5
    Orders <- MCOrders
    CycleLength = 2
    EventSequence = 1
    FeedbackSequence = 1
    EventCapacity = 2
    FeedbackCapacity = 10
    MaxFeedback = 3
    BridgeCommands <- MCBridgeCommands
    MaxCalls = 2
    MaxSurplus = 1
    Holds <- MCHolds
    InjectionSteps = 1
    MaxControl = 3
    MaxTelemetry = 8
    MaxBurns = 2
    PostedMetrics = 2
    MaxTicks = 3
    MaxLaunches = 2
    DownlinkMetrics = 3
    DownlinkQueue = 2
    DownlinkArchive = 8
    MaxDownlinkTicks = 8
    StepLengths = {1, 3, 4, 9}
    Durations = {1, 4, 6}
    MaxSurfaceSteps = 4
    MaxLegSteps = 3
    ActivationSteps = {0, 1, 2}
    Sites = {s1, s2}
    Sequences = {1, 2}
    MaxEditions = 3
    MaxAcquired = 2
    FullBattery = 7
    ReserveEnergy = 2
    ScienceEnergy = 1
    TargetLimits = {0, 1}
    RouteEnergies = {1, 3}
    MaxRuns = 2
    Columns = {0, 1, 2}
    Rows = {0, 1, 2}
    Penalties = {1, 3}
    Obstacles <- MCObstacles
    StartCell <- MCStartCell
    GoalCell <- MCGoalCell
SPECIFICATION FlightSpec
CHECK_DEADLOCK FALSE
INVARIANTS
    ComponentTypesOK CurrentIsNewest RecoveredFaultStaysOut CommandAcceptedOnce RoundTripTells
    FeedbackTellsTheVehicle AnswersInOrder UplinkTells DownlinkShowsTheStep
    RoverFollowsTheMission LegTells ScienceReachesGround SurveyTells RouteIsCheapest
PROPERTIES
    VehicleObeysTheLogic ControlTells StagesInOrder
