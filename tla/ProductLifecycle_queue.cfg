\* Three Features, one role to declare and grant, with and without a run begun by
\* the engine before DeliveryUnits.
SPECIFICATION FairSpec
CONSTANTS
    RoleIds = {clerk}
    LegacyRun = TRUE
    MaxFeatures = 3
    MaxVersion = 2
INVARIANTS
    LifecycleInvariant
    InstallNeverRefused
    DeploymentIsLatest
    OfferedIsAccepted
    QueueOffersNext
PROPERTIES
    ImplementsDeliveryQueue
    ConfirmedAsRead
    QueueProgresses
\* An archived Product without open runs accepts no command.
CHECK_DEADLOCK FALSE
