\* Expected to be violated: see the finding on ArchivedIsFrozen.
SPECIFICATION Spec
CONSTANTS
    RoleIds = {clerk}
    LegacyRun = FALSE
    MaxFeatures = 2
    MaxVersion = 2
PROPERTY
    ArchivedIsFrozen
CHECK_DEADLOCK FALSE
