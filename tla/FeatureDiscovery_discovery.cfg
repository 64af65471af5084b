\* Two Features, the first also one that an older run delivers, and two
\* Conversations; settled and open workspaces, and some that are refused.
SPECIFICATION Spec
CONSTANTS
    r1 = r1  r2 = r2  a1 = a1  s1 = s1  v1 = v1  v2 = v2  d1 = d1  o1 = o1  o2 = o2
    RoleIds = {r1, r2}
    ActorIds = {a1}
    ScenarioIds = {s1}
    EvidenceIds = {v1, v2}
    DecisionIds = {d1}
    OptionIds = {o1, o2}
    Threads = {t1, t2}
    Workspaces <- Submitted
    LegacyRun = TRUE
    MaxFeatures = 2
    MaxVersion = 2

    
PROPERTIES
    SourcesAreFrozen
    ImplementsProductLifecycle
\* At the bounds on Features and versions, drafts that ask cannot be replaced.
CHECK_DEADLOCK FALSE
