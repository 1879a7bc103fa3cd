CONSTANTS
    Releases = {r1, r2, r3}
    Broken = {r3}
    None = None
    Sites <- MCSites
SPECIFICATION Spec
INVARIANTS
    AliasIsPublished
    ReachableWhenRecorded
    HealthyIsDeployed
    InvalidatedAfterDeployment
PROPERTIES
    ImplementsAtomicRelease
    DeploymentsEnd
