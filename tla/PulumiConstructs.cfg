\* Constructs of the Azure and Cloudflare packages.
SPECIFICATION FairSpec
CONSTANTS
    NotSet = NotSet
    MaxRetries = 3
    MaxDeployments = 2
    Choices <- MCChoices
    HostConfigs <- MCHostConfigs
    SiteSettings <- MCSiteSettings
INVARIANTS
    WellBuilt
    BuiltUnlessItsPropsForbid
    ReachesWhatItUses
    HostJsonIsAsConfigured
    TwinsAreAlike
PROPERTIES
    EveryKeyRequestEnds
\* A program ends.
CHECK_DEADLOCK FALSE
