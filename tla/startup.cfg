SPECIFICATION Spec
CONSTANTS
    NameRank <- MCNameRank
    CheckTags <- MCCheckTags
    Parent <- MCParent
    PrefixOf <- MCPrefixOf
    WorkDir = "app"
    HomeDir = "home"
    RuntimeVersion = 46
    EnvVersion = 0
    Inputs <- MCInputs
    GoVersions <- MCGoVersions
INVARIANTS
    TypeOK
    EffectiveSet
    ListedIsRun
    FlagsAreHonoured
    PackagesSuffice
    NoSilentSkip
    ChecksAsAsked
CHECK_DEADLOCK FALSE
