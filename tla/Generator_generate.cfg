SPECIFICATION Spec
CONSTANTS
    BoxMask = 15
    PageSize = 8
    U2kOffset = 32
    SandboxBase = 64
    PerMacro = 1
    Configs <- MCConfigs
    Specs <- MCSpecs
    IndexRegs <- MCIndexRegs
    Order <- MCOrder
    Template <- MCTemplate
    InitRegs <- MCInitRegs
    ActorConf <- MCActorConf
    SectionOrder <- MCSectionOrder
INVARIANTS
    AccessesContained
    NoForbiddenFault
    FlagsDefined
    PrintedFlow
CHECK_DEADLOCK FALSE
