SPECIFICATION Spec
CONSTANTS
    ActorConf <- MCActorConf
    SectionOrder <- MCSectionOrder
    Vocabulary <- MCVocabulary
    Endings <- MCEndings
    PerMacro = 3
    MaxLines = 4
INVARIANTS
    InstructionMapExact
    StoredProgramStable
    SymbolsDenote
    FlowCovered
CHECK_DEADLOCK FALSE
