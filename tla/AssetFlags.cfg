CONSTANTS
    Flags <- MCFlags
    Qualifiers <- MCQualifiers
    Subs <- MCSubs
    Root <- MCRoot
    MaxHeight = 3
SPECIFICATION Spec
INVARIANTS
    FlagsExact
    DumpExact
    HistoryExact
