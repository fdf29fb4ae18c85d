SPECIFICATION GSpec
CONSTANTS
    Schemas <- Files
    Root <- A
    Includes <- Paths
    MaxDepth = 4
    UpperCamelCase <- MCUpperCamelCase
INVARIANTS
    SameMeaning
    Complete
    NoStaleIndex
    Verdict
    NothingDangling
    ClashesAsDeclared
    LabelAsWritten
PROPERTY EndsUnlessCyclic
CHECK_DEADLOCK FALSE
