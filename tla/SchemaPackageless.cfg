SPECIFICATION GSpec
CONSTANTS
    Schemas <- Packageless
    Root <- A
    Includes <- Paths
    MaxDepth = 4
    UpperCamelCase <- MCUpperCamelCase
INVARIANT Complete
CHECK_DEADLOCK FALSE
