SPECIFICATION Spec
CONSTANTS
    Trees <- MCTrees
    Paths <- MCPaths
    Compatible <- MCCompatible
    Strings <- StringsBlock
    Behind <- MCBehind
    LEVEL_MAX = 3
    ADDRESS_CELLS <- AddressCells
    SIZE_CELLS <- SizeCells
    REG <- Reg
    COMPATIBLE <- CompatibleName
INVARIANTS
    IteratorsExact
    FindExact
    RegionsExact
    PanicsOnlyBeyondLimits
CHECK_DEADLOCK FALSE
