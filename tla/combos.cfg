SPECIFICATION ClientSpec
CONSTANTS
    Keys = {"a", "b"}
    ModifierSets <- ShiftOrNone
    Bound <- BoundNames
    ComboLists <- Lists
    MaxHistory = 3
    MaxTyped = 5
INVARIANTS ShadowedNeverRuns
PROPERTIES CombosRefined
