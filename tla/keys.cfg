SPECIFICATION KeySpec
CONSTANTS
    Windows = {w1, w2}
    NoWindow = NoWindow
    OtherKeys = {"return", "f", "q", "escape"}
SYMMETRY AnyWindow
INVARIANTS ModifiersKnown
PROPERTIES SwallowedStayHidden StuckOnlyUnfocused DocumentedKeys
CHECK_DEADLOCK FALSE
