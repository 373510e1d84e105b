SPECIFICATION Spec
CONSTANTS
    Outputs = {o1, o2}
    Keyboards = {k1, k2}
    Toplevels = {t1, t2}
    None = None
SYMMETRY AnyObject
INVARIANTS OwnersLive NothingMisused EverythingFreed
CHECK_DEADLOCK FALSE
