SPECIFICATION Spec
CONSTANTS
    Surfaces = {"a", "m", "b"}
    Clients = {"A", "B"}
    Menus = {"m"}
    Fingers = {f1, f2}
    Owner <- MCOwner
    Depth = 2
    None = None
SYMMETRY MCSymmetry
INVARIANTS
    NoDanglingTarget
    FocusIsTop
    EntersBeforeEvents
    TouchGrabbed
CHECK_DEADLOCK FALSE
