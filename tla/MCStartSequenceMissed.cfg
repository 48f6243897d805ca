CONSTANTS
    Byte = {x1B, x01, other}
    Esc = x1B
    One = x01
    None = None

SPECIFICATION Spec

INVARIANTS
    FindsMarker
