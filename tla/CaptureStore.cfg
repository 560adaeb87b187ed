CONSTANTS
    Sections = 2
    Key = {1, 2}
    Value = {a, b}
    NoValue = NoValue
SYMMETRY Symmetry
SPECIFICATION Spec
INVARIANTS EndsInOrder CaptureInv
PROPERTY ImplementsAtomicSnapshot
