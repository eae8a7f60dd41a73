CONSTANTS
    Conns = {c1, c2, c3}
    Size <- MCSize
SPECIFICATION Spec
INVARIANTS
    DeadlineGuardsWrite
PROPERTY
    RequestsReleased
