CONSTANTS
    Workers = {w1, w2}
    Names = {n1}
    Emails = {e1, e2}
    Pwds = {x1, x2}
    Codes = {k1, k2}
    None = None
SPECIFICATION Spec
SYMMETRY Symmetry
INVARIANTS
    CodeHeldMeanwhile
    PwdHeldMeanwhile
    RegisteredIsStored
PROPERTY
    OnlyResetsChangeRows
