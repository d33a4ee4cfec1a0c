\* One operation at a time, over enough secrets and codes to set up, disable
\* and set up again, with e-mail codes in between.
SPECIFICATION Spec
CONSTANTS
    Request = {r1}
    Secret = {s1, s2}
    EmailCode = {e1, e2}
    Batches = {{b1, b2}, {b3, b4}, {b5}}
    None = None
    Overlap = FALSE
SYMMETRY Symmetry
INVARIANTS
    TypeOK
    SpentCodesGone
    OnlyLatestCodes
    EnabledConfirmed
CHECK_DEADLOCK FALSE
