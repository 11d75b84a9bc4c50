SPECIFICATION Spec
CONSTANTS
    Listeners = {l1, l2, l3}
    Helpers = {h1, h2}
    Nobody = Nobody
SYMMETRY Interchangeable
CHECK_DEADLOCK FALSE
INVARIANTS TypeOK FileNamesHolder CleanupSparesOthers
PROPERTY TakenOnlyByExit
