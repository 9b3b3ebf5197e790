CONSTANTS
    Units = {1, 2, 3}
    Members <- OneShot
    DrainTime = 4
    Debounce = 2
    MaxTime = 8
SPECIFICATION Spec
INVARIANTS
    TailNeverCut
CHECK_DEADLOCK FALSE
