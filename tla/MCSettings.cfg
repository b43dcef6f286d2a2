SPECIFICATION Spec
CONSTANTS
    Stores = {"profile", "config"}
    Procs = {p, q, r}
    MaxEdits = 1
SYMMETRY Permuted
INVARIANTS NeverTorn EditsPreserved SavesSurvive
CHECK_DEADLOCK FALSE
