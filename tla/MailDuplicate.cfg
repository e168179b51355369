\* A reconcile overtakes the publisher of the effect it looks for.
SPECIFICATION Spec
CONSTANTS
    Procs = {p1, p2}
    Contents = {c1, c2}
    MaxAttempt = 2
    None = None
INVARIANT ZeroDuplicateMail
