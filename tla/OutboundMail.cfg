\* Two processes that publish or reconcile, two contents, two attempts each.
SPECIFICATION Spec
CONSTANTS
    Procs = {p1, p2}
    Contents = {c1, c2}
    MaxAttempt = 2
    None = None
INVARIANTS
    LaneNamesUnsettled
    DeliveredIsInMailbox
    ResendOnlyIfOvertaken
PROPERTIES
    SettledIsFinal
