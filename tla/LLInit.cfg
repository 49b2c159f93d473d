SPECIFICATION Spec
CONSTANTS
    App = a
    Others = {o1}
    Clients = {c1, c2}
    MaxSignals = 1
INVARIANTS
    NobodyKilled
    ExitCodeKept
    NoClientStranded
PROPERTY EndsWhenEmpty
\* ll-init ends with the container.
CHECK_DEADLOCK FALSE
