\* states.json cannot be written; ll-builder is started three times.
CONSTANTS
    b = b
    d = d
    f = f
    app = app
    other = other
    Layer = {b, d}
    Local = {}
    Main = {b}
    Package = {app}
    PackageOf <- TwoModules
    MaxRev = 1
    Faults = {"net", "write"}
    one = one
    two = two
    BuilderLayers <- TwoLayers
    Aliases = {one, two}
    System <- SystemConfig
    Custom <- CustomConfig
    Versions <- FiveVersions
    Current <- ThisVersion
    MaxStarts = 3
SPECIFICATION ScenesSpec
INVARIANTS FilesAgree
\* Nobody starts ll-builder a fourth time.
CHECK_DEADLOCK FALSE
