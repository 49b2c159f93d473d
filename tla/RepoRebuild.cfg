\* The cache is rebuilt from the refs: after a change of configuration, after an upgrade, after states.json was cut short.
CONSTANTS
    b = b
    d = d
    f = f
    app = app
    other = other
    Layer = {b, d}
    Local = {}
    Main = {b}
    Package = {app}
    PackageOf <- TwoModules
    MaxRev = 2
    Faults = {"net", "short", "config", "upgrade"}
SPECIFICATION Spec
INVARIANTS ItemsAreRefs MergedBacked
