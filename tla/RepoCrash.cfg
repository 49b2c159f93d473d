\* The process may die between any two steps, and steps may fail.
CONSTANTS
    b = b
    d = d
    f = f
    app = app
    other = other
    Layer = {b, d, f}
    Local = {f}
    Main = {b, f}
    Package = {app, other}
    PackageOf <- ThreeLayers
    MaxRev = 1
    Faults = {"crash", "net", "fs"}
SPECIFICATION Spec
INVARIANTS CheckedOut
PROPERTIES HiddenStaysHidden ImplementsStore
