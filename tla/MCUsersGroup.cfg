SPECIFICATION Spec
CONSTANTS
    Uid = {alice, bob}
    Fd = {f1, f2, f3, f4}
INVARIANTS InvariantsOk
PROPERTIES NoRebind ImplementsPresence
