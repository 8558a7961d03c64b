CONSTANTS
    Owners = {o1, o2}
    NoOwner = NoOwner
    Outpoints = {x1, x2}
    Ttls = {1, 2}
    MaxTime = 4
SPECIFICATION Spec
SYMMETRY Symmetry
INVARIANTS TypeOK PromiseIsDurable LeaseExclusion
PROPERTY NoPromiseOnFrozen
