\* Every event of the control ledger, one family at a time (WithinFamily).
SPECIFICATION Spec
CONSTANTS
    n1 = n1  n2 = n2  r1 = r1  b1 = b1  g1 = g1  g2 = g2  k1 = k1  x1 = x1
    d1 = d1  d2 = d2  c1 = c1  c2 = c2  s1 = s1  s2 = s2
    NoValue = NoValue
    Nodes = {n1, n2}
    Repositories = {r1}
    Bases = {b1}
    Keys = {k1}
    Groups = {g1, g2}
    Authorities <- TwoAuthorities
    Selectors = {k1}
    Snapshots = {x1}
    DispatchIds = {d1, d2}
    Actions = {c1, c2}
    SlotIds = {s1, s2}
    EffectIds = {c1, c2}
    Receipts = {d1, d2}
    MaxEpoch = 2
    MaxCapacity = 2
    MaxHistory = 1
CONSTRAINT WithinFamily
INVARIANTS TypeOK ScopeReferences DispatchesExclusive SlotsHeld ClosureChain EffectIdsDistinct
PROPERTIES IncarnationsOrdered SettledForever
SYMMETRY FamilySymmetry
CHECK_DEADLOCK FALSE
