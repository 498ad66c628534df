SPECIFICATION Spec
CONSTANTS
  NoDoc = NoDoc
  Hosts = {h1, h2, h3}
  Passwords = {p1, p2, p3}
  Svc = svc
  Documents <- AllDocuments
  Inits <- FullDocuments
  Forces <- Rotations
  MaxFaults = 2
SYMMETRY AllSymmetry
INVARIANTS StampTellsTheDocument
PROPERTIES Implements
