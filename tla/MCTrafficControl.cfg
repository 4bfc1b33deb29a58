CONSTANTS
  c1 = c1
  c2 = c2
  i1 = i1
  i2 = i2
  Null = Null
  Containers = {c1, c2}
  Ifaces = {i1, i2}
  Profiles <- MCProfiles
SYMMETRY Alike
SPECIFICATION Spec
INVARIANTS
  TypeOK
  EnforcedIsTracked
  OwnerRateIsCurrent
PROPERTIES
  RepairLeavesOnlyListed
  ImplementsShaper
