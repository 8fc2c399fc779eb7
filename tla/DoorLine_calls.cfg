SPECIFICATION Spec
CONSTANTS
  m1 = m1
  m2 = m2
  m3 = m3
  unit = unit
  hall = hall
  f1 = f1
  f2 = f2
  Monitors = {m1, m2, m3}
  Doors = {unit}
  UnitDoors = {unit}
  Families = {f1}
  FamilyOf <- OneFamily
  AgeMax = 1
  Calls = TRUE
  Keys = FALSE
  Tuya = FALSE
  MaxPending = 0
  MaxLost = 0
SYMMETRY Alike
INVARIANTS AloneAtDoor
