SPECIFICATION Spec
CONSTANTS
  m1 = m1
  m2 = m2
  m3 = m3
  unit = unit
  hall = hall
  f1 = f1
  f2 = f2
  Monitors = {m1, m2}
  Doors = {unit, hall}
  UnitDoors = {unit}
  Families = {f1, f2}
  FamilyOf <- OneFamily
  AgeMax = 0
  Calls = TRUE
  Keys = TRUE
  Tuya = TRUE
  MaxPending = 0
  MaxLost = 0
SYMMETRY Alike
INVARIANTS OccupiesItsTalk
