SPECIFICATION Spec
CONSTANTS
  m1 = m1
  m2 = m2
  m3 = m3
  unit = unit
  hall = hall
  f1 = f1
  f2 = f2
  Monitors = {m1, m2, m3, m4}
  Doors = {unit, unit2, hall}
  UnitDoors = {unit, unit2}
  Families = {f1}
  FamilyOf <- OneFamily
  AgeMax = 5
  Calls = FALSE
  Keys = FALSE
  Tuya = FALSE
  MaxPending = 0
  MaxLost = 1
SYMMETRY AlikeDoors
INVARIANTS TypeOK AloneAtDoor TalkIsKnown
