----------------------------- MODULE MCDoorLine -----------------------------
(***************************************************************************)
(* Instances of DoorLine for TLC.                                          *)
(***************************************************************************)
EXTENDS DoorLine, TLC

CONSTANTS m1, m2, m3, unit, hall, f1, f2

\* Every monitor in one flat, and each of the first two in a flat of its own.
OneFamily   == [m \in Monitors |-> f1]
TwoFamilies == [m \in Monitors |-> IF m = m1 THEN f1 ELSE f2]

\* Monitors of one flat are interchangeable.
Alike == Permutations(Monitors)

\* ... and so are the panels of one kind.
AlikeDoors == Alike \union Permutations(UnitDoors)
=============================================================================
