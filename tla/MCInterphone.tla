---------------------------- MODULE MCInterphone ----------------------------
(***************************************************************************)
(* Instances of Interphone for TLC.  The monitors of a flat run the same   *)
(* program; only their numbers differ.                                     *)
(***************************************************************************)
EXTENDS Interphone, TLC

Alike == Permutations(Monitors)

\* What the run with three monitors leaves out: states after the first hasty
\* call, of which Agreed says nothing, and door panels, which the run with two has.
Plain == ~hasty /\ \A m \in Monitors : layout[m] # "door"
=============================================================================
