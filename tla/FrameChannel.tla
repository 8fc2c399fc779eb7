---------------------------- MODULE FrameChannel ----------------------------
(***************************************************************************)
(* What a frame queue of this program promises its users: frames come out  *)
(* each once, in the order they were accepted, a frame that is being       *)
(* delivered is not accepted again before it is done, and a frame that was *)
(* discarded does not come out later.                                      *)
(***************************************************************************)
EXTENDS Integers, Sequences, Functions

CONSTANT Frames   \* names of the frames that can be in the channel at once

VARIABLES
  channel,  \* accepted frames that have not come out, oldest first
  current   \* the frames being delivered

vars == <<channel, current>>

Init == channel = <<>> /\ current = {}

Accept(f) ==
  /\ f \notin Range(channel) \union current
  /\ channel' = Append(channel, f)
  /\ UNCHANGED current

Deliver ==
  /\ channel # <<>>
  /\ current' = current \union {Head(channel)}
  /\ channel' = Tail(channel)

Done(f) ==
  /\ f \in current
  /\ current' = current \ {f}
  /\ UNCHANGED channel

Discard ==
  /\ channel' = <<>>
  /\ UNCHANGED current

Next == Deliver \/ Discard \/ \E f \in Frames : Accept(f) \/ Done(f)

Spec == Init /\ [][Next]_vars
=============================================================================
