------------------------------ MODULE ByteFifo ------------------------------
(***************************************************************************)
(* What a ring buffer promises its users: bytes come out in the order they *)
(* were put in, each once; when there are more than Size of them, the      *)
(* oldest are given up; all of them may be given up at once.               *)
(***************************************************************************)
EXTENDS Integers, Sequences

CONSTANTS Size,     \* bytes kept at most
          Chunks,   \* sequences of bytes that may be put in at once
          ReadMax   \* bytes taken out at most at once

VARIABLES
  cache,  \* the bytes kept, oldest first
  out     \* the bytes taken out last

vars == <<cache, out>>

Init == cache = <<>> /\ out = <<>>

\* How many of the oldest bytes d pushes out
Excess(d) == IF Len(cache) + Len(d) > Size THEN Len(cache) + Len(d) - Size ELSE 0

Put(d) ==
  /\ Len(d) <= Size
  /\ cache' = SubSeq(cache \o d, Excess(d) + 1, Len(cache) + Len(d))
  /\ UNCHANGED out

Get ==
  LET n == IF ReadMax > Len(cache) THEN Len(cache) ELSE ReadMax
  IN /\ n > 0
     /\ out' = SubSeq(cache, 1, n)
     /\ cache' = SubSeq(cache, n + 1, Len(cache))

Clear == cache' = <<>> /\ out' = <<>>

Next == Get \/ Clear \/ \E d \in Chunks : Put(d)

Spec == Init /\ [][Next]_vars
=============================================================================
