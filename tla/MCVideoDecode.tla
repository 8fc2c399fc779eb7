--------------------------- MODULE MCVideoDecode ----------------------------
(***************************************************************************)
(* Frames of one, two and four bytes (one more than the ring has) whose    *)
(* bytes differ.                                                           *)
(***************************************************************************)
EXTENDS VideoDecode

SmallFrames == {<<1>>, <<2>>, <<1, 2>>, <<1, 2, 1, 2>>}
=============================================================================
