--------------------------- MODULE ReceptionProofs ---------------------------
(***************************************************************************)
(* What this set takes from the network during a call: pictures and sound. *)
(*                                                                         *)
(* The pictures, for any sizes of frames and datagrams and any number of   *)
(* losses: every variable keeps its type; and as long as one datagram is   *)
(* lost at most, what the reassembly hands on is one frame.  The code      *)
(* compares lengths only.  The strengthening says why that is enough after *)
(* one loss: a frame that lacks a part stays shorter than its header says  *)
(* until the next header comes, which then cannot be lost.                 *)
(*                                                                         *)
(* The sound, for any number of threads, nodes and groups: every variable  *)
(* keeps its type; and unless a thread was late or an open gave up, a call *)
(* plays its own frames and has the threads it needs.  The strengthening   *)
(* describes each half: who of its threads is alive, what their flags say  *)
(* of them, and what they leave behind when they end.  A part of it (Life) *)
(* holds whatever happened, so that the rest holds again in the first call *)
(* that begins after everything was quiet.                                 *)
(***************************************************************************)
EXTENDS VideoIn, AudioReceive, SequenceTheorems, FiniteSetTheorems, TLAPS

\* Frame k of n datagrams, the last with t units of data: its size, part i, and
\* how much data its first i parts have.
SizeOf(n, t) == (n - 1) * Full + t
Part(k, n, t, b, i) == [no |-> k, part |-> i, len |-> IF i < n THEN Full ELSE t,
                        size |-> SizeOf(n, t), key |-> b]
Upto(n, t, i) == IF i < n THEN i * Full ELSE SizeOf(n, t)

\* The datagrams on the way are the parts after p of one frame.
OnTheWay(k, n, t, b, p) ==
  Len(wire) = n - p /\ \A i \in 1 .. n - p : wire[i] = Part(k, n, t, b, p + i)

\* The buffer has the first p parts of that frame, and is not complete.
Whole(k, n, t, b, p) ==
  /\ 0 < p /\ p < n
  /\ size = SizeOf(n, t) /\ count = Upto(n, t, p)
  /\ Len(buffer) = p /\ \A i \in 1 .. p : buffer[i] = Part(k, n, t, b, i)

\* Data is missing, and what is on the way begins with a header or cannot fill up.
Short(n, t, p) ==
  lost = 1 /\ (p = 0 \/ (size = SizeOf(n, t) /\ count < Upto(n, t, p)))

Joined(k, n, t, b, p) ==
  /\ OnTheWay(k, n, t, b, p)
  /\ threadRun /\ start /\ lost <= 1 => Whole(k, n, t, b, p) \/ Short(n, t, p)

FrameInv ==
  \E k \in 0 .. Numbers - 1, n \in Nat \ {0}, t \in 1 .. Full, b \in BOOLEAN :
    \E p \in 0 .. n : Joined(k, n, t, b, p)

IInv == TypeOK /\ FrameInv /\ Intact

-----------------------------------------------------------------------------
(* Lengths.                                                                *)

LEMMA FullType == Full \in Nat /\ Full > 0 /\ Numbers \in Nat /\ Numbers > 1
BY SizesAssumption, NumbersAssumption

LEMMA Product ==
  ASSUME NEW a \in Nat, NEW b \in Nat
  PROVE  a * b \in Nat /\ (a + 1) * b = a * b + b
OBVIOUS

LEMMA SizeType ==
  ASSUME NEW n \in Nat \ {0}, NEW t \in 1 .. Full
  PROVE  SizeOf(n, t) \in Nat /\ SizeOf(n, t) > 0
<1>1. n - 1 \in Nat
  OBVIOUS
<1>2. (n - 1) * Full \in Nat
  BY <1>1, FullType, Product
<1> QED
  BY <1>2, FullType DEF SizeOf

\* Each part adds its length.
LEMMA UptoNext ==
  ASSUME NEW n \in Nat \ {0}, NEW t \in 1 .. Full, NEW p \in 0 .. n, p < n
  PROVE  /\ Upto(n, t, p) \in Nat
         /\ Upto(n, t, p + 1) = Upto(n, t, p) + (IF p + 1 < n THEN Full ELSE t)
<1>1. p * Full \in Nat /\ (p + 1) * Full = p * Full + Full
  BY FullType, Product
<1>2. CASE p + 1 < n
  BY <1>1, <1>2 DEF Upto
<1>3. CASE p + 1 = n
  <2>1. n - 1 = p
    BY <1>3
  <2> QED
    BY <1>1, <1>3, <2>1 DEF Upto, SizeOf
<1> QED
  BY <1>2, <1>3

\* A proper part of a frame is shorter than the frame.
LEMMA UptoLess ==
  ASSUME NEW n \in Nat \ {0}, NEW t \in 1 .. Full, NEW p \in 0 .. n
  PROVE  /\ Upto(n, t, p) \in Nat /\ Upto(n, t, p) <= SizeOf(n, t)
         /\ p < n => Upto(n, t, p) < SizeOf(n, t)
<1>1. CASE p = n
  BY <1>1, SizeType DEF Upto
<1>2. CASE p < n
  <2>1. n - 1 - p \in Nat /\ n - 1 = p + (n - 1 - p)
    BY <1>2
  <2>2. p * Full \in Nat /\ (n - 1 - p) * Full \in Nat
    BY <2>1, FullType, Product
  <2>3. (n - 1) * Full = p * Full + (n - 1 - p) * Full
    BY <2>1, FullType
  <2> QED
    BY <1>2, <2>2, <2>3, FullType DEF Upto, SizeOf
<1> QED
  BY <1>1, <1>2

LEMMA PartType ==
  ASSUME NEW k \in 0 .. Numbers - 1, NEW n \in Nat \ {0}, NEW t \in 1 .. Full,
         NEW b \in BOOLEAN, NEW i \in Nat
  PROVE  Part(k, n, t, b, i) \in Packets
BY FullType, SizeType DEF Part, Packets

\* SendFrame puts all parts of a frame on the way.
LEMMA FrameParts ==
  ASSUME NEW k \in 0 .. Numbers - 1, NEW n \in Nat \ {0}, NEW t \in 1 .. Full,
         NEW b \in BOOLEAN
  PROVE  /\ Frame(k, n, t, b) \in Seq(Packets)
         /\ Len(Frame(k, n, t, b)) = n
         /\ \A i \in 1 .. n : Frame(k, n, t, b)[i] = Part(k, n, t, b, i)
<1>1. Frame(k, n, t, b) = [i \in 1 .. n |-> Part(k, n, t, b, i)]
  BY DEF Frame, Part, SizeOf
<1>2. \A i \in 1 .. n : Part(k, n, t, b, i) \in Packets
  BY PartType
<1>3. Frame(k, n, t, b) \in [1 .. n -> Packets]
  BY <1>1, <1>2
<1>4. Frame(k, n, t, b) \in Seq(Packets)
  BY <1>3
<1> QED
  BY <1>1, <1>3, <1>4, LenProperties

-----------------------------------------------------------------------------
(* Types.                                                                  *)

LEMMA ZeroBounds == 0 \in 0 .. KeyMax /\ 0 \in 0 .. MaxLost /\ 0 \in 0 .. Numbers - 1
BY BoundsAssumption, FullType

LEMMA HeadType ==
  ASSUME TypeOK, wire # <<>>
  PROVE  /\ Packet \in Packets /\ Tail(wire) \in Seq(Packets)
         /\ Packet.len \in 1 .. Full /\ Packet.size \in Nat
         /\ Packet.len \in Nat /\ Packet.len > 0
<1>1. wire \in Seq(Packets)
  BY DEF TypeOK
<1>2. Packet \in Packets /\ Tail(wire) \in Seq(Packets)
  BY <1>1, HeadTailProperties DEF Packet
<1> QED
  BY <1>2, FullType DEF Packets

LEMMA FilledType ==
  ASSUME TypeOK, wire # <<>>
  PROVE  /\ Expected \in Nat /\ Count \in Nat /\ Filled \in Seq(Packets)
         /\ Filled # <<>> /\ Filled[1] \in Packets
<1>1. Packet \in Packets /\ buffer \in Seq(Packets)
  BY HeadType DEF TypeOK
<1>2. Expected \in Nat /\ Count \in Nat
  BY HeadType DEF TypeOK, Expected, Count
<1>3. <<Packet>> \in Seq(Packets) /\ Append(buffer, Packet) \in Seq(Packets)
  BY <1>1, AppendProperties
<1>4. Filled \in Seq(Packets) /\ Filled # <<>>
  BY <1>1, <1>3, AppendProperties DEF Filled
<1> QED
  BY <1>2, <1>4, EmptySeq, ElementOfSeq, LenProperties

LEMMA StoreType ==
  ASSUME TypeOK, Store
  PROVE  /\ wire' \in Seq(Packets) /\ buffer' \in Seq(Packets)
         /\ start' \in BOOLEAN /\ size' \in Nat /\ count' \in Nat
         /\ UNCHANGED <<number, taskRun, threadRun, tuya>>
BY HeadType, FilledType DEF Store, Receiving, Read

LEMMA UploadType ==
  ASSUME TypeOK, wire # <<>>, Uploaded
  PROVE  upload' \in Uploads
BY FilledType DEF Uploaded, IsKeyFrame, Packets, Uploads

LEMMA ReceiveType ==
  ASSUME TypeOK, Receive
  PROVE  TypeOK'
<1> USE DEF panel, locals, gate
<1>0. wire # <<>>
  BY DEF Receive, ReceivePart, ReceiveShown, ReceiveKeyFrame, ReceiveUploaded,
         ReceiveAsks, ReceiveTooMuch, ReceiveUnknown, Completes, Store, Receiving
<1>1. CASE ReceivePart
  BY <1>1, StoreType DEF ReceivePart, TypeOK
<1>2. CASE ReceiveShown
  BY <1>2, StoreType DEF ReceiveShown, Completes, TypeOK
<1>3. CASE ReceiveKeyFrame
  BY <1>0, <1>3, ZeroBounds, StoreType, UploadType DEF ReceiveKeyFrame, Completes, TypeOK
<1>4. CASE ReceiveUploaded
  BY <1>0, <1>4, StoreType, UploadType DEF ReceiveUploaded, Completes, TypeOK
<1>5. CASE ReceiveAsks
  <2>1. keyCount' \in 0 .. KeyMax
    BY <1>5, BoundsAssumption DEF ReceiveAsks, TypeOK
  <2>2. lost' \in 0 .. MaxLost
    <3>1. lost \in 0 .. MaxLost
      BY DEF TypeOK
    <3>2. lost' = lost \/ (lost < MaxLost /\ lost' = lost + 1)
      BY <1>5 DEF ReceiveAsks
    <3> QED
      BY <3>1, <3>2, BoundsAssumption
  <2>3. asked' \in BOOLEAN
    BY <1>5 DEF ReceiveAsks, TypeOK
  <2> QED
    BY <1>5, <2>1, <2>2, <2>3, StoreType DEF ReceiveAsks, Completes, TypeOK
<1>6. CASE ReceiveTooMuch \/ ReceiveUnknown
  BY <1>0, <1>6, HeadType DEF ReceiveTooMuch, ReceiveUnknown, Read, TypeOK
<1> QED
  BY <1>1, <1>2, <1>3, <1>4, <1>5, <1>6 DEF Receive

LEMMA NextType == TypeOK /\ [Next]_vars => TypeOK'
<1> SUFFICES ASSUME TypeOK, [Next]_vars
             PROVE  TypeOK'
  OBVIOUS
<1> USE DEF panel, locals, gate
<1>1. CASE SendFrame
  <2>1. PICK n \in Counts, t \in 1 .. Full, b \in BOOLEAN :
          wire' = Frame(number, n, t, b)
    BY <1>1 DEF SendFrame
  <2>2. wire' \in Seq(Packets)
    BY <2>1, FrameParts, SizesAssumption DEF TypeOK
  <2>3. number' \in 0 .. Numbers - 1
    BY <1>1, FullType DEF SendFrame, TypeOK
  <2> QED
    BY <1>1, <2>2, <2>3 DEF SendFrame, TypeOK
<1>2. CASE Lose
  <2>1. lost' \in 0 .. MaxLost
    BY <1>2, BoundsAssumption DEF Lose, TypeOK
  <2> QED
    BY <1>2, <2>1, HeadType DEF Lose, TypeOK
<1>3. CASE NotJoined
  BY <1>3, EmptySeq DEF NotJoined, TypeOK
<1>4. CASE Open \/ Close \/ Viewers
  BY <1>4 DEF Open, Close, Viewers, TypeOK
<1>5. CASE ThreadBegin
  BY <1>5, EmptySeq DEF ThreadBegin, TypeOK
<1>6. CASE ThreadEnd
  BY <1>6, ZeroBounds DEF ThreadEnd, TypeOK
<1>7. CASE Receive
  BY <1>7, ReceiveType
<1>8. CASE UNCHANGED vars
  BY <1>8 DEF vars, TypeOK
<1> QED
  BY <1>1, <1>2, <1>3, <1>4, <1>5, <1>6, <1>7, <1>8 DEF Next

LEMMA InitType == Init => TypeOK
<1> SUFFICES ASSUME Init
             PROVE  TypeOK
  OBVIOUS
<1>1. wire \in Seq(Packets) /\ buffer \in Seq(Packets)
  BY EmptySeq DEF Init
<1>2. upload \in Uploads
  BY FullType DEF Init, NoUpload, Uploads
<1>3. size \in Nat /\ count \in Nat
  BY DEF Init
<1> QED
  BY <1>1, <1>2, <1>3, ZeroBounds DEF Init, TypeOK

\* Every variable keeps its type: no request beyond the limit, no negative length,
\* nothing but datagrams of the panel in the buffer of the receive thread.
THEOREM TypeCorrect == Spec => []TypeOK
BY InitType, NextType, PTL DEF Spec

-----------------------------------------------------------------------------
(* The parts of one frame, one after the other.                            *)

\* OneFrame for any sequence of datagrams
SameFrame(s) == \A i \in DOMAIN s : s[i].part = i /\ Belongs(s[i], s[1])

LEMMA PartsAreOneFrame ==
  ASSUME NEW s, NEW m \in Nat, DOMAIN s = 1 .. m,
         NEW k, NEW n, NEW t, NEW b, \A i \in 1 .. m : s[i] = Part(k, n, t, b, i)
  PROVE  SameFrame(s)
<1> SUFFICES ASSUME NEW i \in 1 .. m
             PROVE  s[i].part = i /\ Belongs(s[i], s[1])
  BY DEF SameFrame
<1>1. s[i] = Part(k, n, t, b, i) /\ s[1] = Part(k, n, t, b, 1)
  OBVIOUS
<1> QED
  BY <1>1 DEF Part, Belongs

\* What a turn of the receive loop takes is the next part of the frame under way.
LEMMA NextPart ==
  ASSUME TypeOK, wire # <<>>, wire' = Tail(wire),
         NEW k \in 0 .. Numbers - 1, NEW n \in Nat \ {0}, NEW t \in 1 .. Full,
         NEW b \in BOOLEAN, NEW p \in 0 .. n, OnTheWay(k, n, t, b, p)
  PROVE  /\ p < n /\ p + 1 \in 0 .. n /\ OnTheWay(k, n, t, b, p + 1)'
         /\ Packet = Part(k, n, t, b, p + 1)
         /\ IsHeader <=> p = 0
<1>1. wire \in Seq(Packets)
  BY DEF TypeOK
<1>2. /\ Len(wire) \in Nat \ {0} /\ Len(wire) = n - p /\ Packet = wire[1]
      /\ Len(Tail(wire)) = Len(wire) - 1
      /\ \A i \in 1 .. Len(Tail(wire)) : Tail(wire)[i] = wire[i + 1]
  BY <1>1, EmptySeq, LenProperties, HeadTailProperties DEF OnTheWay, Packet
<1>3. p < n /\ p + 1 \in 0 .. n /\ 1 \in 1 .. n - p
  BY <1>2
<1>4. Packet = Part(k, n, t, b, p + 1)
  BY <1>2, <1>3 DEF OnTheWay
<1>5. ASSUME NEW i \in 1 .. n - (p + 1)
      PROVE  Tail(wire)[i] = Part(k, n, t, b, p + 1 + i)
  <2>1. i + 1 \in 1 .. n - p /\ p + (i + 1) = p + 1 + i
    BY <1>3
  <2>2. Tail(wire)[i] = wire[i + 1]
    BY <1>2
  <2> QED
    BY <2>1, <2>2 DEF OnTheWay
<1>6. OnTheWay(k, n, t, b, p + 1)'
  BY <1>2, <1>3, <1>5 DEF OnTheWay
<1>7. IsHeader <=> p = 0
  BY <1>3, <1>4 DEF IsHeader, Part
<1> QED
  BY <1>3, <1>4, <1>6, <1>7

-----------------------------------------------------------------------------
(* One datagram.  The buffer grows by the next part, or has lacked one and *)
(* stays too short; a header starts it anew.                               *)

LEMMA HeaderStep ==
  ASSUME TypeOK, Store, IsHeader,
         NEW k \in 0 .. Numbers - 1, NEW n \in Nat \ {0}, NEW t \in 1 .. Full,
         NEW b \in BOOLEAN, OnTheWay(k, n, t, b, 0)
  PROVE  OneFrame' /\ (start' => Whole(k, n, t, b, 1)')
<1>1. wire # <<>> /\ wire' = Tail(wire)
  BY DEF Store, Receiving, Read
<1>2. Packet = Part(k, n, t, b, 1) /\ 0 \in 0 .. n
  BY <1>1, NextPart
<1>3. buffer' = <<Packet>> /\ size' = SizeOf(n, t) /\ count' = Packet.len
      /\ start' = (count' # size')
  BY <1>1, <1>2, HeadType DEF Store, Filled, Expected, Count, Part
<1>4. DOMAIN buffer' = 1 .. 1 /\ Len(buffer') = 1
      /\ \A i \in 1 .. 1 : buffer'[i] = Part(k, n, t, b, i)
  BY <1>2, <1>3
<1>5. OneFrame'
  <2>1. \A i \in DOMAIN buffer' : i = 1
    BY <1>4
  <2> QED
    BY <1>4, <2>1 DEF OneFrame, Belongs, Part
<1>6. count' = Upto(n, t, 1)
  <2>1. Upto(n, t, 1) = Upto(n, t, 0) + (IF 1 < n THEN Full ELSE t)
    BY <1>2, UptoNext
  <2>2. Upto(n, t, 0) = 0
    BY FullType DEF Upto
  <2> QED
    BY <1>2, <1>3, <2>1, <2>2, FullType DEF Part
<1>7. ASSUME start'
      PROVE  1 < n
  BY <1>3, <1>6, <1>7 DEF Upto
<1> QED
  BY <1>3, <1>4, <1>5, <1>6, <1>7 DEF Whole

LEMMA WholeStep ==
  ASSUME TypeOK, Store, ~IsHeader,
         NEW k \in 0 .. Numbers - 1, NEW n \in Nat \ {0}, NEW t \in 1 .. Full,
         NEW b \in BOOLEAN, NEW p \in 0 .. n, OnTheWay(k, n, t, b, p),
         Whole(k, n, t, b, p)
  PROVE  (~start' => OneFrame') /\ (start' => Whole(k, n, t, b, p + 1)')
<1>1. wire # <<>> /\ wire' = Tail(wire)
  BY DEF Store, Receiving, Read
<1>2. Packet = Part(k, n, t, b, p + 1) /\ p < n /\ p + 1 \in 0 .. n
  BY <1>1, NextPart
<1>3. /\ buffer' = Append(buffer, Packet) /\ size' = SizeOf(n, t)
      /\ count' = Upto(n, t, p) + (IF p + 1 < n THEN Full ELSE t)
      /\ start' = (count' # size')
  BY <1>2 DEF Store, Filled, Expected, Count, Part, Whole
<1>4. count' = Upto(n, t, p + 1)
  BY <1>2, <1>3, UptoNext
<1>5. /\ buffer \in Seq(Packets) /\ Packet \in Packets /\ Len(buffer) = p
      /\ \A i \in 1 .. p : buffer[i] = Part(k, n, t, b, i)
  BY <1>1, HeadType DEF TypeOK, Whole
<1>6. /\ Len(buffer') = p + 1 /\ DOMAIN buffer' = 1 .. p + 1
      /\ \A i \in 1 .. p + 1 : buffer'[i] = Part(k, n, t, b, i)
  <2>1. /\ buffer' \in Seq(Packets) /\ Len(buffer') = p + 1
        /\ \A i \in 1 .. p : buffer'[i] = buffer[i]
        /\ buffer'[p + 1] = Packet
    BY <1>3, <1>5, AppendProperties
  <2> QED
    BY <1>2, <1>5, <2>1, LenProperties
<1>7. OneFrame'
  <2>1. p + 1 \in Nat
    BY <1>2
  <2>2. SameFrame(buffer')
    BY <1>6, <2>1, PartsAreOneFrame
  <2> QED
    BY <2>2 DEF SameFrame, OneFrame
<1>8. ASSUME start'
      PROVE  p + 1 < n
  BY <1>2, <1>3, <1>4, <1>8 DEF Upto
<1> QED
  BY <1>3, <1>4, <1>6, <1>7, <1>8 DEF Whole

\* Too little stays too little: the frame is not completed by its own parts.
LEMMA ShortCount ==
  ASSUME TypeOK, wire # <<>>, wire' = Tail(wire), ~IsHeader,
         NEW k \in 0 .. Numbers - 1, NEW n \in Nat \ {0}, NEW t \in 1 .. Full,
         NEW b \in BOOLEAN, NEW p \in 0 .. n, OnTheWay(k, n, t, b, p), Short(n, t, p)
  PROVE  Expected = SizeOf(n, t) /\ Count < Upto(n, t, p + 1) /\ Count < Expected
<1>1. Packet = Part(k, n, t, b, p + 1) /\ p < n /\ p # 0 /\ p + 1 \in 0 .. n
  BY NextPart
<1>2. size = SizeOf(n, t) /\ count < Upto(n, t, p) /\ count \in Nat
  BY <1>1 DEF Short, TypeOK
<1>3. Expected = SizeOf(n, t) /\ Count = count + (IF p + 1 < n THEN Full ELSE t)
  BY <1>1, <1>2 DEF Expected, Count, Part
<1>4. /\ Upto(n, t, p + 1) = Upto(n, t, p) + (IF p + 1 < n THEN Full ELSE t)
      /\ Upto(n, t, p) \in Nat
  BY <1>1, UptoNext
<1>5. Upto(n, t, p + 1) <= SizeOf(n, t) /\ SizeOf(n, t) \in Nat
      /\ Upto(n, t, p + 1) \in Nat
  BY <1>1, UptoLess, SizeType
<1> QED
  BY <1>2, <1>3, <1>4, <1>5, FullType

\* One turn of the loop that stores its datagram
LEMMA StoreStep ==
  ASSUME TypeOK, Store, lost <= 1,
         NEW k \in 0 .. Numbers - 1, NEW n \in Nat \ {0}, NEW t \in 1 .. Full,
         NEW b \in BOOLEAN, NEW p \in 0 .. n, Joined(k, n, t, b, p),
         lost' = lost \/ Completes
  PROVE  /\ ~start' => OneFrame'
         /\ start' => Whole(k, n, t, b, p + 1)' \/ Short(n, t, p + 1)'
<1>1. wire # <<>> /\ wire' = Tail(wire) /\ threadRun /\ OnTheWay(k, n, t, b, p)
  BY DEF Store, Receiving, Read, Joined
<1>2. IsHeader <=> p = 0
  BY <1>1, NextPart
<1>3. CASE IsHeader
  BY <1>1, <1>2, <1>3, HeaderStep
<1>4. CASE ~IsHeader /\ Whole(k, n, t, b, p)
  BY <1>1, <1>4, WholeStep
<1>5. CASE ~IsHeader /\ Short(n, t, p)
  <2>1. Expected = SizeOf(n, t) /\ Count < Upto(n, t, p + 1) /\ Count < Expected
    BY <1>1, <1>5, ShortCount
  <2>2. Count # Expected
    BY <1>1, <2>1, FilledType
  <2>3. lost' = 1 /\ start' = TRUE
    BY <1>5, <2>2 DEF Store, Completes, Short
  <2>4. Short(n, t, p + 1)'
    BY <2>1, <2>3 DEF Store, Short
  <2> QED
    BY <2>3, <2>4
<1>6. ~IsHeader => start
  BY DEF Store
<1> QED
  BY <1>1, <1>3, <1>4, <1>5, <1>6 DEF Joined

\* What does not fit is not met with one loss.
LEMMA TooMuch ==
  ASSUME TypeOK, ReceiveTooMuch,
         NEW k \in 0 .. Numbers - 1, NEW n \in Nat \ {0}, NEW t \in 1 .. Full,
         NEW b \in BOOLEAN, NEW p \in 0 .. n, Joined(k, n, t, b, p)
  PROVE  lost > 1
<1> SUFFICES ASSUME lost <= 1
             PROVE  FALSE
  BY BoundsAssumption DEF TypeOK
<1>1. /\ wire # <<>> /\ wire' = Tail(wire) /\ threadRun /\ OnTheWay(k, n, t, b, p)
      /\ Count > Expected /\ (IsHeader \/ start)
  BY DEF ReceiveTooMuch, Receiving, Read, Joined
<1>2. /\ Packet = Part(k, n, t, b, p + 1) /\ p < n /\ p + 1 \in 0 .. n
      /\ IsHeader <=> p = 0
  BY <1>1, NextPart
<1>3. /\ Upto(n, t, p + 1) = Upto(n, t, p) + (IF p + 1 < n THEN Full ELSE t)
      /\ Upto(n, t, p + 1) <= SizeOf(n, t)
      /\ Upto(n, t, p + 1) \in Nat /\ SizeOf(n, t) \in Nat
  BY <1>2, UptoNext, UptoLess, SizeType
<1>4. CASE IsHeader
  <2>1. Upto(n, t, p) = 0
    BY <1>2, <1>4, FullType DEF Upto
  <2>2. Count = Packet.len /\ Expected = SizeOf(n, t)
    BY <1>1, <1>2, <1>4, HeadType DEF Count, Expected, Part
  <2> QED
    BY <1>1, <1>2, <1>3, <2>1, <2>2, FullType DEF Part
<1>5. CASE ~IsHeader /\ Whole(k, n, t, b, p)
  <2>1. Count = Upto(n, t, p + 1) /\ Expected = SizeOf(n, t)
    BY <1>2, <1>3, <1>5 DEF Whole, Count, Expected, Part
  <2> QED
    BY <1>1, <1>3, <2>1
<1>6. CASE ~IsHeader /\ Short(n, t, p)
  <2>1. Count < Expected
    BY <1>1, <1>6, ShortCount
  <2> QED
    BY <1>1, <2>1, FilledType
<1> QED
  BY <1>1, <1>4, <1>5, <1>6 DEF Joined

LEMMA ReceiveStep ==
  ASSUME TypeOK, TypeOK', Intact, Receive,
         NEW k \in 0 .. Numbers - 1, NEW n \in Nat \ {0}, NEW t \in 1 .. Full,
         NEW b \in BOOLEAN, NEW p \in 0 .. n, Joined(k, n, t, b, p)
  PROVE  p + 1 \in 0 .. n /\ Joined(k, n, t, b, p + 1)' /\ Intact'
<1> USE DEF panel, locals, gate
<1>1. wire # <<>> /\ wire' = Tail(wire)
  BY DEF Receive, ReceivePart, ReceiveShown, ReceiveKeyFrame, ReceiveUploaded,
         ReceiveAsks, ReceiveTooMuch, ReceiveUnknown, Completes, Store, Read, Receiving
<1>2. p + 1 \in 0 .. n /\ OnTheWay(k, n, t, b, p + 1)'
  BY <1>1, NextPart DEF Joined
<1>3. CASE Store /\ (lost' = lost \/ Completes)
  <2>1. lost <= 1 \/ lost' > 1
    <3>1. lost' = lost \/ lost' = lost + 1
      BY <1>3 DEF Receive, ReceivePart, ReceiveShown, ReceiveKeyFrame,
                  ReceiveUploaded, ReceiveAsks, ReceiveTooMuch, ReceiveUnknown
    <3> QED
      BY <3>1, BoundsAssumption DEF TypeOK
  <2>2. CASE lost <= 1
    <3>1. /\ ~start' => OneFrame'
          /\ start' => Whole(k, n, t, b, p + 1)' \/ Short(n, t, p + 1)'
      BY <1>3, <2>2, StoreStep
    <3> QED
      BY <1>2, <3>1 DEF Joined, Intact
  <2>3. CASE lost' > 1
    <3>1. ~(lost' <= 1)
      BY <2>3, BoundsAssumption DEF TypeOK
    <3> QED
      BY <1>2, <3>1 DEF Joined, Intact
  <2> QED
    BY <2>1, <2>2, <2>3
<1>4. CASE ReceiveTooMuch
  <2>1. lost > 1 /\ lost' = lost
    BY <1>4, TooMuch DEF ReceiveTooMuch
  <2>2. ~(lost' <= 1)
    BY <2>1, BoundsAssumption DEF TypeOK
  <2> QED
    BY <1>2, <2>2 DEF Joined, Intact
<1>5. CASE ReceiveUnknown
  <2>1. start' = start /\ ~start /\ buffer' = buffer /\ lost' = lost
    BY <1>5 DEF ReceiveUnknown
  <2> QED
    BY <1>2, <2>1 DEF Joined, Intact, OneFrame
<1> QED
  BY <1>3, <1>4, <1>5
     DEF Receive, ReceivePart, ReceiveShown, ReceiveKeyFrame, ReceiveUploaded,
         ReceiveAsks, Completes

-----------------------------------------------------------------------------
(* The other steps: the panel sends when nothing is on the way, one part   *)
(* is lost, a thread ends or begins.                                       *)

LEMMA SendFrameStep ==
  ASSUME TypeOK, FrameInv, SendFrame
  PROVE  FrameInv'
<1> USE DEF locals, gate
<1>0. PICK k \in 0 .. Numbers - 1 : k = number
  BY DEF TypeOK
<1>1. PICK n \in Counts, t \in 1 .. Full, b \in BOOLEAN :
        wire' = Frame(k, n, t, b)
  BY <1>0 DEF SendFrame
<1>2. n \in Nat \ {0} /\ 0 \in 0 .. n
  BY SizesAssumption
<1>3. /\ Len(wire') = n - 0
      /\ \A i \in 1 .. n - 0 : wire'[i] = Part(k, n, t, b, 0 + i)
  BY <1>1, <1>2, FrameParts
<1>4. UNCHANGED <<lost, threadRun, start, size, count, buffer>>
  BY DEF SendFrame
<1>5. ASSUME threadRun, start, lost <= 1
      PROVE  lost = 1
  <2>1. PICK l \in 0 .. Numbers - 1, m \in Nat \ {0}, u \in 1 .. Full, c \in BOOLEAN :
          \E p \in 0 .. m : Joined(l, m, u, c, p)
    BY DEF FrameInv
  <2>2. PICK p \in 0 .. m : Joined(l, m, u, c, p)
    BY <2>1
  <2>3. Len(wire) = 0 /\ Len(wire) = m - p
    BY <2>2 DEF SendFrame, Joined, OnTheWay
  <2> QED
    BY <1>5, <2>2, <2>3 DEF Joined, Whole, Short
<1>6. Joined(k, n, t, b, 0)'
  <2>1. OnTheWay(k, n, t, b, 0)'
    <3>1. \A i \in 1 .. n - 0 : wire'[i] = Part(k, n, t, b, 0 + i)
      BY <1>3
    <3> QED
      BY <1>3, <3>1 DEF OnTheWay
  <2> QED
    BY <1>4, <1>5, <2>1 DEF Joined, Short
<1> QED
  BY <1>2, <1>6 DEF FrameInv

LEMMA LoseStep ==
  ASSUME TypeOK, FrameInv, Intact, Lose
  PROVE  FrameInv' /\ Intact'
<1> USE DEF locals, gate, panel
<1>1. PICK k \in 0 .. Numbers - 1, n \in Nat \ {0}, t \in 1 .. Full, b \in BOOLEAN :
        \E p \in 0 .. n : Joined(k, n, t, b, p)
  BY DEF FrameInv
<1>2. PICK p \in 0 .. n : Joined(k, n, t, b, p)
  BY <1>1
<1>3. /\ wire # <<>> /\ wire' = Tail(wire) /\ lost' = lost + 1
      /\ UNCHANGED <<threadRun, start, size, count, buffer>>
  BY DEF Lose
<1>4. /\ p < n /\ p + 1 \in 0 .. n /\ OnTheWay(k, n, t, b, p + 1)'
  BY <1>2, <1>3, NextPart DEF Joined
<1>5. Intact'
  <2>1. lost' <= 1 => lost <= 1
    BY <1>3, BoundsAssumption DEF TypeOK
  <2> QED
    BY <1>3, <2>1 DEF Intact, OneFrame
<1>6. ASSUME threadRun', start', lost' <= 1
      PROVE  Short(n, t, p + 1)'
  <2>1. lost = 0 /\ lost' = 1
    BY <1>3, <1>6, BoundsAssumption DEF TypeOK
  <2>2. Whole(k, n, t, b, p)
    BY <1>2, <1>3, <1>6, <2>1 DEF Joined, Short
  <2>3. Upto(n, t, p) < Upto(n, t, p + 1)
    <3>1. /\ Upto(n, t, p) \in Nat
          /\ Upto(n, t, p + 1) = Upto(n, t, p) + (IF p + 1 < n THEN Full ELSE t)
      BY <1>1, <1>2, <1>4, UptoNext
    <3> QED
      BY <1>1, <3>1, FullType
  <2> QED
    BY <1>3, <2>1, <2>2, <2>3 DEF Whole, Short
<1>7. Joined(k, n, t, b, p + 1)'
  BY <1>4, <1>6 DEF Joined
<1> QED
  BY <1>4, <1>5, <1>7 DEF FrameInv

\* Nothing on the way, for a thread that has not begun
LEMMA NothingJoined ==
  ASSUME wire' = <<>>, ~(threadRun' /\ start')
  PROVE  FrameInv'
<1>1. 0 \in 0 .. Numbers - 1 /\ 1 \in Nat \ {0} /\ 1 \in 1 .. Full /\ 1 \in 0 .. 1
  BY FullType
<1>2. Joined(0, 1, 1, TRUE, 1)'
  <2>1. Len(wire') = 1 - 1 /\ 1 .. 1 - 1 = {}
    OBVIOUS
  <2>2. OnTheWay(0, 1, 1, TRUE, 1)'
    BY <2>1 DEF OnTheWay
  <2> QED
    BY <2>2 DEF Joined
<1> QED
  BY <1>1, <1>2 DEF FrameInv

LEMMA Inductive == IInv /\ [Next]_vars => IInv'
<1> SUFFICES ASSUME IInv, [Next]_vars
             PROVE  IInv'
  OBVIOUS
<1> USE DEF locals, gate, panel
<1>1. TypeOK /\ FrameInv /\ Intact /\ TypeOK'
  BY NextType DEF IInv
<1>2. ASSUME UNCHANGED <<wire, lost, start, size, count, buffer>>,
             threadRun' => threadRun
      PROVE  FrameInv' /\ Intact'
  <2>1. Intact'
    BY <1>1, <1>2 DEF Intact, OneFrame
  <2>2. ASSUME NEW k \in 0 .. Numbers - 1, NEW n \in Nat \ {0}, NEW t \in 1 .. Full,
               NEW b \in BOOLEAN, NEW p \in 0 .. n, Joined(k, n, t, b, p)
        PROVE  Joined(k, n, t, b, p)'
    BY <1>2, <2>2 DEF Joined, OnTheWay, Whole, Short
  <2>3. FrameInv'
    BY <1>1, <2>2 DEF FrameInv
  <2> QED
    BY <2>1, <2>3
<1>3. CASE SendFrame
  <2>1. Intact'
    BY <1>1, <1>3 DEF SendFrame, Intact, OneFrame
  <2> QED
    BY <1>1, <1>3, <2>1, SendFrameStep DEF IInv
<1>4. CASE Lose
  BY <1>1, <1>4, LoseStep DEF IInv
<1>5. CASE NotJoined
  <2>1. FrameInv'
    BY <1>5, NothingJoined DEF NotJoined
  <2>2. Intact'
    BY <1>1, <1>5 DEF NotJoined, Intact, OneFrame
  <2> QED
    BY <1>1, <2>1, <2>2 DEF IInv
<1>6. CASE Open \/ Close \/ Viewers \/ ThreadEnd \/ UNCHANGED vars
  <2>1. /\ UNCHANGED <<wire, lost, start, size, count, buffer>>
        /\ threadRun' => threadRun
    BY <1>6 DEF Open, Close, Viewers, ThreadEnd, vars
  <2> QED
    BY <1>1, <1>2, <2>1 DEF IInv
<1>7. CASE ThreadBegin
  <2>1. start' = FALSE /\ buffer' = <<>> /\ wire' = wire
    BY <1>7 DEF ThreadBegin
  <2>2. Intact'
    BY <2>1 DEF Intact, OneFrame
  <2>3. ASSUME NEW k \in 0 .. Numbers - 1, NEW n \in Nat \ {0}, NEW t \in 1 .. Full,
               NEW b \in BOOLEAN, NEW p \in 0 .. n, Joined(k, n, t, b, p)
        PROVE  Joined(k, n, t, b, p)'
    BY <2>1, <2>3 DEF Joined, OnTheWay
  <2>4. FrameInv'
    BY <1>1, <2>3 DEF FrameInv
  <2> QED
    BY <1>1, <2>2, <2>4 DEF IInv
<1>8. CASE Receive
  <2>1. PICK k \in 0 .. Numbers - 1, n \in Nat \ {0}, t \in 1 .. Full, b \in BOOLEAN :
          \E p \in 0 .. n : Joined(k, n, t, b, p)
    BY <1>1 DEF FrameInv
  <2>2. PICK p \in 0 .. n : Joined(k, n, t, b, p)
    BY <2>1
  <2>3. p + 1 \in 0 .. n /\ Joined(k, n, t, b, p + 1)' /\ Intact'
    BY <1>1, <1>8, <2>2, ReceiveStep
  <2>4. FrameInv'
    BY <2>3 DEF FrameInv
  <2> QED
    BY <1>1, <2>3, <2>4 DEF IInv
<1> QED
  BY <1>3, <1>4, <1>5, <1>6, <1>7, <1>8 DEF Next

LEMMA InitInvariant == Init => IInv
<1> SUFFICES ASSUME Init
             PROVE  IInv
  OBVIOUS
<1>1. 0 \in 0 .. Numbers - 1 /\ 1 \in Nat \ {0} /\ 1 \in 1 .. Full /\ 1 \in 0 .. 1
  BY FullType
<1>2. Joined(0, 1, 1, TRUE, 1)
  <2>1. Len(wire) = 1 - 1 /\ 1 .. 1 - 1 = {} /\ ~start
    BY DEF Init
  <2>2. OnTheWay(0, 1, 1, TRUE, 1)
    BY <2>1 DEF OnTheWay
  <2> QED
    BY <2>1, <2>2 DEF Joined
<1>3. FrameInv
  BY <1>1, <1>2 DEF FrameInv
<1>4. Intact
  BY DEF Init, Intact, OneFrame
<1> QED
  BY <1>3, <1>4, InitType DEF IInv

\* The invariant over all steps: types, how the datagrams on the way continue what
\* is in the buffer of the receive thread, and Intact itself.
THEOREM Invariant == Spec => []IInv
BY InitInvariant, Inductive, PTL DEF Spec

\* Although the receive loop compares nothing but lengths, with one datagram lost
\* at most it never hands on a frame made of parts of two.
THEOREM HandsOnFrames == Spec => []Intact
<1>1. IInv => Intact
  BY DEF IInv
<1> QED
  BY <1>1, Invariant, PTL

-----------------------------------------------------------------------------
(* The sound.                                                              *)

\* What holds however late a thread is: a thread has a frame or a node exactly
\* while it works on it, a socket has its thread, and a closed call wants no thread.
FrameHeld == \A t \in Threads : frame[t] # NoGroup <=> inPc[t] = "frame"
NodeHeld == \A t \in Threads : node[t] # NoGroup <=> pc[t] = "write"
SocketServed == socket # NoGroup => \E t \in Threads : inPc[t] \in {"loop", "frame"}
Closed == ~status /\ opener \in {"idle", "receive"} => ~task /\ ~inTask
OpensCall == opener = "receive" => ~status
Life == FrameHeld /\ NodeHeld /\ SocketServed /\ Closed /\ OpensCall

\* The receiving thread: it is alone and there during a call, its flags tell of
\* it, and a socket and a frame belong to the group of the call.
InAlone == \A t, u \in Threads : inPc[t] # "none" /\ inPc[u] # "none" => t = u
InFlags == \A t \in Threads :
  /\ inPc[t] = "begin" => inTask
  /\ inPc[t] \in {"join", "loop", "frame", "exit"} => inRun
  /\ inPc[t] = "exit" => ~inTask
SocketOwned == socket # NoGroup => socket = group
FrameOwned == \A t \in Threads : frame[t] # NoGroup => frame[t] = group
InServed == inTask => \E t \in Threads : inPc[t] # "none"
InOpens == status \/ opener \in {"decode", "start"} => inTask
RInv == InAlone /\ InFlags /\ SocketOwned /\ FrameOwned /\ InServed /\ InOpens

\* The worker: it is alone, its flags tell of it, it ends with the queue empty.
Alone == \A t, u \in Threads : pc[t] # "none" /\ pc[u] # "none" => t = u
Flags == \A t \in Threads :
  /\ pc[t] = "begin" => task
  /\ pc[t] \in {"loop", "write", "mute", "exit"} => run
  /\ pc[t] \in {"mute", "exit"} => ~task
  /\ pc[t] = "exit" => queue = <<>> /\ ~ready
Left == ~task /\ ~run => queue = <<>> /\ ~ready
Own == task => /\ \A i \in DOMAIN queue : queue[i] = group
               /\ \A t \in Threads : node[t] \in {NoGroup, group}
Takes == task /\ opener # "start" => ready
Starts == opener = "start" => task
Decodes == status /\ opener = "idle" /\ ~want.mobile => task
Served == task => \E t \in Threads : pc[t] # "none"
DInv == Alone /\ Flags /\ Left /\ Own /\ Takes /\ Starts /\ Decodes /\ Served

AudioInv == AudioTypeOK /\ Life /\ (OnTime => RInv /\ DInv)

-----------------------------------------------------------------------------
(* Types.                                                                  *)

LEMMA RoomIsRoom ==
  ASSUME AudioTypeOK, Room
  PROVE  Len(queue) + 1 <= QueueMax
<1> DEFINE busy == {t \in Threads : node[t] # NoGroup}
<1>1. IsFiniteSet(busy)
  BY ThreadsAssumption, FS_Subset
<1>2. Cardinality(busy) \in Nat
  BY <1>1, FS_CardinalityType
<1>3. Len(queue) + Cardinality(busy) < QueueMax
  BY DEF Room
<1>4. Len(queue) \in Nat /\ QueueMax \in Nat
  BY QueueAssumption DEF AudioTypeOK
<1> HIDE DEF busy
<1> QED
  BY <1>2, <1>3, <1>4

LEMMA OpeningType ==
  ASSUME AudioTypeOK, Opening \/ PlayOpen \/ TalkClose
                 \/ \E g \in Groups, mobile \in BOOLEAN : TalkOpen(g, mobile)
  PROVE  AudioTypeOK'
<1> USE DEF incoming, decoder, history
<1>1. CASE \E g \in Groups, mobile \in BOOLEAN : TalkOpen(g, mobile)
  BY <1>1 DEF TalkOpen, AudioTypeOK
<1>2. CASE ReceiveRefused \/ \E t \in Threads : ReceiveOpen(t)
  <2>1. want' \in [to : Groups \cup {NoGroup}, mobile : BOOLEAN]
    BY <1>2 DEF ReceiveRefused, ReceiveOpen, ReceiveAsked, AudioTypeOK
  <2> QED
    BY <1>2, <2>1 DEF ReceiveRefused, ReceiveOpen, ReceiveAsked, AudioTypeOK, InSteps
<1>3. CASE \E t \in Threads : DecodeOpen(t)
  BY <1>3 DEF DecodeOpen, AudioTypeOK, Steps
<1>4. CASE DecodeIsOpen \/ DecodeTimeout \/ DecodeStart
  BY <1>4 DEF DecodeIsOpen, DecodeTimeout, DecodeStart, AudioTypeOK
<1>5. CASE PlayOpen
  BY <1>5 DEF PlayOpen, Nothing, AudioTypeOK
<1>6. CASE TalkClose
  BY <1>6 DEF TalkClose, Nothing, AudioTypeOK
<1> QED
  BY <1>1, <1>2, <1>3, <1>4, <1>5, <1>6 DEF Opening

LEMMA ReceiverType ==
  ASSUME AudioTypeOK, Life, NEW t \in Threads, Receiver(t)
  PROVE  AudioTypeOK'
<1> USE DEF client, decoder, history
<1>1. CASE InBegin(t) \/ Join(t) \/ Arrive(t) \/ ToApplication(t) \/ InStop(t) \/ InExit(t)
  <2>1. /\ inPc' \in [Threads -> InSteps]
        /\ inRun' \in BOOLEAN
        /\ socket' \in Groups \cup {NoGroup}
        /\ frame' \in [Threads -> Groups \cup {NoGroup}]
    BY <1>1 DEF InBegin, Join, Arrive, ToApplication, InStop, InExit, InGoto, AudioTypeOK, InSteps
  <2>2. UNCHANGED <<group, status, opener, want, inTask, decoder, history>>
    BY <1>1 DEF InBegin, Join, Arrive, ToApplication, InStop, InExit
  <2> QED
    BY <2>1, <2>2 DEF AudioTypeOK
<1>2. CASE Push(t)
  <2>1. /\ inPc' \in [Threads -> InSteps] /\ frame' \in [Threads -> Groups \cup {NoGroup}]
        /\ UNCHANGED <<group, status, opener, want, inTask, inRun, socket,
                       task, run, ready, pc, node, history>>
    BY <1>2 DEF Push, InGoto, AudioTypeOK, InSteps
  <2>2. queue' \in Seq(Groups) /\ Len(queue') <= QueueMax
    <3>1. CASE ready /\ Room
      <4>1. frame[t] \in Groups
        BY <1>2 DEF Push, InGoto, Life, FrameHeld, AudioTypeOK
      <4>2. queue' = Append(queue, frame[t]) /\ queue \in Seq(Groups)
        BY <1>2, <3>1 DEF Push, AudioTypeOK
      <4>3. queue' \in Seq(Groups) /\ Len(queue') = Len(queue) + 1
        BY <4>1, <4>2
      <4> QED
        BY <3>1, <4>3, RoomIsRoom
    <3>2. CASE ~(ready /\ Room)
      BY <1>2, <3>2 DEF Push, AudioTypeOK
    <3> QED
      BY <3>1, <3>2
  <2> QED
    BY <2>1, <2>2 DEF AudioTypeOK
<1> QED
  BY <1>1, <1>2 DEF Receiver

LEMMA WorkerType ==
  ASSUME AudioTypeOK, NEW t \in Threads, Worker(t)
  PROVE  AudioTypeOK'
<1> USE DEF client, incoming, history
<1>1. CASE Take(t)
  <2>1. queue \in Seq(Groups) /\ queue # <<>> /\ queue' = Tail(queue)
        /\ Len(queue) <= QueueMax
    BY <1>1 DEF Take, AudioTypeOK
  <2>2. Head(queue) \in Groups /\ queue' \in Seq(Groups) /\ Len(queue') = Len(queue) - 1
    BY <2>1
  <2>3. Len(queue') <= QueueMax
    BY <2>1, <2>2, QueueAssumption
  <2>4. node' \in [Threads -> Groups \cup {NoGroup}] /\ pc' \in [Threads -> Steps]
    BY <1>1, <2>2 DEF Take, PcGoto, Steps, AudioTypeOK
  <2> QED
    BY <1>1, <2>2, <2>3, <2>4 DEF Take, AudioTypeOK
<1>2. CASE Drain(t)
  <2>1. queue' = <<>> /\ pc' \in [Threads -> Steps]
    BY <1>2 DEF Drain, PcGoto, Steps, AudioTypeOK
  <2>2. queue' \in Seq(Groups) /\ Len(queue') <= QueueMax
    BY <2>1, QueueAssumption
  <2>3. /\ ready' = FALSE
        /\ UNCHANGED <<group, client, incoming, task, run, node, history>>
    BY <1>2 DEF Drain
  <2>4. node' = node /\ UNCHANGED <<group, client, incoming, task, run, history>>
    BY <2>3
  <2> QED
    BY <2>1, <2>2, <2>3, <2>4 DEF AudioTypeOK, client, incoming, history
<1>3. CASE Begin(t) \/ Write(t) \/ Stop(t) \/ Exit(t)
  <2>1. /\ pc' \in [Threads -> Steps] /\ node' \in [Threads -> Groups \cup {NoGroup}]
        /\ run' \in BOOLEAN
    BY <1>3 DEF Begin, Write, Stop, Exit, PcGoto, Steps, AudioTypeOK
  <2>2. UNCHANGED <<group, client, incoming, task, ready, queue, history>>
    BY <1>3 DEF Begin, Write, Stop, Exit
  <2> QED
    BY <2>1, <2>2 DEF AudioTypeOK
<1> QED
  BY <1>1, <1>2, <1>3 DEF Worker

LEMMA AudioNextType ==
  ASSUME AudioTypeOK, Life, AudioNext
  PROVE  AudioTypeOK'
BY OpeningType, ReceiverType, WorkerType DEF AudioNext

\* The steps of the LVGL thread.
Acting == Opening \/ PlayOpen \/ TalkClose
          \/ \E g \in Groups, mobile \in BOOLEAN : TalkOpen(g, mobile)

LEMMA LifeStays ==
  ASSUME AudioTypeOK, Life, AudioNext
  PROVE  Life'
<1> USE DEF AudioTypeOK, Life
<1>1. CASE \E t \in Threads : Receiver(t)
  <2>1. PICK t \in Threads : Receiver(t)
    BY <1>1
  <2>2. UNCHANGED <<status, opener, task, inTask, pc, node>>
    BY <2>1 DEF Receiver, InBegin, Join, Arrive, ToApplication, Push, InStop, InExit, client, decoder
  <2>3. NodeHeld' /\ Closed' /\ OpensCall'
    BY <2>2 DEF NodeHeld, Closed, OpensCall
  <2>4. FrameHeld'
    BY <2>1 DEF Receiver, InBegin, Join, Arrive, ToApplication, Push, InStop, InExit, InGoto,
       FrameHeld
  <2>5. SocketServed'
    BY <2>1 DEF Receiver, InBegin, Join, Arrive, ToApplication, Push, InStop, InExit, InGoto,
       SocketServed
  <2> QED
    BY <2>3, <2>4, <2>5
<1>2. CASE \E t \in Threads : Worker(t)
  <2>1. PICK t \in Threads : Worker(t)
    BY <1>2
  <2>2. UNCHANGED <<status, opener, task, inTask, inPc, frame, socket>>
    BY <2>1 DEF Worker, Begin, Take, Write, Stop, Drain, Exit, client, incoming
  <2>3. FrameHeld' /\ SocketServed' /\ Closed' /\ OpensCall'
    BY <2>2 DEF FrameHeld, SocketServed, Closed, OpensCall
  <2>4. CASE Take(t)
    <3>1. Head(queue) # NoGroup
      <4>1. queue \in Seq(Groups) /\ queue # <<>>
        BY <2>4 DEF Take
      <4>2. Head(queue) \in Groups
        BY <4>1
      <4> QED
        BY <4>2, GroupsAssumption
    <3>2. pc' = [pc EXCEPT ![t] = "write"] /\ \E x : x = Head(queue) /\ node' = [node EXCEPT ![t] = x]
      BY <2>4 DEF Take, PcGoto
    <3>3. NodeHeld'
      BY <3>1, <3>2 DEF NodeHeld
    <3> QED
      BY <2>3, <3>3
  <2>5. CASE ~Take(t)
    <3>1. NodeHeld'
      BY <2>1, <2>5 DEF Worker, Begin, Write, Stop, Drain, Exit, PcGoto, NodeHeld
    <3> QED
      BY <2>3, <3>1
  <2> QED
    BY <2>4, <2>5
<1>3. CASE Acting
  <2>1. UNCHANGED <<frame, socket, node>>
    BY <1>3 DEF Acting, Opening, TalkOpen, ReceiveOpen, ReceiveRefused, DecodeOpen, DecodeIsOpen,
       DecodeTimeout, DecodeStart, PlayOpen, TalkClose, incoming, decoder
  <2>2. \A t \in Threads : inPc'[t] = inPc[t] \/ (inPc[t] = "none" /\ inPc'[t] = "begin")
    BY <1>3 DEF Acting, Opening, TalkOpen, ReceiveOpen, ReceiveRefused, DecodeOpen, DecodeIsOpen,
       DecodeTimeout, DecodeStart, PlayOpen, TalkClose, incoming
  <2>3. \A t \in Threads : pc'[t] = pc[t] \/ (pc[t] = "none" /\ pc'[t] = "begin")
    BY <1>3 DEF Acting, Opening, TalkOpen, ReceiveOpen, ReceiveRefused, DecodeOpen, DecodeIsOpen,
       DecodeTimeout, DecodeStart, PlayOpen, TalkClose, decoder
  <2>4. FrameHeld' /\ SocketServed'
    BY <2>1, <2>2 DEF FrameHeld, SocketServed
  <2>5. NodeHeld'
    BY <2>1, <2>3 DEF NodeHeld
  <2>6. Closed' /\ OpensCall'
    BY <1>3 DEF Acting, Opening, TalkOpen, ReceiveOpen, ReceiveRefused, ReceiveAsked, DecodeOpen,
       DecodeIsOpen, DecodeTimeout, DecodeStart, PlayOpen, TalkClose, incoming,
       decoder, Closed, OpensCall
  <2> QED
    BY <2>4, <2>5, <2>6
<1> QED
  BY <1>1, <1>2, <1>3 DEF AudioNext, Acting

-----------------------------------------------------------------------------
(* The receiving thread.                                                   *)

LEMMA ReceiverKeepsR ==
  ASSUME AudioTypeOK, Life, RInv, NEW t \in Threads, Receiver(t)
  PROVE  RInv'
<1> USE DEF AudioTypeOK, RInv
<1>1. UNCHANGED <<group, inTask, status, opener>>
  BY DEF Receiver, InBegin, Join, Arrive, ToApplication, Push, InStop, InExit, client
<1>2. /\ inPc[t] # "none"
      /\ \A u \in Threads : u # t => inPc'[u] = inPc[u] /\ inPc[u] = "none"
                                    /\ frame'[u] = frame[u]
  BY DEF Receiver, InBegin, Join, Arrive, ToApplication, Push, InStop, InExit, InGoto, InAlone
<1>3. InAlone' /\ InOpens'
  BY <1>1, <1>2 DEF InAlone, InOpens
<1>4. InFlags'
  BY <1>1, <1>2 DEF Receiver, InBegin, Join, Arrive, ToApplication, Push, InStop, InExit, InGoto,
     InFlags
<1>5. SocketOwned'
  BY <1>1, <1>2 DEF Receiver, InBegin, Join, Arrive, ToApplication, Push, InStop, InExit, InGoto,
     SocketOwned
<1>6. FrameOwned'
  BY <1>1, <1>2 DEF Receiver, InBegin, Join, Arrive, ToApplication, Push, InStop, InExit, InGoto,
     FrameOwned, SocketOwned
<1>7. InServed'
  <2>1. inTask => inPc'[t] # "none"
    BY DEF Receiver, InBegin, Join, Arrive, ToApplication, Push, InStop, InExit, InGoto, InFlags
  <2> QED
    BY <1>1, <2>1 DEF InServed
<1> QED
  BY <1>3, <1>4, <1>5, <1>6, <1>7

\* An open finds nothing of the call before.
LEMMA ReceiveOpenKeepsR ==
  ASSUME AudioTypeOK, Life, RInv, NEW t \in Threads, ReceiveOpen(t)
  PROVE  RInv'
<1> USE DEF AudioTypeOK, RInv
<1>1. \A u \in Threads : inPc[u] = "none"
  BY DEF ReceiveOpen, InFlags, InSteps
<1>2. socket = NoGroup /\ \A u \in Threads : frame[u] = NoGroup
  BY <1>1 DEF Life, SocketServed, FrameHeld
<1>3. inPc' = [inPc EXCEPT ![t] = "begin"] /\ inTask' = TRUE /\ UNCHANGED <<inRun, socket, frame>>
  BY DEF ReceiveOpen
<1> QED
  BY <1>1, <1>2, <1>3 DEF InAlone, InFlags, SocketOwned, FrameOwned, InServed, InOpens

\* A call that begins when everything is quiet has nothing to fear of those before.
LEMMA QuietKeepsR ==
  ASSUME AudioTypeOK, Life, NEW g \in Groups, NEW b \in BOOLEAN, TalkOpen(g, b), Quiet
  PROVE  RInv'
<1>1. ~status' /\ opener' = "receive" /\ UNCHANGED <<group, inTask, inRun, inPc, socket, frame>>
  BY DEF TalkOpen, incoming, AudioTypeOK
<1>2. ~inTask /\ \A t \in Threads : inPc[t] = "none"
  BY DEF TalkOpen, Life, Closed, Quiet, Ended
<1>3. socket = NoGroup /\ \A t \in Threads : frame[t] = NoGroup
  BY <1>2 DEF Life, SocketServed, FrameHeld
<1> QED
  BY <1>1, <1>2, <1>3 DEF RInv, InAlone, InFlags, SocketOwned, FrameOwned, InServed, InOpens

LEMMA NextKeepsR ==
  ASSUME AudioTypeOK, Life, RInv, AudioNext, OnTime'
  PROVE  RInv'
<1>1. CASE \E t \in Threads : Receiver(t) \/ ReceiveOpen(t)
  BY <1>1, ReceiverKeepsR, ReceiveOpenKeepsR
<1>2. CASE TalkClose
  <2>1. inTask' = FALSE /\ \A t \in Threads : inPc[t] # "begin"
    BY <1>2 DEF TalkClose, OnTime
  <2> QED
    BY <1>2, <2>1 DEF TalkClose, RInv, InAlone, InFlags, SocketOwned, FrameOwned, InServed, InOpens
<1>3. CASE ~(TalkClose \/ \E t \in Threads : Receiver(t) \/ ReceiveOpen(t))
  <2>0. ~ReceiveRefused /\ ~DecodeTimeout
    BY DEF ReceiveRefused, DecodeTimeout, OnTime
  <2>1. UNCHANGED <<group, inTask, inRun, inPc, socket, frame>>
    BY <1>3, <2>0 DEF AudioNext, Opening, TalkOpen, PlayOpen, DecodeIsOpen, DecodeStart,
       DecodeOpen, Worker, Begin, Take, Write, Stop, Drain, Exit, incoming
  <2>2. InAlone' /\ InFlags' /\ SocketOwned' /\ FrameOwned' /\ InServed'
    BY <2>1 DEF RInv, InAlone, InFlags, SocketOwned, FrameOwned, InServed
  <2>3. InOpens'
    BY <1>3, <2>0, <2>1 DEF AudioNext, Opening, TalkOpen, PlayOpen, DecodeIsOpen, DecodeStart,
       DecodeOpen, Worker, Begin, Take, Write, Stop, Drain, Exit, client, RInv,
       InOpens, AudioTypeOK
  <2> QED
    BY <2>2, <2>3 DEF RInv
<1> QED
  BY <1>1, <1>2, <1>3

-----------------------------------------------------------------------------
(* The worker.                                                             *)

LEMMA WorkerKeepsD ==
  ASSUME AudioTypeOK, DInv, NEW t \in Threads, Worker(t)
  PROVE  DInv'
<1> USE DEF AudioTypeOK, DInv
<1>1. UNCHANGED <<group, status, opener, want, task>>
  BY DEF Worker, Begin, Take, Write, Stop, Drain, Exit, client
<1>2. /\ pc[t] # "none"
      /\ \A u \in Threads : u # t => pc'[u] = pc[u] /\ pc[u] = "none" /\ node'[u] = node[u]
  BY DEF Worker, Begin, Take, Write, Stop, Drain, Exit, PcGoto, Alone
<1>3. Alone'
  BY <1>2 DEF Alone
<1>4. Starts' /\ Decodes'
  BY <1>1 DEF Starts, Decodes
<1>5. CASE Begin(t)
  <2>1. pc' = [pc EXCEPT ![t] = "loop"] /\ run' = TRUE /\ UNCHANGED <<ready, node, queue>>
        /\ pc[t] = "begin"
    BY <1>5 DEF Begin, PcGoto
  <2> QED
    BY <1>1, <1>2, <1>3, <1>4, <2>1 DEF Flags, Left, Own, Takes, Served
<1>6. CASE Take(t)
  <2>1. /\ pc' = [pc EXCEPT ![t] = "write"] /\ pc[t] = "loop" /\ task /\ queue # <<>>
        /\ node' = [node EXCEPT ![t] = Head(queue)] /\ queue' = Tail(queue)
        /\ UNCHANGED <<run, ready>>
    BY <1>6 DEF Take, PcGoto
  <2>2. Head(queue) = group /\ Head(queue) # NoGroup /\ \A i \in DOMAIN queue' : queue'[i] = group
    <3>1. queue \in Seq(Groups) /\ \A i \in DOMAIN queue : queue[i] = group
      BY <2>1 DEF Own
    <3>2. Head(queue) = queue[1] /\ 1 \in DOMAIN queue /\ Head(queue) \in Groups
      BY <2>1, <3>1
    <3>3. \A i \in DOMAIN Tail(queue) : i + 1 \in DOMAIN queue /\ Tail(queue)[i] = queue[i + 1]
      BY <2>1, <3>1
    <3> QED
      BY <2>1, <3>1, <3>2, <3>3, GroupsAssumption
  <2>3. Flags'
    BY <1>1, <1>2, <2>1, <2>2 DEF Flags
  <2>4. Own'
    BY <1>1, <2>1, <2>2 DEF Own
  <2> QED
    BY <1>1, <1>3, <1>4, <2>1, <2>3, <2>4 DEF Left, Takes, Served
<1>7. CASE Write(t)
  <2>1. pc' = [pc EXCEPT ![t] = "loop"] /\ pc[t] = "write"
        /\ node' = [node EXCEPT ![t] = NoGroup] /\ UNCHANGED <<run, ready, queue>>
    BY <1>7 DEF Write, PcGoto
  <2> QED
    BY <1>1, <1>2, <1>3, <1>4, <2>1 DEF Flags, Left, Own, Takes, Served
<1>8. CASE Stop(t)
  <2>1. pc' = [pc EXCEPT ![t] = "mute"] /\ pc[t] = "loop" /\ ~task
        /\ UNCHANGED <<node, run, ready, queue>>
    BY <1>8 DEF Stop, PcGoto
  <2> QED
    BY <1>1, <1>2, <1>3, <1>4, <2>1 DEF Flags, Left, Own, Takes, Served
<1>9. CASE Drain(t)
  <2>1. pc' = [pc EXCEPT ![t] = "exit"] /\ pc[t] = "mute" /\ ready' = FALSE /\ queue' = <<>>
        /\ UNCHANGED <<node, run>>
    BY <1>9 DEF Drain, PcGoto
  <2>2. ~task
    BY <2>1 DEF Flags
  <2> QED
    BY <1>1, <1>2, <1>3, <1>4, <2>1, <2>2 DEF Flags, Left, Own, Takes, Served
<1>10. CASE Exit(t)
  <2>1. pc' = [pc EXCEPT ![t] = "none"] /\ pc[t] = "exit" /\ run' = FALSE
        /\ UNCHANGED <<node, ready, queue>>
    BY <1>10 DEF Exit, PcGoto
  <2>2. ~task /\ queue = <<>> /\ ~ready
    BY <2>1 DEF Flags
  <2> QED
    BY <1>1, <1>2, <1>3, <1>4, <2>1, <2>2 DEF Flags, Left, Own, Takes, Served
<1> QED
  BY <1>5, <1>6, <1>7, <1>8, <1>9, <1>10 DEF Worker

\* A frame that is queued for a call is of its group; a worker that ends gets none.
LEMMA PushKeepsD ==
  ASSUME AudioTypeOK, Life, RInv, DInv, NEW t \in Threads, Push(t)
  PROVE  DInv'
<1>1. UNCHANGED <<group, status, opener, want, task, run, ready, pc, node>>
  BY DEF Push, client
<1>2. Alone' /\ Takes' /\ Starts' /\ Decodes' /\ Served'
  BY <1>1 DEF DInv, Alone, Takes, Starts, Decodes, Served
<1>3. CASE ready /\ Room
  <2>1. frame[t] = group /\ queue' = Append(queue, frame[t])
    BY <1>3 DEF Push, InGoto, Life, FrameHeld, RInv, FrameOwned
  <2>2. queue \in Seq(Groups) /\ group \in Groups \cup {NoGroup}
    BY DEF AudioTypeOK
  <2>3. task => \A i \in DOMAIN queue' : queue'[i] = group
    BY <2>1, <2>2 DEF DInv, Own
  <2>4. Own'
    BY <1>1, <2>3 DEF DInv, Own
  <2>5. Flags' /\ Left'
    BY <1>1, <1>3 DEF DInv, Flags, Left
  <2> QED
    BY <1>2, <2>4, <2>5 DEF DInv
<1>4. CASE ~(ready /\ Room)
  <2>1. queue' = queue
    BY <1>4 DEF Push
  <2>2. Flags' /\ Left' /\ Own'
    BY <1>1, <2>1 DEF DInv, Flags, Left, Own
  <2> QED
    BY <1>2, <2>2 DEF DInv
<1> QED
  BY <1>3, <1>4

LEMMA DecodeOpenKeepsD ==
  ASSUME AudioTypeOK, Life, DInv, NEW t \in Threads, DecodeOpen(t)
  PROVE  DInv'
<1> USE DEF AudioTypeOK, DInv
<1>1. ~task /\ ~run /\ opener = "decode" /\ task' = TRUE /\ ready' = FALSE
      /\ opener' = "start" /\ pc' = [pc EXCEPT ![t] = "begin"]
      /\ UNCHANGED <<group, status, run, node, queue>>
  BY DEF DecodeOpen
<1>2. queue = <<>> /\ \A u \in Threads : pc[u] = "none" /\ node[u] = NoGroup
  BY <1>1 DEF Left, Flags, Steps, Life, NodeHeld
<1> QED
  BY <1>1, <1>2 DEF Alone, Flags, Left, Own, Takes, Starts, Decodes, Served

LEMMA TalkCloseKeepsD ==
  ASSUME AudioTypeOK, DInv, TalkClose, ~late'
  PROVE  DInv'
<1> USE DEF AudioTypeOK, DInv
<1>1. opener = "idle" /\ status /\ task' = FALSE /\ status' = FALSE
      /\ UNCHANGED <<group, opener, run, ready, pc, node, queue>>
      /\ \A t \in Threads : pc[t] # "begin"
  BY DEF TalkClose
<1>2. Left'
  <2>1. CASE task
    <3>1. PICK t \in Threads : pc[t] # "none"
      BY <2>1 DEF Served
    <3>2. run
      BY <1>1, <3>1 DEF Flags, Steps
    <3> QED
      BY <1>1, <3>2 DEF Left
  <2>2. CASE ~task
    BY <1>1, <2>2 DEF Left
  <2> QED
    BY <2>1, <2>2
<1> QED
  BY <1>1, <1>2 DEF Alone, Flags, Own, Takes, Starts, Decodes, Served

LEMMA OpenerKeepsD ==
  ASSUME AudioTypeOK, Life, DInv,
         \/ \E g \in Groups, mobile \in BOOLEAN : TalkOpen(g, mobile)
         \/ \E t \in Threads : ReceiveOpen(t)
         \/ DecodeIsOpen \/ DecodeStart \/ PlayOpen
  PROVE  DInv'
<1>1. UNCHANGED <<task, run, pc, node, queue>>
  BY DEF TalkOpen, ReceiveOpen, DecodeIsOpen, DecodeStart, PlayOpen, decoder
<1>2. Alone' /\ Served'
  BY <1>1 DEF DInv, Alone, Served
<1>3. Own'
  <2>1. CASE \E t \in Threads : ReceiveOpen(t)
    BY <1>1, <2>1 DEF ReceiveOpen, DInv, Own, Life, Closed, OpensCall
  <2>2. CASE ~(\E t \in Threads : ReceiveOpen(t))
    <3>1. group' = group
      BY <2>2 DEF TalkOpen, DecodeIsOpen, DecodeStart, PlayOpen
    <3> QED
      BY <1>1, <3>1 DEF DInv, Own
  <2> QED
    BY <2>1, <2>2
<1>4. CASE DecodeStart
  <2>1. task /\ opener' = "idle"
    BY <1>4 DEF DecodeStart, DInv, Starts
  <2>2. Flags' /\ Left'
    BY <1>1, <2>1 DEF DInv, Flags, Left
  <2>3. ready' = TRUE
    BY <1>4 DEF DecodeStart
  <2>4. Takes' /\ Starts' /\ Decodes'
    BY <1>1, <2>1, <2>3 DEF Takes, Starts, Decodes
  <2> QED
    BY <1>2, <1>3, <2>2, <2>4 DEF DInv
<1>5. CASE ~DecodeStart
  <2>1. ready' = ready
    BY <1>5 DEF TalkOpen, ReceiveOpen, DecodeIsOpen, PlayOpen, decoder
  <2>2. Flags' /\ Left'
    BY <1>1, <2>1 DEF DInv, Flags, Left
  <2>3. Takes' /\ Starts' /\ Decodes'
    BY <1>1, <1>5, <2>1 DEF TalkOpen, ReceiveOpen, ReceiveAsked, DecodeIsOpen,
       PlayOpen, DInv, Takes, Starts, Decodes, Life, Closed, OpensCall, AudioTypeOK
  <2> QED
    BY <1>2, <1>3, <2>2, <2>3 DEF DInv
<1> QED
  BY <1>4, <1>5

LEMMA QuietKeepsD ==
  ASSUME AudioTypeOK, Life, NEW g \in Groups, NEW b \in BOOLEAN, TalkOpen(g, b), Quiet
  PROVE  DInv'
<1>1. opener' = "receive" /\ UNCHANGED <<group, task, run, ready, pc, node, queue>>
  BY DEF TalkOpen, decoder
<1>2. ~task /\ queue = <<>> /\ ~ready /\ \A t \in Threads : pc[t] = "none"
  BY DEF TalkOpen, Life, Closed, Quiet, Ended
<1>3. ~status'
  BY DEF TalkOpen, AudioTypeOK
<1> QED
  BY <1>1, <1>2, <1>3 DEF DInv, Alone, Flags, Left, Own, Takes, Starts, Decodes, Served

LEMMA NextKeepsD ==
  ASSUME AudioTypeOK, Life, RInv, DInv, AudioNext, OnTime'
  PROVE  DInv'
<1>1. CASE \E t \in Threads : Receiver(t)
  <2>1. PICK t \in Threads : Receiver(t)
    BY <1>1
  <2>2. CASE Push(t)
    BY <2>2, PushKeepsD
  <2>3. CASE ~Push(t)
    <3>1. UNCHANGED <<group, client, decoder>>
      BY <2>1, <2>3 DEF Receiver, InBegin, Join, Arrive, ToApplication, InStop, InExit
    <3> QED
      BY <3>1 DEF client, decoder, DInv, Alone, Flags, Left, Own, Takes, Starts, Decodes, Served
  <2> QED
    BY <2>2, <2>3
<1>2. CASE ~(\E t \in Threads : Receiver(t))
  <2>1. ~ReceiveRefused /\ ~DecodeTimeout /\ ~late'
    BY DEF ReceiveRefused, DecodeTimeout, OnTime
  <2> QED
    BY <1>2, <2>1, WorkerKeepsD, DecodeOpenKeepsD, TalkCloseKeepsD, OpenerKeepsD
       DEF AudioNext, Opening
<1> QED
  BY <1>1, <1>2

-----------------------------------------------------------------------------
LEMMA AudioInitInvariant == AudioInit => AudioInv
<1> SUFFICES ASSUME AudioInit
             PROVE  AudioInv
  OBVIOUS
<1>1. AudioTypeOK
  <2>1. queue \in Seq(Groups) /\ Len(queue) <= QueueMax
    BY QueueAssumption DEF AudioInit
  <2> QED
    BY <2>1 DEF AudioInit, AudioTypeOK, ByThread, InSteps, Steps, Nothing
<1>2. Life
  BY DEF AudioInit, ByThread, Life, FrameHeld, NodeHeld, SocketServed, Closed, OpensCall
<1>3. RInv
  BY DEF AudioInit, ByThread, RInv, InAlone, InFlags, SocketOwned, FrameOwned, InServed, InOpens
<1>4. DInv
  BY DEF AudioInit, ByThread, DInv, Alone, Flags, Left, Own, Takes, Starts, Decodes, Served
<1> QED
  BY <1>1, <1>2, <1>3, <1>4 DEF AudioInv

\* What went wrong stays in the history until a call begins in quiet.
LEMMA HistoryStays ==
  ASSUME AudioTypeOK, AudioNext, OnTime'
  PROVE  OnTime \/ (Quiet /\ \E g \in Groups, b \in BOOLEAN : TalkOpen(g, b))
<1>1. CASE \E g \in Groups, b \in BOOLEAN : TalkOpen(g, b)
  BY <1>1 DEF TalkOpen, OnTime, AudioTypeOK
<1>2. CASE ~(\E g \in Groups, b \in BOOLEAN : TalkOpen(g, b))
  <2>1. ~late' => ~late
    BY <1>2 DEF AudioTypeOK, AudioNext, Opening, PlayOpen, TalkClose, ReceiveOpen, ReceiveRefused,
       DecodeOpen, DecodeIsOpen, DecodeTimeout, DecodeStart, Receiver, InBegin, Join,
       Arrive, ToApplication, Push, InStop, InExit, Worker, Begin, Take, Write, Stop, Drain, Exit,
       history
  <2>2. ~tardy' => ~tardy
    BY <1>2 DEF AudioTypeOK, AudioNext, Opening, PlayOpen, TalkClose, ReceiveOpen, ReceiveRefused,
       DecodeOpen, DecodeIsOpen, DecodeTimeout, DecodeStart, Receiver, InBegin, Join,
       Arrive, ToApplication, Push, InStop, InExit, Worker, Begin, Take, Write, Stop, Drain, Exit,
       history
  <2> QED
    BY <2>1, <2>2 DEF OnTime
<1> QED
  BY <1>1, <1>2

LEMMA AudioInductive == AudioInv /\ [AudioNext]_audioVars => AudioInv'
<1> SUFFICES ASSUME AudioInv, [AudioNext]_audioVars
             PROVE  AudioInv'
  OBVIOUS
<1>1. CASE UNCHANGED audioVars
  <2>1. UNCHANGED <<group, status, opener, want, inTask, inRun, inPc, socket, frame, task, run,
                    ready, pc, node, queue, late, tardy>>
    BY <1>1 DEF audioVars
  <2>2. AudioTypeOK' /\ Life'
    BY <2>1 DEF AudioInv, AudioTypeOK, Life, FrameHeld, NodeHeld, SocketServed, Closed, OpensCall
  <2>3. OnTime' => RInv'
    BY <2>1 DEF AudioInv, OnTime, RInv, InAlone, InFlags, SocketOwned, FrameOwned, InServed,
       InOpens
  <2>4. OnTime' => DInv'
    BY <2>1 DEF AudioInv, OnTime, DInv, Alone, Flags, Left, Own, Takes, Starts, Decodes, Served
  <2> QED
    BY <2>2, <2>3, <2>4 DEF AudioInv
<1>2. CASE AudioNext
  <2>1. AudioTypeOK' /\ Life'
    BY <1>2, AudioNextType, LifeStays DEF AudioInv
  <2>2. ASSUME OnTime' PROVE RInv' /\ DInv'
    <3>1. CASE OnTime
      BY <1>2, <2>2, <3>1, NextKeepsR, NextKeepsD DEF AudioInv
    <3>2. CASE ~OnTime
      <4>1. PICK g \in Groups : \E b \in BOOLEAN : TalkOpen(g, b)
        BY <1>2, <2>2, <3>2, HistoryStays DEF AudioInv
      <4>2. PICK b \in BOOLEAN : TalkOpen(g, b)
        BY <4>1
      <4>3. Quiet
        BY <1>2, <2>2, <3>2, HistoryStays DEF AudioInv
      <4> QED
        BY <4>2, <4>3, QuietKeepsR, QuietKeepsD DEF AudioInv
    <3> QED
      BY <3>1, <3>2
  <2> QED
    BY <2>1, <2>2 DEF AudioInv
<1> QED
  BY <1>1, <1>2

\* The invariant holds of every behaviour of the two files.
THEOREM AudioInvariant == AudioSpec => []AudioInv
<1> QED
  BY AudioInitInvariant, AudioInductive, PTL DEF AudioSpec

\* Every variable keeps its type; in particular the queue stays within its pool.
THEOREM AudioTypeCorrect == AudioSpec => []AudioTypeOK
<1>1. AudioInv => AudioTypeOK
  BY DEF AudioInv
<1> QED
  BY <1>1, AudioInvariant, PTL

\* Unless a thread was late or an open gave up since everything was last quiet, what
\* the speaker plays during a call was sent in it (audio_decode.c 94-188,
\* network_audio_package.c 663-687).
THEOREM HearsItsCall == AudioSpec => []OwnVoice
<1>1. AudioInv => OwnVoice
  <2> SUFFICES ASSUME AudioTypeOK, Life, DInv, NEW t \in Threads, pc[t] = "write", task
               PROVE  node[t] = group
    BY DEF AudioInv, OwnVoice, PlaysOwn, Plays
  <2> QED
    BY DEF DInv, Own, Life, NodeHeld
<1> QED
  BY <1>1, AudioInvariant, PTL

\* Under the same condition an open call has a receiver and, unless it is one of the
\* application, a worker that goes on and a queue that accepts frames
\* (leo_monitor.c 207-222).
THEOREM Hears == AudioSpec => []NotDeaf
<1>1. AudioInv => NotDeaf
  <2> SUFFICES ASSUME AudioTypeOK, RInv, DInv, status, opener = "idle"
               PROVE  Hearing
    BY DEF AudioInv, NotDeaf, Hearing
  <2>1. inTask /\ \E t \in Threads : inPc[t] \in {"begin", "join", "loop", "frame"}
    BY DEF RInv, InOpens, InServed, InFlags, AudioTypeOK, InSteps
  <2>2. ASSUME ~want.mobile
        PROVE  ready /\ task /\ \E t \in Threads : pc[t] \in {"begin", "loop", "write"}
    BY <2>2 DEF DInv, Decodes, Takes, Served, Flags, AudioTypeOK, Steps
  <2> QED
    BY <2>1, <2>2 DEF Hearing
<1> QED
  BY <1>1, AudioInvariant, PTL
=============================================================================
