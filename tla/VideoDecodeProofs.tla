-------------------------- MODULE VideoDecodeProofs --------------------------
(***************************************************************************)
(* Theorems about VideoDecode, for every length of the ring, every frame   *)
(* and every panel.                                                        *)
(***************************************************************************)
EXTENDS VideoDecode, SequenceTheorems, TLAPS

Memory == Bytes \cup {Junk}

\* The writer is c bytes ahead of the reader; e bytes out make room for n, no more
\* than needed.
Apart(r, w, c) == w = r + c \/ w = r + c - RingLen
Room(c, e, n) == (e = 0 /\ c + n <= RingLen) \/ e = c + n - RingLen

\* The two addresses are apart by what is in the ring.
Fit == head => Apart(rAddr, wAddr, cacheLen)

-----------------------------------------------------------------------------
(* Addresses.                                                              *)

LEMMA AdvanceType ==
  ASSUME NEW a \in 0 .. RingLen, NEW n \in 0 .. RingLen
  PROVE  Advance(a, n) \in 0 .. RingLen
BY RingAssumption DEF Advance

LEMMA CellType ==
  ASSUME NEW a \in 0 .. RingLen, NEW k \in 0 .. RingLen - 1
  PROVE  Cell(a, k) \in Addresses
BY RingAssumption DEF Cell, Addresses

LEMMA CellAdvanced ==
  ASSUME NEW a \in 0 .. RingLen, NEW n \in 0 .. RingLen, NEW k \in 0 .. RingLen - 1,
         n + k < RingLen
  PROVE  Cell(Advance(a, n), k) = Cell(a, n + k)
BY RingAssumption DEF Cell, Advance

\* How far the place of the byte k of the ring, counted from the new address of the
\* reader, is behind the address of the writer.
LEMMA CellBehind ==
  ASSUME NEW r \in 0 .. RingLen, NEW w \in 0 .. RingLen, NEW c \in 0 .. RingLen,
         Apart(r, w, c),
         NEW e \in 0 .. RingLen, NEW n \in 1 .. RingLen,
         Room(c, e, n),
         NEW k \in 0 .. RingLen - 1, k < c + n - e
  PROVE  Behind(w, Cell(Advance(r, e), k)) =
           IF e + k < c THEN e + k - c + RingLen ELSE e + k - c
<1>1. RingLen \in Nat \ {0}
  BY RingAssumption
<1>2. CASE r + e > RingLen
  BY <1>1, <1>2 DEF Behind, Cell, Advance, Apart, Room
<1>3. CASE ~(r + e > RingLen)
  BY <1>1, <1>3 DEF Behind, Cell, Advance, Apart, Room
<1> QED
  BY <1>2, <1>3

\* The distance of the addresses after a write.
LEMMA WriteDistance ==
  ASSUME NEW r \in 0 .. RingLen, NEW w \in 0 .. RingLen, NEW c \in 0 .. RingLen,
         Apart(r, w, c),
         NEW e \in 0 .. RingLen, NEW n \in 1 .. RingLen,
         Room(c, e, n)
  PROVE  Apart(Advance(r, e), Advance(w, n), c + n - e)
<1>1. RingLen \in Nat \ {0}
  BY RingAssumption
<1>2. CASE w + n > RingLen /\ r + e > RingLen
  BY <1>1, <1>2 DEF Advance, Apart, Room
<1>3. CASE w + n > RingLen /\ ~(r + e > RingLen)
  BY <1>1, <1>3 DEF Advance, Apart, Room
<1>4. CASE ~(w + n > RingLen) /\ r + e > RingLen
  BY <1>1, <1>4 DEF Advance, Apart, Room
<1>5. CASE ~(w + n > RingLen) /\ ~(r + e > RingLen)
  BY <1>1, <1>5 DEF Advance, Apart, Room
<1> QED
  BY <1>2, <1>3, <1>4, <1>5

-----------------------------------------------------------------------------
(* The bytes in the ring.                                                  *)

CacheShape ==
  /\ Cache \in Seq(Memory)
  /\ Len(Cache) = IF head THEN cacheLen ELSE 0
  /\ head => \A i \in 1 .. cacheLen : Cache[i] = cells[Cell(rAddr, i - 1)]

LEMMA CacheIsSeq == TypeOK => CacheShape
<1> SUFFICES ASSUME TypeOK PROVE CacheShape
  OBVIOUS
<1>1. CASE head
  <2>1. Cache = [i \in 1 .. cacheLen |-> cells[Cell(rAddr, i - 1)]]
    BY <1>1 DEF Cache
  <2>2. cacheLen \in Nat /\ cacheLen <= RingLen /\ RingLen \in Nat
    BY RingAssumption DEF TypeOK
  <2>3. \A i \in 1 .. cacheLen : cells[Cell(rAddr, i - 1)] \in Memory
    <3> TAKE i \in 1 .. cacheLen
    <3>1. Cell(rAddr, i - 1) \in Addresses
      BY <2>2, CellType DEF TypeOK
    <3> QED
      BY <3>1 DEF TypeOK, Memory
  <2>4. Cache \in [1 .. cacheLen -> Memory]
    BY <2>1, <2>3
  <2> QED
    BY <1>1, <2>1, <2>2, <2>4, SeqDef, LenProperties DEF CacheShape
<1>2. CASE ~head
  BY <1>2, EmptySeq DEF Cache, CacheShape
<1> QED
  BY <1>1, <1>2

LEMMA ChunkType ==
  ASSUME NEW d \in Chunks
  PROVE  /\ d \in Seq(Memory)
         /\ Len(d) \in Nat \ {0}
         /\ \E p \in Panels : \A i \in DOMAIN d : d[i].from = p
<1>1. PICK p \in Panels, f \in Frames : d = Chunk(p, f)
  BY DEF Chunks
<1>2. f \in Seq(Nat) /\ f # <<>>
  BY FramesAssumption
<1>3. Len(f) \in Nat \ {0} /\ f \in [1 .. Len(f) -> Nat] /\ DOMAIN f = 1 .. Len(f)
  BY <1>2, EmptySeq, LenProperties
<1>4. d = [i \in 1 .. Len(f) |-> Byte(p, f[i])]
  BY <1>1, <1>3 DEF Chunk
<1>5. \A i \in 1 .. Len(f) : Byte(p, f[i]) \in Memory /\ Byte(p, f[i]).from = p
  BY <1>3 DEF Byte, Bytes, Memory
<1>6. d \in [1 .. Len(f) -> Memory]
  BY <1>4, <1>5
<1>7. d \in Seq(Memory)
  BY <1>3, <1>6, SeqDef
<1>8. Len(d) = Len(f)
  BY <1>3, <1>6, <1>7, LenProperties
<1> QED
  BY <1>3, <1>4, <1>5, <1>7, <1>8

-----------------------------------------------------------------------------
(* Writing.                                                                *)

\* How many of the oldest bytes a write of d pushes out.
Pushed(d) == IF Overrun(d) > 0 THEN Overrun(d) ELSE 0

LEMMA PushedType ==
  ASSUME TypeOK, NEW d \in Chunks, Len(d) <= RingLen
  PROVE  /\ Pushed(d) \in 0 .. RingLen /\ Pushed(d) <= cacheLen
         /\ Len(d) \in 1 .. RingLen
         /\ Room(cacheLen, Pushed(d), Len(d))
<1>1. Len(d) \in 1 .. RingLen /\ RingLen \in Nat /\ cacheLen \in 0 .. RingLen
  BY ChunkType, RingAssumption DEF TypeOK
<1>2. CASE cacheLen + Len(d) - RingLen > 0
  BY <1>1, <1>2 DEF Pushed, Overrun, Room
<1>3. CASE ~(cacheLen + Len(d) - RingLen > 0)
  BY <1>1, <1>3 DEF Pushed, Overrun, Room
<1> QED
  BY <1>1, <1>2, <1>3

LEMMA WriteEffect ==
  ASSUME TypeOK, NEW d \in Chunks, head, Len(d) <= RingLen, Write(d)
  PROVE  /\ cells' = Copied(wAddr, d)
         /\ wAddr' = Advance(wAddr, Len(d))
         /\ rAddr' = Advance(rAddr, Pushed(d))
         /\ cacheLen' = cacheLen + Len(d) - Pushed(d)
         /\ head'
<1>1. Len(d) \in Nat /\ cacheLen \in Nat /\ RingLen \in Nat /\ rAddr \in 0 .. RingLen
  BY ChunkType, RingAssumption DEF TypeOK
<1>2. ~Refused(d)
  BY <1>1 DEF Refused
<1>3. CASE Overrun(d) > 0
  BY <1>2, <1>1, <1>3 DEF Write, Pushed, Overrun
<1>4. CASE ~(Overrun(d) > 0)
  <2>1. rAddr = Advance(rAddr, 0)
    BY <1>1 DEF Advance
  <2> QED
    BY <1>2, <1>1, <1>4, <2>1 DEF Write, Pushed
<1> QED
  BY <1>3, <1>4

LEMMA WriteType ==
  ASSUME TypeOK, NEW d \in Chunks, Write(d)
  PROVE  /\ head' \in BOOLEAN /\ cells' \in [Addresses -> Memory]
         /\ rAddr' \in 0 .. RingLen /\ wAddr' \in 0 .. RingLen
         /\ cacheLen' \in 0 .. RingLen
<1>1. CASE Refused(d)
  BY <1>1 DEF Write, ring, TypeOK, Memory
<1>2. CASE ~Refused(d)
  <2>1. head /\ Len(d) <= RingLen
    BY <1>2, ChunkType, RingAssumption DEF Refused
  <2>2. \A c \in Addresses : Behind(wAddr, c) \in Nat
    BY RingAssumption DEF Behind, Addresses, TypeOK
  <2>3. \A c \in Addresses :
          Behind(wAddr, c) < Len(d) => d[Behind(wAddr, c) + 1] \in Memory
    <3> TAKE c \in Addresses
    <3> HAVE Behind(wAddr, c) < Len(d)
    <3>1. Behind(wAddr, c) + 1 \in 1 .. Len(d)
      BY <2>2, ChunkType
    <3> QED
      BY <3>1, ChunkType, ElementOfSeq
  <2>4. Copied(wAddr, d) \in [Addresses -> Memory]
    BY <2>3 DEF Copied, TypeOK, Memory
  <2>5. /\ rAddr \in 0 .. RingLen /\ wAddr \in 0 .. RingLen /\ cacheLen \in 0 .. RingLen
        /\ RingLen \in Nat \ {0}
    BY RingAssumption DEF TypeOK
  <2>6. /\ Pushed(d) \in 0 .. RingLen /\ Pushed(d) <= cacheLen
        /\ Len(d) \in 1 .. RingLen /\ Room(cacheLen, Pushed(d), Len(d))
    BY <2>1, PushedType
  <2>7. cacheLen + Len(d) - Pushed(d) \in 0 .. RingLen
    BY <2>5, <2>6 DEF Room
  <2>8. Advance(rAddr, Pushed(d)) \in 0 .. RingLen /\ Advance(wAddr, Len(d)) \in 0 .. RingLen
    <3>1. Len(d) \in 0 .. RingLen
      BY <2>5, <2>6
    <3> QED
      BY <2>5, <2>6, <3>1, AdvanceType
  <2>9. /\ cells' = Copied(wAddr, d) /\ wAddr' = Advance(wAddr, Len(d)) /\ head'
        /\ rAddr' = Advance(rAddr, Pushed(d))
        /\ cacheLen' = cacheLen + Len(d) - Pushed(d)
    BY <2>1, WriteEffect
  <2>10. head' \in BOOLEAN
    BY <2>9
  <2> QED
    BY <2>4, <2>7, <2>8, <2>9, <2>10
<1> QED
  BY <1>1, <1>2

LEMMA WriteFits ==
  ASSUME TypeOK, Fit, NEW d \in Chunks, Write(d)
  PROVE  Fit'
<1>1. CASE Refused(d)
  BY <1>1 DEF Write, ring, Fit
<1>2. CASE ~Refused(d)
  <2>1. head /\ Len(d) <= RingLen
    BY <1>2, ChunkType, RingAssumption DEF Refused
  <2>2. /\ wAddr' = Advance(wAddr, Len(d)) /\ rAddr' = Advance(rAddr, Pushed(d))
        /\ cacheLen' = cacheLen + Len(d) - Pushed(d)
    BY <2>1, WriteEffect
  <2>3. /\ rAddr \in 0 .. RingLen /\ wAddr \in 0 .. RingLen /\ cacheLen \in 0 .. RingLen
        /\ RingLen \in Nat \ {0}
    BY RingAssumption DEF TypeOK
  <2>4. Apart(rAddr, wAddr, cacheLen)
    BY <2>1 DEF Fit
  <2>5. /\ Pushed(d) \in 0 .. RingLen /\ Len(d) \in 1 .. RingLen
        /\ Room(cacheLen, Pushed(d), Len(d))
    BY <2>1, PushedType
  <2>6. Apart(rAddr', wAddr', cacheLen')
    BY <2>2, <2>3, <2>4, <2>5, WriteDistance
  <2> QED
    BY <2>6 DEF Fit, Apart
<1> QED
  BY <1>1, <1>2

\* After a write the ring holds what it held, without the bytes pushed out, and then
\* the bytes written.
LEMMA WriteAppends ==
  ASSUME TypeOK, Fit, NEW d \in Chunks, head, Len(d) <= RingLen, Write(d),
         TypeOK', NEW i \in 1 .. cacheLen'
  PROVE  Cache'[i] = IF Pushed(d) + i <= cacheLen THEN Cache[Pushed(d) + i]
                     ELSE d[Pushed(d) + i - cacheLen]
<1> DEFINE e == Pushed(d)
           n == Len(d)
           x == Cell(rAddr', i - 1)
<1>1. /\ rAddr \in 0 .. RingLen /\ wAddr \in 0 .. RingLen /\ cacheLen \in 0 .. RingLen
      /\ RingLen \in Nat \ {0} /\ cacheLen' \in 0 .. RingLen
  BY RingAssumption DEF TypeOK
<1>2. /\ e \in 0 .. RingLen /\ e <= cacheLen /\ n \in 1 .. RingLen
      /\ Room(cacheLen, e, n)
  BY PushedType
<1>3. /\ cells' = Copied(wAddr, d) /\ rAddr' = Advance(rAddr, e)
      /\ cacheLen' = cacheLen + n - e /\ head'
  BY WriteEffect
<1>4. Cache'[i] = cells'[x]
  <2>1. (TypeOK => CacheShape)'
    BY CacheIsSeq, PTL
  <2> QED
    BY <1>3, <2>1 DEF CacheShape
<1>5. i - 1 \in 0 .. RingLen - 1 /\ i - 1 < cacheLen + n - e
  BY <1>1, <1>2, <1>3
<1>6. x \in Addresses
  BY <1>1, <1>2, <1>3, <1>5, AdvanceType, CellType
<1>7. cells'[x] = IF Behind(wAddr, x) < n THEN d[Behind(wAddr, x) + 1] ELSE cells[x]
  BY <1>3, <1>6 DEF Copied
<1>8. Apart(rAddr, wAddr, cacheLen)
  BY DEF Fit
<1>9. Behind(wAddr, x) = IF e + (i - 1) < cacheLen THEN e + (i - 1) - cacheLen + RingLen
                         ELSE e + (i - 1) - cacheLen
  <2> HIDE DEF e, n
  <2>1. x = Cell(Advance(rAddr, e), i - 1)
    BY <1>3 DEF e
  <2> QED
    BY <1>1, <1>2, <1>5, <1>8, <2>1, CellBehind
<1>10. CASE e + i <= cacheLen
  <2>1. ~(Behind(wAddr, x) < n)
    <3> HIDE DEF e, n, x
    <3> QED
      BY <1>1, <1>2, <1>9, <1>10 DEF Room
  <2>2. x = Cell(rAddr, e + i - 1)
    <3>1. e + (i - 1) < RingLen /\ e + (i - 1) = e + i - 1
      BY <1>1, <1>2, <1>10
    <3> HIDE DEF e
    <3> QED
      BY <1>1, <1>2, <1>3, <1>5, <3>1, CellAdvanced
  <2>3. Cache[e + i] = cells[Cell(rAddr, e + i - 1)]
    <3>1. e + i \in 1 .. cacheLen
      BY <1>1, <1>2, <1>10
    <3> DEFINE j == e + i
    <3>2. j \in 1 .. cacheLen
      BY <3>1
    <3> HIDE DEF j
    <3>3. Cache[j] = cells[Cell(rAddr, j - 1)]
      BY <3>2, CacheIsSeq DEF CacheShape
    <3>4. j = e + i /\ e \in Int /\ i \in Int /\ j \in Int
      BY <1>1, <1>2 DEF j
    <3> HIDE DEF e
    <3> QED
      BY <3>3, <3>4
  <2> QED
    BY <1>4, <1>7, <1>10, <2>1, <2>2, <2>3
<1>11. CASE ~(e + i <= cacheLen)
  <2>1. Behind(wAddr, x) < n /\ Behind(wAddr, x) + 1 = e + i - cacheLen
    <3>1. cacheLen' = cacheLen + n - e
      BY <1>3
    <3> HIDE DEF e, n, x
    <3> QED
      BY <1>1, <1>2, <1>9, <1>11, <3>1 DEF Room
  <2> QED
    BY <1>4, <1>7, <1>11, <2>1
<1> QED
  BY <1>10, <1>11

-----------------------------------------------------------------------------
(* Reading.                                                                *)

LEMMA ReadEffect ==
  ASSUME TypeOK, head, cacheLen > 0, Read(ReadMax)
  PROVE  /\ out' = [i \in 1 .. Amount(ReadMax) |-> cells[Cell(rAddr, i - 1)]]
         /\ rAddr' = Advance(rAddr, Amount(ReadMax))
         /\ cacheLen' = cacheLen - Amount(ReadMax)
         /\ UNCHANGED <<head, cells, wAddr>>
<1>1. ~(cacheLen <= 0)
  BY RingAssumption DEF TypeOK
<1> QED
  BY <1>1 DEF Read

LEMMA AmountType ==
  ASSUME TypeOK, cacheLen > 0
  PROVE  Amount(ReadMax) \in 1 .. cacheLen
BY ReadAssumption, RingAssumption DEF Amount, TypeOK

LEMMA ReadType ==
  ASSUME TypeOK, Read(ReadMax)
  PROVE  /\ head' \in BOOLEAN /\ cells' \in [Addresses -> Memory]
         /\ rAddr' \in 0 .. RingLen /\ wAddr' \in 0 .. RingLen
         /\ cacheLen' \in 0 .. RingLen
<1>1. CASE ~head \/ cacheLen <= 0
  BY <1>1 DEF Read, ring, TypeOK, Memory
<1>2. CASE ~(~head \/ cacheLen <= 0)
  <2>1. /\ rAddr \in 0 .. RingLen /\ wAddr \in 0 .. RingLen /\ cacheLen \in 0 .. RingLen
        /\ RingLen \in Nat \ {0}
    BY RingAssumption DEF TypeOK
  <2>2. head /\ cacheLen > 0
    BY <1>2, <2>1
  <2>3. Amount(ReadMax) \in 0 .. RingLen /\ cacheLen - Amount(ReadMax) \in 0 .. RingLen
    BY <2>1, <2>2, AmountType
  <2>4. Advance(rAddr, Amount(ReadMax)) \in 0 .. RingLen
    BY <2>1, <2>3, AdvanceType
  <2> QED
    BY <2>2, <2>3, <2>4, ReadEffect DEF TypeOK, Memory
<1> QED
  BY <1>1, <1>2

LEMMA ReadDistance ==
  ASSUME NEW r \in 0 .. RingLen, NEW w \in 0 .. RingLen, NEW c \in 0 .. RingLen,
         Apart(r, w, c), NEW n \in 0 .. RingLen, n <= c
  PROVE  Apart(Advance(r, n), w, c - n)
<1>1. RingLen \in Nat \ {0}
  BY RingAssumption
<1>2. CASE r + n > RingLen
  BY <1>1, <1>2 DEF Advance, Apart
<1>3. CASE ~(r + n > RingLen)
  BY <1>1, <1>3 DEF Advance, Apart
<1> QED
  BY <1>2, <1>3

LEMMA ReadFits ==
  ASSUME TypeOK, Fit, Read(ReadMax)
  PROVE  Fit'
<1>1. CASE ~head \/ cacheLen <= 0
  BY <1>1 DEF Read, ring, Fit, Apart
<1>2. CASE ~(~head \/ cacheLen <= 0)
  <2>1. /\ rAddr \in 0 .. RingLen /\ wAddr \in 0 .. RingLen /\ cacheLen \in 0 .. RingLen
        /\ RingLen \in Nat \ {0}
    BY RingAssumption DEF TypeOK
  <2>2. head /\ cacheLen > 0 /\ Apart(rAddr, wAddr, cacheLen)
    BY <1>2, <2>1 DEF Fit
  <2>3. Amount(ReadMax) \in 0 .. RingLen /\ Amount(ReadMax) <= cacheLen
    BY <2>1, <2>2, AmountType
  <2>4. Apart(Advance(rAddr, Amount(ReadMax)), wAddr, cacheLen - Amount(ReadMax))
    BY <2>1, <2>2, <2>3, ReadDistance
  <2>5. /\ rAddr' = Advance(rAddr, Amount(ReadMax)) /\ wAddr' = wAddr
        /\ cacheLen' = cacheLen - Amount(ReadMax)
    BY <2>2, ReadEffect
  <2>6. Apart(rAddr', wAddr', cacheLen')
    BY <2>4, <2>5
  <2> QED
    BY <2>6 DEF Fit, Apart
<1> QED
  BY <1>1, <1>2

\* What is left after a read are the bytes behind those read.
LEMMA ReadLeaves ==
  ASSUME TypeOK, TypeOK', head, cacheLen > 0, Read(ReadMax), NEW i \in 1 .. cacheLen'
  PROVE  Cache'[i] = Cache[Amount(ReadMax) + i]
<1> DEFINE n == Amount(ReadMax)
<1>1. /\ rAddr \in 0 .. RingLen /\ cacheLen \in 0 .. RingLen
      /\ RingLen \in Nat \ {0} /\ n \in 1 .. cacheLen
  BY RingAssumption, AmountType DEF TypeOK
<1>2. rAddr' = Advance(rAddr, n) /\ cacheLen' = cacheLen - n /\ cells' = cells /\ head'
  BY ReadEffect
<1>3. Cache'[i] = cells'[Cell(rAddr', i - 1)]
  <2>1. (TypeOK => CacheShape)'
    BY CacheIsSeq, PTL
  <2> QED
    BY <1>2, <2>1 DEF CacheShape
<1>4. n + i \in 1 .. cacheLen
  BY <1>1, <1>2
<1>5. Cache[n + i] = cells[Cell(rAddr, n + i - 1)]
  <2> DEFINE j == n + i
  <2>1. j \in 1 .. cacheLen
    BY <1>4
  <2> HIDE DEF j
  <2>2. Cache[j] = cells[Cell(rAddr, j - 1)]
    BY <2>1, CacheIsSeq DEF CacheShape
  <2>3. j = n + i /\ n \in Int /\ i \in Int /\ j \in Int
    BY <1>1, <1>2 DEF j
  <2> HIDE DEF n
  <2> QED
    BY <2>2, <2>3
<1>6. Cell(rAddr', i - 1) = Cell(rAddr, n + i - 1)
  <2>1. /\ n \in 0 .. RingLen /\ i - 1 \in 0 .. RingLen - 1
        /\ n + (i - 1) < RingLen /\ n + (i - 1) = n + i - 1
    BY <1>1, <1>2
  <2> HIDE DEF n
  <2> QED
    BY <1>1, <1>2, <2>1, CellAdvanced
<1> QED
  BY <1>2, <1>3, <1>5, <1>6

-----------------------------------------------------------------------------
(* The operations of the ring are those of the fifo.                       *)

LEMMA PutRefines ==
  ASSUME TypeOK, TypeOK', Fit, NEW d \in Chunks, head, Len(d) <= RingLen, Write(d),
         UNCHANGED out
  PROVE  Fifo!Put(d)
<1> DEFINE e == Pushed(d)
           n == Len(d)
           s == Cache \o d
           t == SubSeq(s, e + 1, cacheLen + n)
<1>1. /\ Cache \in Seq(Memory) /\ Len(Cache) = cacheLen
      /\ d \in Seq(Memory)
  BY CacheIsSeq, ChunkType DEF CacheShape
<1>2. /\ e \in 0 .. RingLen /\ e <= cacheLen /\ n \in 1 .. RingLen
      /\ cacheLen \in 0 .. RingLen /\ RingLen \in Nat
  BY PushedType, RingAssumption DEF TypeOK
<1>3. e = Fifo!Excess(d)
  BY <1>1, <1>2 DEF Fifo!Excess, Pushed, Overrun
<1>4. /\ s \in Seq(Memory) /\ Len(s) = cacheLen + n
      /\ \A i \in 1 .. cacheLen + n :
           s[i] = IF i <= cacheLen THEN Cache[i] ELSE d[i - cacheLen]
  BY <1>1, ConcatProperties
<1>5. /\ t \in Seq(Memory) /\ Len(t) = cacheLen + n - e
      /\ \A i \in 1 .. cacheLen + n - e : t[i] = s[e + i]
  <2> HIDE DEF s
  <2>1. /\ e + 1 \in Int /\ cacheLen + n \in Int /\ e + 1 <= cacheLen + n
        /\ (cacheLen + n) - (e + 1) + 1 = cacheLen + n - e
    BY <1>2
  <2>2. \A i \in e + 1 .. cacheLen + n : s[i] \in Memory
    <3> TAKE i \in e + 1 .. cacheLen + n
    <3>1. i \in 1 .. Len(s)
      BY <1>2, <1>4
    <3> QED
      BY <1>4, <3>1, ElementOfSeq
  <2>3. /\ t \in Seq(Memory)
        /\ Len(t) = IF e + 1 <= cacheLen + n THEN (cacheLen + n) - (e + 1) + 1 ELSE 0
        /\ \A i \in 1 .. (cacheLen + n) - (e + 1) + 1 : t[i] = s[(e + 1) + i - 1]
    <3> HIDE DEF e, n
    <3> QED
      BY <2>1, <2>2, SubSeqProperties
  <2>4. \A i \in 1 .. cacheLen + n - e : (e + 1) + i - 1 = e + i
    BY <1>2
  <2> HIDE DEF e, n, t
  <2> QED
    BY <2>1, <2>3, <2>4
<1>6. cacheLen' = cacheLen + n - e /\ head'
  BY WriteEffect
<1>7. Cache' \in Seq(Memory) /\ Len(Cache') = cacheLen + n - e
  <2>1. (TypeOK => CacheShape)'
    BY CacheIsSeq, PTL
  <2> QED
    BY <1>6, <2>1 DEF CacheShape
<1>8. \A i \in 1 .. Len(Cache') : Cache'[i] = t[i]
  <2> TAKE i \in 1 .. Len(Cache')
  <2>1. i \in 1 .. cacheLen'
    BY <1>6, <1>7
  <2>2. Cache'[i] = IF e + i <= cacheLen THEN Cache[e + i] ELSE d[e + i - cacheLen]
    BY <2>1, WriteAppends
  <2>3. e + i \in 1 .. cacheLen + n
    BY <1>2, <1>6, <2>1
  <2>4. s[e + i] = IF e + i <= cacheLen THEN Cache[e + i] ELSE d[e + i - cacheLen]
    <3> DEFINE j == e + i
    <3>1. j \in 1 .. cacheLen + n
      BY <2>3
    <3>2. j = e + i /\ e \in Int /\ i \in Int /\ j \in Int /\ cacheLen \in Int
      BY <1>2, <1>6, <2>1 DEF j
    <3> HIDE DEF j, s
    <3>3. s[j] = IF j <= cacheLen THEN Cache[j] ELSE d[j - cacheLen]
      BY <1>4, <3>1
    <3> HIDE DEF e
    <3> QED
      BY <3>2, <3>3
  <2>5. t[i] = s[e + i]
    BY <1>5, <1>7
  <2> QED
    BY <2>2, <2>4, <2>5
<1>9. Cache' = t
  <2> HIDE DEF t
  <2> QED
    BY <1>5, <1>7, <1>8, SeqEqual
<1> QED
  BY <1>1, <1>3, <1>9 DEF Fifo!Put

LEMMA GetRefines ==
  ASSUME TypeOK, TypeOK', head, cacheLen > 0, Read(ReadMax)
  PROVE  Fifo!Get
<1> DEFINE n == Amount(ReadMax)
           t == SubSeq(Cache, 1, n)
           u == SubSeq(Cache, n + 1, cacheLen)
<1>1. /\ Cache \in Seq(Memory) /\ Len(Cache) = cacheLen
      /\ \A i \in 1 .. cacheLen : Cache[i] = cells[Cell(rAddr, i - 1)]
      /\ \A i \in 1 .. cacheLen : Cache[i] \in Memory
  BY CacheIsSeq, ElementOfSeq DEF CacheShape
<1>2. n \in 1 .. cacheLen /\ cacheLen \in Nat /\ ReadMax \in Nat
  BY AmountType, ReadAssumption, RingAssumption DEF TypeOK
<1>3. n = IF ReadMax > Len(Cache) THEN Len(Cache) ELSE ReadMax
  BY <1>1 DEF Amount
<1>4. out' = t
  <2>1. out' = [i \in 1 .. n |-> cells[Cell(rAddr, i - 1)]]
    BY ReadEffect
  <2>2. \A i \in 1 .. n : i \in 1 .. cacheLen
    BY <1>2
  <2>3. \A i \in 1 .. n : out'[i] = Cache[i] /\ Cache[i] \in Memory
    BY <1>1, <2>1, <2>2
  <2>4. out' \in [1 .. n -> Memory]
    BY <2>1, <2>3
  <2>5. out' \in Seq(Memory) /\ Len(out') = n
    BY <1>2, <2>1, <2>4, SeqDef, LenProperties
  <2>6. /\ t \in Seq(Memory)
        /\ Len(t) = IF 1 <= n THEN n - 1 + 1 ELSE 0
        /\ \A i \in 1 .. n - 1 + 1 : t[i] = Cache[1 + i - 1]
    <3> HIDE DEF n
    <3> QED
      BY <1>2, <2>3, SubSeqProperties
  <2>7. n - 1 + 1 = n /\ 1 <= n /\ \A i \in 1 .. n : 1 + i - 1 = i
    BY <1>2
  <2> HIDE DEF n, t
  <2>8. Len(t) = n /\ \A i \in 1 .. n : t[i] = Cache[i]
    BY <2>6, <2>7
  <2> QED
    BY <2>3, <2>5, <2>6, <2>8, SeqEqual
<1>5. Cache' = u
  <2>1. cacheLen' = cacheLen - n /\ head'
    BY ReadEffect
  <2>2. Cache' \in Seq(Memory) /\ Len(Cache') = cacheLen - n
    <3>1. (TypeOK => CacheShape)'
      BY CacheIsSeq, PTL
    <3> QED
      BY <2>1, <3>1 DEF CacheShape
  <2>3. \A i \in 1 .. cacheLen - n : Cache'[i] = Cache[n + i]
    BY <2>1, ReadLeaves
  <2>4. /\ u \in Seq(Memory)
        /\ Len(u) = IF n + 1 <= cacheLen THEN cacheLen - (n + 1) + 1 ELSE 0
        /\ \A i \in 1 .. cacheLen - (n + 1) + 1 : u[i] = Cache[(n + 1) + i - 1]
    <3>1. n + 1 \in Int /\ cacheLen \in Int /\ \A i \in n + 1 .. cacheLen : i \in 1 .. cacheLen
      BY <1>2
    <3>2. \A i \in n + 1 .. cacheLen : Cache[i] \in Memory
      BY <1>1, <3>1
    <3> HIDE DEF n
    <3> QED
      BY <3>1, <3>2, SubSeqProperties
  <2>5. /\ cacheLen - (n + 1) + 1 = cacheLen - n
        /\ ~(n + 1 <= cacheLen) => cacheLen - n = 0
        /\ \A i \in 1 .. cacheLen - n : (n + 1) + i - 1 = n + i
    BY <1>2
  <2> HIDE DEF n, u
  <2>6. Len(u) = cacheLen - n /\ \A i \in 1 .. cacheLen - n : u[i] = Cache[n + i]
    BY <2>4, <2>5
  <2> QED
    BY <2>2, <2>3, <2>4, <2>6, SeqEqual
<1> QED
  BY <1>1, <1>2, <1>3, <1>4, <1>5 DEF Fifo!Get

-----------------------------------------------------------------------------
(* The variables keep their types, and the ring exists while it is served. *)

Served == {"opened", "loop", "read", "stopped"}

Phase ==
  /\ threadRun <=> pc \in Served \cup {"open", "closed"}
  /\ head \/ out # <<>> => pc \in Served

\* What the receive thread pushes is a frame of the panel it has joined.
Pushing ==
  /\ ui # "idle" => want \in Panels
  /\ feedPc # "none" => feeder \in Panels
  /\ feedPc \in {"received", "checked"} => \E f \in Frames : frame = Chunk(feeder, f)

IInv == TypeOK /\ Fit /\ Phase /\ Pushing

LEMMA InitIInv == Init => IInv
<1> SUFFICES ASSUME Init PROVE IInv
  OBVIOUS
<1>1. cells \in [Addresses -> Bytes \cup {Junk}]
  BY DEF Init
<1>2. 0 \in 0 .. RingLen
  BY RingAssumption
<1> QED
  BY <1>1, <1>2 DEF Init, IInv, TypeOK, Fit, Phase, Served, Pushing

LEMMA ScreenIInv ==
  ASSUME IInv, Screen
  PROVE  IInv'
<1> USE DEF IInv, ring, decoder, feed, Fit, Phase, Served, Apart, Pushing
<1>1. ASSUME NEW p \in Panels, MonitorOpen(p)
      PROVE  IInv'
  <2>1. TypeOK'
    BY <1>1 DEF MonitorOpen, Reset, TypeOK
  <2>2. Fit' /\ Phase'
    BY <1>1 DEF MonitorOpen, Reset
  <2>3. Pushing'
    BY <1>1 DEF MonitorOpen, Reset
  <2> QED
    BY <2>1, <2>2, <2>3
<1>2. CASE MonitorClose
  <2>1. TypeOK'
    BY <1>2 DEF MonitorClose, Reset, TypeOK
  <2>2. Fit' /\ Phase'
    BY <1>2 DEF MonitorClose, Reset
  <2>3. Pushing'
    BY <1>2 DEF MonitorClose, Reset
  <2> QED
    BY <2>1, <2>2, <2>3
<1>3. CASE FeedOpen
  BY <1>3 DEF FeedOpen, TypeOK
<1>4. CASE FeedGivesUp
  BY <1>4 DEF FeedGivesUp, TypeOK
<1>5. CASE DecodeOpen
  BY <1>5 DEF DecodeOpen, TypeOK
<1>6. CASE DecodeGivesUp
  BY <1>6 DEF DecodeGivesUp, TypeOK
<1> QED
  BY <1>1, <1>2, <1>3, <1>4, <1>5, <1>6 DEF Screen

LEMMA FeedIInv ==
  ASSUME IInv, Feed
  PROVE  IInv'
<1> USE DEF IInv, ring, decoder, screen, Phase, Served
<1>1. CASE FeedReceive
  <2>1. PICK f \in Frames : frame' = Chunk(feeder, f)
    BY <1>1 DEF FeedReceive
  <2>2. frame' \in Chunks
    BY <1>1, <2>1 DEF FeedReceive, Pushing, Chunks
  <2> QED
    BY <1>1, <2>1, <2>2 DEF FeedReceive, TypeOK, Fit, Apart, Pushing
<1>2. CASE PushCheck
  BY <1>2 DEF PushCheck, TypeOK, Fit, Apart, Pushing
<1>3. CASE PushWrite
  <2>1. frame \in Chunks
    BY <1>3 DEF PushWrite, Pushing, Chunks
  <2>2. Fit'
    BY <1>3, <2>1, WriteFits DEF PushWrite
  <2>3. /\ head' \in BOOLEAN /\ cells' \in [Addresses -> Bytes \cup {Junk}]
        /\ rAddr' \in 0 .. RingLen /\ wAddr' \in 0 .. RingLen
        /\ cacheLen' \in 0 .. RingLen
    BY <1>3, <2>1, WriteType DEF PushWrite, Memory
  <2>4. TypeOK'
    BY <1>3, <2>3 DEF PushWrite, TypeOK
  <2>5. head' = head
    BY <1>3 DEF PushWrite, Write
  <2> QED
    BY <1>3, <2>2, <2>4, <2>5 DEF PushWrite, Pushing
<1>4. CASE FeedEnd
  BY <1>4 DEF FeedEnd, TypeOK, Fit, Apart, Pushing
<1> QED
  BY <1>1, <1>2, <1>3, <1>4 DEF Feed

LEMMA TaskIInv ==
  ASSUME IInv, Task
  PROVE  IInv'
<1> USE DEF IInv, ring, feed, screen, Phase, Served, Pushing, Goto
<1>1. CASE Begin
  BY <1>1 DEF Begin, TypeOK, Fit, Apart
<1>2. CASE DeviceOpen
  <2>1. CASE Allocate
    <3>1. [c \in Addresses |-> Junk] \in [Addresses -> Bytes \cup {Junk}]
      OBVIOUS
    <3>2. 0 \in 0 .. RingLen
      BY RingAssumption
    <3> QED
      BY <1>2, <2>1, <3>1, <3>2 DEF DeviceOpen, Allocate, TypeOK, Fit, Apart
  <2>2. CASE UNCHANGED ring
    BY <1>2, <2>2 DEF DeviceOpen, TypeOK, Fit, Apart
  <2> QED
    BY <1>2, <2>1, <2>2 DEF DeviceOpen
<1>3. CASE Serve
  BY <1>3 DEF Serve, TypeOK, Fit, Apart
<1>4. CASE LoopTest
  BY <1>4 DEF LoopTest, TypeOK, Fit, Apart
<1>5. CASE ReadRing
  <2>1. Fit'
    BY <1>5, ReadFits DEF ReadRing
  <2>2. /\ head' \in BOOLEAN /\ cells' \in [Addresses -> Bytes \cup {Junk}]
        /\ rAddr' \in 0 .. RingLen /\ wAddr' \in 0 .. RingLen
        /\ cacheLen' \in 0 .. RingLen
    BY <1>5, ReadType DEF ReadRing, Memory
  <2> QED
    BY <1>5, <2>1, <2>2 DEF ReadRing, TypeOK
<1>6. CASE Stop
  <2>1. TypeOK'
    BY <1>6 DEF Stop, TypeOK
  <2>2. Fit'
    BY <1>6 DEF Stop, Fit, Apart
  <2>3. Phase'
    BY <1>6 DEF Stop
  <2>4. Pushing'
    BY <1>6 DEF Stop
  <2> QED
    BY <2>1, <2>2, <2>3, <2>4
<1>7. CASE DeviceClose
  <2>1. TypeOK'
    BY <1>7 DEF DeviceClose, Free, TypeOK
  <2>2. Fit'
    BY <1>7 DEF DeviceClose, Free, Fit, Apart
  <2>3. Phase'
    BY <1>7 DEF DeviceClose, Free
  <2>4. Pushing'
    BY <1>7 DEF DeviceClose, Free
  <2> QED
    BY <2>1, <2>2, <2>3, <2>4
<1>8. CASE Exit
  <2>1. TypeOK'
    BY <1>8 DEF Exit, TypeOK
  <2>2. Fit'
    BY <1>8 DEF Exit, Fit, Apart
  <2>3. Phase'
    BY <1>8 DEF Exit
  <2>4. Pushing'
    BY <1>8 DEF Exit
  <2> QED
    BY <2>1, <2>2, <2>3, <2>4
<1> QED
  BY <1>1, <1>2, <1>3, <1>4, <1>5, <1>6, <1>7, <1>8 DEF Task

LEMMA NextIInv == IInv /\ [Next]_vars => IInv'
<1> SUFFICES ASSUME IInv, [Next]_vars PROVE IInv'
  OBVIOUS
<1>1. CASE UNCHANGED vars
  BY <1>1
     DEF vars, ring, IInv, TypeOK, Fit, Apart, Phase, Served, Pushing
<1> QED
  BY <1>1, ScreenIInv, FeedIInv, TaskIInv DEF Next

\* For every ring, frame and panel the variables keep their types, the addresses of
\* the ring stay between head and tail, and the ring exists only while the decoder
\* task serves it.
THEOREM Invariant == Spec => []IInv
  BY InitIInv, NextIInv, PTL DEF Spec

\* For every ring, frame and panel the variables have their types.
THEOREM TypeCorrect == Spec => []TypeOK
<1>1. IInv => TypeOK
  BY DEF IInv
<1> QED
  BY <1>1, Invariant, PTL

-----------------------------------------------------------------------------
(* The ring is a fifo.                                                     *)

LEMMA NoRing == head = FALSE => Cache = <<>>
  BY DEF Cache

LEMMA RingStays == UNCHANGED <<ring, out>> => UNCHANGED Fifo!vars
  BY DEF ring, Cache, Fifo!vars

LEMMA AllocatedIsEmpty ==
  ASSUME TypeOK', Allocate
  PROVE  Cache' = <<>>
<1>1. (TypeOK => CacheShape)'
  BY CacheIsSeq, PTL
<1>2. Cache' \in Seq(Memory) /\ Len(Cache') = 0
  BY <1>1 DEF CacheShape, Allocate
<1> QED
  BY <1>2, EmptySeq

LEMMA NextRefines == IInv /\ IInv' /\ [Next]_vars => [Fifo!Next]_Fifo!vars
<1> SUFFICES ASSUME IInv, IInv', [Next]_vars PROVE [Fifo!Next]_Fifo!vars
  OBVIOUS
<1>1. TypeOK /\ TypeOK' /\ Fit
  BY DEF IInv
<1>2. CASE UNCHANGED vars \/ Screen
  BY <1>2, RingStays
     DEF Screen, MonitorOpen, MonitorClose, FeedOpen, FeedGivesUp, DecodeOpen,
         DecodeGivesUp, vars, ring
<1>3. CASE FeedReceive \/ PushCheck \/ FeedEnd
  BY <1>3, RingStays DEF FeedReceive, PushCheck, FeedEnd, ring
<1>4. CASE PushWrite
  <2>1. frame \in Chunks /\ Write(frame) /\ UNCHANGED out
    BY <1>4 DEF PushWrite, IInv, Pushing, Chunks
  <2>2. CASE Refused(frame)
    BY <2>1, <2>2, RingStays DEF Write
  <2>3. CASE ~Refused(frame)
    <3>1. head /\ Len(frame) <= RingLen
      BY <2>1, <2>3, ChunkType, RingAssumption DEF Refused
    <3>2. Fifo!Put(frame)
      BY <1>1, <2>1, <3>1, PutRefines
    <3> QED
      BY <2>1, <3>2 DEF Fifo!Next
  <2> QED
    BY <2>2, <2>3
<1>5. CASE Begin \/ Serve \/ LoopTest \/ Stop \/ Exit
  BY <1>5, RingStays DEF Begin, Serve, LoopTest, Stop, Exit, ring
<1>6. CASE DeviceOpen
  <2>1. CASE Allocate
    <3>1. Cache = <<>>
      BY <1>6, NoRing DEF DeviceOpen, Goto, IInv, Phase, Served, TypeOK
    <3>2. Cache' = <<>> /\ out' = out
      BY <1>1, <1>6, <2>1, AllocatedIsEmpty DEF DeviceOpen
    <3> QED
      BY <3>1, <3>2 DEF Fifo!vars
  <2>2. CASE UNCHANGED ring
    BY <1>6, <2>2, RingStays DEF DeviceOpen
  <2> QED
    BY <1>6, <2>1, <2>2 DEF DeviceOpen
<1>7. CASE ReadRing
  <2>1. CASE ~head \/ cacheLen <= 0
    BY <1>7, <2>1, RingStays DEF ReadRing, Read
  <2>2. CASE ~(~head \/ cacheLen <= 0)
    <3>1. head /\ cacheLen > 0
      BY <1>1, <2>2, RingAssumption DEF TypeOK
    <3>2. Fifo!Get
      BY <1>1, <1>7, <3>1, GetRefines DEF ReadRing
    <3> QED
      BY <3>2 DEF Fifo!Next
  <2> QED
    BY <2>1, <2>2
<1>8. CASE DeviceClose
  <2>1. Cache' = <<>> /\ out' = <<>>
    BY <1>8 DEF DeviceClose, Free, Cache
  <2> QED
    BY <2>1 DEF Fifo!Next, Fifo!Clear
<1> QED
  BY <1>2, <1>3, <1>4, <1>5, <1>6, <1>7, <1>8 DEF Next, Feed, Task

\* For every length of the ring, frames and panels: the bytes reach the decoder in the
\* order they were pushed, each once, the oldest given up when there are too many
\* (ring_buffer.c, video_decode.c).
THEOREM Implements == Spec => IsByteFifo
<1>1. Init => Fifo!Init
  BY NoRing DEF Init, Fifo!Init
<1> QED
  BY <1>1, Invariant, NextRefines, PTL DEF Spec, IsByteFifo, Fifo!Spec

-----------------------------------------------------------------------------
(* What the decoder is given belongs to the panel it was opened for.       *)

\* The threads know one panel: between the two openings the decoder is stopped, and
\* a frame that has passed the flags belongs to the panel of the decoder.
OnePanel ==
  /\ ui # "idle" => ~run
  /\ run /\ feedPc # "none" => feeder = session
  /\ feedPc = "checked" => feeder = session /\ ui # "decode"
  /\ ui = "decode" /\ feedPc # "none" => feeder = want

From(s) == \A i \in DOMAIN s : s[i].from = session

OwnBytes == From(out) /\ From(Cache)

Own == ~tardy => OnePanel /\ OwnBytes

LEMMA BytesStay ==
  ASSUME OwnBytes, UNCHANGED <<ring, out, session>>
  PROVE  OwnBytes'
<1>1. Cache' = Cache
  BY DEF ring, Cache
<1> QED
  BY <1>1 DEF OwnBytes, From

LEMMA WriteOwn ==
  ASSUME TypeOK, TypeOK', Fit, OwnBytes, NEW d \in Chunks, Write(d), ~Refused(d),
         \A i \in DOMAIN d : d[i].from = session, UNCHANGED <<out, session>>
  PROVE  OwnBytes'
<1>1. head /\ Len(d) <= RingLen
  BY ChunkType, RingAssumption DEF Refused
<1>2. /\ Cache \in Seq(Memory) /\ Len(Cache) = cacheLen /\ DOMAIN Cache = 1 .. cacheLen
      /\ d \in Seq(Memory) /\ DOMAIN d = 1 .. Len(d)
  BY <1>1, CacheIsSeq, ChunkType, LenProperties DEF CacheShape
<1>3. /\ Pushed(d) \in 0 .. RingLen /\ Pushed(d) <= cacheLen /\ Len(d) \in 1 .. RingLen
      /\ cacheLen \in 0 .. RingLen /\ RingLen \in Nat
      /\ cacheLen' = cacheLen + Len(d) - Pushed(d) /\ head'
  BY <1>1, PushedType, WriteEffect, RingAssumption DEF TypeOK
<1>4. DOMAIN Cache' = 1 .. cacheLen'
  BY <1>3 DEF Cache
<1>5. ASSUME NEW i \in 1 .. cacheLen'
      PROVE  Cache'[i].from = session
  <2>1. Cache'[i] = IF Pushed(d) + i <= cacheLen THEN Cache[Pushed(d) + i]
                    ELSE d[Pushed(d) + i - cacheLen]
    BY <1>1, WriteAppends
  <2>2. CASE Pushed(d) + i <= cacheLen
    <3>1. Pushed(d) + i \in DOMAIN Cache
      BY <1>2, <1>3, <2>2
    <3> QED
      BY <2>1, <2>2, <3>1 DEF OwnBytes, From
  <2>3. CASE ~(Pushed(d) + i <= cacheLen)
    <3>1. Pushed(d) + i - cacheLen \in DOMAIN d
      BY <1>2, <1>3, <2>3
    <3> QED
      BY <2>1, <2>3, <3>1
  <2> QED
    BY <2>2, <2>3
<1> QED
  BY <1>4, <1>5 DEF OwnBytes, From

LEMMA ReadOwn ==
  ASSUME TypeOK, TypeOK', OwnBytes, Read(ReadMax), UNCHANGED session
  PROVE  OwnBytes'
<1>1. CASE ~head \/ cacheLen <= 0
  BY <1>1, BytesStay DEF Read
<1>2. CASE ~(~head \/ cacheLen <= 0)
  <2>1. cacheLen \in 0 .. RingLen /\ RingLen \in Nat
    BY RingAssumption DEF TypeOK
  <2>2. head /\ cacheLen > 0
    BY <1>2, <2>1
  <2>3. /\ out' = [i \in 1 .. Amount(ReadMax) |-> cells[Cell(rAddr, i - 1)]]
        /\ cacheLen' = cacheLen - Amount(ReadMax) /\ head' /\ Amount(ReadMax) \in 1 .. cacheLen
    BY <2>2, ReadEffect, AmountType
  <2>4. /\ DOMAIN Cache = 1 .. cacheLen
        /\ \A i \in 1 .. cacheLen : Cache[i] = cells[Cell(rAddr, i - 1)]
    BY <2>2 DEF Cache
  <2>5. \A i \in 1 .. Amount(ReadMax) : i \in 1 .. cacheLen
    BY <2>1, <2>3
  <2>6. \A i \in DOMAIN out' : out'[i].from = session
    BY <2>3, <2>4, <2>5 DEF OwnBytes, From
  <2>7. DOMAIN Cache' = 1 .. cacheLen'
    BY <2>3 DEF Cache
  <2>8. ASSUME NEW i \in 1 .. cacheLen'
        PROVE  Cache'[i].from = session
    <3>1. Amount(ReadMax) + i \in DOMAIN Cache
      BY <2>1, <2>3, <2>4
    <3>2. Cache'[i] = Cache[Amount(ReadMax) + i]
      BY <2>2, ReadLeaves
    <3> QED
      BY <3>1, <3>2 DEF OwnBytes, From
  <2> QED
    BY <2>6, <2>7, <2>8 DEF OwnBytes, From
<1> QED
  BY <1>1, <1>2

LEMMA NextOwn == IInv /\ IInv' /\ Own /\ [Next]_vars => Own'
<1> SUFFICES ASSUME IInv, IInv', Own, [Next]_vars, ~tardy'
             PROVE  (OnePanel /\ OwnBytes)'
  BY DEF Own
<1>1. ~tardy
  BY DEF Next, Screen, Feed, Task, MonitorOpen, MonitorClose, FeedOpen, FeedGivesUp,
         DecodeOpen, DecodeGivesUp, FeedReceive, PushCheck, PushWrite, FeedEnd, Begin,
         DeviceOpen, Serve, LoopTest, ReadRing, Stop, DeviceClose, Exit, screen, vars
<1>2. OnePanel /\ OwnBytes
  BY <1>1 DEF Own
<1>3. TypeOK /\ TypeOK' /\ Fit
  BY DEF IInv
<1> USE DEF decoder, feed, screen
<1>4. CASE UNCHANGED vars
  BY <1>2, <1>4, BytesStay DEF vars, OnePanel, ring
<1>5. ASSUME NEW p \in Panels, MonitorOpen(p)
      PROVE  (OnePanel /\ OwnBytes)'
  BY <1>2, <1>5, BytesStay DEF MonitorOpen, Reset, OnePanel
<1>6. CASE MonitorClose
  BY <1>2, <1>6, BytesStay DEF MonitorClose, Reset, OnePanel
<1>7. CASE FeedOpen
  BY <1>2, <1>7, BytesStay DEF FeedOpen, OnePanel
<1>8. CASE FeedGivesUp
  BY <1>8 DEF FeedGivesUp
<1>9. CASE DecodeOpen
  <2>1. Cache = <<>> /\ out = <<>>
    BY <1>9, NoRing DEF DecodeOpen, IInv, Phase, TypeOK
  <2>2. Cache' = <<>> /\ out' = <<>>
    BY <1>9, <2>1 DEF DecodeOpen, ring, Cache
  <2>3. OwnBytes'
    BY <2>2 DEF OwnBytes, From
  <2> QED
    BY <1>2, <1>9, <2>3 DEF DecodeOpen, OnePanel
<1>10. CASE DecodeGivesUp
  BY <1>2, <1>10, BytesStay DEF DecodeGivesUp, OnePanel
<1>11. CASE FeedReceive \/ FeedEnd
  BY <1>2, <1>11, BytesStay DEF FeedReceive, FeedEnd, OnePanel
<1>12. CASE PushCheck
  BY <1>2, <1>12, BytesStay DEF PushCheck, OnePanel
<1>13. CASE PushWrite
  <2>1. PICK f \in Frames : frame = Chunk(feeder, f)
    BY <1>13 DEF PushWrite, IInv, Pushing
  <2>2. frame \in Chunks /\ Write(frame)
    BY <1>13, <2>1 DEF PushWrite, IInv, Pushing, Chunks
  <2>3. feeder = session /\ session' = session /\ out' = out
    BY <1>2, <1>13 DEF PushWrite, OnePanel
  <2>4. \A i \in DOMAIN frame : frame[i].from = session
    BY <2>1, <2>3 DEF Chunk, Byte
  <2>5. OwnBytes'
    <3>1. CASE Refused(frame)
      BY <1>2, <2>2, <2>3, <3>1, BytesStay DEF Write
    <3>2. CASE ~Refused(frame)
      BY <1>2, <1>3, <2>2, <2>3, <2>4, <3>2, WriteOwn
    <3> QED
      BY <3>1, <3>2
  <2> QED
    BY <1>2, <1>13, <2>5 DEF PushWrite, OnePanel
<1>14. CASE Begin \/ Serve \/ LoopTest \/ Stop \/ Exit
  BY <1>2, <1>14, BytesStay DEF Begin, Serve, LoopTest, Stop, Exit, OnePanel
<1>15. CASE DeviceOpen
  <2>1. OwnBytes'
    <3>1. CASE Allocate
      <4>1. Cache' = <<>>
        BY <1>3, <3>1, AllocatedIsEmpty
      <4>2. out' = out /\ session' = session
        BY <1>15 DEF DeviceOpen
      <4> QED
        BY <1>2, <4>1, <4>2 DEF OwnBytes, From
    <3>2. CASE UNCHANGED ring
      BY <1>2, <1>15, <3>2, BytesStay DEF DeviceOpen
    <3> QED
      BY <1>15, <3>1, <3>2 DEF DeviceOpen
  <2> QED
    BY <1>2, <1>15, <2>1 DEF DeviceOpen, OnePanel
<1>16. CASE ReadRing
  <2>1. OwnBytes'
    BY <1>2, <1>3, <1>16, ReadOwn DEF ReadRing
  <2> QED
    BY <1>2, <1>16, <2>1 DEF ReadRing, OnePanel
<1>17. CASE DeviceClose
  <2>1. Cache' = <<>> /\ out' = <<>>
    BY <1>17 DEF DeviceClose, Free, Cache
  <2>2. OwnBytes'
    BY <2>1 DEF OwnBytes, From
  <2> QED
    BY <1>2, <1>17, <2>2 DEF DeviceClose, OnePanel
<1> QED
  BY <1>4, <1>5, <1>6, <1>7, <1>8, <1>9, <1>10, <1>11, <1>12, <1>13, <1>14, <1>15,
     <1>16, <1>17 DEF Next, Screen, Feed, Task

\* For every ring, frame and panel: unless the receive thread could not be waited for
\* (leo_monitor.c), the decoder is given bytes of its panel only.
THEOREM ShowsItsPanel == Spec => []OwnPicture
<1>1. Init => Own
  BY NoRing DEF Init, Own, OnePanel, OwnBytes, From
<1>2. Own => OwnPicture
  BY DEF Own, OwnBytes, From, OwnPicture
<1> QED
  BY <1>1, <1>2, Invariant, NextOwn, PTL DEF Spec

=============================================================================
