----------------------------- MODULE RingBuffer -----------------------------
(***************************************************************************)
(* The ring buffer of the video decoder (ring_buffer.c): RingLen bytes     *)
(* between head and tail and two addresses.  An address may stand at the   *)
(* tail, which is the same place as the head: it is folded back only when  *)
(* it would go beyond.  A write that finds too little room overwrites the  *)
(* oldest bytes.  Addresses are counted from head.                         *)
(***************************************************************************)
EXTENDS Integers, Sequences

CONSTANTS RingLen,    \* ring_len (1 MB)
          Junk        \* what memory holds that was never written

ASSUME RingAssumption == RingLen \in Nat \ {0}

VARIABLES head,       \* head is not NULL
          cells,      \* the bytes from head to tail
          rAddr,      \* r_addr
          wAddr,      \* w_addr
          cacheLen,   \* cache_len
          out         \* the buffer of the reader, up to what was read
ring == <<head, cells, rAddr, wAddr, cacheLen>>

Addresses == 0 .. RingLen - 1

\* The address n bytes after a, for the next access; the byte i of an access at a
Advance(a, n) == IF a + n > RingLen THEN a + n - RingLen ELSE a + n
Cell(a, i) == IF a + i < RingLen THEN a + i ELSE a + i - RingLen

\* memcpy in two parts: how far behind a the cell c is written
Behind(a, c) == IF c >= a THEN c - a ELSE c + RingLen - a
Copied(a, data) ==
  [c \in Addresses |-> IF Behind(a, c) < Len(data) THEN data[Behind(a, c) + 1] ELSE cells[c]]

\* ring_buffer_init
Allocate ==
  /\ head' = TRUE
  /\ cells' = [c \in Addresses |-> Junk]
  /\ rAddr' = 0 /\ wAddr' = 0 /\ cacheLen' = 0

\* ring_buffer_release
Free == head' = FALSE /\ UNCHANGED <<cells, rAddr, wAddr, cacheLen>>

\* ring_buffer_write
Refused(data) == ~head \/ Len(data) > RingLen
Overrun(data) == cacheLen + Len(data) - RingLen

\* (variant of Write: the reader does not make room)
WriteOver(data) ==
  IF Refused(data) THEN UNCHANGED ring
  ELSE /\ cells' = Copied(wAddr, data)
       /\ wAddr' = Advance(wAddr, Len(data))
       /\ cacheLen' = IF Overrun(data) > 0 THEN RingLen ELSE cacheLen + Len(data)
       /\ UNCHANGED <<head, rAddr>>

Write(data) ==
  IF Refused(data) THEN UNCHANGED ring
  ELSE /\ cells' = Copied(wAddr, data)
       /\ wAddr' = Advance(wAddr, Len(data))
       /\ IF Overrun(data) > 0
          THEN cacheLen' = RingLen /\ rAddr' = Advance(rAddr, Overrun(data))
          ELSE cacheLen' = cacheLen + Len(data) /\ UNCHANGED rAddr
       /\ UNCHANGED head

\* ring_buffer_read of at most `most' bytes
Amount(most) == IF most > cacheLen THEN cacheLen ELSE most
Read(most) ==
  IF ~head \/ cacheLen <= 0 THEN UNCHANGED <<ring, out>>
  ELSE /\ out' = [i \in 1 .. Amount(most) |-> cells[Cell(rAddr, i - 1)]]
       /\ rAddr' = Advance(rAddr, Amount(most))
       /\ cacheLen' = cacheLen - Amount(most)
       /\ UNCHANGED <<head, cells, wAddr>>

\* The bytes in the ring, oldest first
Cache == IF head THEN [i \in 1 .. cacheLen |-> cells[Cell(rAddr, i - 1)]] ELSE <<>>
=============================================================================
