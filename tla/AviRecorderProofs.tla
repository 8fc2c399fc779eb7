------------------------- MODULE AviRecorderProofs -------------------------
(***************************************************************************)
(* The recorder, for any pool, batch and number of threads, started late   *)
(* or not: every variable keeps its type, every node is in at most one     *)
(* place, both streams are written in the order of their capture, and      *)
(* nothing of a recording waits for the next one.                          *)
(*                                                                         *)
(* The strengthening says what the code never states: a frame in a queue   *)
(* or a hand keeps its time stamp because its node is nowhere else; each   *)
(* queue continues the hands that were filled from it; and a worker that   *)
(* has found no audio may write its video, because audio pushed since then *)
(* is younger.                                                             *)
(***************************************************************************)
EXTENDS AviRecorder, SequenceTheorems, TLAPS

Distinct(s) == \A i, j \in DOMAIN s : s[i] = s[j] => i = j
Sorted(s, f) == \A i, j \in DOMAIN s : i < j => f[s[i]].pts <= f[s[j]].pts
Before(A, B, f) == \A a \in A, b \in B : f[a].pts <= f[b].pts
Queued == Range(video) \union Range(audio)
Frames == [pts : 0..MaxTime, kind : VideoKinds \union {"none", "pcm"}]

PoolType ==
  /\ free \in Seq(Nodes) /\ video \in Seq(Nodes) /\ audio \in Seq(Nodes)
  /\ frame \in [Nodes -> Frames]
  /\ vhand \in [Threads -> Seq(Nodes)] /\ ahand \in [Threads -> Seq(Nodes)]

FlagType ==
  /\ now \in 0..MaxTime
  /\ taskRun \in BOOLEAN /\ threadRun \in BOOLEAN /\ ready \in BOOLEAN
  /\ late \in BOOLEAN
  /\ info \in [hasAudio : BOOLEAN, coding : {0, 1}]
  /\ pc \in [Threads -> AllPCs]
  /\ found \in [Threads -> SUBSET VideoKinds]
  /\ last \in [Threads -> 0..MaxTime]

\* Every node is in at most one place.
Apart ==
  /\ Distinct(free) /\ Distinct(video) /\ Distinct(audio)
  /\ Range(free) \intersect Queued = {} /\ Range(video) \intersect Range(audio) = {}
  /\ \A t \in Threads :
       /\ Distinct(vhand[t]) /\ Distinct(ahand[t])
       /\ Range(vhand[t]) \intersect Range(ahand[t]) = {}
       /\ Held(t) \intersect (Range(free) \union Queued) = {}
       /\ \A u \in Threads : t # u => Held(t) \intersect Held(u) = {}

\* What is queued or held as video is a video frame.
VideoFrames ==
  /\ \A n \in Range(video) : frame[n].kind \in VideoKinds
  /\ \A t \in Threads : \A n \in Range(vhand[t]) : frame[n].kind \in VideoKinds

\* Each stream is in the order of its capture, from the hands to the queue.
Streams ==
  /\ Sorted(video, frame) /\ Sorted(audio, frame)
  /\ \A t \in Threads :
       /\ Sorted(vhand[t], frame) /\ Sorted(ahand[t], frame)
       /\ Before(Range(vhand[t]), Range(video), frame)
       /\ Before(Range(ahand[t]), Range(audio), frame)

Pool == PoolType /\ Apart /\ VideoFrames /\ Streams

\* What each worker can rely on.
InHand == Searching \union Writing \union {"giveBack"}
Begun == Writing \union {"giveBack", "close", "finish"}
ThreadOK(t) ==
  /\ pc[t] \notin InHand => vhand[t] = <<>> /\ ahand[t] = <<>>
  /\ last[t] <= now /\ (pc[t] \notin Begun => last[t] = 0)
  /\ pc[t] \in Writing => \A n \in Held(t) \union Queued : frame[n].pts >= last[t]
  /\ pc[t] = "loopWrite" /\ ahand[t] = <<>> =>
       Before(Range(vhand[t]), Range(audio), frame)

\* Frames are accepted and kept only while a worker will release them.
Draining == InHand \union {"close"}
Drained == ready \/ video # <<>> \/ audio # <<>> => \E t \in Threads : pc[t] \in Draining

Captured == \A n \in Nodes : frame[n].pts <= now

IInv == /\ FlagType /\ Pool /\ Captured /\ Drained
        /\ \A t \in Threads : ThreadOK(t)

-----------------------------------------------------------------------------
(* Sequences of nodes.                                                     *)

LEMMA TailFacts ==
  ASSUME NEW s \in Seq(Nodes), s # <<>>
  PROVE  /\ Tail(s) \in Seq(Nodes) /\ Head(s) \in Range(s) /\ Head(s) \in Nodes
         /\ Range(s) = Range(Tail(s)) \union {Head(s)}
         /\ Distinct(s) => Distinct(Tail(s)) /\ Head(s) \notin Range(Tail(s))
         /\ \A f : Sorted(s, f) => Sorted(Tail(s), f) /\ Before({Head(s)}, Range(Tail(s)), f)
<1>1. /\ Len(s) \in Nat \ {0} /\ DOMAIN s = 1..Len(s) /\ Head(s) = s[1]
      /\ Tail(s) \in Seq(Nodes) /\ DOMAIN Tail(s) = 1..(Len(s) - 1)
      /\ \A i \in 1..(Len(s) - 1) : Tail(s)[i] = s[i + 1]
  OBVIOUS
<1>2. \A i \in DOMAIN Tail(s) : /\ i \in Nat /\ i + 1 \in DOMAIN s /\ 1 < i + 1
                                /\ Tail(s)[i] = s[i + 1]
  BY <1>1
<1>3. \A i \in DOMAIN s : i = 1 \/ (i - 1 \in DOMAIN Tail(s) /\ s[i] = Tail(s)[i - 1])
  BY <1>1
<1>4. 1 \in DOMAIN s /\ Head(s) \in Nodes /\ Head(s) \in Range(s)
  BY <1>1 DEF Range
<1>5. Range(s) = Range(Tail(s)) \union {Head(s)}
  <2>1. ASSUME NEW x \in Range(Tail(s)) PROVE x \in Range(s)
    <3>1. PICK i \in DOMAIN Tail(s) : Tail(s)[i] = x
      BY <2>1 DEF Range
    <3>2. i + 1 \in DOMAIN s /\ s[i + 1] = x
      BY <1>2, <3>1
    <3> QED
      BY <3>2 DEF Range
  <2>2. ASSUME NEW x \in Range(s) PROVE x \in Range(Tail(s)) \union {Head(s)}
    <3>1. PICK i \in DOMAIN s : s[i] = x
      BY <2>2 DEF Range
    <3>2. x = Head(s) \/ (i - 1 \in DOMAIN Tail(s) /\ Tail(s)[i - 1] = x)
      BY <1>1, <1>3, <3>1
    <3> QED
      BY <3>2 DEF Range
  <2> QED
    BY <1>4, <2>1, <2>2
<1>6. Distinct(s) => Distinct(Tail(s)) /\ Head(s) \notin Range(Tail(s))
  BY <1>1, <1>2, <1>4 DEF Distinct, Range
<1>7. ASSUME NEW f, Sorted(s, f)
      PROVE  Sorted(Tail(s), f) /\ Before({Head(s)}, Range(Tail(s)), f)
  <2>1. Sorted(Tail(s), f)
    BY <1>2, <1>7 DEF Sorted
  <2>2. Before({Head(s)}, Range(Tail(s)), f)
    BY <1>1, <1>2, <1>4, <1>7 DEF Sorted, Before, Range
  <2> QED
    BY <2>1, <2>2
<1> QED
  BY <1>1, <1>4, <1>5, <1>6, <1>7

LEMMA AppendFacts ==
  ASSUME NEW s \in Seq(Nodes), NEW n \in Nodes
  PROVE  /\ Append(s, n) \in Seq(Nodes) /\ Append(s, n) # <<>>
         /\ Range(Append(s, n)) = Range(s) \union {n}
         /\ Distinct(s) /\ n \notin Range(s) => Distinct(Append(s, n))
         /\ \A f : Sorted(s, f) /\ Before(Range(s), {n}, f) => Sorted(Append(s, n), f)
<1>1. /\ Len(s) \in Nat /\ DOMAIN s = 1..Len(s)
      /\ Append(s, n) \in Seq(Nodes) /\ DOMAIN Append(s, n) = 1..(Len(s) + 1)
      /\ \A i \in 1..Len(s) : Append(s, n)[i] = s[i]
      /\ Append(s, n)[Len(s) + 1] = n
  OBVIOUS
<1>2. \A i \in DOMAIN Append(s, n) :
        \/ i \in DOMAIN s /\ i < Len(s) + 1 /\ Append(s, n)[i] = s[i] /\ s[i] \in Range(s)
        \/ i = Len(s) + 1
  BY <1>1 DEF Range
<1>3. Range(Append(s, n)) = Range(s) \union {n}
  BY <1>1, <1>2 DEF Range
<1>4. Distinct(s) /\ n \notin Range(s) => Distinct(Append(s, n))
  BY <1>1, <1>2 DEF Distinct
<1>5. ASSUME NEW f, Sorted(s, f), Before(Range(s), {n}, f)
      PROVE  Sorted(Append(s, n), f)
  <2> SUFFICES ASSUME NEW i \in DOMAIN Append(s, n), NEW j \in DOMAIN Append(s, n), i < j
               PROVE  f[Append(s, n)[i]].pts <= f[Append(s, n)[j]].pts
    BY DEF Sorted
  <2>1. i \in DOMAIN s /\ Append(s, n)[i] = s[i] /\ s[i] \in Range(s)
    BY <1>1, <1>2
  <2>2. CASE j = Len(s) + 1
    BY <1>1, <1>5, <2>1, <2>2 DEF Before
  <2>3. CASE j # Len(s) + 1
    BY <1>2, <1>5, <2>1, <2>3 DEF Sorted
  <2> QED
    BY <2>2, <2>3
<1>6. Append(s, n) # <<>>
  BY <1>1
<1> QED
  BY <1>1, <1>3, <1>4, <1>5, <1>6

LEMMA ConcatFacts ==
  ASSUME NEW s \in Seq(Nodes), NEW t \in Seq(Nodes)
  PROVE  /\ s \o t \in Seq(Nodes) /\ Range(s \o t) = Range(s) \union Range(t)
         /\ Distinct(s) /\ Distinct(t) /\ Range(s) \intersect Range(t) = {} => Distinct(s \o t)
<1>1. /\ Len(s) \in Nat /\ DOMAIN s = 1..Len(s) /\ Len(t) \in Nat /\ DOMAIN t = 1..Len(t)
      /\ s \o t \in Seq(Nodes) /\ DOMAIN (s \o t) = 1..(Len(s) + Len(t))
      /\ \A i \in 1..Len(s) : (s \o t)[i] = s[i]
      /\ \A i \in 1..(Len(s) + Len(t)) : i > Len(s) => (s \o t)[i] = t[i - Len(s)]
  OBVIOUS
<1>2. \A i \in DOMAIN (s \o t) :
        \/ i \in DOMAIN s /\ (s \o t)[i] = s[i] /\ s[i] \in Range(s)
        \/ /\ i > Len(s) /\ i - Len(s) \in DOMAIN t
           /\ (s \o t)[i] = t[i - Len(s)] /\ t[i - Len(s)] \in Range(t)
  BY <1>1 DEF Range
<1>3. Range(s \o t) = Range(s) \union Range(t)
  BY RangeConcatenation
<1>4. ASSUME Distinct(s), Distinct(t), Range(s) \intersect Range(t) = {}
      PROVE  Distinct(s \o t)
  <2> SUFFICES ASSUME NEW i \in DOMAIN (s \o t), NEW j \in DOMAIN (s \o t),
                      (s \o t)[i] = (s \o t)[j]
               PROVE  i = j
    BY DEF Distinct
  <2>1. CASE i \in DOMAIN s /\ j \in DOMAIN s
    BY <1>1, <1>4, <2>1 DEF Distinct
  <2>2. CASE i > Len(s) /\ j > Len(s)
    <3>1. i - Len(s) = j - Len(s)
      BY <1>1, <1>2, <1>4, <2>2 DEF Distinct
    <3> QED
      BY <1>1, <3>1
  <2>3. CASE ~(i \in DOMAIN s <=> j \in DOMAIN s)
    BY <1>2, <1>4, <2>3
  <2> QED
    BY <1>1, <2>1, <2>2, <2>3
<1> QED
  BY <1>1, <1>3, <1>4

\* What remains of a queue or a hand: all of it, all but the first, or nothing.
Part(r, s) == r = s \/ r = <<>> \/ (s # <<>> /\ r = Tail(s))

LEMMA EmptyFacts ==
  /\ <<>> \in Seq(Nodes) /\ Range(<<>>) = {} /\ Distinct(<<>>)
  /\ \A f : Sorted(<<>>, f)
BY DEF Range, Distinct, Sorted

LEMMA PartFacts ==
  ASSUME NEW s \in Seq(Nodes), NEW r, Part(r, s)
  PROVE  /\ r \in Seq(Nodes) /\ Range(r) \subseteq Range(s)
         /\ Distinct(s) => Distinct(r)
         /\ \A f : Sorted(s, f) => Sorted(r, f)
<1>1. CASE r = s
  BY <1>1
<1>2. CASE r = <<>>
  BY <1>2, EmptyFacts
<1>3. CASE s # <<>> /\ r = Tail(s)
  <2>1. /\ Tail(s) \in Seq(Nodes) /\ Range(s) = Range(Tail(s)) \union {Head(s)}
        /\ Distinct(s) => Distinct(Tail(s))
    BY <1>3, TailFacts
  <2>2. ASSUME NEW f, Sorted(s, f) PROVE Sorted(Tail(s), f)
    BY <1>3, <2>2, TailFacts
  <2> QED
    BY <1>3, <2>1, <2>2
<1> QED
  BY <1>1, <1>2, <1>3 DEF Part

\* Order is about the time stamps only.
LEMMA OrderAgain ==
  ASSUME NEW f, NEW g
  PROVE  /\ \A s : Sorted(s, f) /\ (\A n \in Range(s) : g[n] = f[n]) => Sorted(s, g)
         /\ \A A, B : Before(A, B, f) /\ (\A n \in A \union B : g[n] = f[n]) => Before(A, B, g)
<1>1. ASSUME NEW s, Sorted(s, f), \A n \in Range(s) : g[n] = f[n]
      PROVE  Sorted(s, g)
  BY <1>1 DEF Sorted, Range
<1>2. ASSUME NEW A, NEW B, Before(A, B, f), \A n \in A \union B : g[n] = f[n]
      PROVE  Before(A, B, g)
  BY <1>2 DEF Before
<1> QED
  BY <1>1, <1>2

-----------------------------------------------------------------------------
(* The pool.                                                               *)

\* Nodes leave queues and hands and may come back to the free queue; a frame
\* that stays in a queue or a hand stays as it is.
Kept ==
  /\ Part(video', video) /\ Part(audio', audio)
  /\ \A t \in Threads : Part(vhand'[t], vhand[t]) /\ Part(ahand'[t], ahand[t])
  /\ \A n \in Queued' : frame'[n] = frame[n]
  /\ \A t \in Threads : \A n \in Held(t)' : frame'[n] = frame[n]

LEMMA KeptParts ==
  ASSUME Pool, Kept
  PROVE  /\ video' \in Seq(Nodes) /\ Range(video') \subseteq Range(video)
         /\ audio' \in Seq(Nodes) /\ Range(audio') \subseteq Range(audio)
         /\ Distinct(video') /\ Distinct(audio')
         /\ Sorted(video', frame) /\ Sorted(audio', frame)
         /\ \A t \in Threads :
              /\ Range(vhand'[t]) \subseteq Range(vhand[t])
              /\ Range(ahand'[t]) \subseteq Range(ahand[t])
              /\ Distinct(vhand'[t]) /\ Distinct(ahand'[t])
              /\ Sorted(vhand'[t], frame) /\ Sorted(ahand'[t], frame)
<1>1. /\ video \in Seq(Nodes) /\ Distinct(video) /\ Sorted(video, frame)
      /\ audio \in Seq(Nodes) /\ Distinct(audio) /\ Sorted(audio, frame)
  BY DEF Pool, PoolType, Apart, Streams
<1>2. /\ video' \in Seq(Nodes) /\ Range(video') \subseteq Range(video)
      /\ Distinct(video') /\ Sorted(video', frame)
  BY <1>1, PartFacts DEF Kept
<1>3. /\ audio' \in Seq(Nodes) /\ Range(audio') \subseteq Range(audio)
      /\ Distinct(audio') /\ Sorted(audio', frame)
  BY <1>1, PartFacts DEF Kept
<1>4. ASSUME NEW t \in Threads
      PROVE  /\ Range(vhand'[t]) \subseteq Range(vhand[t])
             /\ Range(ahand'[t]) \subseteq Range(ahand[t])
             /\ Distinct(vhand'[t]) /\ Distinct(ahand'[t])
             /\ Sorted(vhand'[t], frame) /\ Sorted(ahand'[t], frame)
  <2>1. /\ vhand[t] \in Seq(Nodes) /\ Distinct(vhand[t]) /\ Sorted(vhand[t], frame)
        /\ ahand[t] \in Seq(Nodes) /\ Distinct(ahand[t]) /\ Sorted(ahand[t], frame)
        /\ Part(vhand'[t], vhand[t]) /\ Part(ahand'[t], ahand[t])
    BY <1>4 DEF Pool, PoolType, Apart, Streams, Kept
  <2>2. /\ Range(vhand'[t]) \subseteq Range(vhand[t])
        /\ Distinct(vhand'[t]) /\ Sorted(vhand'[t], frame)
    BY <2>1, PartFacts
  <2>3. /\ Range(ahand'[t]) \subseteq Range(ahand[t])
        /\ Distinct(ahand'[t]) /\ Sorted(ahand'[t], frame)
    BY <2>1, PartFacts
  <2> QED
    BY <2>2, <2>3
<1> QED
  BY <1>2, <1>3, <1>4

LEMMA KeptPool ==
  ASSUME Pool, Kept,
         frame' \in [Nodes -> Frames], free' \in Seq(Nodes), Distinct(free'),
         Range(free') \intersect Queued' = {},
         \A t \in Threads : Range(free') \intersect Held(t)' = {},
         vhand' \in [Threads -> Seq(Nodes)], ahand' \in [Threads -> Seq(Nodes)]
  PROVE  Pool'
<1>1. /\ video' \in Seq(Nodes) /\ Range(video') \subseteq Range(video)
      /\ audio' \in Seq(Nodes) /\ Range(audio') \subseteq Range(audio)
      /\ Distinct(video') /\ Distinct(audio')
      /\ Sorted(video', frame) /\ Sorted(audio', frame)
  BY KeptParts
<1>2. \A t \in Threads :
        /\ Range(vhand'[t]) \subseteq Range(vhand[t])
        /\ Range(ahand'[t]) \subseteq Range(ahand[t])
        /\ Distinct(vhand'[t]) /\ Distinct(ahand'[t])
        /\ Sorted(vhand'[t], frame) /\ Sorted(ahand'[t], frame)
  BY KeptParts
<1>3. PoolType'
  BY <1>1 DEF PoolType
<1>4. \A t \in Threads : Held(t)' \subseteq Held(t)
  BY <1>2 DEF Held
<1>5. Queued' \subseteq Queued
  BY <1>1 DEF Queued
<1>6. Apart'
  <2>1. Range(free') \intersect Queued' = {} /\ Range(video') \intersect Range(audio') = {}
    BY <1>1 DEF Pool, Apart
  <2>2. ASSUME NEW t \in Threads
        PROVE  /\ Range(vhand'[t]) \intersect Range(ahand'[t]) = {}
               /\ Held(t)' \intersect (Range(free') \union Queued') = {}
               /\ \A u \in Threads : t # u => Held(t)' \intersect Held(u)' = {}
    <3>1. /\ Range(vhand[t]) \intersect Range(ahand[t]) = {}
          /\ Held(t) \intersect Queued = {}
          /\ \A u \in Threads : t # u => Held(t) \intersect Held(u) = {}
      BY <2>2 DEF Pool, Apart
    <3>2. /\ Range(vhand'[t]) \subseteq Range(vhand[t])
          /\ Range(ahand'[t]) \subseteq Range(ahand[t])
          /\ Held(t)' \subseteq Held(t)
      BY <1>2, <1>4, <2>2
    <3>3. Held(t)' \intersect (Range(free') \union Queued') = {}
      BY <1>5, <2>2, <3>1, <3>2
    <3>4. \A u \in Threads : t # u => Held(t)' \intersect Held(u)' = {}
      BY <1>4, <3>1, <3>2
    <3> QED
      BY <3>1, <3>2, <3>3, <3>4
  <2> QED
    BY <1>1, <1>2, <2>1, <2>2 DEF Apart
<1>7. VideoFrames'
  <2>1. \A n \in Range(video') : frame'[n].kind \in VideoKinds
    BY <1>1 DEF Pool, VideoFrames, Kept, Queued
  <2>2. ASSUME NEW t \in Threads, NEW n \in Range(vhand'[t])
        PROVE  frame'[n].kind \in VideoKinds
    <3>1. n \in Range(vhand[t]) /\ n \in Held(t)'
      BY <1>2, <2>2 DEF Held
    <3> QED
      BY <3>1 DEF Pool, VideoFrames, Kept
  <2> QED
    BY <2>1, <2>2 DEF VideoFrames
<1>8. Streams'
  <2>1. /\ \A n \in Range(video') : frame'[n] = frame[n]
        /\ \A n \in Range(audio') : frame'[n] = frame[n]
    BY DEF Kept, Queued
  <2>2. Sorted(video', frame') /\ Sorted(audio', frame')
    BY <1>1, <2>1, OrderAgain
  <2>3. ASSUME NEW t \in Threads
        PROVE  /\ Sorted(vhand'[t], frame') /\ Sorted(ahand'[t], frame')
               /\ Before(Range(vhand'[t]), Range(video'), frame')
               /\ Before(Range(ahand'[t]), Range(audio'), frame')
    <3>1. /\ \A n \in Range(vhand'[t]) : frame'[n] = frame[n]
          /\ \A n \in Range(ahand'[t]) : frame'[n] = frame[n]
      BY <2>3 DEF Kept, Held
    <3>2. Sorted(vhand'[t], frame') /\ Sorted(ahand'[t], frame')
      BY <1>2, <2>3, <3>1, OrderAgain
    <3>3. /\ Before(Range(vhand[t]), Range(video), frame)
          /\ Before(Range(ahand[t]), Range(audio), frame)
      BY <2>3 DEF Pool, Streams
    <3>4. /\ Before(Range(vhand'[t]), Range(video'), frame')
          /\ Before(Range(ahand'[t]), Range(audio'), frame')
      BY <1>1, <1>2, <2>1, <2>3, <3>1, <3>3 DEF Before
    <3> QED
      BY <3>2, <3>4
  <2> QED
    BY <2>2, <2>3 DEF Streams
<1> QED
  BY <1>3, <1>6, <1>7, <1>8 DEF Pool

\* Nodes given back leave their queues and hands, and only those lose a frame.
LEMMA GivenBack ==
  ASSUME Pool, NEW s \in Seq(Nodes), Distinct(s), NodesDel(s),
         Range(s) \intersect (Range(free) \union Queued') = {},
         \A t \in Threads : Range(s) \intersect Held(t)' = {},
         Part(video', video), Part(audio', audio),
         \A t \in Threads : Part(vhand'[t], vhand[t]) /\ Part(ahand'[t], ahand[t]),
         vhand' \in [Threads -> Seq(Nodes)], ahand' \in [Threads -> Seq(Nodes)]
  PROVE  Pool' /\ Kept
<1>1. /\ free \in Seq(Nodes) /\ Distinct(free) /\ frame \in [Nodes -> Frames]
      /\ video \in Seq(Nodes) /\ audio \in Seq(Nodes)
      /\ Range(free) \intersect Queued = {}
      /\ \A t \in Threads : /\ vhand[t] \in Seq(Nodes) /\ ahand[t] \in Seq(Nodes)
                            /\ Held(t) \intersect Range(free) = {}
  BY DEF Pool, PoolType, Apart
<1>2. Range(video') \subseteq Range(video) /\ video' \in Seq(Nodes)
  BY <1>1, PartFacts
<1>3. Range(audio') \subseteq Range(audio) /\ audio' \in Seq(Nodes)
  BY <1>1, PartFacts
<1>4. \A t \in Threads : Range(vhand'[t]) \subseteq Range(vhand[t])
  BY <1>1, PartFacts
<1>5. \A t \in Threads : Range(ahand'[t]) \subseteq Range(ahand[t])
  BY <1>1, PartFacts
<1>6. free' = free \o s
  BY DEF NodesDel
<1>7. /\ free \o s \in Seq(Nodes) /\ Range(free \o s) = Range(free) \union Range(s)
      /\ Distinct(free \o s)
  BY <1>1, ConcatFacts
<1>8. frame' \in [Nodes -> Frames]
  <2>1. Empty \in Frames
    BY TimeAssumption DEF Empty, Frames
  <2> QED
    BY <1>1, <2>1 DEF NodesDel
<1>9. \A n \in Nodes : n \notin Range(s) => frame'[n] = frame[n]
  BY DEF NodesDel
<1>10. Queued' \subseteq Queued /\ Queued' \subseteq Nodes
  BY <1>1, <1>2, <1>3, RangeOfSeq DEF Queued
<1>11. \A t \in Threads : Held(t)' \subseteq Held(t) /\ Held(t)' \subseteq Nodes
  <2>1. \A t \in Threads : Held(t) \subseteq Nodes
    BY <1>1, RangeOfSeq DEF Held
  <2> QED
    BY <1>4, <1>5, <2>1 DEF Held
<1>12. Kept
  BY <1>9, <1>10, <1>11 DEF Kept
<1>13. /\ Range(free') \intersect Queued' = {}
       /\ \A t \in Threads : Range(free') \intersect Held(t)' = {}
  BY <1>1, <1>6, <1>7, <1>10, <1>11
<1> QED
  BY <1>6, <1>7, <1>8, <1>12, <1>13, KeptPool

LEMMA QueuesInNodes ==
  ASSUME Pool
  PROVE  /\ Range(free) \subseteq Nodes /\ Queued \subseteq Nodes
         /\ \A t \in Threads : Held(t) \subseteq Nodes
<1>1. /\ free \in Seq(Nodes) /\ video \in Seq(Nodes) /\ audio \in Seq(Nodes)
      /\ \A t \in Threads : vhand[t] \in Seq(Nodes) /\ ahand[t] \in Seq(Nodes)
  BY DEF Pool, PoolType
<1> QED
  BY <1>1, RangeOfSeq DEF Queued, Held

\* A new node comes from the free queue with the time stamp of the moment.
LEMMA NewNode ==
  ASSUME Pool, Captured, now \in 0..MaxTime, NEW kind \in VideoKinds \union {"pcm"},
         NodeNew(kind)
  PROVE  /\ Head(free) \in Range(free) /\ Head(free) \in Nodes
         /\ free' \in Seq(Nodes) /\ Distinct(free') /\ Head(free) \notin Range(free')
         /\ Range(free') \subseteq Range(free)
         /\ frame' \in [Nodes -> Frames]
         /\ frame'[Head(free)] = [pts |-> now, kind |-> kind]
         /\ \A n \in Nodes : n # Head(free) => frame'[n] = frame[n]
         /\ \A n \in Nodes : frame'[n].pts <= now
<1>1. free \in Seq(Nodes) /\ free # <<>> /\ Distinct(free) /\ frame \in [Nodes -> Frames]
  BY DEF Pool, PoolType, Apart, NodeNew
<1>2. /\ Tail(free) \in Seq(Nodes) /\ Head(free) \in Range(free) /\ Head(free) \in Nodes
      /\ Range(free) = Range(Tail(free)) \union {Head(free)}
      /\ Distinct(Tail(free)) /\ Head(free) \notin Range(Tail(free))
  BY <1>1, TailFacts
<1>3. free' = Tail(free)
  BY DEF NodeNew
<1>4. [pts |-> now, kind |-> kind] \in Frames
  BY DEF Frames
<1>5. /\ frame' \in [Nodes -> Frames]
      /\ frame'[Head(free)] = [pts |-> now, kind |-> kind]
      /\ \A n \in Nodes : n # Head(free) => frame'[n] = frame[n]
  BY <1>1, <1>2, <1>4 DEF NodeNew
<1>6. \A n \in Nodes : frame'[n].pts <= now
  BY <1>5 DEF Captured
<1> QED
  BY <1>2, <1>3, <1>5, <1>6

LEMMA PushedVideo ==
  ASSUME Pool, Captured, now \in 0..MaxTime, NEW kind \in VideoKinds, NodeNew(kind),
         video' = Append(video, Head(free)), UNCHANGED <<audio, vhand, ahand>>
  PROVE  Pool'
<1> DEFINE n == Head(free)
<1>1. /\ n \in Range(free) /\ n \in Nodes
      /\ free' \in Seq(Nodes) /\ Distinct(free') /\ n \notin Range(free')
      /\ Range(free') \subseteq Range(free)
      /\ frame' \in [Nodes -> Frames]
      /\ frame'[n] = [pts |-> now, kind |-> kind]
      /\ \A m \in Nodes : m # n => frame'[m] = frame[m]
      /\ \A m \in Nodes : frame'[m].pts <= now
  BY NewNode
<1>2. /\ n \notin Queued /\ \A t \in Threads : n \notin Held(t)
      /\ Queued \subseteq Nodes /\ \A t \in Threads : Held(t) \subseteq Nodes
  BY <1>1, QueuesInNodes DEF Pool, Apart
<1>3. /\ \A m \in Queued : frame'[m] = frame[m]
      /\ \A t \in Threads : \A m \in Held(t) : frame'[m] = frame[m]
  BY <1>1, <1>2
<1>4. video \in Seq(Nodes) /\ Distinct(video) /\ Sorted(video, frame)
  BY DEF Pool, PoolType, Apart, Streams
<1> HIDE DEF n
<1>5. video' = Append(video, n)
  BY DEF n
<1>6. /\ video' \in Seq(Nodes) /\ Range(video') = Range(video) \union {n}
      /\ Distinct(video')
  BY <1>1, <1>2, <1>4, <1>5, AppendFacts DEF Queued
<1>7. Sorted(video', frame')
  <2>1. Sorted(video, frame')
    BY <1>3, <1>4, OrderAgain DEF Queued
  <2>2. Before(Range(video), {n}, frame')
    BY <1>1, <1>2 DEF Before, Queued
  <2> QED
    BY <1>1, <1>4, <1>5, <2>1, <2>2, AppendFacts
<1>8. PoolType'
  BY <1>1, <1>6 DEF Pool, PoolType
<1>9. Apart'
  <2>1. Queued' = Queued \union {n} /\ \A t \in Threads : Held(t)' = Held(t)
    BY <1>6 DEF Queued, Held
  <2>2. Range(video') \intersect Range(audio') = {}
    BY <1>2, <1>6 DEF Pool, Apart, Queued
  <2>3. Range(free') \intersect Queued' = {}
    BY <1>1, <2>1 DEF Pool, Apart
  <2>4. \A t \in Threads : Held(t)' \intersect (Range(free') \union Queued') = {}
    BY <1>1, <1>2, <2>1 DEF Pool, Apart
  <2> QED
    BY <1>1, <1>6, <2>1, <2>2, <2>3, <2>4 DEF Pool, Apart
<1>10. VideoFrames'
  <2>1. \A m \in Range(video') : frame'[m].kind \in VideoKinds
    BY <1>1, <1>3, <1>6 DEF Pool, VideoFrames, Queued
  <2>2. ASSUME NEW t \in Threads, NEW m \in Range(vhand'[t])
        PROVE  frame'[m].kind \in VideoKinds
    BY <1>3, <2>2 DEF Pool, VideoFrames, Held
  <2> QED
    BY <2>1, <2>2 DEF VideoFrames
<1>11. Streams'
  <2>1. Sorted(audio', frame')
    BY <1>3, OrderAgain DEF Pool, Streams, Queued
  <2>2. ASSUME NEW t \in Threads
        PROVE  /\ Sorted(vhand'[t], frame') /\ Sorted(ahand'[t], frame')
               /\ Before(Range(vhand'[t]), Range(video'), frame')
               /\ Before(Range(ahand'[t]), Range(audio'), frame')
    <3>1. /\ \A m \in Range(vhand[t]) : frame'[m] = frame[m]
          /\ \A m \in Range(ahand[t]) : frame'[m] = frame[m]
          /\ \A m \in Range(vhand[t]) : m \in Nodes
      BY <1>2, <1>3, <2>2 DEF Held
    <3>2. /\ Sorted(vhand[t], frame) /\ Sorted(ahand[t], frame)
          /\ Before(Range(vhand[t]), Range(video), frame)
          /\ Before(Range(ahand[t]), Range(audio), frame)
      BY <2>2 DEF Pool, Streams
    <3>3. Sorted(vhand[t], frame') /\ Sorted(ahand[t], frame')
      BY <3>1, <3>2, OrderAgain
    <3>4. Before(Range(ahand[t]), Range(audio), frame')
      BY <1>3, <3>1, <3>2 DEF Before, Queued
    <3>5. Before(Range(vhand[t]), Range(video'), frame')
      BY <1>1, <1>3, <1>6, <3>1, <3>2 DEF Before, Queued
    <3> QED
      BY <3>3, <3>4, <3>5
  <2> QED
    BY <1>7, <2>1, <2>2 DEF Streams
<1> QED
  BY <1>8, <1>9, <1>10, <1>11 DEF Pool

LEMMA PushedAudio ==
  ASSUME Pool, Captured, now \in 0..MaxTime, NodeNew("pcm"),
         audio' = Append(audio, Head(free)), UNCHANGED <<video, ahand, vhand>>
  PROVE  Pool'
<1> DEFINE n == Head(free)
<1>1. /\ n \in Range(free) /\ n \in Nodes
      /\ free' \in Seq(Nodes) /\ Distinct(free') /\ n \notin Range(free')
      /\ Range(free') \subseteq Range(free)
      /\ frame' \in [Nodes -> Frames]
      /\ frame'[n] = [pts |-> now, kind |-> "pcm"]
      /\ \A m \in Nodes : m # n => frame'[m] = frame[m]
      /\ \A m \in Nodes : frame'[m].pts <= now
  BY NewNode
<1>2. /\ n \notin Queued /\ \A t \in Threads : n \notin Held(t)
      /\ Queued \subseteq Nodes /\ \A t \in Threads : Held(t) \subseteq Nodes
  BY <1>1, QueuesInNodes DEF Pool, Apart
<1>3. /\ \A m \in Queued : frame'[m] = frame[m]
      /\ \A t \in Threads : \A m \in Held(t) : frame'[m] = frame[m]
  BY <1>1, <1>2
<1>4. audio \in Seq(Nodes) /\ Distinct(audio) /\ Sorted(audio, frame)
  BY DEF Pool, PoolType, Apart, Streams
<1> HIDE DEF n
<1>5. audio' = Append(audio, n)
  BY DEF n
<1>6. /\ audio' \in Seq(Nodes) /\ Range(audio') = Range(audio) \union {n}
      /\ Distinct(audio')
  BY <1>1, <1>2, <1>4, <1>5, AppendFacts DEF Queued
<1>7. Sorted(audio', frame')
  <2>1. Sorted(audio, frame')
    BY <1>3, <1>4, OrderAgain DEF Queued
  <2>2. Before(Range(audio), {n}, frame')
    BY <1>1, <1>2 DEF Before, Queued
  <2> QED
    BY <1>1, <1>4, <1>5, <2>1, <2>2, AppendFacts
<1>8. PoolType'
  BY <1>1, <1>6 DEF Pool, PoolType
<1>9. Apart'
  <2>1. Queued' = Queued \union {n} /\ \A t \in Threads : Held(t)' = Held(t)
    BY <1>6 DEF Queued, Held
  <2>2. Range(audio') \intersect Range(video') = {}
    BY <1>2, <1>6 DEF Pool, Apart, Queued
  <2>3. Range(free') \intersect Queued' = {}
    BY <1>1, <2>1 DEF Pool, Apart
  <2>4. \A t \in Threads : Held(t)' \intersect (Range(free') \union Queued') = {}
    BY <1>1, <1>2, <2>1 DEF Pool, Apart
  <2> QED
    BY <1>1, <1>6, <2>1, <2>2, <2>3, <2>4 DEF Pool, Apart
<1>10. VideoFrames'
  <2>1. \A m \in Range(video') : frame'[m].kind \in VideoKinds
    BY <1>3 DEF Pool, VideoFrames, Queued
  <2>2. ASSUME NEW t \in Threads, NEW m \in Range(vhand'[t])
        PROVE  frame'[m].kind \in VideoKinds
    BY <1>3, <2>2 DEF Pool, VideoFrames, Held
  <2> QED
    BY <2>1, <2>2 DEF VideoFrames
<1>11. Streams'
  <2>1. Sorted(video', frame')
    BY <1>3, OrderAgain DEF Pool, Streams, Queued
  <2>2. ASSUME NEW t \in Threads
        PROVE  /\ Sorted(ahand'[t], frame') /\ Sorted(vhand'[t], frame')
               /\ Before(Range(ahand'[t]), Range(audio'), frame')
               /\ Before(Range(vhand'[t]), Range(video'), frame')
    <3>1. /\ \A m \in Range(ahand[t]) : frame'[m] = frame[m]
          /\ \A m \in Range(vhand[t]) : frame'[m] = frame[m]
          /\ \A m \in Range(ahand[t]) : m \in Nodes
      BY <1>2, <1>3, <2>2 DEF Held
    <3>2. /\ Sorted(ahand[t], frame) /\ Sorted(vhand[t], frame)
          /\ Before(Range(ahand[t]), Range(audio), frame)
          /\ Before(Range(vhand[t]), Range(video), frame)
      BY <2>2 DEF Pool, Streams
    <3>3. Sorted(ahand[t], frame') /\ Sorted(vhand[t], frame')
      BY <3>1, <3>2, OrderAgain
    <3>4. Before(Range(vhand[t]), Range(video), frame')
      BY <1>3, <3>1, <3>2 DEF Before, Queued
    <3>5. Before(Range(ahand[t]), Range(audio'), frame')
      BY <1>1, <1>3, <1>6, <3>1, <3>2 DEF Before, Queued
    <3> QED
      BY <3>3, <3>4, <3>5
  <2> QED
    BY <1>7, <2>1, <2>2 DEF Streams
<1> QED
  BY <1>8, <1>9, <1>10, <1>11 DEF Pool

LEMMA TakenVideo ==
  ASSUME Pool, NEW t \in Threads, video # <<>>, video' = Tail(video),
         vhand' = [vhand EXCEPT ![t] = Append(vhand[t], Head(video))],
         UNCHANGED <<free, audio, frame, ahand>>
  PROVE  Pool'
<1> DEFINE n == Head(video)
<1>1. /\ video \in Seq(Nodes) /\ Distinct(video) /\ Sorted(video, frame)
      /\ vhand[t] \in Seq(Nodes) /\ Distinct(vhand[t]) /\ Sorted(vhand[t], frame)
      /\ Before(Range(vhand[t]), Range(video), frame)
      /\ Held(t) \intersect Queued = {} /\ Range(video) \intersect Range(audio) = {}
  BY DEF Pool, PoolType, Apart, Streams
<1>2. /\ Tail(video) \in Seq(Nodes) /\ n \in Range(video) /\ n \in Nodes
      /\ Range(video) = Range(Tail(video)) \union {n}
      /\ Distinct(Tail(video)) /\ n \notin Range(Tail(video))
  BY <1>1, TailFacts
<1>3. Sorted(Tail(video), frame) /\ Before({n}, Range(Tail(video)), frame)
  BY <1>1, TailFacts
<1> HIDE DEF n
<1>4. vhand'[t] = Append(vhand[t], n) /\ \A u \in Threads : u # t => vhand'[u] = vhand[u]
  BY DEF n, Pool, PoolType
<1>5. n \notin Range(vhand[t])
  BY <1>1, <1>2 DEF Held, Queued
<1>6. /\ Append(vhand[t], n) \in Seq(Nodes)
      /\ Range(Append(vhand[t], n)) = Range(vhand[t]) \union {n}
      /\ Distinct(Append(vhand[t], n))
  BY <1>1, <1>2, <1>5, AppendFacts
<1>7. Sorted(Append(vhand[t], n), frame)
  <2>1. Before(Range(vhand[t]), {n}, frame)
    BY <1>1, <1>2 DEF Before
  <2> QED
    BY <1>1, <1>2, <2>1, AppendFacts
<1>8. PoolType'
  <2>1. vhand' \in [Threads -> Seq(Nodes)]
    BY <1>6 DEF n, Pool, PoolType
  <2> QED
    BY <1>2, <2>1 DEF Pool, PoolType
<1>9. /\ Held(t)' = Held(t) \union {n} /\ \A u \in Threads : u # t => Held(u)' = Held(u)
      /\ Queued' \subseteq Queued /\ n \notin Queued' /\ n \in Queued
  <2>1. Range(video') = Range(Tail(video)) /\ Range(audio') = Range(audio)
    OBVIOUS
  <2>2. Queued' = Range(Tail(video)) \union Range(audio)
    BY <2>1 DEF Queued
  <2>3. Held(t)' = Held(t) \union {n}
    BY <1>4, <1>6 DEF Held
  <2>4. \A u \in Threads : u # t => Held(u)' = Held(u)
    BY <1>4 DEF Held
  <2> QED
    BY <1>1, <1>2, <2>2, <2>3, <2>4 DEF Queued
<1>10. Apart'
  <2>1. ASSUME NEW u \in Threads
        PROVE  /\ Distinct(vhand'[u]) /\ Distinct(ahand'[u])
               /\ Range(vhand'[u]) \intersect Range(ahand'[u]) = {}
               /\ Held(u)' \intersect (Range(free') \union Queued') = {}
               /\ \A w \in Threads : u # w => Held(u)' \intersect Held(w)' = {}
    <3>1. /\ Distinct(vhand[u]) /\ Distinct(ahand[u])
          /\ Range(vhand[u]) \intersect Range(ahand[u]) = {}
          /\ Held(u) \intersect (Range(free) \union Queued) = {}
          /\ \A w \in Threads : u # w => Held(u) \intersect Held(w) = {}
          /\ \A w \in Threads : n \notin Held(w)
          /\ Range(free) \intersect Queued = {}
      BY <1>9, <2>1 DEF Pool, Apart
    <3>2. Distinct(vhand'[u]) /\ Distinct(ahand'[u])
      BY <1>4, <1>6, <3>1
    <3>3. Range(vhand'[u]) \intersect Range(ahand'[u]) = {}
      BY <1>4, <1>6, <3>1 DEF Held
    <3>4. Held(u)' \intersect (Range(free') \union Queued') = {}
      BY <1>9, <3>1
    <3>5. \A w \in Threads : u # w => Held(u)' \intersect Held(w)' = {}
      BY <1>9, <2>1, <3>1
    <3> QED
      BY <3>2, <3>3, <3>4, <3>5
  <2>2. /\ Range(free') \intersect Queued' = {}
        /\ Range(video') \intersect Range(audio') = {}
        /\ Distinct(free') /\ Distinct(video') /\ Distinct(audio')
    BY <1>1, <1>2, <1>9 DEF Pool, Apart
  <2> QED
    BY <2>1, <2>2 DEF Apart
<1>11. VideoFrames'
  BY <1>2, <1>4, <1>6 DEF Pool, VideoFrames
<1>12. Streams'
  <2>1. Sorted(video', frame') /\ Sorted(audio', frame')
    BY <1>3 DEF Pool, Streams
  <2>2. ASSUME NEW u \in Threads
        PROVE  /\ Sorted(vhand'[u], frame') /\ Sorted(ahand'[u], frame')
               /\ Before(Range(vhand'[u]), Range(video'), frame')
               /\ Before(Range(ahand'[u]), Range(audio'), frame')
    <3>1. /\ Sorted(vhand[u], frame) /\ Sorted(ahand[u], frame)
          /\ Before(Range(vhand[u]), Range(video), frame)
          /\ Before(Range(ahand[u]), Range(audio), frame)
      BY <2>2 DEF Pool, Streams
    <3>2. Before(Range(vhand'[u]), Range(video'), frame')
      <4>1. Before(Range(vhand[u]), Range(Tail(video)), frame)
        BY <1>2, <3>1 DEF Before
      <4>2. CASE u = t
        BY <1>3, <1>4, <1>6, <4>1, <4>2 DEF Before
      <4>3. CASE u # t
        BY <1>4, <2>2, <4>1, <4>3
      <4> QED
        BY <4>2, <4>3
    <3> QED
      BY <1>4, <1>7, <2>2, <3>1, <3>2
  <2> QED
    BY <2>1, <2>2 DEF Streams
<1> QED
  BY <1>8, <1>10, <1>11, <1>12 DEF Pool

LEMMA TakenAudio ==
  ASSUME Pool, NEW t \in Threads, audio # <<>>, audio' = Tail(audio),
         ahand' = [ahand EXCEPT ![t] = Append(ahand[t], Head(audio))],
         UNCHANGED <<free, video, frame, vhand>>
  PROVE  Pool'
<1> DEFINE n == Head(audio)
<1>1. /\ audio \in Seq(Nodes) /\ Distinct(audio) /\ Sorted(audio, frame)
      /\ ahand[t] \in Seq(Nodes) /\ Distinct(ahand[t]) /\ Sorted(ahand[t], frame)
      /\ Before(Range(ahand[t]), Range(audio), frame)
      /\ Held(t) \intersect Queued = {} /\ Range(audio) \intersect Range(video) = {}
  BY DEF Pool, PoolType, Apart, Streams
<1>2. /\ Tail(audio) \in Seq(Nodes) /\ n \in Range(audio) /\ n \in Nodes
      /\ Range(audio) = Range(Tail(audio)) \union {n}
      /\ Distinct(Tail(audio)) /\ n \notin Range(Tail(audio))
  BY <1>1, TailFacts
<1>3. Sorted(Tail(audio), frame) /\ Before({n}, Range(Tail(audio)), frame)
  BY <1>1, TailFacts
<1> HIDE DEF n
<1>4. ahand'[t] = Append(ahand[t], n) /\ \A u \in Threads : u # t => ahand'[u] = ahand[u]
  BY DEF n, Pool, PoolType
<1>5. n \notin Range(ahand[t])
  BY <1>1, <1>2 DEF Held, Queued
<1>6. /\ Append(ahand[t], n) \in Seq(Nodes)
      /\ Range(Append(ahand[t], n)) = Range(ahand[t]) \union {n}
      /\ Distinct(Append(ahand[t], n))
  BY <1>1, <1>2, <1>5, AppendFacts
<1>7. Sorted(Append(ahand[t], n), frame)
  <2>1. Before(Range(ahand[t]), {n}, frame)
    BY <1>1, <1>2 DEF Before
  <2> QED
    BY <1>1, <1>2, <2>1, AppendFacts
<1>8. PoolType'
  <2>1. ahand' \in [Threads -> Seq(Nodes)]
    BY <1>6 DEF n, Pool, PoolType
  <2> QED
    BY <1>2, <2>1 DEF Pool, PoolType
<1>9. /\ Held(t)' = Held(t) \union {n} /\ \A u \in Threads : u # t => Held(u)' = Held(u)
      /\ Queued' \subseteq Queued /\ n \notin Queued' /\ n \in Queued
  <2>1. Range(audio') = Range(Tail(audio)) /\ Range(video') = Range(video)
    OBVIOUS
  <2>2. Queued' = Range(Tail(audio)) \union Range(video)
    BY <2>1 DEF Queued
  <2>3. Held(t)' = Held(t) \union {n}
    BY <1>4, <1>6 DEF Held
  <2>4. \A u \in Threads : u # t => Held(u)' = Held(u)
    BY <1>4 DEF Held
  <2> QED
    BY <1>1, <1>2, <2>2, <2>3, <2>4 DEF Queued
<1>10. Apart'
  <2>1. ASSUME NEW u \in Threads
        PROVE  /\ Distinct(ahand'[u]) /\ Distinct(vhand'[u])
               /\ Range(ahand'[u]) \intersect Range(vhand'[u]) = {}
               /\ Held(u)' \intersect (Range(free') \union Queued') = {}
               /\ \A w \in Threads : u # w => Held(u)' \intersect Held(w)' = {}
    <3>1. /\ Distinct(ahand[u]) /\ Distinct(vhand[u])
          /\ Range(ahand[u]) \intersect Range(vhand[u]) = {}
          /\ Held(u) \intersect (Range(free) \union Queued) = {}
          /\ \A w \in Threads : u # w => Held(u) \intersect Held(w) = {}
          /\ \A w \in Threads : n \notin Held(w)
          /\ Range(free) \intersect Queued = {}
      BY <1>9, <2>1 DEF Pool, Apart
    <3>2. Distinct(ahand'[u]) /\ Distinct(vhand'[u])
      BY <1>4, <1>6, <3>1
    <3>3. Range(ahand'[u]) \intersect Range(vhand'[u]) = {}
      BY <1>4, <1>6, <3>1 DEF Held
    <3>4. Held(u)' \intersect (Range(free') \union Queued') = {}
      BY <1>9, <3>1
    <3>5. \A w \in Threads : u # w => Held(u)' \intersect Held(w)' = {}
      BY <1>9, <2>1, <3>1
    <3> QED
      BY <3>2, <3>3, <3>4, <3>5
  <2>2. /\ Range(free') \intersect Queued' = {}
        /\ Range(audio') \intersect Range(video') = {}
        /\ Distinct(free') /\ Distinct(audio') /\ Distinct(video')
    BY <1>1, <1>2, <1>9 DEF Pool, Apart
  <2> QED
    BY <2>1, <2>2 DEF Apart
<1>11. VideoFrames'
  BY DEF Pool, VideoFrames
<1>12. Streams'
  <2>1. Sorted(audio', frame') /\ Sorted(video', frame')
    BY <1>3 DEF Pool, Streams
  <2>2. ASSUME NEW u \in Threads
        PROVE  /\ Sorted(ahand'[u], frame') /\ Sorted(vhand'[u], frame')
               /\ Before(Range(ahand'[u]), Range(audio'), frame')
               /\ Before(Range(vhand'[u]), Range(video'), frame')
    <3>1. /\ Sorted(ahand[u], frame) /\ Sorted(vhand[u], frame)
          /\ Before(Range(ahand[u]), Range(audio), frame)
          /\ Before(Range(vhand[u]), Range(video), frame)
      BY <2>2 DEF Pool, Streams
    <3>2. Before(Range(ahand'[u]), Range(audio'), frame')
      <4>1. Before(Range(ahand[u]), Range(Tail(audio)), frame)
        BY <1>2, <3>1 DEF Before
      <4>2. CASE u = t
        BY <1>3, <1>4, <1>6, <4>1, <4>2 DEF Before
      <4>3. CASE u # t
        BY <1>4, <2>2, <4>1, <4>3
      <4> QED
        BY <4>2, <4>3
    <3> QED
      BY <1>4, <1>7, <2>2, <3>1, <3>2
  <2> QED
    BY <2>1, <2>2 DEF Streams
<1> QED
  BY <1>8, <1>10, <1>11, <1>12 DEF Pool

LEMMA SamePool ==
  ASSUME Pool, UNCHANGED <<queues, vhand, ahand>>
  PROVE  Pool'
<1>1. UNCHANGED <<free, video, audio, frame, vhand, ahand>>
  BY DEF queues
<1>2. PoolType' /\ VideoFrames' /\ Streams'
  BY <1>1 DEF Pool, PoolType, VideoFrames, Streams
<1>3. Apart'
  BY <1>1 DEF Pool, Apart, Queued, Held
<1> QED
  BY <1>2, <1>3 DEF Pool

-----------------------------------------------------------------------------
(* The threads a step is not of.                                           *)

\* The step only takes from the queues and leaves the other threads' frames.
Others(t) ==
  /\ now' = now
  /\ Range(audio') \subseteq Range(audio) /\ Queued' \subseteq Queued
  /\ \A n \in Queued' : frame'[n] = frame[n]
  /\ \A u \in Threads \ {t} :
       /\ pc'[u] = pc[u] /\ last'[u] = last[u]
       /\ vhand'[u] = vhand[u] /\ ahand'[u] = ahand[u]
       /\ \A n \in Held(u) : frame'[n] = frame[n]

LEMMA OthersOK ==
  ASSUME NEW t \in Threads, \A u \in Threads : ThreadOK(u), Others(t)
  PROVE  \A u \in Threads \ {t} : ThreadOK(u)'
<1> SUFFICES ASSUME NEW u \in Threads \ {t}
             PROVE  ThreadOK(u)'
  OBVIOUS
<1>1. /\ pc'[u] = pc[u] /\ last'[u] = last[u] /\ now' = now
      /\ vhand'[u] = vhand[u] /\ ahand'[u] = ahand[u] /\ Held(u)' = Held(u)
      /\ \A n \in Held(u) : frame'[n] = frame[n]
      /\ \A n \in Queued' : frame'[n] = frame[n]
      /\ Range(audio') \subseteq Range(audio) /\ Queued' \subseteq Queued
  BY DEF Others, Held
<1>2. \A n \in Held(u)' \union Queued' : frame'[n] = frame[n] /\ n \in Held(u) \union Queued
  BY <1>1
<1>3. /\ pc[u] \notin InHand => vhand[u] = <<>> /\ ahand[u] = <<>>
      /\ last[u] <= now /\ (pc[u] \notin Begun => last[u] = 0)
      /\ pc[u] \in Writing => \A n \in Held(u) \union Queued : frame[n].pts >= last[u]
  BY DEF ThreadOK
<1>4. pc'[u] \in Writing => \A n \in Held(u)' \union Queued' : frame'[n].pts >= last'[u]
  BY <1>1, <1>2, <1>3
<1>5. pc'[u] = "loopWrite" /\ ahand'[u] = <<>> =>
        Before(Range(vhand'[u]), Range(audio'), frame')
  <2> SUFFICES ASSUME pc[u] = "loopWrite", ahand[u] = <<>>
               PROVE  Before(Range(vhand[u]), Range(audio'), frame')
    BY <1>1
  <2>1. Before(Range(vhand[u]), Range(audio), frame)
    BY DEF ThreadOK
  <2>2. \A n \in Range(vhand[u]) \union Range(audio') : frame'[n] = frame[n]
    BY <1>1 DEF Held, Queued
  <2> QED
    BY <1>1, <2>1, <2>2 DEF Before
<1> QED
  BY <1>1, <1>3, <1>4, <1>5 DEF ThreadOK

LEMMA KeptOthers ==
  ASSUME Pool, Kept, NEW t \in Threads, now' = now,
         \A u \in Threads \ {t} : /\ pc'[u] = pc[u] /\ last'[u] = last[u]
                                  /\ vhand'[u] = vhand[u] /\ ahand'[u] = ahand[u]
  PROVE  Others(t)
<1>1. Range(video') \subseteq Range(video) /\ Range(audio') \subseteq Range(audio)
  BY KeptParts
<1>2. Queued' \subseteq Queued
  BY <1>1 DEF Queued
<1>3. \A u \in Threads \ {t} : Held(u)' = Held(u)
  BY DEF Held
<1> QED
  BY <1>1, <1>2, <1>3 DEF Others, Kept

\* A step that changes no queue, no hand and no frame.
LEMMA StillKept ==
  ASSUME UNCHANGED <<queues, vhand, ahand>>
  PROVE  Kept
<1>1. UNCHANGED <<free, video, audio, frame, vhand, ahand>>
  BY DEF queues
<1> QED
  BY <1>1 DEF Kept, Part

\* A frame that is pushed is as young as the moment.
LEMMA PushOK ==
  ASSUME Pool, Pool', Captured, \A u \in Threads : ThreadOK(u), now \in 0..MaxTime,
         FlagType, NEW kind \in VideoKinds \union {"pcm"}, NodeNew(kind),
         \/ video' = Append(video, Head(free)) /\ audio' = audio
         \/ audio' = Append(audio, Head(free)) /\ video' = video,
         UNCHANGED <<now, pc, vhand, ahand, last>>
  PROVE  \A u \in Threads : ThreadOK(u)'
<1> SUFFICES ASSUME NEW u \in Threads
             PROVE  ThreadOK(u)'
  OBVIOUS
<1> DEFINE new == Head(free)
<1>1. /\ new \in Range(free) /\ new \in Nodes
      /\ frame'[new] = [pts |-> now, kind |-> kind]
      /\ \A n \in Nodes : n # new => frame'[n] = frame[n]
  BY NewNode
<1>2. /\ new \notin Queued /\ new \notin Held(u)
      /\ Queued \subseteq Nodes /\ Held(u) \subseteq Nodes
  BY <1>1, QueuesInNodes DEF Pool, Apart
<1>3. \A n \in Queued \union Held(u) : frame'[n] = frame[n]
  BY <1>1, <1>2
<1>4. video \in Seq(Nodes) /\ audio \in Seq(Nodes)
  BY DEF Pool, PoolType
<1>5. /\ Range(Append(video, new)) = Range(video) \union {new}
      /\ Range(Append(audio, new)) = Range(audio) \union {new}
  BY <1>1, <1>4, AppendFacts
<1> HIDE DEF new
<1>6. /\ Range(video') \subseteq Range(video) \union {new}
      /\ Range(audio') \subseteq Range(audio) \union {new}
  BY <1>5 DEF new
<1>7. Held(u)' = Held(u) /\ Queued' \subseteq Queued \union {new}
  BY <1>6 DEF Held, Queued
<1>8. frame'[new].pts = now
  BY <1>1
<1>9. /\ pc[u] \notin InHand => vhand[u] = <<>> /\ ahand[u] = <<>>
      /\ last[u] <= now /\ (pc[u] \notin Begun => last[u] = 0)
      /\ pc[u] \in Writing => \A n \in Held(u) \union Queued : frame[n].pts >= last[u]
      /\ last[u] \in 0..MaxTime
  BY DEF ThreadOK, FlagType
<1>10. pc'[u] \in Writing => \A n \in Held(u)' \union Queued' : frame'[n].pts >= last'[u]
  BY <1>3, <1>7, <1>8, <1>9
<1>11. pc'[u] = "loopWrite" /\ ahand'[u] = <<>> =>
         Before(Range(vhand'[u]), Range(audio'), frame')
  <2> SUFFICES ASSUME pc[u] = "loopWrite", ahand[u] = <<>>,
                      NEW a \in Range(vhand[u]), NEW b \in Range(audio')
               PROVE  frame'[a].pts <= frame'[b].pts
    BY DEF Before
  <2>1. Before(Range(vhand[u]), Range(audio), frame)
    BY DEF ThreadOK
  <2>2. frame'[a] = frame[a] /\ frame[a].pts <= now
    BY <1>2, <1>3 DEF Held, Captured
  <2>3. CASE b = new
    BY <1>8, <2>2, <2>3
  <2>4. CASE b \in Range(audio)
    BY <1>3, <2>1, <2>2, <2>4 DEF Before, Queued
  <2> QED
    BY <1>6, <2>3, <2>4
<1> QED
  BY <1>9, <1>10, <1>11 DEF ThreadOK

-----------------------------------------------------------------------------
(* The pool and the threads, action by action.                             *)

LEMMA HeadTime ==
  ASSUME FlagType, Pool, NEW t \in Threads
  PROVE  /\ vhand[t] # <<>> => /\ frame[Head(vhand[t])].pts \in 0..MaxTime
                               /\ frame[Head(vhand[t])].kind \in VideoKinds
                               /\ Head(vhand[t]) \in Range(vhand[t])
         /\ ahand[t] # <<>> => /\ frame[Head(ahand[t])].pts \in 0..MaxTime
                               /\ Head(ahand[t]) \in Range(ahand[t])
<1>1. /\ vhand[t] \in Seq(Nodes) /\ ahand[t] \in Seq(Nodes)
      /\ frame \in [Nodes -> Frames]
  BY DEF Pool, PoolType
<1>2. ASSUME vhand[t] # <<>>
      PROVE  /\ frame[Head(vhand[t])].pts \in 0..MaxTime
             /\ frame[Head(vhand[t])].kind \in VideoKinds
             /\ Head(vhand[t]) \in Range(vhand[t])
  <2>1. Head(vhand[t]) \in Range(vhand[t]) /\ Head(vhand[t]) \in Nodes
    BY <1>1, <1>2, TailFacts
  <2> QED
    BY <1>1, <2>1 DEF Frames, Pool, VideoFrames
<1>3. ASSUME ahand[t] # <<>>
      PROVE  frame[Head(ahand[t])].pts \in 0..MaxTime /\ Head(ahand[t]) \in Range(ahand[t])
  <2>1. Head(ahand[t]) \in Range(ahand[t]) /\ Head(ahand[t]) \in Nodes
    BY <1>1, <1>3, TailFacts
  <2> QED
    BY <1>1, <2>1 DEF Frames
<1> QED
  BY <1>2, <1>3

\* Steps that move no node.
Still(t) ==
  \/ ThreadBegin(t) \/ ThreadReady(t) \/ FirstTest(t) \/ FirstWaitAudio(t)
  \/ LoopTest(t) \/ LoopNoVideo(t) \/ Finish(t) \/ Start(t)

LEMMA StillStep ==
  ASSUME IInv, NEW t \in Threads, Still(t)
  PROVE  Pool' /\ Captured' /\ \A u \in Threads : ThreadOK(u)'
<1> USE DEF Still, flags, locals
<1>1. UNCHANGED <<queues, vhand, ahand, now>>
  BY DEF ThreadBegin, ThreadReady, FirstTest, FirstWaitAudio, LoopTest, LoopNoVideo,
         Finish, Start
<1>2. Pool' /\ Kept
  BY <1>1, SamePool, StillKept DEF IInv
<1>3. UNCHANGED <<free, video, audio, frame, vhand, ahand, now>>
  BY <1>1 DEF queues
<1>4. Captured'
  BY <1>3 DEF IInv, Captured
<1>5. /\ pc \in [Threads -> AllPCs] /\ last \in [Threads -> 0..MaxTime] /\ now \in 0..MaxTime
      /\ taskRun \in BOOLEAN
  BY DEF IInv, FlagType
<1>6. \A u \in Threads \ {t} : pc'[u] = pc[u] /\ last'[u] = last[u]
  BY <1>5 DEF ThreadBegin, ThreadReady, FirstTest, FirstWaitAudio, LoopTest, LoopNoVideo,
         Finish, Start, Goto
<1>7. Others(t)
  BY <1>2, <1>3, <1>6, KeptOthers DEF IInv
<1>8. \A u \in Threads \ {t} : ThreadOK(u)'
  BY <1>7, OthersOK DEF IInv
<1>9. ThreadOK(t)'
  <2>1. /\ pc[t] \notin InHand => vhand[t] = <<>> /\ ahand[t] = <<>>
        /\ last[t] <= now /\ (pc[t] \notin Begun => last[t] = 0)
        /\ pc[t] \in Writing => \A n \in Held(t) \union Queued : frame[n].pts >= last[t]
    BY DEF IInv, ThreadOK
  <2>2. \/ pc[t] \notin InHand /\ pc'[t] \notin Writing /\ last'[t] = last[t]
                               /\ pc[t] \notin Begun
        \/ pc[t] \in Searching /\ pc'[t] \in InHand \ Writing /\ last'[t] = last[t]
        \/ pc[t] \in Writing /\ pc'[t] \in InHand \intersect Begun
                             /\ pc'[t] # "loopWrite" /\ last'[t] = last[t]
        \/ pc[t] = "finish" /\ pc'[t] = "none" /\ last'[t] = 0
    BY <1>5 DEF ThreadBegin, ThreadReady, FirstTest, FirstWaitAudio, LoopTest, LoopNoVideo,
         Finish, Start, Goto, InHand, Begun, Searching, Writing
  <2>3. Held(t)' = Held(t) /\ Queued' = Queued
    BY <1>3 DEF Held, Queued
  <2>4. pc'[t] \notin InHand => vhand'[t] = <<>> /\ ahand'[t] = <<>>
    BY <1>3, <2>1, <2>2 DEF InHand, Begun, Searching, Writing
  <2>5. last'[t] <= now' /\ (pc'[t] \notin Begun => last'[t] = 0)
    BY <1>3, <1>5, <2>1, <2>2 DEF InHand, Begun, Searching, Writing
  <2>6. pc'[t] \in Writing => \A n \in Held(t)' \union Queued' : frame'[n].pts >= last'[t]
    BY <1>3, <2>1, <2>2, <2>3 DEF InHand, Begun, Searching, Writing
  <2>7. pc'[t] # "loopWrite"
    BY <2>2 DEF InHand, Begun, Searching, Writing
  <2> QED
    BY <2>4, <2>5, <2>6, <2>7 DEF ThreadOK
<1> QED
  BY <1>2, <1>4, <1>8, <1>9

\* Time passes, or the user stops: no thread does anything.
LEMMA IdleStep ==
  ASSUME IInv, Tick \/ Stop
  PROVE  Pool' /\ Captured' /\ \A u \in Threads : ThreadOK(u)'
<1>1. /\ UNCHANGED <<free, video, audio, frame, vhand, ahand, pc, last>>
      /\ now \in Int /\ now' \in Int /\ now <= now'
  BY DEF IInv, FlagType, Tick, Stop, queues, locals
<1>2. Pool'
  BY <1>1, SamePool DEF IInv, queues
<1>3. Captured'
  <2>1. \A n \in Nodes : frame[n].pts \in Int
    BY DEF IInv, Pool, PoolType, Frames
  <2> QED
    BY <1>1, <2>1 DEF IInv, Captured
<1>4. ASSUME NEW u \in Threads PROVE ThreadOK(u)'
  <2>1. Held(u)' = Held(u) /\ Queued' = Queued
    BY <1>1 DEF Held, Queued
  <2>2. last[u] \in Int
    BY <1>4 DEF IInv, FlagType
  <2>3. ThreadOK(u)
    BY <1>4 DEF IInv
  <2> QED
    BY <1>1, <2>1, <2>2, <2>3 DEF ThreadOK
<1> QED
  BY <1>2, <1>3, <1>4

LEMMA PushStep ==
  ASSUME IInv, (\E k \in VideoKinds : PushVideo(k)) \/ PushAudio
  PROVE  Pool' /\ Captured' /\ \A u \in Threads : ThreadOK(u)'
<1> USE DEF locals
<1>1. ASSUME NEW k \in VideoKinds, PushVideo(k)
      PROVE  Pool' /\ Captured' /\ \A u \in Threads : ThreadOK(u)'
  <2>1. /\ NodeNew(k) /\ video' = Append(video, Head(free)) /\ audio' = audio
        /\ UNCHANGED <<now, pc, vhand, ahand, last>>
    BY <1>1 DEF PushVideo
  <2>2. Pool /\ Captured /\ FlagType /\ now \in 0..MaxTime /\ \A u \in Threads : ThreadOK(u)
    BY DEF IInv, FlagType
  <2>3. Pool'
    BY <2>1, <2>2, PushedVideo
  <2>4. Captured'
    BY <2>1, <2>2, NewNode DEF Captured
  <2> QED
    BY <2>1, <2>2, <2>3, <2>4, PushOK
<1>2. CASE PushAudio
  <2>1. /\ NodeNew("pcm") /\ audio' = Append(audio, Head(free)) /\ video' = video
        /\ UNCHANGED <<now, pc, vhand, ahand, last>>
    BY <1>2 DEF PushAudio
  <2>2. Pool /\ Captured /\ FlagType /\ now \in 0..MaxTime /\ \A u \in Threads : ThreadOK(u)
    BY DEF IInv, FlagType
  <2>3. Pool'
    BY <2>1, <2>2, PushedAudio
  <2>4. Captured'
    BY <2>1, <2>2, NewNode DEF Captured
  <2> QED
    BY <2>1, <2>2, <2>3, <2>4, PushOK
<1> QED
  BY <1>1, <1>2

\* A frame goes from the queue into the hand, or nothing happens.
VideoTaken(t) ==
  /\ video # <<>> /\ video' = Tail(video)
  /\ vhand' = [vhand EXCEPT ![t] = Append(vhand[t], Head(video))]
  /\ UNCHANGED <<free, audio, frame, ahand>>
AudioTaken(t) ==
  /\ audio # <<>> /\ audio' = Tail(audio)
  /\ ahand' = [ahand EXCEPT ![t] = Append(ahand[t], Head(audio))]
  /\ UNCHANGED <<free, video, frame, vhand>>
NoneTaken == UNCHANGED <<queues, vhand, ahand>>

LEMMA TakenFacts ==
  ASSUME Pool, NEW t \in Threads, now' = now, last' = last,
         \A u \in Threads \ {t} : pc'[u] = pc[u],
         VideoTaken(t) \/ AudioTaken(t) \/ NoneTaken
  PROVE  /\ Pool' /\ Others(t) /\ frame' = frame
         /\ Held(t)' \union Queued' \subseteq Held(t) \union Queued
<1>1. CASE VideoTaken(t)
  <2>1. video \in Seq(Nodes) /\ vhand[t] \in Seq(Nodes) /\ video # <<>>
    BY <1>1 DEF Pool, PoolType, VideoTaken
  <2>2. /\ Range(video) = Range(Tail(video)) \union {Head(video)}
        /\ Head(video) \in Nodes /\ Head(video) \in Range(video)
    BY <2>1, TailFacts
  <2>3. Range(Append(vhand[t], Head(video))) = Range(vhand[t]) \union {Head(video)}
    BY <2>1, <2>2, AppendFacts
  <2>4. vhand'[t] = Append(vhand[t], Head(video))
        /\ \A u \in Threads \ {t} : vhand'[u] = vhand[u] /\ ahand'[u] = ahand[u]
    BY <1>1 DEF Pool, PoolType, VideoTaken
  <2>5. Pool'
    BY <1>1, TakenVideo DEF VideoTaken
  <2>6. /\ Range(video') \subseteq Range(video) /\ Range(audio') = Range(audio)
        /\ Range(vhand'[t]) \subseteq Range(vhand[t]) \union Range(video)
        /\ Range(ahand'[t]) = Range(ahand[t]) /\ frame' = frame
    BY <1>1, <2>2, <2>3, <2>4 DEF VideoTaken
  <2>7. Others(t)
    BY <2>4, <2>6 DEF Others, Queued
  <2>8. Held(t)' \union Queued' \subseteq Held(t) \union Queued
    BY <2>6 DEF Held, Queued
  <2> QED
    BY <2>5, <2>6, <2>7, <2>8
<1>2. CASE AudioTaken(t)
  <2>1. audio \in Seq(Nodes) /\ ahand[t] \in Seq(Nodes) /\ audio # <<>>
    BY <1>2 DEF Pool, PoolType, AudioTaken
  <2>2. /\ Range(audio) = Range(Tail(audio)) \union {Head(audio)}
        /\ Head(audio) \in Nodes /\ Head(audio) \in Range(audio)
    BY <2>1, TailFacts
  <2>3. Range(Append(ahand[t], Head(audio))) = Range(ahand[t]) \union {Head(audio)}
    BY <2>1, <2>2, AppendFacts
  <2>4. ahand'[t] = Append(ahand[t], Head(audio))
        /\ \A u \in Threads \ {t} : vhand'[u] = vhand[u] /\ ahand'[u] = ahand[u]
    BY <1>2 DEF Pool, PoolType, AudioTaken
  <2>5. Pool'
    BY <1>2, TakenAudio DEF AudioTaken
  <2>6. /\ Range(audio') \subseteq Range(audio) /\ Range(video') = Range(video)
        /\ Range(ahand'[t]) \subseteq Range(ahand[t]) \union Range(audio)
        /\ Range(vhand'[t]) = Range(vhand[t]) /\ frame' = frame
    BY <1>2, <2>2, <2>3, <2>4 DEF AudioTaken
  <2>7. Others(t)
    BY <2>4, <2>6 DEF Others, Queued
  <2>8. Held(t)' \union Queued' \subseteq Held(t) \union Queued
    BY <2>6 DEF Held, Queued
  <2> QED
    BY <2>5, <2>6, <2>7, <2>8
<1>3. CASE NoneTaken
  <2>1. UNCHANGED <<free, video, audio, frame, vhand, ahand>>
    BY <1>3 DEF NoneTaken, queues
  <2>2. Pool' /\ Kept
    BY <1>3, SamePool, StillKept DEF NoneTaken
  <2>3. Others(t)
    BY <2>1, <2>2, KeptOthers
  <2> QED
    BY <2>1, <2>2, <2>3 DEF Held, Queued
<1> QED
  BY <1>1, <1>2, <1>3

Takes(t) == FirstVideo(t) \/ FirstAudio(t) \/ LoopVideo(t) \/ LoopAudio(t)

LEMMA TakeForms ==
  ASSUME IInv, NEW t \in Threads, Takes(t)
  PROVE  VideoTaken(t) \/ AudioTaken(t) \/ NoneTaken
<1>1. \A x : <<x>> = Append(<<>>, x)
  OBVIOUS
<1>2. CASE FirstVideo(t)
  BY <1>1, <1>2 DEF FirstVideo, VideoTaken, NoneTaken, queues
<1>3. CASE FirstAudio(t)
  BY <1>1, <1>3 DEF FirstAudio, AudioTaken, NoneTaken, queues
<1>4. CASE LoopVideo(t)
  BY <1>4 DEF LoopVideo, VideoTaken, NoneTaken, queues
<1>5. CASE LoopAudio(t)
  BY <1>5 DEF LoopAudio, AudioTaken, NoneTaken, queues
<1> QED
  BY <1>2, <1>3, <1>4, <1>5 DEF Takes

\* A worker that holds no audio after looking found none: the batch has room.
LEMMA NoAudioLeft ==
  ASSUME IInv, NEW t \in Threads, LoopAudio(t), ahand'[t] = <<>>
  PROVE  audio' = <<>>
<1>1. /\ audio \in Seq(Nodes) /\ ahand[t] \in Seq(Nodes)
      /\ ahand \in [Threads -> Seq(Nodes)]
  BY DEF IInv, Pool, PoolType
<1>2. CASE audio # <<>> /\ Len(ahand[t]) < Batch
  <2>1. Head(audio) \in Nodes
    BY <1>1, <1>2, TailFacts
  <2>2. Append(ahand[t], Head(audio)) # <<>>
    BY <1>1, <2>1, AppendFacts
  <2>3. ahand'[t] = Append(ahand[t], Head(audio))
    BY <1>1, <1>2 DEF LoopAudio
  <2> QED
    BY <2>2, <2>3
<1>3. CASE ~(audio # <<>> /\ Len(ahand[t]) < Batch)
  <2>1. ahand[t] = <<>> /\ audio' = audio
    BY <1>1, <1>3 DEF LoopAudio
  <2>2. Len(ahand[t]) < Batch
    BY <2>1, BufferAssumption
  <2> QED
    BY <1>3, <2>1, <2>2
<1> QED
  BY <1>2, <1>3

LEMMA TakeStep ==
  ASSUME IInv, NEW t \in Threads, Takes(t)
  PROVE  Pool' /\ Captured' /\ \A u \in Threads : ThreadOK(u)'
<1> USE DEF Takes, flags
<1>1. /\ pc \in [Threads -> AllPCs] /\ last \in [Threads -> 0..MaxTime]
      /\ now \in 0..MaxTime
  BY DEF IInv, FlagType
<1>2. /\ now' = now /\ last' = last
      /\ \A u \in Threads \ {t} : pc'[u] = pc[u]
  BY <1>1 DEF FirstVideo, FirstAudio, LoopVideo, LoopAudio, Goto
<1>3. /\ Pool' /\ Others(t) /\ frame' = frame
      /\ Held(t)' \union Queued' \subseteq Held(t) \union Queued
  BY <1>2, TakeForms, TakenFacts DEF IInv
<1>4. Captured'
  BY <1>2, <1>3 DEF IInv, Captured
<1>5. \A u \in Threads \ {t} : ThreadOK(u)'
  BY <1>3, OthersOK DEF IInv
<1>6. ThreadOK(t)'
  <2>1. /\ last[t] <= now /\ (pc[t] \notin Begun => last[t] = 0)
        /\ pc[t] \in Writing => \A n \in Held(t) \union Queued : frame[n].pts >= last[t]
    BY DEF IInv, ThreadOK
  <2>2. \/ pc[t] \in Searching /\ pc'[t] \in Searching
        \/ pc[t] \in Writing /\ pc'[t] \in Writing
    BY <1>1 DEF FirstVideo, FirstAudio, LoopVideo, LoopAudio, Goto, Searching, Writing
  <2>3. /\ pc'[t] \in InHand /\ (pc'[t] \notin Begun => pc[t] \notin Begun)
        /\ (pc'[t] \in Writing => pc[t] \in Writing)
    BY <2>2 DEF InHand, Begun, Searching, Writing
  <2>4. pc'[t] \in Writing => \A n \in Held(t)' \union Queued' : frame'[n].pts >= last'[t]
    BY <1>2, <1>3, <2>1, <2>3
  <2>5. pc'[t] = "loopWrite" /\ ahand'[t] = <<>> =>
          Before(Range(vhand'[t]), Range(audio'), frame')
    <3> SUFFICES ASSUME pc'[t] = "loopWrite", ahand'[t] = <<>>
                 PROVE  Before(Range(vhand'[t]), Range(audio'), frame')
      OBVIOUS
    <3>1. LoopAudio(t)
      BY <1>1 DEF FirstVideo, FirstAudio, LoopVideo, Goto
    <3>2. audio' = <<>>
      BY <3>1, NoAudioLeft
    <3> QED
      BY <3>2, EmptyFacts DEF Before
  <2> QED
    BY <1>2, <2>1, <2>3, <2>4, <2>5 DEF ThreadOK
<1> QED
  BY <1>3, <1>4, <1>5, <1>6

\* A worker gives back nodes of its hands.
HandsGiven(t, s) ==
  /\ s \in Seq(Nodes) /\ Distinct(s) /\ Range(s) \subseteq Held(t)
  /\ NodesDel(s) /\ UNCHANGED <<video, audio>>
  /\ vhand' \in [Threads -> Seq(Nodes)] /\ ahand' \in [Threads -> Seq(Nodes)]
  /\ Part(vhand'[t], vhand[t]) /\ Part(ahand'[t], ahand[t])
  /\ Range(s) \intersect Held(t)' = {}
  /\ \A u \in Threads \ {t} : vhand'[u] = vhand[u] /\ ahand'[u] = ahand[u]

LEMMA DelCaptured ==
  ASSUME Captured, now \in 0..MaxTime, now' = now, NEW s, NodesDel(s)
  PROVE  Captured'
BY DEF Captured, NodesDel, Empty

LEMMA HandsGivenFacts ==
  ASSUME Pool, Captured, NEW t \in Threads, NEW s, HandsGiven(t, s),
         now \in 0..MaxTime, now' = now,
         \A u \in Threads \ {t} : pc'[u] = pc[u] /\ last'[u] = last[u]
  PROVE  Pool' /\ Captured' /\ Others(t) /\ Kept
<1>1. /\ s \in Seq(Nodes) /\ Distinct(s) /\ Range(s) \subseteq Held(t) /\ NodesDel(s)
      /\ video' = video /\ audio' = audio /\ Queued' = Queued
      /\ vhand' \in [Threads -> Seq(Nodes)] /\ ahand' \in [Threads -> Seq(Nodes)]
      /\ Part(video', video) /\ Part(audio', audio)
  BY DEF HandsGiven, Part, Queued
<1>2. \A u \in Threads : Part(vhand'[u], vhand[u]) /\ Part(ahand'[u], ahand[u])
  BY DEF HandsGiven, Part
<1>3. Range(s) \intersect (Range(free) \union Queued') = {}
  BY <1>1 DEF Pool, Apart
<1>4. \A u \in Threads : Range(s) \intersect Held(u)' = {}
  <2> SUFFICES ASSUME NEW u \in Threads \ {t}
               PROVE  Range(s) \intersect Held(u)' = {}
    BY DEF HandsGiven
  <2>1. Held(u)' = Held(u)
    BY DEF HandsGiven, Held
  <2> QED
    BY <1>1, <2>1 DEF Pool, Apart
<1>5. Pool' /\ Kept
  BY <1>1, <1>2, <1>3, <1>4, GivenBack
<1>6. Captured'
  BY <1>1, DelCaptured
<1>7. Others(t)
  BY <1>5, KeptOthers DEF HandsGiven
<1> QED
  BY <1>5, <1>6, <1>7

\* Both hands are emptied and some or all of what they held is given back.
LEMMA DropForms ==
  ASSUME Pool, NEW t \in Threads, DropHands(t), UNCHANGED <<video, audio>>,
         NEW s, NodesDel(s),
         s = vhand[t] \o ahand[t] \/ s = vhand[t] \/ s = ahand[t]
  PROVE  HandsGiven(t, s) /\ vhand'[t] = <<>> /\ ahand'[t] = <<>>
<1>1. /\ vhand[t] \in Seq(Nodes) /\ ahand[t] \in Seq(Nodes)
      /\ Distinct(vhand[t]) /\ Distinct(ahand[t])
      /\ Range(vhand[t]) \intersect Range(ahand[t]) = {}
      /\ vhand \in [Threads -> Seq(Nodes)] /\ ahand \in [Threads -> Seq(Nodes)]
  BY DEF Pool, PoolType, Apart
<1>2. /\ vhand'[t] = <<>> /\ ahand'[t] = <<>>
      /\ vhand' \in [Threads -> Seq(Nodes)] /\ ahand' \in [Threads -> Seq(Nodes)]
      /\ \A u \in Threads \ {t} : vhand'[u] = vhand[u] /\ ahand'[u] = ahand[u]
  BY <1>1, EmptyFacts DEF DropHands
<1>3. /\ vhand[t] \o ahand[t] \in Seq(Nodes) /\ Distinct(vhand[t] \o ahand[t])
      /\ Range(vhand[t] \o ahand[t]) = Range(vhand[t]) \union Range(ahand[t])
  BY <1>1, ConcatFacts
<1>4. s \in Seq(Nodes) /\ Distinct(s) /\ Range(s) \subseteq Held(t)
  BY <1>1, <1>3 DEF Held
<1>5. Held(t)' = {}
  BY <1>2, EmptyFacts DEF Held
<1> QED
  BY <1>2, <1>4, <1>5 DEF HandsGiven, Part

\* The oldest frame of a hand is given back.
LEMMA AudioWritten ==
  ASSUME Pool, NEW t \in Threads, ahand[t] # <<>>, NodesDel(<<Head(ahand[t])>>),
         ahand' = [ahand EXCEPT ![t] = Tail(ahand[t])], UNCHANGED <<video, audio, vhand>>
  PROVE  HandsGiven(t, <<Head(ahand[t])>>)
<1> DEFINE n == Head(ahand[t])
<1>1. /\ ahand[t] \in Seq(Nodes) /\ Distinct(ahand[t])
      /\ Range(vhand[t]) \intersect Range(ahand[t]) = {}
      /\ vhand \in [Threads -> Seq(Nodes)] /\ ahand \in [Threads -> Seq(Nodes)]
  BY DEF Pool, PoolType, Apart
<1>2. /\ Tail(ahand[t]) \in Seq(Nodes) /\ n \in Range(ahand[t]) /\ n \in Nodes
      /\ n \notin Range(Tail(ahand[t]))
  BY <1>1, TailFacts
<1>3. ahand'[t] = Tail(ahand[t]) /\ ahand' \in [Threads -> Seq(Nodes)]
      /\ \A u \in Threads \ {t} : ahand'[u] = ahand[u]
  BY <1>1, <1>2
<1> HIDE DEF n
<1>4. <<n>> \in Seq(Nodes) /\ Distinct(<<n>>) /\ Range(<<n>>) = {n}
  BY <1>2 DEF Distinct, Range
<1>5. n \in Held(t) /\ n \notin Held(t)'
  BY <1>1, <1>2, <1>3 DEF Held
<1>6. Part(vhand'[t], vhand[t]) /\ Part(ahand'[t], ahand[t])
  BY <1>3 DEF Part
<1>7. HandsGiven(t, <<n>>)
  BY <1>1, <1>3, <1>4, <1>5, <1>6 DEF n, HandsGiven
<1> QED
  BY <1>7 DEF n

LEMMA VideoWritten ==
  ASSUME Pool, NEW t \in Threads, vhand[t] # <<>>, NodesDel(<<Head(vhand[t])>>),
         vhand' = [vhand EXCEPT ![t] = Tail(vhand[t])], UNCHANGED <<video, audio, ahand>>
  PROVE  HandsGiven(t, <<Head(vhand[t])>>)
<1> DEFINE n == Head(vhand[t])
<1>1. /\ vhand[t] \in Seq(Nodes) /\ Distinct(vhand[t])
      /\ Range(vhand[t]) \intersect Range(ahand[t]) = {}
      /\ vhand \in [Threads -> Seq(Nodes)] /\ ahand \in [Threads -> Seq(Nodes)]
  BY DEF Pool, PoolType, Apart
<1>2. /\ Tail(vhand[t]) \in Seq(Nodes) /\ n \in Range(vhand[t]) /\ n \in Nodes
      /\ n \notin Range(Tail(vhand[t]))
  BY <1>1, TailFacts
<1>3. vhand'[t] = Tail(vhand[t]) /\ vhand' \in [Threads -> Seq(Nodes)]
      /\ \A u \in Threads \ {t} : vhand'[u] = vhand[u]
  BY <1>1, <1>2
<1> HIDE DEF n
<1>4. <<n>> \in Seq(Nodes) /\ Distinct(<<n>>) /\ Range(<<n>>) = {n}
  BY <1>2 DEF Distinct, Range
<1>5. n \in Held(t) /\ n \notin Held(t)'
  BY <1>1, <1>2, <1>3 DEF Held
<1>6. Part(vhand'[t], vhand[t]) /\ Part(ahand'[t], ahand[t])
  BY <1>3 DEF Part
<1>7. HandsGiven(t, <<n>>)
  BY <1>1, <1>3, <1>4, <1>5, <1>6 DEF n, HandsGiven
<1> QED
  BY <1>7 DEF n

\* Steps that empty both hands.
Drops(t) == FirstSkip(t) \/ FirstWrite(t) \/ FirstOutOfStep(t) \/ GiveBack(t)

LEMMA DropStep ==
  ASSUME IInv, NEW t \in Threads, Drops(t)
  PROVE  Pool' /\ Captured' /\ \A u \in Threads : ThreadOK(u)'
<1> USE DEF Drops, flags
<1>1. /\ pc \in [Threads -> AllPCs] /\ last \in [Threads -> 0..MaxTime]
      /\ now \in 0..MaxTime /\ Pool /\ Captured
  BY DEF IInv, FlagType
<1>2. /\ now' = now /\ last' = last /\ UNCHANGED <<video, audio>> /\ DropHands(t)
      /\ \A u \in Threads \ {t} : pc'[u] = pc[u]
  BY <1>1 DEF FirstSkip, FirstWrite, FirstOutOfStep, GiveBack, Goto
<1>3. PICK s \in {vhand[t] \o ahand[t], vhand[t], ahand[t]} : NodesDel(s)
  BY DEF FirstSkip, FirstWrite, FirstOutOfStep, GiveBack
<1>4. HandsGiven(t, s) /\ vhand'[t] = <<>> /\ ahand'[t] = <<>>
  BY <1>1, <1>2, <1>3, DropForms
<1>5. Pool' /\ Captured' /\ Others(t) /\ Kept
  BY <1>1, <1>2, <1>4, HandsGivenFacts
<1>6. \A u \in Threads \ {t} : ThreadOK(u)'
  BY <1>5, OthersOK DEF IInv
<1>7. ThreadOK(t)'
  <2>1. last[t] <= now /\ (pc[t] \notin Begun => last[t] = 0)
    BY DEF IInv, ThreadOK
  <2>2. \/ pc[t] \in Searching /\ pc'[t] \in {"first", "loop"}
        \/ pc[t] = "giveBack" /\ pc'[t] = "close"
    BY <1>1 DEF FirstSkip, FirstWrite, FirstOutOfStep, GiveBack, Goto, Searching
  <2>3. pc'[t] \notin Begun => last'[t] = 0
    BY <1>2, <2>1, <2>2 DEF Begun, Searching, Writing
  <2>4. pc'[t] \in Writing => \A n \in Held(t)' \union Queued' : frame'[n].pts >= last'[t]
    <3>1. Held(t)' \union Queued' \subseteq Nodes
      <4>1. Held(t)' = {}
        BY <1>4, EmptyFacts DEF Held
      <4>2. Queued' \subseteq Nodes
        BY <1>1, <1>5, QueuesInNodes DEF Others
      <4> QED
        BY <4>1, <4>2
    <3>2. \A n \in Nodes : frame'[n].pts \in 0..MaxTime
      BY <1>5 DEF Pool, PoolType, Frames
    <3>3. pc'[t] \in Writing => last'[t] = 0
      BY <1>2, <2>1, <2>2 DEF Begun, Searching, Writing
    <3> QED
      BY <3>1, <3>2, <3>3
  <2>5. pc'[t] # "loopWrite"
    BY <2>2
  <2> QED
    BY <1>2, <1>4, <2>1, <2>3, <2>4, <2>5 DEF ThreadOK
<1> QED
  BY <1>5, <1>6, <1>7

\* The first frame of a hand is its oldest.
LEMMA HeadOldest ==
  ASSUME NEW s \in Seq(Nodes), s # <<>>, frame \in [Nodes -> Frames], Sorted(s, frame)
  PROVE  \A n \in Range(s) : frame[Head(s)].pts <= frame[n].pts
<1>1. Head(s) \in Nodes /\ Range(s) = Range(Tail(s)) \union {Head(s)}
  BY TailFacts
<1>2. Before({Head(s)}, Range(Tail(s)), frame)
  BY TailFacts
<1>3. frame[Head(s)].pts \in 0..MaxTime
  BY <1>1 DEF Frames
<1> QED
  BY <1>1, <1>2, <1>3 DEF Before

Writes(t) == LoopWriteAudio(t) \/ LoopWriteVideo(t)

\* What is written is older than all that is left.
LEMMA WrittenOldest ==
  ASSUME IInv, NEW t \in Threads, Writes(t), Kept
  PROVE  /\ last'[t] \in 0..MaxTime /\ last'[t] <= now
         /\ \A n \in Held(t)' \union Queued' : frame'[n].pts >= last'[t]
<1>1. /\ Pool /\ FlagType /\ frame \in [Nodes -> Frames]
      /\ vhand[t] \in Seq(Nodes) /\ ahand[t] \in Seq(Nodes)
      /\ Sorted(vhand[t], frame) /\ Sorted(ahand[t], frame)
      /\ Before(Range(vhand[t]), Range(video), frame)
      /\ Before(Range(ahand[t]), Range(audio), frame)
      /\ last \in [Threads -> 0..MaxTime]
  BY DEF IInv, FlagType, Pool, PoolType, Streams
<1>2. \A n \in Held(t)' \union Queued' : frame'[n] = frame[n] /\ n \in Held(t) \union Queued
  <2>1. /\ Range(vhand'[t]) \subseteq Range(vhand[t])
        /\ Range(ahand'[t]) \subseteq Range(ahand[t])
        /\ Range(video') \subseteq Range(video) /\ Range(audio') \subseteq Range(audio)
    BY <1>1, KeptParts
  <2> QED
    BY <2>1 DEF Kept, Held, Queued
<1>3. vhand[t] # <<>> /\ pc[t] = "loopWrite"
  BY DEF Writes, LoopWriteAudio, LoopWriteVideo, Goto
<1>4. /\ Held(t) \union Queued \subseteq Nodes
      /\ \A n \in Nodes : frame[n].pts \in 0..MaxTime /\ frame[n].pts <= now
  BY <1>1, QueuesInNodes DEF Frames, IInv, Captured
<1>5. /\ Head(vhand[t]) \in Range(vhand[t]) /\ Head(vhand[t]) \in Nodes
      /\ \A n \in Range(vhand[t]) : frame[Head(vhand[t])].pts <= frame[n].pts
  <2>1. Head(vhand[t]) \in Range(vhand[t]) /\ Head(vhand[t]) \in Nodes
    BY <1>1, <1>3, TailFacts
  <2> QED
    BY <1>1, <1>3, <2>1, HeadOldest
<1>6. \A n \in Range(vhand[t]) \union Range(video) :
        frame[Head(vhand[t])].pts <= frame[n].pts
  BY <1>1, <1>5 DEF Before
<1>7. ahand[t] # <<>> =>
        /\ Head(ahand[t]) \in Nodes
        /\ \A n \in Range(ahand[t]) \union Range(audio) :
             frame[Head(ahand[t])].pts <= frame[n].pts
  <2> SUFFICES ASSUME ahand[t] # <<>>
               PROVE  /\ Head(ahand[t]) \in Nodes
                      /\ \A n \in Range(ahand[t]) \union Range(audio) :
                           frame[Head(ahand[t])].pts <= frame[n].pts
    OBVIOUS
  <2>1. Head(ahand[t]) \in Range(ahand[t]) /\ Head(ahand[t]) \in Nodes
    BY <1>1, TailFacts
  <2>2. \A n \in Range(ahand[t]) : frame[Head(ahand[t])].pts <= frame[n].pts
    BY <1>1, HeadOldest
  <2> QED
    BY <1>1, <2>1, <2>2 DEF Before
<1>8. \A n \in Held(t) \union Queued :
        n \in Range(vhand[t]) \union Range(video) \/ n \in Range(ahand[t]) \union Range(audio)
  BY DEF Held, Queued
<1>9. CASE LoopWriteAudio(t)
  <2>1. /\ last'[t] = frame[Head(ahand[t])].pts /\ ahand[t] # <<>>
        /\ frame[Head(vhand[t])].pts - frame[Head(ahand[t])].pts > 0
    BY <1>1, <1>9 DEF LoopWriteAudio, AudioFirst, Lead
  <2>2. frame[Head(ahand[t])].pts <= frame[Head(vhand[t])].pts
    BY <1>4, <1>5, <1>7, <2>1
  <2>3. \A n \in Held(t) \union Queued : frame[Head(ahand[t])].pts <= frame[n].pts
    BY <1>4, <1>5, <1>6, <1>7, <1>8, <2>1, <2>2
  <2> QED
    BY <1>2, <1>4, <1>7, <2>1, <2>3
<1>10. CASE LoopWriteVideo(t)
  <2>1. last'[t] = frame[Head(vhand[t])].pts
    BY <1>1, <1>10 DEF LoopWriteVideo
  <2>2. CASE ahand[t] = <<>>
    <3>1. Before(Range(vhand[t]), Range(audio), frame) /\ Range(ahand[t]) = {}
      BY <1>3, <2>2, EmptyFacts DEF IInv, ThreadOK
    <3>2. \A n \in Held(t) \union Queued : frame[Head(vhand[t])].pts <= frame[n].pts
      BY <1>5, <1>6, <1>8, <3>1 DEF Before
    <3> QED
      BY <1>2, <1>4, <1>5, <2>1, <3>2
  <2>3. CASE ahand[t] # <<>>
    <3>1. ~(frame[Head(vhand[t])].pts - frame[Head(ahand[t])].pts > 0)
      BY <1>10, <2>3 DEF LoopWriteVideo, AudioFirst, Lead
    <3>2. frame[Head(vhand[t])].pts <= frame[Head(ahand[t])].pts
      BY <1>4, <1>5, <1>7, <2>3, <3>1
    <3>3. \A n \in Held(t) \union Queued : frame[Head(vhand[t])].pts <= frame[n].pts
      BY <1>4, <1>5, <1>6, <1>7, <1>8, <2>3, <3>2
    <3> QED
      BY <1>2, <1>4, <1>5, <2>1, <3>3
  <2> QED
    BY <2>2, <2>3
<1> QED
  BY <1>9, <1>10 DEF Writes

LEMMA WriteStep ==
  ASSUME IInv, NEW t \in Threads, Writes(t)
  PROVE  Pool' /\ Captured' /\ last' \in [Threads -> 0..MaxTime]
         /\ \A u \in Threads : ThreadOK(u)'
<1> USE DEF flags
<1>1. /\ pc \in [Threads -> AllPCs] /\ last \in [Threads -> 0..MaxTime]
      /\ now \in 0..MaxTime /\ Pool /\ Captured
  BY DEF IInv, FlagType
<1>2. /\ now' = now /\ UNCHANGED <<video, audio>>
      /\ \A u \in Threads \ {t} : pc'[u] = pc[u] /\ last'[u] = last[u]
      /\ pc[t] = "loopWrite" /\ pc'[t] = "loop"
  BY <1>1 DEF Writes, LoopWriteAudio, LoopWriteVideo, Goto
<1>3. PICK s : HandsGiven(t, s)
  <2>1. CASE LoopWriteAudio(t)
    BY <1>1, <2>1, AudioWritten DEF LoopWriteAudio, AudioFirst
  <2>2. CASE LoopWriteVideo(t)
    BY <1>1, <2>2, VideoWritten DEF LoopWriteVideo
  <2> QED
    BY <2>1, <2>2 DEF Writes
<1>4. Pool' /\ Captured' /\ Others(t) /\ Kept
  BY <1>1, <1>2, <1>3, HandsGivenFacts
<1>5. \A u \in Threads \ {t} : ThreadOK(u)'
  BY <1>4, OthersOK DEF IInv
<1>6. /\ last'[t] \in 0..MaxTime /\ last'[t] <= now
      /\ \A n \in Held(t)' \union Queued' : frame'[n].pts >= last'[t]
  BY <1>4, WrittenOldest
<1>7. ThreadOK(t)'
  BY <1>2, <1>6 DEF ThreadOK, InHand, Begun, Writing
<1>8. last' \in [Threads -> 0..MaxTime]
  BY <1>1, <1>6 DEF Writes, LoopWriteAudio, LoopWriteVideo
<1> QED
  BY <1>4, <1>5, <1>7, <1>8

LEMMA CloseStep ==
  ASSUME IInv, NEW t \in Threads, Close(t)
  PROVE  Pool' /\ Captured' /\ \A u \in Threads : ThreadOK(u)'
<1> USE DEF Close
<1>1. /\ pc \in [Threads -> AllPCs] /\ last \in [Threads -> 0..MaxTime]
      /\ now \in 0..MaxTime /\ Pool /\ Captured
      /\ video \in Seq(Nodes) /\ audio \in Seq(Nodes)
      /\ vhand \in [Threads -> Seq(Nodes)] /\ ahand \in [Threads -> Seq(Nodes)]
      /\ Distinct(video) /\ Distinct(audio) /\ Range(video) \intersect Range(audio) = {}
      /\ Range(free) \intersect Queued = {}
      /\ \A u \in Threads : Held(u) \intersect Queued = {}
  BY DEF IInv, FlagType, Pool, PoolType, Apart
<1>2. /\ now' = now /\ last' = last /\ vhand' = vhand /\ ahand' = ahand
      /\ video' = <<>> /\ audio' = <<>> /\ NodesDel(video \o audio)
      /\ pc[t] = "close" /\ pc'[t] = "finish"
      /\ \A u \in Threads \ {t} : pc'[u] = pc[u]
  BY <1>1 DEF locals, Goto
<1>3. /\ video \o audio \in Seq(Nodes) /\ Distinct(video \o audio)
      /\ Range(video \o audio) = Queued
  BY <1>1, ConcatFacts DEF Queued
<1>4. Queued' = {} /\ \A u \in Threads : Held(u)' = Held(u)
  BY <1>2, EmptyFacts DEF Queued, Held
<1>5. /\ Part(video', video) /\ Part(audio', audio)
      /\ \A u \in Threads : Part(vhand'[u], vhand[u]) /\ Part(ahand'[u], ahand[u])
      /\ vhand' \in [Threads -> Seq(Nodes)] /\ ahand' \in [Threads -> Seq(Nodes)]
  BY <1>1, <1>2 DEF Part
<1>6. /\ Queued \intersect (Range(free) \union Queued') = {}
      /\ \A u \in Threads : Queued \intersect Held(u)' = {}
  BY <1>1, <1>4
<1> DEFINE s == video \o audio
<1>7. s \in Seq(Nodes) /\ Distinct(s) /\ NodesDel(s) /\ Range(s) = Queued
  BY <1>2, <1>3
<1> HIDE DEF s
<1>8. Pool' /\ Kept
  BY <1>1, <1>5, <1>6, <1>7, GivenBack
<1>9. Captured'
  BY <1>1, <1>2, <1>7, DelCaptured
<1>10. Others(t)
  BY <1>1, <1>2, <1>8, KeptOthers
<1>11. \A u \in Threads \ {t} : ThreadOK(u)'
  BY <1>10, OthersOK DEF IInv
<1>12. ThreadOK(t)'
  <2>1. /\ pc[t] \notin InHand => vhand[t] = <<>> /\ ahand[t] = <<>>
        /\ last[t] <= now
    BY DEF IInv, ThreadOK
  <2> QED
    BY <1>2, <2>1 DEF ThreadOK, InHand, Begun, Searching, Writing
<1> QED
  BY <1>8, <1>9, <1>11, <1>12

-----------------------------------------------------------------------------
(* The flags.                                                              *)

LEMMA InitInvariant == Init => IInv
<1> SUFFICES ASSUME Init
             PROVE  IInv
  OBVIOUS
<1>1. /\ BufferMax \in Nat /\ 0 \in 0..MaxTime /\ Empty \in Frames
  BY BufferAssumption, TimeAssumption DEF Empty, Frames
<1>2. free \in Seq(Nodes) /\ Distinct(free)
  <2>1. free \in [1..BufferMax -> Nodes]
    BY DEF Init, Nodes
  <2>2. Distinct(free)
    BY <1>1 DEF Init, Distinct
  <2> QED
    BY <1>1, <2>1, <2>2
<1>3. /\ video = <<>> /\ audio = <<>> /\ Queued = {}
      /\ \A t \in Threads : vhand[t] = <<>> /\ ahand[t] = <<>> /\ Held(t) = {}
  BY EmptyFacts DEF Init, Queued, Held
<1>4. PoolType
  BY <1>1, <1>2, EmptyFacts DEF Init, PoolType
<1>5. Apart
  BY <1>2, <1>3, EmptyFacts DEF Apart
<1>6. VideoFrames /\ Streams
  BY <1>3, EmptyFacts DEF VideoFrames, Streams, Before
<1>7. FlagType
  BY <1>1 DEF Init, FlagType, AllPCs
<1>8. Captured
  BY DEF Init, Captured, Empty
<1>9. Drained
  BY DEF Init, Drained
<1>10. \A t \in Threads : ThreadOK(t)
  BY <1>3 DEF Init, ThreadOK, Begun, Writing
<1> QED
  BY <1>4, <1>5, <1>6, <1>7, <1>8, <1>9, <1>10 DEF IInv, Pool

LEMMA FlagStep ==
  ASSUME IInv, Next
  PROVE  FlagType'
<1> USE DEF flags, locals, Goto, AllPCs, Searching, Writing
<1>1. FlagType /\ Pool
  BY DEF IInv
<1>2. CASE Tick
  BY <1>1, <1>2, TimeAssumption DEF Tick, FlagType
<1>3. ASSUME NEW t \in Threads, Start(t) PROVE FlagType'
  <2>1. info' \in [hasAudio : BOOLEAN, coding : {0, 1}]
    BY <1>3, ModesAssumption DEF Start
  <2> QED
    BY <1>1, <1>3, <2>1 DEF Start, FlagType
<1>4. CASE Stop
  BY <1>1, <1>4 DEF Stop, FlagType
<1>5. ASSUME NEW k \in VideoKinds, PushVideo(k) PROVE FlagType'
  BY <1>1, <1>5 DEF PushVideo, FlagType
<1>6. CASE PushAudio
  BY <1>1, <1>6 DEF PushAudio, FlagType
<1>7. ASSUME NEW t \in Threads, Worker(t) PROVE FlagType'
  <2>1. CASE \/ ThreadBegin(t) \/ ThreadReady(t) \/ FirstTest(t) \/ FirstWaitAudio(t)
             \/ LoopTest(t) \/ LoopNoVideo(t)
    BY <1>1, <2>1 DEF ThreadBegin, ThreadReady, FirstTest, FirstWaitAudio, LoopTest,
         LoopNoVideo, FlagType
  <2>2. CASE Finish(t)
    <3>1. /\ pc' = [pc EXCEPT ![t] = "none"] /\ threadRun' = FALSE
          /\ found' = [found EXCEPT ![t] = {}] /\ last' = [last EXCEPT ![t] = 0]
          /\ UNCHANGED <<now, late, taskRun, ready, info>>
      BY <2>2 DEF Finish
    <3>2. pc' \in [Threads -> AllPCs] /\ last' \in [Threads -> 0..MaxTime]
      BY <1>1, <3>1, TimeAssumption DEF FlagType
    <3>3. found' \in [Threads -> SUBSET VideoKinds]
      BY <1>1, <3>1 DEF FlagType
    <3> QED
      BY <1>1, <3>1, <3>2, <3>3 DEF FlagType
  <2>3. CASE Takes(t)
    <3>1. UNCHANGED <<now, taskRun, threadRun, ready, info, late, found, last>>
      BY <2>3 DEF Takes, FirstVideo, FirstAudio, LoopVideo, LoopAudio
    <3>2. pc' \in [Threads -> AllPCs]
      BY <1>1, <2>3 DEF Takes, FirstVideo, FirstAudio, LoopVideo, LoopAudio, FlagType
    <3> QED
      BY <1>1, <3>1, <3>2 DEF FlagType
  <2>4. CASE FirstSkip(t) \/ FirstOutOfStep(t) \/ GiveBack(t)
    BY <1>1, <2>4 DEF FirstSkip, FirstOutOfStep, GiveBack, FlagType
  <2>5. CASE FirstWrite(t)
    <3>1. frame[Head(vhand[t])].kind \in VideoKinds
      BY <1>1, <2>5, HeadTime DEF FirstWrite, Usable
    <3> QED
      BY <1>1, <2>5, <3>1 DEF FirstWrite, FlagType
  <2>6. CASE Writes(t)
    <3>1. last' \in [Threads -> 0..MaxTime]
      BY <2>6, WriteStep
    <3> QED
      BY <1>1, <2>6, <3>1 DEF Writes, LoopWriteAudio, LoopWriteVideo, FlagType
  <2>7. CASE Close(t)
    BY <1>1, <2>7 DEF Close, FlagType
  <2> QED
    BY <1>7, <2>1, <2>2, <2>3, <2>4, <2>5, <2>6, <2>7 DEF Worker, Takes, Writes
<1> QED
  BY <1>2, <1>3, <1>4, <1>5, <1>6, <1>7 DEF Next

LEMMA DrainedStep ==
  ASSUME IInv, Next
  PROVE  Drained'
<1> USE DEF flags, locals, queues
<1>1. /\ Drained /\ pc \in [Threads -> AllPCs]
  BY DEF IInv, FlagType
<1>2. CASE Tick \/ Stop \/ (\E k \in VideoKinds : PushVideo(k)) \/ PushAudio
  <2>1. ready' = ready /\ pc' = pc /\ (ready \/ (video' = video /\ audio' = audio))
    BY <1>2 DEF Tick, Stop, PushVideo, PushAudio
  <2> QED
    BY <1>1, <2>1 DEF Drained
<1>3. ASSUME NEW t \in Threads, ThreadReady(t)
      PROVE  Drained'
  BY <1>1, <1>3 DEF ThreadReady, Goto, Drained, Draining, InHand, Searching
<1>4. ASSUME NEW t \in Threads, Close(t)
      PROVE  Drained'
  BY <1>4 DEF Close, Drained
<1>5. ASSUME NEW t \in Threads,
             \/ Start(t) \/ ThreadBegin(t) \/ Finish(t) \/ GiveBack(t)
             \/ FirstTest(t) \/ FirstSkip(t) \/ FirstWaitAudio(t) \/ FirstWrite(t)
             \/ FirstOutOfStep(t) \/ LoopTest(t) \/ LoopNoVideo(t) \/ Writes(t) \/ Takes(t)
      PROVE  Drained'
  <2>1. ready' = ready /\ (video = <<>> => video' = <<>>) /\ (audio = <<>> => audio' = <<>>)
    BY <1>5 DEF Start, ThreadBegin, Finish, GiveBack, FirstTest, FirstSkip, FirstWaitAudio,
         FirstWrite, FirstOutOfStep, LoopTest, LoopNoVideo, Writes, LoopWriteAudio,
         LoopWriteVideo, Takes, FirstVideo, FirstAudio, LoopVideo, LoopAudio
  <2>2. \A u \in Threads \ {t} : pc'[u] = pc[u]
    BY <1>1, <1>5 DEF Goto, Start, ThreadBegin, Finish, GiveBack, FirstTest, FirstSkip,
         FirstWaitAudio, FirstWrite, FirstOutOfStep, LoopTest, LoopNoVideo, Writes,
         LoopWriteAudio, LoopWriteVideo, Takes, FirstVideo, FirstAudio, LoopVideo, LoopAudio
  <2>3. pc[t] \in Draining => pc'[t] \in Draining
    BY <1>1, <1>5 DEF Goto, Start, ThreadBegin, Finish, GiveBack, FirstTest, FirstSkip,
         FirstWaitAudio, FirstWrite, FirstOutOfStep, LoopTest, LoopNoVideo, Writes,
         LoopWriteAudio, LoopWriteVideo, Takes, FirstVideo, FirstAudio, LoopVideo, LoopAudio,
         Draining, InHand, Searching, Writing
  <2>4. \A u \in Threads : pc[u] \in Draining => pc'[u] \in Draining
    BY <2>2, <2>3
  <2> QED
    BY <1>1, <2>1, <2>4 DEF Drained
<1> QED
  BY <1>2, <1>3, <1>4, <1>5 DEF Next, Worker, Writes, Takes

LEMMA StepInvariant == IInv /\ [Next]_vars => IInv'
<1> SUFFICES ASSUME IInv, [Next]_vars
             PROVE  IInv'
  OBVIOUS
<1>1. CASE UNCHANGED vars
  <2>1. /\ UNCHANGED <<free, video, audio, frame, vhand, ahand, pc, last, now, found>>
        /\ UNCHANGED <<taskRun, threadRun, ready, info, late>>
    BY <1>1 DEF vars
  <2>2. Pool'
    BY <2>1, SamePool DEF IInv, queues
  <2>3. FlagType' /\ Captured' /\ Drained'
    BY <2>1 DEF IInv, FlagType, Captured, Drained
  <2>4. \A u \in Threads : ThreadOK(u)'
    BY <2>1 DEF IInv, ThreadOK, Held, Queued
  <2> QED
    BY <2>2, <2>3, <2>4 DEF IInv
<1>2. CASE Next
  <2>1. Pool' /\ Captured' /\ \A u \in Threads : ThreadOK(u)'
    <3>1. ASSUME NEW t \in Threads, Worker(t)
          PROVE  Still(t) \/ Takes(t) \/ Drops(t) \/ Writes(t) \/ Close(t)
      BY <3>1 DEF Worker, Still, Takes, Drops, Writes
    <3> QED
      BY <1>2, <3>1, StillStep, IdleStep, PushStep, TakeStep, DropStep, WriteStep, CloseStep
         DEF Next, Still
  <2> QED
    BY <1>2, <2>1, FlagStep, DrainedStep DEF IInv
<1> QED
  BY <1>1, <1>2

LEMMA Invariant == Spec => []IInv
BY InitInvariant, StepInvariant, PTL DEF Spec

-----------------------------------------------------------------------------
(* The properties.                                                         *)

\* Every variable keeps its type: no node from outside the pool is queued or
\* held, and the worker never leaves its statements (video_record_task).
THEOREM TypeCorrect == Spec => []TypeOK
<1>1. IInv => TypeOK
  BY DEF IInv, FlagType, Pool, PoolType, Frames, TypeOK
<1> QED
  BY <1>1, Invariant, PTL

\* Both streams are written in the order of their capture (avi_write_frame_loop)
\* whatever is pushed and whoever else takes frames between the two looks.
THEOREM Ordered == Spec => []CaptureOrder
<1>1. IInv => CaptureOrder
  BY DEF IInv, ThreadOK, CaptureOrder, Queued
<1> QED
  BY <1>1, Invariant, PTL

\* Unless a thread was late the workers of two recordings do not overlap: one that
\* has not begun is announced by the task flag, any other by the thread flag.
Handover ==
  ~late => /\ \A t, u \in Threads : Live(t) /\ Live(u) => t = u
           /\ \A t \in Threads : Live(t) =>
                IF pc[t] = "created" THEN taskRun = TRUE ELSE threadRun = TRUE

LEMMA WorkerHandover ==
  ASSUME TypeOK, Handover, NEW t \in Threads, Worker(t)
  PROVE  Handover'
<1> USE DEF flags, queues, locals
<1>1. /\ UNCHANGED <<taskRun, late>> /\ pc[t] # "none" /\ pc'[t] # "created"
      /\ \A u \in Threads \ {t} : pc'[u] = pc[u]
  BY DEF Worker, ThreadBegin, ThreadReady, FirstTest, FirstVideo, FirstAudio, FirstSkip,
     FirstWaitAudio, FirstWrite, FirstOutOfStep, LoopTest, LoopVideo, LoopAudio, LoopNoVideo,
     LoopWriteAudio, LoopWriteVideo, GiveBack, Close, Finish, Goto, TypeOK
<1>2. ASSUME ~late
      PROVE  \A u \in Threads \ {t} : pc[u] = "none"
  BY <1>1, <1>2 DEF Handover, Live
<1>3. CASE Finish(t)
  <2>1. pc'[t] = "none"
    BY <1>3 DEF Finish, Goto, TypeOK
  <2> QED
    BY <1>1, <1>2, <2>1 DEF Handover, Live
<1>4. CASE ThreadBegin(t)
  <2>1. threadRun' = TRUE
    BY <1>4 DEF ThreadBegin
  <2> QED
    BY <1>1, <1>2, <2>1 DEF Handover, Live
<1>5. CASE ~Finish(t) /\ ~ThreadBegin(t)
  <2>1. UNCHANGED threadRun /\ pc[t] # "created"
    BY <1>5 DEF Worker, ThreadReady, FirstTest, FirstVideo, FirstAudio, FirstSkip,
       FirstWaitAudio, FirstWrite, FirstOutOfStep, LoopTest, LoopVideo, LoopAudio, LoopNoVideo,
       LoopWriteAudio, LoopWriteVideo, GiveBack, Close, Goto
  <2> QED
    BY <1>1, <1>2, <2>1 DEF Handover, Live
<1> QED
  BY <1>3, <1>4, <1>5

LEMMA NextHandover == TypeOK /\ Handover /\ [Next]_vars => Handover'
<1> SUFFICES ASSUME TypeOK, Handover, [Next]_vars
             PROVE  Handover'
  OBVIOUS
<1>1. ASSUME NEW t \in Threads, Start(t)
      PROVE  Handover'
  <2>1. /\ taskRun = FALSE /\ threadRun = FALSE /\ taskRun' = TRUE /\ late' = late
        /\ pc'[t] = "created" /\ \A u \in Threads \ {t} : pc'[u] = pc[u]
    BY <1>1 DEF Start, Goto, TypeOK
  <2> QED
    BY <2>1 DEF Handover, Live
<1>2. CASE Stop
  <2>1. /\ UNCHANGED <<threadRun, pc>>
        /\ ~late' => ~late /\ \A t \in Threads : pc[t] # "created"
    BY <1>2 DEF Stop
  <2> QED
    BY <2>1 DEF Handover, Live
<1>3. CASE Tick \/ (\E k \in VideoKinds : PushVideo(k)) \/ PushAudio \/ UNCHANGED vars
  <2>1. UNCHANGED <<taskRun, threadRun, pc, late>>
    BY <1>3 DEF Tick, PushVideo, PushAudio, flags, vars
  <2> QED
    BY <2>1 DEF Handover, Live
<1> QED
  BY <1>1, <1>2, <1>3, WorkerHandover DEF Next

\* A recording starts with nothing of the one before: the release at the end of
\* video_record_task leaves no frame, even when workers overlap, and unless a thread
\* was late the flags that video_record_start tests (691-707) speak of every worker.
THEOREM NothingLeftover == Spec => []NoLeftover
<1>1. Init => Handover
  BY DEF Init, Handover, Live
<1>2. IInv /\ Handover => NoLeftover
  <2>1. ASSUME IInv, \A t \in Threads : ~Live(t)
        PROVE  video = <<>> /\ audio = <<>> /\ ready = FALSE
    <3>1. \A t \in Threads : pc[t] \notin Draining
      BY <2>1 DEF Live, Draining, InHand, Searching, Writing
    <3> QED
      BY <2>1, <3>1 DEF IInv, Drained, FlagType
  <2>2. ASSUME Handover, ~late, taskRun = FALSE, threadRun = FALSE
        PROVE  \A t \in Threads : ~Live(t)
    BY <2>2 DEF Handover
  <2> QED
    BY <2>1, <2>2 DEF NoLeftover
<1> QED
  BY <1>1, <1>2, NextHandover, TypeCorrect, Invariant, PTL DEF Spec

\* No node is given back twice or written after it was given back, however the
\* two streams, the two loops and the release at the end interleave.
THEOREM OnePlaceOnly == Spec => []OnePlace
<1>1. IInv => OnePlace
  <2> SUFFICES ASSUME IInv
               PROVE  OnePlace
    OBVIOUS
  <2>1. /\ free \in Seq(Nodes) /\ video \in Seq(Nodes) /\ audio \in Seq(Nodes)
        /\ Distinct(free) /\ Distinct(video) /\ Distinct(audio)
        /\ Range(free) \intersect Queued = {} /\ Range(video) \intersect Range(audio) = {}
    BY DEF IInv, Pool, PoolType, Apart
  <2>2. /\ free \o video \in Seq(Nodes) /\ Distinct(free \o video)
        /\ Range(free \o video) = Range(free) \union Range(video)
    BY <2>1, ConcatFacts DEF Queued
  <2>3. Distinct(free \o video \o audio)
    BY <2>1, <2>2, ConcatFacts DEF Queued
  <2>4. ASSUME NEW t \in Threads
        PROVE  /\ Distinct(vhand[t] \o ahand[t])
               /\ \A k \in 1..3 : Held(t) \intersect Range(<<free, video, audio>>[k]) = {}
               /\ \A u \in Threads : t # u => Held(t) \intersect Held(u) = {}
    <3>1. /\ vhand[t] \in Seq(Nodes) /\ ahand[t] \in Seq(Nodes)
          /\ Distinct(vhand[t]) /\ Distinct(ahand[t])
          /\ Range(vhand[t]) \intersect Range(ahand[t]) = {}
          /\ Held(t) \intersect (Range(free) \union Queued) = {}
          /\ \A u \in Threads : t # u => Held(t) \intersect Held(u) = {}
      BY <2>4 DEF IInv, Pool, PoolType, Apart
    <3>2. Distinct(vhand[t] \o ahand[t])
      BY <3>1, ConcatFacts
    <3>3. \A k \in 1..3 : <<free, video, audio>>[k] \in {free, video, audio}
      OBVIOUS
    <3>4. \A q \in {free, video, audio} : Held(t) \intersect Range(q) = {}
      BY <3>1 DEF Queued
    <3>5. \A k \in 1..3 : Held(t) \intersect Range(<<free, video, audio>>[k]) = {}
      BY <3>3, <3>4
    <3> QED
      BY <3>1, <3>2, <3>5
  <2> QED
    BY <2>3, <2>4 DEF OnePlace, Distinct
<1> QED
  BY <1>1, Invariant, PTL

\* Without audio every node is always somewhere; with audio avi_write_one_frame
\* loses one of two frames that are out of step.
Silent == /\ info.hasAudio = FALSE /\ audio = <<>>
          /\ \A t \in Threads : ahand[t] = <<>>
Somewhere == \A n \in Nodes :
  n \in Range(free) \union Range(video) \/ \E t \in Threads : n \in Range(vhand[t])

LEMMA SilentInit == Init => Silent /\ Somewhere
<1> SUFFICES ASSUME Init PROVE Silent /\ Somewhere
  OBVIOUS
<1>1. \A n \in Nodes : n \in Range(free)
  BY BufferAssumption DEF Init, Nodes, Range
<1> QED
  BY <1>1 DEF Init, Silent, Somewhere

LEMMA SilentStep ==
  ASSUME TRUE \notin AudioModes, IInv, Silent, [Next]_vars
  PROVE  Silent'
<1> USE DEF flags, queues, locals
<1>1. audio \in Seq(Nodes) /\ ahand \in [Threads -> Seq(Nodes)]
      /\ vhand \in [Threads -> Seq(Nodes)]
  BY DEF IInv, Pool, PoolType
<1>2. info'.hasAudio = FALSE
  <2>1. ASSUME NEW t \in Threads, Start(t) PROVE info'.hasAudio = FALSE
    <3>1. info'.hasAudio \in AudioModes
      BY <2>1 DEF Start
    <3> QED
      BY <3>1, ModesAssumption
  <2>2. ASSUME ~\E t \in Threads : Start(t) PROVE info' = info
    <3>1. CASE Tick \/ Stop \/ (\E k \in VideoKinds : PushVideo(k)) \/ PushAudio
      BY <3>1 DEF Tick, Stop, PushVideo, PushAudio
    <3>2. ASSUME NEW t \in Threads, Worker(t) PROVE info' = info
      BY <3>2 DEF Worker, ThreadBegin, ThreadReady, FirstTest, FirstVideo, FirstAudio,
           FirstSkip, FirstWaitAudio, FirstWrite, FirstOutOfStep, LoopTest, LoopVideo,
           LoopAudio, LoopNoVideo, LoopWriteAudio, LoopWriteVideo, GiveBack, Close, Finish
    <3> QED
      BY <2>2, <3>1, <3>2 DEF Next, vars
  <2> QED
    BY <2>1, <2>2 DEF Silent
<1>3. audio' = <<>> /\ \A u \in Threads : ahand'[u] = <<>>
  <2>1. CASE \/ Tick \/ Stop \/ (\E k \in VideoKinds : PushVideo(k)) \/ PushAudio
             \/ UNCHANGED vars
    BY <2>1 DEF Tick, Stop, PushVideo, PushAudio, vars, Silent
  <2>2. ASSUME NEW t \in Threads, Still(t)
        PROVE  audio' = <<>> /\ \A u \in Threads : ahand'[u] = <<>>
    BY <2>2 DEF Still, ThreadBegin, ThreadReady, FirstTest, FirstWaitAudio, LoopTest,
         LoopNoVideo, Finish, Start, Silent
  <2>3. ASSUME NEW t \in Threads, Takes(t)
        PROVE  audio' = <<>> /\ \A u \in Threads : ahand'[u] = <<>>
    BY <2>3 DEF Takes, FirstVideo, FirstAudio, LoopVideo, LoopAudio, Silent
  <2>4. ASSUME NEW t \in Threads, Drops(t)
        PROVE  audio' = <<>> /\ \A u \in Threads : ahand'[u] = <<>>
    BY <1>1, <2>4 DEF Drops, FirstSkip, FirstWrite, FirstOutOfStep, GiveBack, DropHands, Silent
  <2>5. ASSUME NEW t \in Threads, Writes(t)
        PROVE  audio' = <<>> /\ \A u \in Threads : ahand'[u] = <<>>
    BY <2>5 DEF Writes, LoopWriteAudio, LoopWriteVideo, AudioFirst, Silent
  <2>6. ASSUME NEW t \in Threads, Close(t)
        PROVE  audio' = <<>> /\ \A u \in Threads : ahand'[u] = <<>>
    BY <2>6 DEF Close, Silent
  <2> QED
    BY <2>1, <2>2, <2>3, <2>4, <2>5, <2>6 DEF Next, Worker, Still, Takes, Drops, Writes
<1> QED
  BY <1>2, <1>3 DEF Silent

\* A worker's hand gives up what comes back to the free queue, no more.
LEMMA GivenSomewhere ==
  ASSUME IInv, Somewhere, NEW t \in Threads, NEW s \in Seq(Nodes), NodesDel(s),
         Range(vhand[t]) \subseteq Range(s) \union Range(vhand'[t]),
         video' = video, \A u \in Threads \ {t} : vhand'[u] = vhand[u]
  PROVE  Somewhere'
<1>1. free \in Seq(Nodes) /\ free' = free \o s
  BY DEF IInv, Pool, PoolType, NodesDel
<1>2. Range(free') = Range(free) \union Range(s)
  BY <1>1, ConcatFacts
<1> QED
  BY <1>2 DEF Somewhere

LEMMA SomewhereStep ==
  ASSUME IInv, Silent, Somewhere, [Next]_vars
  PROVE  Somewhere'
<1> USE DEF flags, queues, locals
<1>1. /\ free \in Seq(Nodes) /\ video \in Seq(Nodes)
      /\ vhand \in [Threads -> Seq(Nodes)] /\ \A t \in Threads : vhand[t] \in Seq(Nodes)
  BY DEF IInv, Pool, PoolType
<1>2. \A t \in Threads : ahand[t] = <<>> /\ vhand[t] \o ahand[t] = vhand[t]
  BY <1>1 DEF Silent
<1>3. CASE Tick \/ Stop \/ PushAudio \/ UNCHANGED vars
  BY <1>3 DEF Tick, Stop, PushAudio, vars, Silent, Somewhere
<1>4. ASSUME NEW k \in VideoKinds, PushVideo(k) PROVE Somewhere'
  <2>1. /\ free # <<>> /\ free' = Tail(free) /\ video' = Append(video, Head(free))
        /\ vhand' = vhand
    BY <1>4 DEF PushVideo, NodeNew
  <2>2. Range(free) = Range(Tail(free)) \union {Head(free)} /\ Head(free) \in Nodes
    BY <1>1, <2>1, TailFacts
  <2>3. Range(Append(video, Head(free))) = Range(video) \union {Head(free)}
    BY <1>1, <2>2, AppendFacts
  <2> QED
    BY <2>1, <2>2, <2>3 DEF Somewhere
<1>5. ASSUME NEW t \in Threads, Still(t) PROVE Somewhere'
  BY <1>5 DEF Still, ThreadBegin, ThreadReady, FirstTest, FirstWaitAudio, LoopTest,
       LoopNoVideo, Finish, Start, Somewhere
<1>6. ASSUME NEW t \in Threads, Takes(t) PROVE Somewhere'
  <2>1. CASE NoneTaken
    BY <2>1 DEF NoneTaken, Somewhere
  <2>2. CASE AudioTaken(t)
    BY <2>2 DEF AudioTaken, Somewhere
  <2>3. CASE VideoTaken(t)
    <3>1. video # <<>> /\ free' = free /\ video' = Tail(video)
          /\ vhand'[t] = Append(vhand[t], Head(video))
          /\ \A u \in Threads : u # t => vhand'[u] = vhand[u]
      BY <1>1, <2>3 DEF VideoTaken
    <3>2. Range(video) = Range(Tail(video)) \union {Head(video)} /\ Head(video) \in Nodes
      BY <1>1, <3>1, TailFacts
    <3>3. Range(Append(vhand[t], Head(video))) = Range(vhand[t]) \union {Head(video)}
      BY <1>1, <3>2, AppendFacts
    <3> QED
      BY <3>1, <3>2, <3>3 DEF Somewhere
  <2> QED
    BY <1>6, <2>1, <2>2, <2>3, TakeForms
<1>7. ASSUME NEW t \in Threads, Drops(t) PROVE Somewhere'
  <2>1. /\ NodesDel(vhand[t]) /\ video' = video
        /\ \A u \in Threads \ {t} : vhand'[u] = vhand[u]
    BY <1>1, <1>2, <1>7 DEF Drops, FirstSkip, FirstWrite, FirstOutOfStep, GiveBack, DropHands
  <2> QED
    BY <1>1, <2>1, GivenSomewhere
<1>8. ASSUME NEW t \in Threads, Writes(t) PROVE Somewhere'
  <2>1. /\ vhand[t] # <<>> /\ NodesDel(<<Head(vhand[t])>>) /\ video' = video
        /\ vhand' = [vhand EXCEPT ![t] = Tail(vhand[t])]
    BY <1>2, <1>8 DEF Writes, LoopWriteAudio, LoopWriteVideo, AudioFirst
  <2>2. Range(vhand[t]) = Range(Tail(vhand[t])) \union {Head(vhand[t])}
        /\ Head(vhand[t]) \in Nodes
    BY <1>1, <2>1, TailFacts
  <2> DEFINE s == <<Head(vhand[t])>>
  <2>3. s \in Seq(Nodes) /\ Range(s) = {Head(vhand[t])}
    BY <2>2 DEF Range
  <2>4. vhand'[t] = Tail(vhand[t]) /\ \A u \in Threads \ {t} : vhand'[u] = vhand[u]
    BY <1>1, <2>1
  <2> HIDE DEF s
  <2>5. NodesDel(s)
    BY <2>1 DEF s
  <2> QED
    BY <2>1, <2>2, <2>3, <2>4, <2>5, GivenSomewhere
<1>9. ASSUME NEW t \in Threads, Close(t) PROVE Somewhere'
  <2>1. free' = free \o video /\ vhand' = vhand
    BY <1>1, <1>9 DEF Close, NodesDel, Silent
  <2>2. Range(free') = Range(free) \union Range(video)
    BY <1>1, <2>1, ConcatFacts
  <2> QED
    BY <2>1, <2>2 DEF Somewhere
<1> QED
  BY <1>3, <1>4, <1>5, <1>6, <1>7, <1>8, <1>9
     DEF Next, Worker, Still, Takes, Drops, Writes

\* A recording without audio leaves the pool whole to the next one
\* (video_record.c:559-562), for any pool, batch, frames and workers.
THEOREM SilentPoolRestored ==
  ASSUME TRUE \notin AudioModes
  PROVE  Spec => []PoolRestored
<1>1. Init => IInv /\ Silent /\ Somewhere
  BY InitInvariant, SilentInit
<1>2. IInv /\ Silent /\ Somewhere /\ [Next]_vars => (IInv /\ Silent /\ Somewhere)'
  BY StepInvariant, SilentStep, SomewhereStep
<1>3. IInv /\ Somewhere => PoolRestored
  <2> SUFFICES ASSUME IInv, Somewhere, \A t \in Threads : ~Live(t)
               PROVE  Range(free) = Nodes
    BY DEF PoolRestored
  <2>1. \A t \in Threads : pc[t] \notin Draining /\ pc[t] \notin InHand
    BY DEF Live, Draining, InHand, Searching, Writing
  <2>2. Range(video) = {} /\ \A t \in Threads : Range(vhand[t]) = {}
    BY <2>1, EmptyFacts DEF IInv, Drained, ThreadOK
  <2>3. Range(free) \subseteq Nodes
    BY QueuesInNodes DEF IInv
  <2> QED
    BY <2>2, <2>3 DEF Somewhere
<1> QED
  BY <1>1, <1>2, <1>3, PTL DEF Spec
=============================================================================
