-------------------------- MODULE AudioSendProofs --------------------------
(***************************************************************************)
(* For any pool size and any number of threads, started late or not: every *)
(* variable keeps its type, nothing is stranded in the queue when the last *)
(* worker has gone, every node of the pool is in exactly one place, and    *)
(* the sender is a frame channel; and, unless a thread was closed before   *)
(* its first statement, workers are alone and a call sends its own frames. *)
(***************************************************************************)
EXTENDS AudioSend, SequenceTheorems, TLAPS

\* A thread holds a node exactly between taking it and giving it back; with
\* the types this makes QueueDel put nodes, never NULL, into the free queue.
HandHeld ==
  \A t \in Threads : hand[t] # NoNode <=> pc[t] \in {"send", "del"}

\* Pushes are accepted only while a worker still looks at the queue, and while
\* anything is queued there is a worker that will at least drain it.
ReadyServed == ready => \E t \in Threads : pc[t] \in Serving
QueueServed == head # <<>> => \E t \in Threads : pc[t] \in Serving \union Stopping

IInv == TypeOK /\ HandHeld /\ ReadyServed /\ QueueServed

-----------------------------------------------------------------------------
LEMMA NodesType == NoNode \notin Nodes
BY DEF Nodes, NoNode

LEMMA ClearedType ==
  ASSUME TypeOK, NEW ns
  PROVE  Cleared(ns) \in [Nodes -> Groups \union {NoGroup}]
BY DEF TypeOK, Cleared

LEMMA GotoType ==
  ASSUME TypeOK, NEW t \in Threads, NEW from, NEW to \in AllPCs,
         Goto(t, from, to)
  PROVE  pc' \in [Threads -> AllPCs]
BY DEF TypeOK, Goto

LEMMA InitType == Init => IInv
<1> SUFFICES ASSUME Init
             PROVE  IInv
  OBVIOUS
<1>1. PackageMax \in Nat
  BY PackageMaxAssumption
<1>2. free \in Seq(Nodes)
  <2>1. free \in [1..PackageMax -> Nodes]
    BY DEF Init, Nodes
  <2> QED
    BY <1>1, <2>1
<1>3. head \in Seq(Nodes) /\ head = <<>>
  BY EmptySeq DEF Init
<1>4. TypeOK
  BY <1>2, <1>3 DEF Init, TypeOK, AllPCs
<1> QED
  BY <1>3, <1>4 DEF Init, IInv, HandHeld, ReadyServed, QueueServed

-----------------------------------------------------------------------------
(* Types and hands, action by action.                                      *)

LEMMA ClientType ==
  ASSUME TypeOK, HandHeld,
         (\E g \in Groups : TalkOpen(g)) \/ Open \/ TalkClose
  PROVE  TypeOK' /\ HandHeld'
<1> USE DEF flags, queues, threads, client
<1>1. ASSUME NEW g \in Groups, TalkOpen(g)
      PROVE  TypeOK' /\ HandHeld'
  BY <1>1 DEF TalkOpen, TypeOK, HandHeld
<1>2. CASE OpenCheck
  BY <1>2 DEF OpenCheck, TalkOpened, TypeOK, HandHeld
<1>3. CASE WaitThreadQuit
  BY <1>3 DEF WaitThreadQuit, TypeOK, HandHeld
<1>4. CASE WaitTimeout
  BY <1>4 DEF WaitTimeout, TalkOpened, TypeOK, HandHeld
<1>5. ASSUME NEW t \in Threads, OpenCreate(t)
      PROVE  TypeOK' /\ HandHeld'
  BY <1>5 DEF OpenCreate, TalkOpened, TypeOK, AllPCs, HandHeld
<1>6. CASE TalkClose
  BY <1>6 DEF TalkClose, TypeOK, HandHeld
<1> QED
  BY <1>1, <1>2, <1>3, <1>4, <1>5, <1>6 DEF Open

LEMMA PushType ==
  ASSUME TypeOK, HandHeld, Push
  PROVE  TypeOK' /\ HandHeld'
<1> USE DEF flags, queues, threads, client
<1>1. /\ free \in Seq(Nodes) /\ head \in Seq(Nodes) /\ free # <<>>
      /\ Head(free) \in Nodes /\ Tail(free) \in Seq(Nodes)
  BY HeadTailProperties DEF Push, QueueNew, TypeOK
<1>2. free' \in Seq(Nodes) /\ head' \in Seq(Nodes)
  BY <1>1, AppendProperties DEF Push, QueueNew
<1>3. payload' \in [Nodes -> Groups \union {NoGroup}]
  BY <1>1 DEF Push, QueueNew, TypeOK
<1> QED
  BY <1>2, <1>3 DEF Push, TypeOK, HandHeld

LEMMA WorkerType ==
  ASSUME TypeOK, HandHeld, NEW t \in Threads, Worker(t)
  PROVE  TypeOK' /\ HandHeld'
<1> USE DEF flags, queues, threads, client
<1>1. CASE ThreadBegin(t)
  BY <1>1 DEF ThreadBegin, Goto, TypeOK, AllPCs, HandHeld
<1>2. CASE ThreadReady(t)
  BY <1>2 DEF ThreadReady, Goto, TypeOK, AllPCs, Serving, HandHeld
<1>3. CASE LoopTest(t)
  BY <1>3 DEF LoopTest, Goto, TypeOK, AllPCs, Serving, HandHeld
<1>4. CASE Take(t)
  <2>1. Head(head) \in Nodes /\ Tail(head) \in Seq(Nodes)
    BY <1>4, HeadTailProperties DEF Take, TypeOK
  <2>2. pc' = [pc EXCEPT ![t] = "send"] /\ pc[t] = "take"
    BY <1>4 DEF Take, Goto
  <2>3. TypeOK'
    BY <1>4, <2>1, <2>2 DEF Take, TypeOK, AllPCs, Serving
  <2>4. HandHeld'
    BY <1>4, <2>1, <2>2, NodesType DEF Take, TypeOK, HandHeld
  <2> QED
    BY <2>3, <2>4
<1>5. CASE TakeNothing(t)
  BY <1>5 DEF TakeNothing, Goto, TypeOK, AllPCs, Serving, HandHeld
<1>6. CASE SendPackage(t)
  BY <1>6 DEF SendPackage, Goto, TypeOK, AllPCs, Serving, HandHeld
<1>7. CASE QueueDel(t)
  <2>1. hand[t] \in Nodes
    BY <1>7 DEF QueueDel, Goto, TypeOK, HandHeld
  <2>2. free' \in Seq(Nodes)
    BY <1>7, <2>1, AppendProperties DEF QueueDel, TypeOK
  <2>3. payload' \in [Nodes -> Groups \union {NoGroup}]
    BY <1>7, ClearedType DEF QueueDel
  <2>4. pc' = [pc EXCEPT ![t] = "loop"] /\ hand' = [hand EXCEPT ![t] = NoNode]
    BY <1>7 DEF QueueDel, Goto
  <2>5. TypeOK'
    BY <1>7, <2>2, <2>3, <2>4 DEF QueueDel, TypeOK, AllPCs, Serving
  <2>6. HandHeld'
    BY <2>4 DEF TypeOK, HandHeld
  <2> QED
    BY <2>5, <2>6
<1>8. CASE StopReady(t)
  BY <1>8 DEF StopReady, Goto, TypeOK, AllPCs, Stopping, HandHeld
<1>9. CASE SocketClose(t)
  BY <1>9 DEF SocketClose, Goto, TypeOK, AllPCs, Stopping, HandHeld
<1>10. CASE ReleaseAll(t)
  <2>1. free' \in Seq(Nodes) /\ head' \in Seq(Nodes)
    BY <1>10, ConcatProperties, EmptySeq DEF ReleaseAll, TypeOK
  <2>2. payload' \in [Nodes -> Groups \union {NoGroup}]
    BY <1>10, ClearedType DEF ReleaseAll
  <2> QED
    BY <1>10, <2>1, <2>2 DEF ReleaseAll, Goto, TypeOK, AllPCs, HandHeld
<1>11. CASE ThreadExit(t)
  BY <1>11 DEF ThreadExit, Goto, TypeOK, AllPCs, HandHeld
<1> QED
  BY <1>1, <1>2, <1>3, <1>4, <1>5, <1>6, <1>7, <1>8, <1>9, <1>10, <1>11
     DEF Worker

LEMMA NextType == TypeOK /\ HandHeld /\ [Next]_vars => TypeOK' /\ HandHeld'
<1> SUFFICES ASSUME TypeOK, HandHeld, [Next]_vars
             PROVE  TypeOK' /\ HandHeld'
  OBVIOUS
<1>1. CASE UNCHANGED vars
  BY <1>1 DEF vars, TypeOK, HandHeld
<1> QED
  BY <1>1, ClientType, PushType, WorkerType DEF Next

\* Every variable keeps its type; in particular no NULL node reaches a queue
\* and no thread is ever outside its code.
THEOREM TypeCorrect == Spec => []TypeOK
<1>1. Init => TypeOK /\ HandHeld
  BY InitType DEF IInv
<1> QED
  BY <1>1, NextType, PTL DEF Spec

-----------------------------------------------------------------------------
(* Who looks after the queue.                                              *)

LEMMA WorkerServes ==
  ASSUME TypeOK, ReadyServed, QueueServed, NEW t \in Threads, Worker(t)
  PROVE  ReadyServed' /\ QueueServed'
<1> USE DEF flags, queues, threads, client
<1>0. ASSUME NEW to, pc' = [pc EXCEPT ![t] = to]
      PROVE  pc'[t] = to /\ \A u \in Threads \ {t} : pc'[u] = pc[u]
  BY <1>0 DEF TypeOK
<1>1. CASE ThreadBegin(t)
  <2>1. pc[t] = "created" /\ \A u \in Threads \ {t} : pc'[u] = pc[u]
    BY <1>1, <1>0 DEF ThreadBegin, Goto
  <2> QED
    BY <1>1, <2>1
       DEF ThreadBegin, ReadyServed, QueueServed, Serving, Stopping
<1>2. CASE ThreadReady(t)
  <2>1. pc'[t] \in Serving
    BY <1>2, <1>0 DEF ThreadReady, Goto, Serving
  <2> QED
    BY <2>1 DEF ReadyServed, QueueServed
<1>3. CASE \/ LoopTest(t) \/ Take(t) \/ TakeNothing(t) \/ SendPackage(t)
           \/ QueueDel(t)
  <2>1. pc'[t] \in Serving
    BY <1>3, <1>0
       DEF LoopTest, Take, TakeNothing, SendPackage, QueueDel, Goto, Serving
  <2> QED
    BY <2>1 DEF ReadyServed, QueueServed
<1>4. CASE StopReady(t)
  <2>1. pc'[t] \in Stopping /\ ready' = FALSE
    BY <1>4, <1>0 DEF StopReady, Goto, Stopping
  <2> QED
    BY <2>1 DEF ReadyServed, QueueServed
<1>5. CASE SocketClose(t)
  <2>1. /\ pc[t] = "micClose" /\ pc'[t] \in Stopping
        /\ \A u \in Threads \ {t} : pc'[u] = pc[u]
    BY <1>5, <1>0 DEF SocketClose, Goto, Stopping
  <2> QED
    BY <1>5, <2>1 DEF SocketClose, ReadyServed, QueueServed, Serving
<1>6. CASE ReleaseAll(t)
  <2>1. pc[t] = "drain" /\ \A u \in Threads \ {t} : pc'[u] = pc[u]
    BY <1>6, <1>0 DEF ReleaseAll, Goto
  <2> QED
    BY <1>6, <2>1 DEF ReleaseAll, ReadyServed, QueueServed, Serving
<1>7. CASE ThreadExit(t)
  <2>1. pc[t] = "exit" /\ \A u \in Threads \ {t} : pc'[u] = pc[u]
    BY <1>7, <1>0 DEF ThreadExit, Goto
  <2> QED
    BY <1>7, <2>1
       DEF ThreadExit, ReadyServed, QueueServed, Serving, Stopping
<1> QED
  BY <1>1, <1>2, <1>3, <1>4, <1>5, <1>6, <1>7 DEF Worker

LEMMA NextServes ==
  TypeOK /\ ReadyServed /\ QueueServed /\ [Next]_vars
    => ReadyServed' /\ QueueServed'
<1> SUFFICES ASSUME TypeOK, ReadyServed, QueueServed, [Next]_vars
             PROVE  ReadyServed' /\ QueueServed'
  OBVIOUS
<1> USE DEF flags, queues, threads, client
<1>1. ASSUME NEW t \in Threads, OpenCreate(t)
      PROVE  ReadyServed' /\ QueueServed'
  <2>1. pc[t] = "none" /\ \A u \in Threads \ {t} : pc'[u] = pc[u]
    BY <1>1 DEF OpenCreate, TypeOK
  <2> QED
    BY <1>1, <2>1
       DEF OpenCreate, ReadyServed, QueueServed, Serving, Stopping
<1>2. CASE \/ \E g \in Groups : TalkOpen(g)
           \/ OpenCheck \/ WaitThreadQuit \/ WaitTimeout \/ TalkClose
           \/ UNCHANGED vars
  <2>1. UNCHANGED <<ready, head, pc>>
    BY <1>2 DEF TalkOpen, OpenCheck, WaitThreadQuit, WaitTimeout, TalkClose,
                vars
  <2> QED
    BY <2>1 DEF ReadyServed, QueueServed
<1>3. CASE Push
  <2>1. ready /\ UNCHANGED <<ready, pc>>
    BY <1>3 DEF Push
  <2> QED
    BY <2>1 DEF ReadyServed, QueueServed
<1> QED
  BY <1>1, <1>2, <1>3, WorkerServes DEF Next, Open

\* When every worker is gone no push is accepted any more and nothing is left
\* to be sent in the next call, whatever the order of opens, closes and thread
\* starts and however many workers overlapped.
THEOREM NothingLeft == Spec => []NothingStranded
<1>1. Init => ReadyServed /\ QueueServed
  BY InitType DEF IInv
<1>2. ReadyServed /\ QueueServed /\ TypeOK => NothingStranded
  BY DEF ReadyServed, QueueServed, NothingStranded, Live, Serving, Stopping,
         TypeOK
<1> QED
  BY <1>1, <1>2, NextServes, TypeCorrect, PTL DEF Spec

-----------------------------------------------------------------------------
(* The pool: facts about sequences without repetitions, then each step.    *)

Distinct(s) == \A i, j \in DOMAIN s : s[i] = s[j] => i = j

LEMMA TailDistinct ==
  ASSUME NEW s \in Seq(Nodes), s # <<>>, Distinct(s)
  PROVE  Distinct(Tail(s)) /\ Range(Tail(s)) = Range(s) \ {Head(s)}
<1>1. /\ Len(s) \in Nat \ {0} /\ DOMAIN s = 1..Len(s) /\ Head(s) = s[1]
  BY EmptySeq, LenProperties
<1>2. /\ Tail(s) \in Seq(Nodes) /\ Len(Tail(s)) = Len(s) - 1
      /\ \A i \in 1..Len(Tail(s)) : Tail(s)[i] = s[i + 1]
  BY HeadTailProperties
<1>3. DOMAIN Tail(s) = 1..(Len(s) - 1)
  BY <1>2, LenProperties
<1>4. Distinct(Tail(s))
  BY <1>1, <1>2, <1>3 DEF Distinct
<1>5. ASSUME NEW n \in Range(Tail(s))
      PROVE  n \in Range(s) \ {Head(s)}
  <2>1. PICK i \in 1..(Len(s) - 1) : n = s[i + 1]
    BY <1>2, <1>3, <1>5 DEF Range
  <2>2. i + 1 \in DOMAIN s /\ 1 \in DOMAIN s /\ i + 1 # 1
    BY <1>1, <2>1
  <2> QED
    BY <1>1, <2>1, <2>2 DEF Range, Distinct
<1>6. ASSUME NEW n \in Range(s) \ {Head(s)}
      PROVE  n \in Range(Tail(s))
  <2>1. PICK i \in 1..Len(s) : n = s[i] /\ i # 1
    BY <1>1, <1>6 DEF Range
  <2>2. i - 1 \in DOMAIN Tail(s) /\ Tail(s)[i - 1] = n
    BY <1>1, <1>2, <1>3, <2>1
  <2> QED
    BY <2>2 DEF Range
<1> QED
  BY <1>4, <1>5, <1>6

LEMMA ConcatDistinct ==
  ASSUME NEW s \in Seq(Nodes), NEW t \in Seq(Nodes),
         Distinct(s), Distinct(t), Range(s) \intersect Range(t) = {}
  PROVE  Distinct(s \o t) /\ Range(s \o t) = Range(s) \union Range(t)
<1>1. /\ Len(s) \in Nat /\ DOMAIN s = 1..Len(s)
      /\ Len(t) \in Nat /\ DOMAIN t = 1..Len(t)
  BY LenProperties
<1>2. /\ s \o t \in Seq(Nodes) /\ Len(s \o t) = Len(s) + Len(t)
      /\ \A i \in 1..(Len(s) + Len(t)) :
           (s \o t)[i] = IF i <= Len(s) THEN s[i] ELSE t[i - Len(s)]
  BY ConcatProperties
<1>3. DOMAIN (s \o t) = 1..(Len(s) + Len(t))
  BY <1>2, LenProperties
<1>4. ASSUME NEW i \in DOMAIN (s \o t), NEW j \in DOMAIN (s \o t),
             (s \o t)[i] = (s \o t)[j]
      PROVE  i = j
  <2>1. CASE i <= Len(s) /\ j <= Len(s)
    BY <1>1, <1>2, <1>3, <1>4, <2>1 DEF Distinct
  <2>2. CASE i > Len(s) /\ j > Len(s)
    <3>1. i - Len(s) \in DOMAIN t /\ j - Len(s) \in DOMAIN t
      BY <1>1, <1>3, <2>2
    <3>2. t[i - Len(s)] = t[j - Len(s)]
      BY <1>1, <1>2, <1>3, <1>4, <2>2
    <3>3. i - Len(s) = j - Len(s)
      BY <3>1, <3>2 DEF Distinct
    <3> QED
      BY <1>1, <1>3, <3>3
  <2>3. ASSUME NEW k \in DOMAIN (s \o t), NEW l \in DOMAIN (s \o t),
               k <= Len(s), l > Len(s)
        PROVE  (s \o t)[k] # (s \o t)[l]
    <3>1. k \in DOMAIN s /\ l - Len(s) \in DOMAIN t
      BY <1>1, <1>3, <2>3
    <3>2. (s \o t)[k] = s[k] /\ (s \o t)[l] = t[l - Len(s)]
      BY <1>1, <1>2, <1>3, <2>3
    <3> QED
      BY <3>1, <3>2 DEF Range
  <2> QED
    BY <1>1, <1>3, <1>4, <2>1, <2>2, <2>3
<1>5. Range(s \o t) = Range(s) \union Range(t)
  BY RangeConcatenation
<1> QED
  BY <1>4, <1>5 DEF Distinct

LEMMA AppendDistinct ==
  ASSUME NEW s \in Seq(Nodes), NEW n \in Nodes, Distinct(s), n \notin Range(s)
  PROVE  Distinct(Append(s, n)) /\ Range(Append(s, n)) = Range(s) \union {n}
<1>1. Append(s, n) = s \o <<n>> /\ <<n>> \in Seq(Nodes)
  BY AppendIsConcat
<1>2. Distinct(<<n>>) /\ Range(<<n>>) = {n}
  BY DEF Distinct, Range
<1>3. n \notin Range(s) => Range(s) \intersect Range(<<n>>) = {}
  BY <1>2
<1>4. Distinct(s \o <<n>>) /\ Range(s \o <<n>>) = Range(s) \union Range(<<n>>)
  BY <1>1, <1>2, <1>3, ConcatDistinct
<1> QED
  BY <1>1, <1>2, <1>4

\* NodeConservation in terms of sets.
Placed ==
  /\ Distinct(free) /\ Distinct(head)
  /\ Range(free) \intersect Range(head) = {}
  /\ \A t \in Threads : hand[t] \notin Range(free) \union Range(head)
  /\ \A t, u \in Threads : t # u /\ hand[t] # NoNode => hand[t] # hand[u]
  /\ \A n \in Nodes : \/ n \in Range(free) \/ n \in Range(head)
                      \/ \E t \in Threads : hand[t] = n

LEMMA PlacedIsConservation == Placed <=> NodeConservation
BY DEF Placed, NodeConservation, Distinct, Range

LEMMA RangeNodes ==
  ASSUME TypeOK
  PROVE  Range(free) \subseteq Nodes /\ Range(head) \subseteq Nodes
<1>1. free \in Seq(Nodes) /\ head \in Seq(Nodes)
  BY DEF TypeOK
<1> QED
  BY <1>1, ElementOfSeq, LenProperties DEF Range

LEMMA PushPlaces ==
  ASSUME TypeOK, Placed, Push
  PROVE  Placed'
<1>1. /\ free \in Seq(Nodes) /\ head \in Seq(Nodes) /\ free # <<>>
      /\ Head(free) \in Nodes /\ free' = Tail(free)
      /\ head' = Append(head, Head(free)) /\ hand' = hand
  BY HeadTailProperties DEF Push, QueueNew, TypeOK, threads
<1>2. Head(free) \in Range(free)
  BY <1>1, EmptySeq, LenProperties DEF Range
<1>3. Distinct(free') /\ Range(free') = Range(free) \ {Head(free)}
  BY <1>1, TailDistinct DEF Placed
<1>4. Head(free) \notin Range(head)
  BY <1>2 DEF Placed
<1>5. Distinct(head') /\ Range(head') = Range(head) \union {Head(free)}
  BY <1>1, <1>4, AppendDistinct DEF Placed
<1> QED
  BY <1>1, <1>2, <1>3, <1>5 DEF Placed

LEMMA TakePlaces ==
  ASSUME TypeOK, HandHeld, Placed, NEW t \in Threads, Take(t)
  PROVE  Placed'
<1>1. /\ head \in Seq(Nodes) /\ head # <<>> /\ Head(head) \in Nodes
      /\ head' = Tail(head) /\ free' = free
      /\ hand' = [hand EXCEPT ![t] = Head(head)] /\ hand[t] = NoNode
  BY HeadTailProperties DEF Take, Goto, TypeOK, HandHeld
<1>2. Head(head) \in Range(head)
  BY <1>1, EmptySeq, LenProperties DEF Range
<1>3. Distinct(head') /\ Range(head') = Range(head) \ {Head(head)}
  BY <1>1, TailDistinct DEF Placed
<1>4. hand'[t] = Head(head) /\ \A u \in Threads \ {t} : hand'[u] = hand[u]
  BY <1>1 DEF TypeOK
<1>5. \A u \in Threads : hand[u] # Head(head)
  BY <1>2 DEF Placed
<1>6. \A u \in Threads : hand'[u] \notin Range(free') \union Range(head')
  BY <1>1, <1>2, <1>3, <1>4 DEF Placed
<1>7. \A u, v \in Threads : u # v /\ hand'[u] # NoNode => hand'[u] # hand'[v]
  BY <1>4, <1>5 DEF Placed
<1>8. ASSUME NEW n \in Nodes
      PROVE  \/ n \in Range(free') \/ n \in Range(head')
             \/ \E u \in Threads : hand'[u] = n
  <2>1. CASE n \in Range(free) \union Range(head)
    BY <1>1, <1>3, <1>4, <2>1
  <2>2. CASE \E u \in Threads : hand[u] = n
    BY <1>1, <1>4, <2>2, NodesType
  <2> QED
    BY <2>1, <2>2 DEF Placed
<1> QED
  BY <1>1, <1>2, <1>3, <1>6, <1>7, <1>8 DEF Placed

LEMMA QueueDelPlaces ==
  ASSUME TypeOK, HandHeld, Placed, NEW t \in Threads, QueueDel(t)
  PROVE  Placed'
<1>1. /\ free \in Seq(Nodes) /\ hand[t] \in Nodes
      /\ free' = Append(free, hand[t]) /\ head' = head
      /\ hand' = [hand EXCEPT ![t] = NoNode]
  BY DEF QueueDel, Goto, TypeOK, HandHeld
<1>2. hand[t] \notin Range(free) /\ hand[t] \notin Range(head)
  BY DEF Placed
<1>3. Distinct(free') /\ Range(free') = Range(free) \union {hand[t]}
  BY <1>1, <1>2, AppendDistinct DEF Placed
<1>4. hand'[t] = NoNode /\ \A u \in Threads \ {t} : hand'[u] = hand[u]
  BY <1>1 DEF TypeOK
<1>5. NoNode \notin Range(free') \union Range(head')
  BY <1>1, <1>3, NodesType, RangeNodes
<1>6. \A u \in Threads \ {t} : hand[u] # hand[t]
  BY <1>1, NodesType DEF Placed
<1>7. \A u \in Threads : hand'[u] \notin Range(free') \union Range(head')
  BY <1>1, <1>3, <1>4, <1>5, <1>6 DEF Placed
<1>8. \A u, v \in Threads : u # v /\ hand'[u] # NoNode => hand'[u] # hand'[v]
  BY <1>4 DEF Placed
<1>9. ASSUME NEW n \in Nodes
      PROVE  \/ n \in Range(free') \/ n \in Range(head')
             \/ \E u \in Threads : hand'[u] = n
  BY <1>1, <1>3, <1>4 DEF Placed
<1> QED
  BY <1>1, <1>2, <1>3, <1>7, <1>8, <1>9 DEF Placed

LEMMA ReleasePlaces ==
  ASSUME TypeOK, Placed, NEW t \in Threads, ReleaseAll(t)
  PROVE  Placed'
<1>1. /\ free \in Seq(Nodes) /\ head \in Seq(Nodes)
      /\ free' = free \o head /\ head' = <<>> /\ hand' = hand
  BY DEF ReleaseAll, TypeOK
<1>2. Distinct(free') /\ Range(free') = Range(free) \union Range(head)
  BY <1>1, ConcatDistinct DEF Placed
<1>3. Distinct(head') /\ Range(head') = {}
  BY <1>1 DEF Distinct, Range
<1> QED
  BY <1>1, <1>2, <1>3 DEF Placed

LEMMA InitPlaces == Init => Placed
<1> SUFFICES ASSUME Init
             PROVE  Placed
  OBVIOUS
<1>1. DOMAIN free = Nodes /\ \A i \in Nodes : free[i] = i
  BY DEF Init, Nodes
<1>2. Distinct(free) /\ Range(free) = Nodes
  BY <1>1 DEF Distinct, Range
<1>3. Distinct(head) /\ Range(head) = {}
  BY DEF Init, Distinct, Range
<1>4. \A t \in Threads : hand[t] = NoNode
  BY DEF Init
<1> QED
  BY <1>2, <1>3, <1>4, NodesType DEF Placed

LEMMA NextPlaces == TypeOK /\ HandHeld /\ Placed /\ [Next]_vars => Placed'
<1> SUFFICES ASSUME TypeOK, HandHeld, Placed, [Next]_vars
             PROVE  Placed'
  OBVIOUS
<1>1. ASSUME UNCHANGED <<free, head, hand>>
      PROVE  Placed'
  BY <1>1 DEF Placed
<1>2. ASSUME NEW t \in Threads, Worker(t)
      PROVE  Placed'
  <2>1. CASE Take(t)
    BY <2>1, TakePlaces
  <2>2. CASE QueueDel(t)
    BY <2>2, QueueDelPlaces
  <2>3. CASE ReleaseAll(t)
    BY <2>3, ReleasePlaces
  <2>4. CASE \/ ThreadBegin(t) \/ ThreadReady(t) \/ LoopTest(t)
             \/ TakeNothing(t) \/ SendPackage(t) \/ StopReady(t)
             \/ SocketClose(t) \/ ThreadExit(t)
    BY <1>1, <2>4
       DEF ThreadBegin, ThreadReady, LoopTest, TakeNothing, SendPackage,
           StopReady, SocketClose, ThreadExit, queues
  <2> QED
    BY <1>2, <2>1, <2>2, <2>3, <2>4 DEF Worker
<1>3. CASE Push
  BY <1>3, PushPlaces
<1>4. CASE (\E g \in Groups : TalkOpen(g)) \/ Open \/ TalkClose
           \/ UNCHANGED vars
  BY <1>1, <1>4
     DEF TalkOpen, Open, OpenCheck, WaitThreadQuit, WaitTimeout, OpenCreate,
         TalkClose, queues, threads, vars
<1> QED
  BY <1>2, <1>3, <1>4 DEF Next

\* Every node is in exactly one place - the free queue, the head queue or one
\* thread's hand - for any pool size and any number of overlapping workers.
THEOREM PoolConserved == Spec => []NodeConservation
<1>1. Init => TypeOK /\ HandHeld /\ Placed
  BY InitType, InitPlaces DEF IInv
<1> QED
  BY <1>1, NextType, NextPlaces, PlacedIsConservation, PTL DEF Spec

-----------------------------------------------------------------------------
(* The sender implements a frame channel: one lemma for each step of it.   *)

LEMMA PushAccepts ==
  ASSUME TypeOK, Placed, Push
  PROVE  \E f \in Nodes : Channel!Accept(f)
<1>1. /\ free \in Seq(Nodes) /\ free # <<>> /\ Head(free) \in Nodes
      /\ head' = Append(head, Head(free)) /\ hand' = hand
  BY HeadTailProperties DEF Push, QueueNew, TypeOK, threads
<1>2. Head(free) \in Range(free)
  BY <1>1, EmptySeq, LenProperties DEF Range
<1>3. Head(free) \notin Range(head) /\ Head(free) \notin InHand
  BY <1>2 DEF Placed, InHand
<1> QED
  BY <1>1, <1>3 DEF Channel!Accept, Channel!Range, Range, InHand

LEMMA TakeDelivers ==
  ASSUME TypeOK, HandHeld, NEW t \in Threads, Take(t)
  PROVE  Channel!Deliver
<1>1. /\ head \in Seq(Nodes) /\ head # <<>> /\ Head(head) \in Nodes
      /\ head' = Tail(head)
      /\ hand' = [hand EXCEPT ![t] = Head(head)] /\ hand[t] = NoNode
  BY HeadTailProperties DEF Take, Goto, TypeOK, HandHeld
<1>2. hand'[t] = Head(head) /\ \A u \in Threads \ {t} : hand'[u] = hand[u]
  BY <1>1 DEF TypeOK
<1>3. InHand' = InHand \union {Head(head)}
  BY <1>1, <1>2, NodesType DEF InHand
<1> QED
  BY <1>1, <1>3 DEF Channel!Deliver

LEMMA QueueDelIsDone ==
  ASSUME TypeOK, HandHeld, Placed, NEW t \in Threads, QueueDel(t)
  PROVE  \E f \in Nodes : Channel!Done(f)
<1>1. /\ hand[t] \in Nodes /\ head' = head
      /\ hand' = [hand EXCEPT ![t] = NoNode]
  BY DEF QueueDel, Goto, TypeOK, HandHeld
<1>2. hand'[t] = NoNode /\ \A u \in Threads \ {t} : hand'[u] = hand[u]
  BY <1>1 DEF TypeOK
<1>3. \A u \in Threads \ {t} : hand[u] # hand[t]
  BY <1>1, NodesType DEF Placed
<1>4. hand[t] \in InHand /\ InHand' = InHand \ {hand[t]}
  BY <1>1, <1>2, <1>3, NodesType DEF InHand
<1> QED
  BY <1>1, <1>4 DEF Channel!Done

LEMMA ReleaseDiscards ==
  ASSUME NEW t \in Threads, ReleaseAll(t)
  PROVE  Channel!Discard
BY DEF ReleaseAll, Channel!Discard, InHand

\* Whatever opens, closes and overlapping workers do, frames leave the sender
\* each once and in the order they were pushed, or are discarded for good.
THEOREM Implements == Spec => IsFrameChannel
<1>1. Init => Channel!Init
  BY DEF Init, Channel!Init, InHand
<1>2. TypeOK /\ HandHeld /\ Placed /\ [Next]_vars => [Channel!Next]_Channel!vars
  <2> SUFFICES ASSUME TypeOK, HandHeld, Placed, [Next]_vars
               PROVE  [Channel!Next]_Channel!vars
    OBVIOUS
  <2>1. ASSUME UNCHANGED <<head, hand>>
        PROVE  UNCHANGED Channel!vars
    BY <2>1 DEF Channel!vars, InHand
  <2>2. ASSUME NEW t \in Threads, Worker(t)
        PROVE  [Channel!Next]_Channel!vars
    <3>1. CASE Take(t)
      BY <3>1, TakeDelivers DEF Channel!Next
    <3>2. CASE QueueDel(t)
      BY <3>2, QueueDelIsDone DEF Channel!Next
    <3>3. CASE ReleaseAll(t)
      BY <3>3, ReleaseDiscards DEF Channel!Next
    <3>4. CASE \/ ThreadBegin(t) \/ ThreadReady(t) \/ LoopTest(t)
               \/ TakeNothing(t) \/ SendPackage(t) \/ StopReady(t)
               \/ SocketClose(t) \/ ThreadExit(t)
      BY <2>1, <3>4
         DEF ThreadBegin, ThreadReady, LoopTest, TakeNothing, SendPackage,
             StopReady, SocketClose, ThreadExit, queues
    <3> QED
      BY <2>2, <3>1, <3>2, <3>3, <3>4 DEF Worker
  <2>3. CASE Push
    BY <2>3, PushAccepts DEF Channel!Next
  <2>4. CASE (\E g \in Groups : TalkOpen(g)) \/ Open \/ TalkClose
             \/ UNCHANGED vars
    BY <2>1, <2>4
       DEF TalkOpen, Open, OpenCheck, WaitThreadQuit, WaitTimeout, OpenCreate,
           TalkClose, queues, threads, vars
  <2> QED
    BY <2>2, <2>3, <2>4 DEF Next
<1>3. Init => TypeOK /\ HandHeld /\ Placed
  BY InitType, InitPlaces DEF IInv
<1> QED
  BY <1>1, <1>2, <1>3, NextType, NextPlaces, PTL
     DEF Spec, IsFrameChannel, Channel!Spec

-----------------------------------------------------------------------------
(* Two workers overlap only if a thread was late: why the flags suffice.   *)

\* An open that waits or creates has seen the task flag cleared, and with no
\* thread late: a thread that has not begun holds the task flag, one that has
\* begun holds the thread flag, so the open that creates has seen both gone.
Handover ==
  /\ opener \in {"wait", "create"} => taskRun = FALSE
  /\ ~late => /\ \A t \in Threads : pc[t] = "created" => taskRun = TRUE
              /\ \A t \in Threads :
                   pc[t] \notin {"none", "created"} => threadRun = TRUE
              /\ opener = "create" => \A t \in Threads : pc[t] = "none"
              /\ \A t, u \in Threads : Live(t) /\ Live(u) => t = u

LEMMA WorkerHandover ==
  ASSUME TypeOK, Handover, NEW t \in Threads, Worker(t)
  PROVE  Handover'
<1> USE DEF flags, queues, threads, client
<1>1. /\ UNCHANGED <<taskRun, opener, late>> /\ pc[t] # "none"
      /\ \A u \in Threads \ {t} : pc'[u] = pc[u]
      /\ pc'[t] # "created"
  BY DEF Worker, ThreadBegin, ThreadReady, LoopTest, Take, TakeNothing,
         SendPackage, QueueDel, StopReady, SocketClose, ReleaseAll,
         ThreadExit, Goto, TypeOK
<1>2. ASSUME ~late
      PROVE  \A u \in Threads \ {t} : pc[u] = "none"
  BY <1>1, <1>2 DEF Handover, Live
<1>3. CASE ThreadExit(t)
  <2>1. pc'[t] = "none"
    BY <1>3 DEF ThreadExit, Goto, TypeOK
  <2> QED
    BY <1>1, <1>2, <2>1 DEF Handover, Live
<1>4. CASE ThreadBegin(t)
  <2>1. threadRun' = TRUE
    BY <1>4 DEF ThreadBegin
  <2> QED
    BY <1>1, <1>2, <2>1 DEF Handover, Live
<1>5. CASE \/ ThreadReady(t) \/ LoopTest(t) \/ Take(t) \/ TakeNothing(t)
           \/ SendPackage(t) \/ QueueDel(t) \/ StopReady(t)
           \/ SocketClose(t) \/ ReleaseAll(t)
  <2>1. UNCHANGED threadRun /\ pc[t] # "created"
    BY <1>5 DEF ThreadReady, LoopTest, Take, TakeNothing, SendPackage,
                QueueDel, StopReady, SocketClose, ReleaseAll, Goto
  <2> QED
    BY <1>1, <1>2, <2>1 DEF Handover, Live
<1> QED
  BY <1>3, <1>4, <1>5 DEF Worker

LEMMA OpenHandover ==
  ASSUME TypeOK, Handover, Open
  PROVE  Handover'
<1> USE DEF flags, queues, threads, client
<1>1. CASE OpenCheck
  BY <1>1 DEF OpenCheck, TalkOpened, Handover, Live, TypeOK
<1>2. CASE WaitThreadQuit
  <2>1. /\ threadRun = FALSE /\ taskRun = FALSE
        /\ UNCHANGED <<taskRun, threadRun, pc, late>>
    BY <1>2 DEF WaitThreadQuit, Handover
  <2> QED
    BY <1>2, <2>1 DEF WaitThreadQuit, Handover, Live
<1>3. CASE WaitTimeout
  BY <1>3 DEF WaitTimeout, TalkOpened, Handover, Live
<1>4. ASSUME NEW t \in Threads, OpenCreate(t)
      PROVE  Handover'
  <2>1. /\ taskRun' = TRUE /\ opener' = "idle" /\ late' = late
        /\ opener = "create"
        /\ pc'[t] = "created" /\ \A u \in Threads \ {t} : pc'[u] = pc[u]
    BY <1>4 DEF OpenCreate, TalkOpened, TypeOK
  <2> QED
    BY <2>1 DEF Handover, Live
<1> QED
  BY <1>1, <1>2, <1>3, <1>4 DEF Open

LEMMA NextHandover == TypeOK /\ Handover /\ [Next]_vars => Handover'
<1> SUFFICES ASSUME TypeOK, Handover, [Next]_vars
             PROVE  Handover'
  OBVIOUS
<1>1. CASE TalkClose
  <2>1. /\ taskRun' = FALSE /\ UNCHANGED <<threadRun, pc, opener>>
        /\ ~late' => ~late /\ \A t \in Threads : pc[t] # "created"
    BY <1>1 DEF TalkClose, threads
  <2> QED
    BY <2>1 DEF Handover, Live
<1>2. ASSUME NEW g \in Groups, TalkOpen(g)
      PROVE  Handover'
  <2>1. opener' = "check" /\ UNCHANGED <<taskRun, threadRun, pc, late>>
    BY <1>2 DEF TalkOpen, threads
  <2> QED
    BY <2>1 DEF Handover, Live
<1>3. CASE Push \/ UNCHANGED vars
  <2>1. UNCHANGED <<opener, taskRun, threadRun, pc, late>>
    BY <1>3 DEF Push, flags, threads, client, vars
  <2> QED
    BY <2>1 DEF Handover, Live
<1> QED
  BY <1>1, <1>2, <1>3, WorkerHandover, OpenHandover DEF Next

LEMMA InitHandover == Init => Handover
BY DEF Init, Handover, Live

\* A call's worker is alone - no two threads share the queue, the socket and
\* the flags - unless some thread was closed before its first statement.
THEOREM WorkersAlone == Spec => []OneWorker
<1>1. Init => TypeOK /\ HandHeld /\ Handover
  BY InitType, InitHandover DEF IInv
<1>2. Handover => OneWorker
  BY DEF Handover, OneWorker
<1> QED
  BY <1>1, <1>2, NextHandover, NextType, PTL DEF Spec

-----------------------------------------------------------------------------
(* A call sends its own frames: the worker of the last call may still hold *)
(* the queue when the receiving half overwrites the address, but it has    *)
(* emptied it before the task flag is set for the new call.                *)

CallIsOpen == taskRun => status

\* While a call is on, the queue and the hands hold frames for its address.
OwnFrames ==
  taskRun /\ ~late =>
    /\ \A n \in Range(head) : payload[n] = group
    /\ \A t \in Threads : pc[t] \in {"send", "del"} => payload[hand[t]] = group

LEMMA PushOwns ==
  ASSUME TypeOK, HandHeld, Placed, OwnFrames, Push
  PROVE  OwnFrames'
<1>1. /\ free \in Seq(Nodes) /\ head \in Seq(Nodes) /\ free # <<>>
      /\ Head(free) \in Nodes /\ head' = Append(head, Head(free))
      /\ payload' = [payload EXCEPT ![Head(free)] = group]
      /\ UNCHANGED <<taskRun, group, pc, hand, late>>
  BY HeadTailProperties DEF Push, QueueNew, TypeOK, flags, threads, client
<1>2. Head(free) \in Range(free)
  BY <1>1, EmptySeq, LenProperties DEF Range
<1>3. Range(head') = Range(head) \union {Head(free)}
  BY <1>1, <1>2, AppendDistinct DEF Placed
<1>4. \A n \in Nodes : payload'[n] = IF n = Head(free) THEN group ELSE payload[n]
  BY <1>1 DEF TypeOK
<1>5. \A n \in Range(head') : n \in Nodes
  BY <1>1, <1>3, RangeNodes
<1>6. \A t \in Threads : pc[t] \in {"send", "del"} =>
        hand[t] \in Nodes /\ hand[t] # Head(free)
  BY <1>2 DEF HandHeld, TypeOK, Placed
<1> QED
  BY <1>1, <1>3, <1>4, <1>5, <1>6 DEF OwnFrames

LEMMA WorkerOwns ==
  ASSUME TypeOK, HandHeld, Placed, OwnFrames, NEW t \in Threads, Worker(t)
  PROVE  OwnFrames'
<1>1. /\ UNCHANGED <<taskRun, group, late>>
      /\ \A u \in Threads \ {t} : pc'[u] = pc[u]
  BY DEF Worker, ThreadBegin, ThreadReady, LoopTest, Take, TakeNothing,
         SendPackage, QueueDel, StopReady, SocketClose, ReleaseAll,
         ThreadExit, Goto, TypeOK, flags, client
<1>2. CASE Take(t)
  <2>1. /\ head \in Seq(Nodes) /\ head # <<>> /\ head' = Tail(head)
        /\ payload' = payload /\ hand' = [hand EXCEPT ![t] = Head(head)]
    BY <1>2 DEF Take, TypeOK
  <2>2. Head(head) \in Range(head) /\ Range(head') \subseteq Range(head)
    BY <2>1, EmptySeq, LenProperties, TailDistinct DEF Range, Placed
  <2>3. hand'[t] = Head(head) /\ \A u \in Threads \ {t} : hand'[u] = hand[u]
    BY <2>1 DEF TypeOK
  <2> QED
    BY <1>1, <2>1, <2>2, <2>3 DEF OwnFrames
<1>3. CASE QueueDel(t)
  <2>1. /\ hand[t] \in Nodes /\ head' = head /\ pc'[t] = "loop"
        /\ payload' = Cleared({hand[t]}) /\ hand' = [hand EXCEPT ![t] = NoNode]
    BY <1>3 DEF QueueDel, Goto, TypeOK, HandHeld
  <2>2. \A n \in Nodes \ {hand[t]} : payload'[n] = payload[n]
    BY <2>1 DEF Cleared
  <2>3. hand[t] \notin Range(head) /\ Range(head) \subseteq Nodes
    BY RangeNodes DEF Placed
  <2>4. \A u \in Threads \ {t} : hand'[u] = hand[u] /\ hand[u] # hand[t]
    BY <2>1, NodesType DEF TypeOK, Placed
  <2>5. \A u \in Threads : pc[u] \in {"send", "del"} => hand[u] \in Nodes
    BY DEF HandHeld, TypeOK
  <2> QED
    BY <1>1, <2>1, <2>2, <2>3, <2>4, <2>5 DEF OwnFrames
<1>4. CASE ReleaseAll(t)
  <2>1. /\ pc'[t] = "exit" /\ head' = <<>> /\ hand' = hand
        /\ payload' = Cleared(Range(head))
    BY <1>4 DEF ReleaseAll, Goto, TypeOK
  <2>2. \A n \in Nodes \ Range(head) : payload'[n] = payload[n]
    BY <2>1 DEF Cleared
  <2>3. \A u \in Threads : pc[u] \in {"send", "del"} =>
          hand[u] \in Nodes \ Range(head)
    BY DEF HandHeld, TypeOK, Placed
  <2>4. Range(head') = {}
    BY <2>1 DEF Range
  <2> QED
    BY <1>1, <2>1, <2>2, <2>3, <2>4 DEF OwnFrames
<1>5. CASE \/ ThreadBegin(t) \/ ThreadReady(t) \/ LoopTest(t) \/ TakeNothing(t)
           \/ SendPackage(t) \/ StopReady(t) \/ SocketClose(t) \/ ThreadExit(t)
  <2>1. UNCHANGED <<head, payload, hand>>
    BY <1>5 DEF ThreadBegin, ThreadReady, LoopTest, TakeNothing, SendPackage,
                StopReady, SocketClose, ThreadExit, queues
  <2>2. pc'[t] \in {"send", "del"} => pc[t] \in {"send", "del"}
    BY <1>5 DEF ThreadBegin, ThreadReady, LoopTest, TakeNothing, SendPackage,
                StopReady, SocketClose, ThreadExit, Goto, TypeOK
  <2> QED
    BY <1>1, <2>1, <2>2 DEF OwnFrames
<1> QED
  BY <1>2, <1>3, <1>4, <1>5 DEF Worker

LEMMA ClientOwns ==
  ASSUME TypeOK, QueueServed, Handover, CallIsOpen, OwnFrames,
         (\E g \in Groups : TalkOpen(g)) \/ Open \/ TalkClose
  PROVE  CallIsOpen' /\ OwnFrames'
<1> USE DEF flags, queues, threads, client
<1>1. ASSUME NEW g \in Groups, TalkOpen(g)
      PROVE  CallIsOpen' /\ OwnFrames'
  <2>1. taskRun' = FALSE
    BY <1>1 DEF TalkOpen, CallIsOpen, TypeOK
  <2> QED
    BY <2>1 DEF CallIsOpen, OwnFrames
<1>2. CASE TalkClose
  BY <1>2 DEF TalkClose, CallIsOpen, OwnFrames
<1>3. CASE OpenCheck \/ WaitThreadQuit \/ WaitTimeout
  <2>1. UNCHANGED <<taskRun, group, head, payload, pc, hand, late>>
    BY <1>3 DEF OpenCheck, WaitThreadQuit, WaitTimeout, TalkOpened
  <2>2. status => status'
    BY <1>3 DEF OpenCheck, WaitThreadQuit, WaitTimeout, TalkOpened
  <2> QED
    BY <2>1, <2>2 DEF CallIsOpen, OwnFrames
<1>4. ASSUME NEW t \in Threads, OpenCreate(t)
      PROVE  CallIsOpen' /\ OwnFrames'
  <2>1. /\ opener = "create" /\ status' = TRUE /\ late' = late
        /\ head' = head
        /\ pc'[t] = "created" /\ \A u \in Threads \ {t} : pc'[u] = pc[u]
    BY <1>4 DEF OpenCreate, TalkOpened, TypeOK
  <2>2. ASSUME ~late
        PROVE  /\ \A u \in Threads : pc[u] = "none"
               /\ Range(head) = {}
    <3>1. \A u \in Threads : pc[u] = "none"
      BY <2>1, <2>2 DEF Handover
    <3>2. head = <<>>
      BY <3>1 DEF QueueServed, Serving, Stopping
    <3> QED
      BY <3>1, <3>2 DEF Range
  <2> QED
    BY <2>1, <2>2 DEF CallIsOpen, OwnFrames
<1> QED
  BY <1>1, <1>2, <1>3, <1>4 DEF Open

Owning == TypeOK /\ HandHeld /\ ReadyServed /\ QueueServed /\ Placed /\ Handover
          /\ CallIsOpen /\ OwnFrames

LEMMA NextOwns == Owning /\ [Next]_vars => Owning'
<1> SUFFICES ASSUME Owning, [Next]_vars
             PROVE  Owning'
  OBVIOUS
<1>1. /\ TypeOK' /\ HandHeld' /\ ReadyServed' /\ QueueServed' /\ Placed'
      /\ Handover'
  BY NextType, NextServes, NextPlaces, NextHandover DEF Owning
<1>2. CASE Push
  <2>1. UNCHANGED <<taskRun, status>>
    BY <1>2 DEF Push, flags, client
  <2> QED
    BY <1>1, <1>2, <2>1, PushOwns DEF Owning, CallIsOpen
<1>3. ASSUME NEW t \in Threads, Worker(t)
      PROVE  Owning'
  <2>1. UNCHANGED <<taskRun, status>>
    BY <1>3 DEF Worker, ThreadBegin, ThreadReady, LoopTest, Take, TakeNothing,
                SendPackage, QueueDel, StopReady, SocketClose, ReleaseAll,
                ThreadExit, flags, client
  <2> QED
    BY <1>1, <1>3, <2>1, WorkerOwns DEF Owning, CallIsOpen
<1>4. CASE (\E g \in Groups : TalkOpen(g)) \/ Open \/ TalkClose
  BY <1>1, <1>4, ClientOwns DEF Owning
<1>5. CASE UNCHANGED vars
  BY <1>1, <1>5 DEF vars, Owning, CallIsOpen, OwnFrames
<1> QED
  BY <1>2, <1>3, <1>4, <1>5 DEF Next

\* While a call is on, its worker sends only frames captured for the address of
\* that call, although address, queue and flags are shared by all calls.
THEOREM SendsItsCall == Spec => []OwnCallFrames
<1>1. Init => Owning
  <2> SUFFICES ASSUME Init
               PROVE  Owning
    OBVIOUS
  <2>1. taskRun = FALSE
    BY DEF Init
  <2> QED
    BY <2>1, InitType, InitPlaces, InitHandover
       DEF IInv, Owning, CallIsOpen, OwnFrames
<1>2. Owning => OwnCallFrames
  BY DEF Owning, OwnFrames, OwnCallFrames, TypeOK
<1> QED
  BY <1>1, <1>2, NextOwns, PTL DEF Spec
=============================================================================
