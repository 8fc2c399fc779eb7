--------------------------- MODULE AudioPlayProofs ---------------------------
(***************************************************************************)
(* For any number of nodes and events: every variable keeps its type, the  *)
(* nodes are kept, while somebody talks nothing plays, and a call that     *)
(* rings has one ring at a time; the last two unless a stop found the      *)
(* worker between two sounds.                                              *)
(*                                                                         *)
(* The strengthening says what the program text does not: where the worker *)
(* is when it holds a node and when its status is set, that a stop has     *)
(* emptied the queue, and that a talk is never entered with a sound asked  *)
(* for.                                                                    *)
(***************************************************************************)
EXTENDS AudioPlay, TLAPS

WorkerHolds == pc = "look" => hand = None
WorkerStatus == status <=> pc \in {"playing", "over", "reported"}
StopEmpties == ui = "stopping" => queue = <<>>
TalkAsksNothing == talking => call = "talk" /\ ui # "asked"
Asked == ui = "asked" => request \in Sounds
IInv == /\ TypeOK /\ NodesKept /\ WorkerHolds /\ WorkerStatus
        /\ StopEmpties /\ TalkAsksNothing /\ TalkIsSilent /\ Asked

LEMMA HeldValues == Held \in {0, 1} /\ (hand = None => Held = 0) /\ (hand # None => Held = 1)
BY DEF Held

-----------------------------------------------------------------------------
(* Queues.                                                                 *)

LEMMA PushedType ==
  ASSUME NEW e \in Events, events \in Seq(Events), Len(events) <= EventMax
  PROVE  Pushed(e) \in Seq(Events) /\ Len(Pushed(e)) <= EventMax
<1>1. EventMax \in Nat
  BY EventAssumption
<1>2. CASE Len(events) < EventMax
  <2>1. Append(events, e) \in Seq(Events) /\ Len(Append(events, e)) = Len(events) + 1
    OBVIOUS
  <2>2. Len(events) + 1 <= EventMax
    BY <1>1, <1>2
  <2> QED
    BY <1>2, <2>1, <2>2 DEF Pushed
<1>3. CASE ~(Len(events) < EventMax)
  BY <1>3 DEF Pushed
<1> QED
  BY <1>2, <1>3

LEMMA TailType ==
  ASSUME NEW s \in Seq(Events), s # <<>>, Len(s) <= EventMax
  PROVE  Tail(s) \in Seq(Events) /\ Len(Tail(s)) <= EventMax
<1>1. EventMax \in Nat
  BY EventAssumption
<1>2. Tail(s) \in Seq(Events) /\ Len(Tail(s)) = Len(s) - 1
  OBVIOUS
<1> QED
  BY <1>1, <1>2

\* The nodes that are in use are at most all of them.
LEMMA FreeType ==
  ASSUME NEW f \in Nat, NEW n \in Nat, NEW h \in {0, 1}, f + n + h = NodeMax
  PROVE  f \in 0 .. NodeMax
BY NodeAssumption

-----------------------------------------------------------------------------
(* The worker.                                                             *)

LEMMA WorkerStep ==
  ASSUME IInv, Worker
  PROVE  IInv'
<1>0. /\ free \in Nat /\ queue \in Seq(Sounds) /\ Len(queue) \in Nat
      /\ NodeMax \in Nat /\ free + Len(queue) + Held = NodeMax
  BY NodeAssumption DEF IInv, TypeOK, NodesKept
<1>1. CASE GiveBack
  <2>1. /\ pc' = "look" /\ hand' = None /\ free' = free + Held
        /\ UNCHANGED <<queue, stop, status, ui, request, talking, call, mute, events, raced,
                       gone, doubled>>
        /\ pc = "loop"
    BY <1>1 DEF GiveBack, screen, history, Held
  <2>2. Held' = 0
    BY <2>1 DEF Held
  <2>3. free' \in 0 .. NodeMax /\ free' + Len(queue) + 0 = NodeMax
    BY <1>0, <2>1, HeldValues
  <2>4. TypeOK'
    BY <2>1, <2>3 DEF IInv, TypeOK, Steps
  <2>5. NodesKept'
    BY <2>1, <2>2, <2>3 DEF NodesKept
  <2> QED
    BY <2>1, <2>4, <2>5 DEF IInv, WorkerHolds, WorkerStatus, StopEmpties,
       TalkAsksNothing, TalkIsSilent, SilentInTalk, Sounding, Asked
<1>2. CASE Take
  <2>1. CASE queue = <<>>
    <3>1. pc = "look" /\ pc' = "loop"
          /\ UNCHANGED <<free, queue, hand, stop, status, ui, request, talking, call, mute,
                         events, raced, gone, doubled>>
      BY <1>2, <2>1 DEF Take, screen
    <3>2. TypeOK' /\ NodesKept'
      BY <3>1 DEF IInv, TypeOK, NodesKept, Held, Steps
    <3> QED
      BY <3>1, <3>2 DEF IInv, WorkerHolds, WorkerStatus, StopEmpties, TalkAsksNothing,
         TalkIsSilent, SilentInTalk, Sounding, Asked
  <2>2. CASE queue # <<>>
    <3>1. /\ pc = "look" /\ pc' = "taken" /\ hand' = queue[Len(queue)] /\ queue' = <<>>
          /\ free' = free + Len(queue) - 1 /\ gone' \in BOOLEAN
          /\ UNCHANGED <<stop, status, ui, request, talking, call, mute, events, raced, doubled>>
      BY <1>2, <2>2 DEF Take, screen, IInv, TypeOK
    <3>2. hand = None /\ Held = 0 /\ Len(queue) \in Nat \ {0} /\ hand' \in Sounds
      BY <1>0, <2>2, <3>1 DEF IInv, WorkerHolds, Held
    <3>3. Held' = 1
      BY <3>2 DEF Held, Sounds, None
    <3>4. free' \in 0 .. NodeMax /\ free' + 0 + 1 = NodeMax
      BY <1>0, <3>1, <3>2
    <3>5. queue' \in Seq(Sounds) /\ Len(queue') = 0
      BY <3>1
    <3>6. TypeOK'
      BY <3>1, <3>2, <3>4, <3>5 DEF IInv, TypeOK, Steps
    <3>7. NodesKept'
      BY <3>3, <3>4, <3>5 DEF NodesKept
    <3> QED
      BY <2>2, <3>1, <3>6, <3>7 DEF IInv, WorkerHolds, WorkerStatus, StopEmpties,
         TalkAsksNothing, TalkIsSilent, SilentInTalk, Sounding, Asked
  <2> QED
    BY <2>1, <2>2
<1>3. CASE ClearStop \/ Begin \/ PlayedOut \/ ClearStatus
  <2>1. UNCHANGED <<free, queue, hand, ui, request, talking, call, mute, events, raced, gone, doubled>>
    BY <1>3 DEF ClearStop, Begin, PlayedOut, ClearStatus, screen, history
  <2>2. TypeOK' /\ NodesKept'
    <3>1. pc' \in Steps
      BY <1>3 DEF ClearStop, Begin, PlayedOut, ClearStatus, Steps
    <3>2. stop' \in BOOLEAN /\ status' \in BOOLEAN
      BY <1>3 DEF ClearStop, Begin, PlayedOut, ClearStatus, IInv, TypeOK
    <3> QED
      BY <2>1, <3>1, <3>2 DEF IInv, TypeOK, NodesKept, Held
  <2>3. WorkerHolds' /\ WorkerStatus'
    BY <1>3, <2>1 DEF ClearStop, Begin, PlayedOut, ClearStatus, IInv, WorkerHolds,
       WorkerStatus
  <2>4. TalkIsSilent'
    BY <1>3, <2>1 DEF ClearStop, Begin, PlayedOut, ClearStatus, IInv, TalkIsSilent, SilentInTalk, Sounding
  <2> QED
    BY <2>1, <2>2, <2>3, <2>4 DEF IInv, StopEmpties, TalkAsksNothing, Asked
<1>4. CASE Report
  <2>1. pc = "over" /\ pc' = "reported" /\ gone' \in BOOLEAN
        /\ UNCHANGED <<free, queue, hand, stop, status, ui, request, talking, call, mute, raced,
                       doubled>>
    BY <1>4 DEF Report, screen, IInv, TypeOK
  <2>2. events' = events \/ events' = Pushed("end")
    BY <1>4 DEF Report
  <2>3. events' \in Seq(Events) /\ Len(events') <= EventMax
    BY <2>2, PushedType DEF Events, IInv, TypeOK
  <2>4. TypeOK' /\ NodesKept'
    BY <2>1, <2>3 DEF IInv, TypeOK, NodesKept, Held, Steps
  <2> QED
    BY <2>1, <2>4 DEF IInv, WorkerHolds, WorkerStatus, StopEmpties, TalkAsksNothing,
       TalkIsSilent, SilentInTalk, Sounding, Asked
<1> QED
  BY <1>1, <1>2, <1>3, <1>4 DEF Worker

-----------------------------------------------------------------------------
(* The LVGL thread.                                                        *)

\* A sound is asked for where nobody talks.
LEMMA AskStep ==
  ASSUME IInv, NEW sound \in Sounds, AskPlay(sound), ~talking', talking' \in BOOLEAN,
         call' \in {"none", "ring", "talk"}, doubled' \in BOOLEAN,
         events' \in Seq(Events), Len(events') <= EventMax,
         UNCHANGED <<free, queue, hand, pc, status, mute, raced, gone>>
  PROVE  IInv'
<1>1. ui' = "asked" /\ request' = sound /\ stop' = TRUE
  BY DEF AskPlay
<1>2. TypeOK' /\ NodesKept'
  BY <1>1 DEF IInv, TypeOK, NodesKept, Held
<1> QED
  BY <1>1, <1>2 DEF IInv, WorkerHolds, WorkerStatus, StopEmpties, TalkAsksNothing,
     TalkIsSilent, SilentInTalk, Sounding, Asked

\* The screen goes on without a sound: no more is said of a talk than before.
LEMMA QuietStep ==
  ASSUME IInv, talking' = talking, call' = call \/ ~talking,
         call' \in {"none", "ring", "talk"}, doubled' \in BOOLEAN,
         events' \in Seq(Events), Len(events') <= EventMax, stop' \in BOOLEAN,
         UNCHANGED <<free, queue, hand, pc, status, ui, request, mute, raced, gone>>
  PROVE  IInv'
<1>1. TypeOK' /\ NodesKept'
  BY DEF IInv, TypeOK, NodesKept, Held
<1> QED
  BY <1>1 DEF IInv, WorkerHolds, WorkerStatus, StopEmpties, TalkAsksNothing,
     TalkIsSilent, SilentInTalk, Sounding, Asked

\* A ring is asked for where nobody talks, or the system is mute.
LEMMA RingStep ==
  ASSUME IInv, RingPlay, ~talking, talking' = talking,
         call' \in {"none", "ring", "talk"}, doubled' \in BOOLEAN,
         events' \in Seq(Events), Len(events') <= EventMax,
         UNCHANGED <<free, queue, hand, pc, status, mute, raced, gone>>
  PROVE  IInv'
<1>1. CASE mute
  <2>1. UNCHANGED <<ui, request, stop>>
    BY <1>1 DEF RingPlay
  <2> QED
    BY <2>1, QuietStep DEF IInv, TypeOK
<1>2. CASE ~mute
  <2>1. AskPlay("ring") /\ "ring" \in Sounds
    BY <1>2 DEF RingPlay, Sounds
  <2> QED
    BY <2>1, AskStep DEF IInv, TypeOK
<1> QED
  BY <1>1, <1>2

\* A stop begins: the nodes of the queue are free again.
LEMMA DrainStep ==
  ASSUME IInv, Drain, ~talking', talking' \in BOOLEAN,
         call' \in {"none", "ring", "talk"},
         events' \in Seq(Events), Len(events') <= EventMax,
         UNCHANGED <<hand, pc, stop, status, request, mute, raced, gone, doubled>>
  PROVE  IInv'
<1>1. /\ free \in Nat /\ Len(queue) \in Nat /\ NodeMax \in Nat
      /\ free + Len(queue) + Held = NodeMax
  BY NodeAssumption DEF IInv, TypeOK, NodesKept
<1>2. queue' = <<>> /\ free' = free + Len(queue) /\ ui' = "stopping"
  BY DEF Drain
<1>3. free' \in 0 .. NodeMax /\ free' + 0 + Held = NodeMax
  BY <1>1, <1>2, HeldValues
<1>4. queue' \in Seq(Sounds) /\ Len(queue') = 0
  BY <1>2
<1>5. TypeOK'
  BY <1>2, <1>3, <1>4 DEF IInv, TypeOK
<1>6. NodesKept'
  BY <1>3, <1>4 DEF NodesKept, Held
<1> QED
  BY <1>2, <1>5, <1>6 DEF IInv, WorkerHolds, WorkerStatus, StopEmpties, TalkAsksNothing,
     TalkIsSilent, SilentInTalk, Asked

LEMMA TouchStep ==
  ASSUME IInv, Touch \/ Slide
  PROVE  IInv'
<1>1. CASE Touch
  <2>1. AskPlay("touch") /\ "touch" \in Sounds /\ ~talking'
        /\ UNCHANGED <<free, queue, hand, pc, status, talking, call, mute, events, raced, gone, doubled>>
    BY <1>1 DEF Touch, worker, history, Sounds
  <2> QED
    BY <2>1, AskStep DEF IInv, TypeOK
<1>2. CASE Slide
  <2>1. RingPlay /\ doubled' = (doubled \/ ~mute)
        /\ UNCHANGED <<free, queue, hand, pc, status, talking, call, mute, events, raced, gone>>
    BY <1>2 DEF Slide, worker
  <2>2. ~talking
    BY <1>2 DEF Slide, IInv, TalkAsksNothing
  <2> QED
    BY <2>1, <2>2, RingStep DEF IInv, TypeOK
<1> QED
  BY <1>1, <1>2

LEMMA AnswerStep ==
  ASSUME IInv, Answer \/ HangUp
  PROVE  IInv'
<1>1. CASE Answer
  <2>1. Drain /\ call' = "talk"
        /\ UNCHANGED <<hand, pc, stop, status, request, talking, mute, events, raced, gone, doubled>>
    BY <1>1 DEF Answer, worker, history
  <2>2. ~talking'
    BY <1>1, <2>1 DEF Answer, IInv, TalkAsksNothing
  <2> QED
    BY <2>1, <2>2, DrainStep DEF IInv, TypeOK
<1>2. CASE HangUp
  <2>1. Drain /\ call' = "none" /\ talking' = FALSE
        /\ UNCHANGED <<hand, pc, stop, status, request, mute, events, raced, gone, doubled>>
    BY <1>2 DEF HangUp, Leave, worker, history
  <2> QED
    BY <2>1, DrainStep DEF IInv, TypeOK
<1> QED
  BY <1>1, <1>2

LEMMA HandleStep ==
  ASSUME IInv, Handle
  PROVE  IInv'
<1>1. events # <<>> /\ events' = Tail(events) /\ ui = "idle"
  BY DEF Handle, HandleEnd, HandleCall, HandleHangUp
<1>2. events' \in Seq(Events) /\ Len(events') <= EventMax
  BY <1>1, TailType DEF IInv, TypeOK
<1>4. CASE HandleEnd
  <2>1. UNCHANGED <<free, queue, hand, pc, status, talking, call, mute, raced, gone, doubled>>
    BY <1>4 DEF HandleEnd, worker, history
  <2>2. CASE call = "ring"
    <3>1. RingPlay /\ ~talking
      BY <1>4, <2>2 DEF HandleEnd, IInv, TalkAsksNothing
    <3> QED
      BY <1>2, <2>1, <3>1, RingStep DEF IInv, TypeOK
  <2>3. CASE call # "ring"
    <3>1. UNCHANGED <<ui, request, stop>>
      BY <1>4, <2>3 DEF HandleEnd
    <3> QED
      BY <1>2, <2>1, <3>1, QuietStep DEF IInv, TypeOK
  <2> QED
    BY <2>2, <2>3
<1>5. CASE HandleCall
  <2>1. UNCHANGED <<free, queue, hand, pc, status, talking, mute, raced, gone>>
    BY <1>5 DEF HandleCall, worker
  <2>2. CASE call = "none"
    <3>1. RingPlay /\ call' = "ring" /\ doubled' \in BOOLEAN /\ ~talking
      BY <1>5, <2>2 DEF HandleCall, IInv, TypeOK, TalkAsksNothing
    <3> QED
      BY <1>2, <2>1, <3>1, RingStep DEF IInv, TypeOK
  <2>3. CASE call # "none"
    <3>1. UNCHANGED <<call, ui, request, stop, doubled>>
      BY <1>5, <2>3 DEF HandleCall
    <3> QED
      BY <1>2, <2>1, <3>1, QuietStep DEF IInv, TypeOK
  <2> QED
    BY <2>2, <2>3
<1>6. CASE HandleHangUp
  <2>1. UNCHANGED <<hand, pc, stop, status, request, mute, raced, gone, doubled>>
    BY <1>6 DEF HandleHangUp, worker, history
  <2>2. CASE call # "none"
    <3>1. Drain /\ call' = "none" /\ talking' = FALSE
      BY <1>6, <2>2 DEF HandleHangUp, Leave
    <3> QED
      BY <1>2, <2>1, <3>1, DrainStep
  <2>3. CASE call = "none"
    <3>1. UNCHANGED <<call, talking, queue, free, ui>>
      BY <1>6, <2>3 DEF HandleHangUp
    <3> QED
      BY <1>2, <2>1, <3>1, QuietStep DEF IInv, TypeOK
  <2> QED
    BY <2>2, <2>3
<1> QED
  BY <1>4, <1>5, <1>6 DEF Handle

LEMMA ContinueStep ==
  ASSUME IInv, Continue
  PROVE  IInv'
<1>1. /\ free \in Nat /\ queue \in Seq(Sounds) /\ Len(queue) \in Nat /\ NodeMax \in Nat
      /\ free + Len(queue) + Held = NodeMax
  BY NodeAssumption DEF IInv, TypeOK, NodesKept
<1>2. CASE Insert
  <2>1. ui = "asked" /\ ui' = "idle" /\ request' = None /\ request \in Sounds
        /\ gone' \in BOOLEAN /\ ~talking
        /\ UNCHANGED <<stop, status, hand, pc, talking, call, mute, events, raced, doubled>>
    BY <1>2 DEF Insert, worker, IInv, TypeOK, Asked, TalkAsksNothing
  <2>2. CASE free = 0
    <3>1. UNCHANGED <<free, queue>>
      BY <1>2, <2>2 DEF Insert
    <3>2. TypeOK' /\ NodesKept'
      BY <2>1, <3>1 DEF IInv, TypeOK, NodesKept, Held
    <3> QED
      BY <2>1, <3>1, <3>2 DEF IInv, WorkerHolds, WorkerStatus, StopEmpties,
         TalkAsksNothing, TalkIsSilent, SilentInTalk, Asked
  <2>3. CASE free # 0
    <3>1. free' = free - 1 /\ queue' = Append(queue, request)
      BY <1>2, <2>3 DEF Insert
    <3>2. queue' \in Seq(Sounds) /\ Len(queue') = Len(queue) + 1
      BY <1>1, <2>1, <3>1
    <3>3. free' \in 0 .. NodeMax /\ free' + Len(queue') + Held = NodeMax
      BY <1>1, <2>3, <3>1, <3>2, HeldValues
    <3>4. TypeOK'
      BY <2>1, <3>2, <3>3 DEF IInv, TypeOK
    <3>5. NodesKept'
      BY <2>1, <3>3 DEF NodesKept, Held
    <3> QED
      BY <2>1, <3>4, <3>5 DEF IInv, WorkerHolds, WorkerStatus, StopEmpties,
         TalkAsksNothing, TalkIsSilent, SilentInTalk, Asked
  <2> QED
    BY <2>2, <2>3
<1>3. CASE StopAgain
  BY <1>3, QuietStep DEF StopAgain, worker, screen, history, IInv, TypeOK
<1>4. CASE StopDone
  <2>1. /\ ui = "stopping" /\ ~status /\ ui' = "idle" /\ talking' = (call = "talk")
        /\ raced' = (raced \/ pc \in {"taken", "cleared"})
        /\ UNCHANGED <<free, queue, stop, status, hand, pc, request, call, mute, events, gone, doubled>>
    BY <1>4 DEF StopDone, worker
  <2>2. TypeOK' /\ NodesKept'
    BY <2>1 DEF IInv, TypeOK, NodesKept, Held
  <2>3. TalkIsSilent'
    BY <2>1 DEF IInv, StopEmpties, WorkerStatus, TalkIsSilent, SilentInTalk, Sounding
  <2> QED
    BY <2>1, <2>2, <2>3 DEF IInv, WorkerHolds, WorkerStatus, StopEmpties,
       TalkAsksNothing, Asked
<1> QED
  BY <1>2, <1>3, <1>4 DEF Continue

LEMMA NetworkStep ==
  ASSUME IInv, NEW e \in Events, NetworkEvent(e)
  PROVE  IInv'
<1>1. Len(events) < EventMax /\ events' = Append(events, e)
      /\ UNCHANGED <<free, queue, stop, status, hand, pc, ui, request, talking, call, mute, raced,
                     gone, doubled>>
  BY DEF NetworkEvent, worker, screen, history
<1>2. events' = Pushed(e)
  BY <1>1 DEF Pushed
<1>3. events' \in Seq(Events) /\ Len(events') <= EventMax
  BY <1>2, PushedType DEF IInv, TypeOK
<1> QED
  BY <1>1, <1>3, QuietStep DEF IInv, TypeOK

-----------------------------------------------------------------------------
LEMMA InitInvariant == Init => IInv
<1> SUFFICES ASSUME Init
             PROVE  IInv
  OBVIOUS
<1>1. TypeOK
  <2>1. free \in 0 .. NodeMax /\ EventMax >= 0
    BY NodeAssumption, EventAssumption DEF Init
  <2>2. queue \in Seq(Sounds) /\ events \in Seq(Events) /\ Len(events) = 0
    BY DEF Init
  <2>3. Len(events) <= EventMax
    BY <2>2, EventAssumption
  <2> QED
    BY <2>1, <2>2, <2>3 DEF Init, TypeOK, Steps
<1>2. NodesKept
  BY NodeAssumption DEF Init, NodesKept, Held
<1> QED
  BY <1>1, <1>2 DEF Init, IInv, WorkerHolds, WorkerStatus, StopEmpties, TalkAsksNothing,
     TalkIsSilent, SilentInTalk, Asked

LEMMA Inductive == IInv /\ [Next]_vars => IInv'
<1> SUFFICES ASSUME IInv, [Next]_vars
             PROVE  IInv'
  OBVIOUS
<1>1. CASE UNCHANGED vars
  BY <1>1 DEF vars, worker, screen, history, IInv, TypeOK, NodesKept, Held, WorkerHolds,
     WorkerStatus, StopEmpties, TalkAsksNothing, TalkIsSilent, SilentInTalk, Sounding, Asked
<1>2. CASE Next
  BY <1>2, NetworkStep, TouchStep, AnswerStep, ContinueStep, HandleStep, WorkerStep DEF Next
<1> QED
  BY <1>1, <1>2

\* The invariant holds of every behaviour of player, screen and event queue.
THEOREM Invariant == Spec => []IInv
<1> QED
  BY InitInvariant, Inductive, PTL DEF Spec

\* Every variable keeps its type: the event queue stays in its pool and the free
\* count within 0 .. NodeMax, for any sizes.
THEOREM TypeCorrect == Spec => []TypeOK
<1>1. IInv => TypeOK
  BY DEF IInv
<1> QED
  BY <1>1, Invariant, PTL

\* No node of the player is lost or given back twice, whatever the order of
\* sounds, stops and superseded sounds.
THEOREM PoolKept == Spec => []NodesKept
<1>1. IInv => NodesKept
  BY DEF IInv
<1> QED
  BY <1>1, Invariant, PTL

\* While somebody talks nothing plays, unless a stop was decided between the
\* dequeue of a sound and its status (audio_play.c 349-355).
THEOREM SilentTalk == Spec => []TalkIsSilent
<1>1. IInv => TalkIsSilent
  BY DEF IInv
<1> QED
  BY <1>1, Invariant, PTL
-----------------------------------------------------------------------------
(* One ring at a time.  The strengthening says what is left of a ring when  *)
(* nothing rings any more: at most reports of its end in the event queue,   *)
(* and until the stop has returned the worker that still plays it.          *)

Lacks(s, x) == \A i \in DOMAIN s : s[i] # x
Once(s, x) == \A i, j \in DOMAIN s : s[i] = x /\ s[j] = x => i = j
RingAsked == ui = "asked" /\ request = "ring"
RingPlays == hand = "ring" /\ pc \notin {"loop", "look", "reported"}

\* The places a ring may be, two by two.
Single ==
  /\ Once(queue, "ring") /\ Once(events, "end")
  /\ Lacks(queue, "ring") \/ (Lacks(events, "end") /\ ~RingAsked /\ ~RingPlays)
  /\ Lacks(events, "end") \/ (~RingAsked /\ ~RingPlays)
  /\ ~RingAsked \/ ~RingPlays
Stale ==
  /\ Lacks(queue, "ring") /\ ~RingAsked
  /\ ui # "stopping" => ~RingPlays
RingInv == ~doubled /\ ~raced => IF call = "ring" THEN Single ELSE Stale

LEMMA SinglePlace == Single => \A p, q \in RingPlaces : p = q
<1> SUFFICES ASSUME Single, NEW p \in RingPlaces, NEW q \in RingPlaces
             PROVE  p = q
  OBVIOUS
<1>1. ASSUME NEW r \in RingPlaces
      PROVE  \/ \E i \in DOMAIN queue : queue[i] = "ring" /\ r = <<"queue", i>>
             \/ \E i \in DOMAIN events : events[i] = "end" /\ r = <<"event", i>>
             \/ RingAsked /\ r = <<"asked", 0>>
             \/ RingPlays /\ r = <<"worker", 0>>
  BY DEF RingPlaces, RingAsked, RingPlays
<1>2. CASE \E i \in DOMAIN queue : queue[i] = "ring" /\ p = <<"queue", i>>
  BY <1>1, <1>2 DEF Single, Lacks, Once
<1>3. CASE \E i \in DOMAIN events : events[i] = "end" /\ p = <<"event", i>>
  BY <1>1, <1>3 DEF Single, Lacks, Once
<1>4. CASE RingAsked /\ p = <<"asked", 0>>
  BY <1>1, <1>4 DEF Single, Lacks
<1>5. CASE RingPlays /\ p = <<"worker", 0>>
  BY <1>1, <1>5 DEF Single, Lacks
<1> QED
  BY <1>1, <1>2, <1>3, <1>4, <1>5

LEMMA EmptyLacks == ASSUME NEW x PROVE Lacks(<<>>, x) /\ Once(<<>>, x)
BY DEF Lacks, Once

LEMMA LacksOnce == ASSUME NEW s, NEW x, Lacks(s, x) PROVE Once(s, x)
BY DEF Lacks, Once

LEMMA AppendCount ==
  ASSUME NEW T, NEW s \in Seq(T), NEW e \in T, NEW x
  PROVE  /\ Lacks(s, x) => Once(Append(s, e), x)
         /\ Lacks(s, x) /\ e # x => Lacks(Append(s, e), x)
         /\ Once(s, x) /\ e # x => Once(Append(s, e), x)
<1>1. /\ Len(s) \in Nat /\ DOMAIN s = 1 .. Len(s)
      /\ DOMAIN Append(s, e) = 1 .. Len(s) + 1
      /\ \A i \in 1 .. Len(s) : Append(s, e)[i] = s[i]
      /\ Append(s, e)[Len(s) + 1] = e
  OBVIOUS
<1>2. \A i \in DOMAIN Append(s, e) : i \in DOMAIN s \/ i = Len(s) + 1
  BY <1>1
<1> QED
  BY <1>1, <1>2 DEF Lacks, Once

LEMMA TailCount ==
  ASSUME NEW T, NEW s \in Seq(T), s # <<>>, NEW x
  PROVE  /\ Lacks(s, x) => Lacks(Tail(s), x)
         /\ Once(s, x) => Once(Tail(s), x)
         /\ Once(s, x) /\ Head(s) = x => Lacks(Tail(s), x)
<1>1. /\ Len(s) \in Nat \ {0} /\ DOMAIN s = 1 .. Len(s) /\ Head(s) = s[1]
      /\ DOMAIN Tail(s) = 1 .. Len(s) - 1
      /\ \A i \in 1 .. Len(s) - 1 : Tail(s)[i] = s[i + 1]
  OBVIOUS
<1>2. \A i \in DOMAIN Tail(s) : i \in Nat \ {0} /\ i + 1 \in DOMAIN s /\ i + 1 # 1
                                /\ Tail(s)[i] = s[i + 1]
  BY <1>1
<1>3. 1 \in DOMAIN s
  BY <1>1
<1>4. Lacks(s, x) => Lacks(Tail(s), x)
  BY <1>2 DEF Lacks
<1>5. Once(s, x) => Once(Tail(s), x)
  BY <1>2 DEF Once
<1>6. Once(s, x) /\ Head(s) = x => Lacks(Tail(s), x)
  BY <1>1, <1>2, <1>3 DEF Lacks, Once
<1> QED
  BY <1>4, <1>5, <1>6

\* An event that is pushed, or dropped.
LEMMA PushedCount ==
  ASSUME events \in Seq(Events), NEW e \in Events
  PROVE  /\ Lacks(events, "end") => Once(Pushed(e), "end")
         /\ Lacks(events, "end") /\ e # "end" => Lacks(Pushed(e), "end")
         /\ Once(events, "end") /\ e # "end" => Once(Pushed(e), "end")
<1>1. Pushed(e) = events \/ Pushed(e) = Append(events, e)
  BY DEF Pushed
<1>2. /\ Lacks(events, "end") => Once(Append(events, e), "end")
      /\ Lacks(events, "end") /\ e # "end" => Lacks(Append(events, e), "end")
      /\ Once(events, "end") /\ e # "end" => Once(Append(events, e), "end")
  BY AppendCount
<1>3. Lacks(events, "end") => Once(events, "end")
  BY LacksOnce
<1> QED
  BY <1>1, <1>2, <1>3

LEMMA RingWorkerStep ==
  ASSUME IInv, RingInv, Worker
  PROVE  RingInv'
<1> SUFFICES ASSUME ~doubled, ~raced
             PROVE  RingInv'
  BY DEF Worker, GiveBack, Take, ClearStop, Begin, PlayedOut, Report, ClearStatus,
     history, RingInv
<1>0. UNCHANGED <<ui, request, call>>
  BY DEF Worker, GiveBack, Take, ClearStop, Begin, PlayedOut, Report, ClearStatus, screen
<1>1. CASE GiveBack
  <2>1. ~RingPlays' /\ UNCHANGED <<queue, events>>
    BY <1>1 DEF GiveBack, RingPlays
  <2> QED
    BY <1>0, <2>1 DEF RingInv, Single, Stale, RingAsked, Lacks, Once
<1>2. CASE Take
  <2>1. CASE queue = <<>>
    <3>1. ~RingPlays' /\ UNCHANGED <<queue, events>>
      BY <1>2, <2>1 DEF Take, RingPlays
    <3> QED
      BY <1>0, <3>1 DEF RingInv, Single, Stale, RingAsked, Lacks, Once
  <2>2. CASE queue # <<>>
    <3>1. /\ queue' = <<>> /\ events' = events /\ hand' = queue[Len(queue)]
          /\ pc = "look" /\ pc' = "taken"
      BY <1>2, <2>2 DEF Take
    <3>2. Lacks(queue', "ring") /\ Once(queue', "ring")
      BY <3>1, EmptyLacks
    <3>3. Len(queue) \in DOMAIN queue
      BY <2>2 DEF IInv, TypeOK
    <3>4. RingPlays' => ~Lacks(queue, "ring")
      BY <3>1, <3>3 DEF RingPlays, Lacks
    <3> QED
      BY <1>0, <3>1, <3>2, <3>4 DEF RingInv, Single, Stale, RingAsked, Lacks, Once
  <2> QED
    BY <2>1, <2>2
<1>3. CASE ClearStop \/ Begin \/ PlayedOut \/ ClearStatus
  <2>1. (RingPlays' => RingPlays) /\ UNCHANGED <<queue, events>>
    BY <1>3 DEF ClearStop, Begin, PlayedOut, ClearStatus, RingPlays
  <2> QED
    BY <1>0, <2>1 DEF RingInv, Single, Stale, RingAsked, Lacks, Once
<1>4. CASE Report
  <2>1. queue' = queue /\ ~RingPlays' /\ pc = "over"
    BY <1>4 DEF Report, RingPlays
  <2>2. CASE hand = "ring"
    <3>1. RingPlays /\ events' = Pushed("end")
      BY <1>4, <2>2 DEF Report, RingPlays
    <3>2. Lacks(events, "end") => Once(events', "end")
      BY <3>1, PushedCount DEF IInv, TypeOK, Events
    <3> QED
      BY <1>0, <2>1, <3>1, <3>2 DEF RingInv, Single, Stale, RingAsked, Lacks
  <2>3. CASE hand # "ring"
    <3>1. events' = events
      BY <1>4, <2>3 DEF Report
    <3> QED
      BY <1>0, <2>1, <3>1 DEF RingInv, Single, Stale, RingAsked, Lacks, Once
  <2> QED
    BY <2>2, <2>3
<1> QED
  BY <1>1, <1>2, <1>3, <1>4 DEF Worker

LEMMA RingScreenStep ==
  ASSUME IInv, RingInv, Touch \/ Slide \/ Answer \/ HangUp \/ Continue
  PROVE  RingInv'
<1>1. CASE Touch
  <2>1. ~RingAsked' /\ UNCHANGED <<queue, events, hand, pc, call, raced, doubled>>
        /\ ui = "idle"
    BY <1>1 DEF Touch, AskPlay, worker, history, RingAsked
  <2> QED
    BY <2>1 DEF RingInv, Single, Stale, RingPlays, Lacks, Once
<1>2. CASE Slide
  <2>1. /\ doubled' = (doubled \/ ~mute)
        /\ UNCHANGED <<queue, events, hand, pc, call, raced>>
        /\ mute => UNCHANGED <<ui, request>>
    BY <1>2 DEF Slide, RingPlay, worker
  <2>2. CASE ~mute
    BY <2>1, <2>2 DEF RingInv
  <2>3. CASE mute
    BY <2>1, <2>3 DEF IInv, TypeOK, RingInv, Single, Stale, RingAsked, RingPlays, Lacks, Once
  <2> QED
    BY <2>2, <2>3
<1>3. CASE Answer \/ HangUp
  <2>1. /\ queue' = <<>> /\ ui' = "stopping" /\ call' # "ring"
        /\ UNCHANGED <<raced, doubled>>
    BY <1>3 DEF Answer, HangUp, Leave, Drain, history
  <2>2. Lacks(queue', "ring")
    BY <2>1, EmptyLacks
  <2> QED
    BY <2>1, <2>2 DEF RingInv, Stale, RingAsked
<1>4. CASE Insert
  <2>1. /\ ui = "asked" /\ ui' = "idle" /\ request \in Sounds
        /\ UNCHANGED <<events, hand, pc, call, raced, doubled>>
        /\ queue' = queue \/ queue' = Append(queue, request)
    BY <1>4 DEF Insert, worker, IInv, Asked
  <2>2. /\ Lacks(queue, "ring") => Once(queue', "ring")
        /\ Lacks(queue, "ring") /\ ~RingAsked => Lacks(queue', "ring")
        /\ Once(queue, "ring") /\ ~RingAsked => Once(queue', "ring")
    <3>1. queue \in Seq(Sounds)
      BY DEF IInv, TypeOK
    <3>2. /\ Lacks(queue, "ring") => Once(Append(queue, request), "ring")
          /\ Lacks(queue, "ring") /\ request # "ring" => Lacks(Append(queue, request), "ring")
          /\ Once(queue, "ring") /\ request # "ring" => Once(Append(queue, request), "ring")
      BY <2>1, <3>1, AppendCount
    <3>3. Lacks(queue, "ring") => Once(queue, "ring")
      BY LacksOnce
    <3> QED
      BY <2>1, <3>2, <3>3 DEF RingAsked
  <2>3. ~RingAsked' /\ (RingPlays' <=> RingPlays)
    BY <2>1 DEF RingAsked, RingPlays
  <2>4. /\ Lacks(events', "end") <=> Lacks(events, "end")
        /\ Once(events', "end") <=> Once(events, "end")
    BY <2>1
  <2>5. CASE RingAsked
    BY <2>1, <2>2, <2>3, <2>4, <2>5 DEF RingInv, Single, Stale
  <2>6. CASE ~RingAsked
    BY <2>1, <2>2, <2>3, <2>4, <2>6 DEF RingInv, Single, Stale
  <2> QED
    BY <2>5, <2>6
<1>5. CASE StopAgain
  BY <1>5 DEF StopAgain, worker, screen, history, RingInv, Single, Stale, RingAsked,
     RingPlays, Lacks, Once
<1>6. CASE StopDone
  <2>1. /\ ui' = "idle" /\ ~status /\ raced' = (raced \/ pc \in {"taken", "cleared"})
        /\ UNCHANGED <<queue, events, hand, pc, call, doubled>>
    BY <1>6 DEF StopDone, worker
  <2>2. ~raced' => ~RingPlays' /\ ~raced
    BY <2>1 DEF IInv, TypeOK, Steps, WorkerStatus, RingPlays
  <2> QED
    BY <2>1, <2>2 DEF RingInv, Single, Stale, RingAsked, Lacks, Once
<1> QED
  BY <1>1, <1>2, <1>3, <1>4, <1>5, <1>6 DEF Continue

LEMMA RingEventStep ==
  ASSUME IInv, RingInv, Handle \/ \E e \in Events : NetworkEvent(e)
  PROVE  RingInv'
<1>1. ASSUME NEW e \in Events, NetworkEvent(e)
      PROVE  RingInv'
  <2>1. /\ events' = Append(events, e) /\ e # "end"
        /\ UNCHANGED <<queue, ui, request, hand, pc, call, raced, doubled>>
    BY <1>1 DEF NetworkEvent, worker, screen, history
  <2>2. /\ Lacks(events, "end") => Lacks(events', "end")
        /\ Once(events, "end") => Once(events', "end")
    BY <2>1, AppendCount DEF IInv, TypeOK
  <2> QED
    BY <2>1, <2>2 DEF RingInv, Single, Stale, RingAsked, RingPlays, Lacks, Once
<1>2. ASSUME Handle
      PROVE  /\ ui = "idle" /\ ~RingAsked /\ UNCHANGED <<hand, pc, raced>>
             /\ (RingPlays' <=> RingPlays)
             /\ Lacks(events, "end") => Lacks(events', "end")
             /\ Once(events, "end") => Once(events', "end")
             /\ Once(events, "end") /\ Head(events) = "end" => Lacks(events', "end")
  <2>1. /\ ui = "idle" /\ events # <<>> /\ events' = Tail(events)
        /\ UNCHANGED <<hand, pc, raced>>
    BY <1>2 DEF Handle, HandleEnd, HandleCall, HandleHangUp, worker, history
  <2> QED
    BY <2>1, TailCount DEF IInv, TypeOK, RingAsked, RingPlays
<1>3. CASE HandleEnd
  <2>1. /\ Head(events) = "end" /\ events # <<>> /\ UNCHANGED <<queue, call, doubled>>
        /\ (call = "ring" => ui' = "asked" \/ UNCHANGED <<ui, request>>)
        /\ (call # "ring" => UNCHANGED <<ui, request>>)
    BY <1>3 DEF HandleEnd, RingPlay, AskPlay, history
  <2>2. ~Lacks(events, "end")
    BY <2>1 DEF IInv, TypeOK, Lacks
  <2>3. Lacks(events', "end") => Once(events', "end")
    BY LacksOnce
  <2>4. /\ Lacks(queue', "ring") <=> Lacks(queue, "ring")
        /\ Once(queue', "ring") <=> Once(queue, "ring")
    BY <2>1
  <2>5. Handle
    BY <1>3 DEF Handle
  <2>6. CASE call = "ring"
    BY <1>2, <2>1, <2>2, <2>3, <2>4, <2>5, <2>6 DEF RingInv, Single
  <2>7. CASE call # "ring"
    BY <1>2, <2>1, <2>4, <2>5, <2>7 DEF RingInv, Stale, RingAsked
  <2> QED
    BY <2>6, <2>7
<1>4. CASE HandleCall
  <2>1. /\ queue' = queue
        /\ call = "none" => call' = "ring"
             /\ (ui' = "asked" \/ UNCHANGED <<ui, request>>)
             /\ doubled' = (doubled \/ "end" \in {events[i] : i \in DOMAIN events})
        /\ call # "none" => UNCHANGED <<call, ui, request, doubled>>
    BY <1>4 DEF HandleCall, RingPlay, AskPlay
  <2>2. "end" \notin {events[i] : i \in DOMAIN events} => Lacks(events, "end")
    BY DEF Lacks
  <2>3. /\ Lacks(events', "end") => Once(events', "end")
        /\ Lacks(queue, "ring") => Once(queue, "ring")
    BY LacksOnce
  <2>4. /\ Lacks(queue', "ring") <=> Lacks(queue, "ring")
        /\ Once(queue', "ring") <=> Once(queue, "ring")
    BY <2>1
  <2>5. Handle
    BY <1>4 DEF Handle
  <2>6. CASE call = "none"
    BY <1>2, <2>1, <2>2, <2>3, <2>4, <2>5, <2>6 DEF RingInv, Single, Stale
  <2>7. CASE call # "none"
    BY <1>2, <2>1, <2>4, <2>5, <2>7 DEF RingInv, Single, Stale, RingAsked
  <2> QED
    BY <2>6, <2>7
<1>5. CASE HandleHangUp
  <2>1. doubled' = doubled
    BY <1>5 DEF HandleHangUp, history
  <2>2. Handle
    BY <1>5 DEF Handle
  <2>3. CASE call # "none"
    <3>1. queue' = <<>> /\ ui' = "stopping" /\ call' = "none"
      BY <1>5, <2>3 DEF HandleHangUp, Leave, Drain
    <3>2. Lacks(queue', "ring")
      BY <3>1, EmptyLacks
    <3> QED
      BY <1>2, <2>1, <2>2, <3>1, <3>2 DEF RingInv, Stale, RingAsked
  <2>4. CASE call = "none"
    <3>1. UNCHANGED <<call, queue, ui, request>>
      BY <1>5, <2>4 DEF HandleHangUp
    <3> QED
      BY <1>2, <2>1, <2>2, <2>4, <3>1 DEF RingInv, Stale, RingAsked, Lacks
  <2> QED
    BY <2>3, <2>4
<1> QED
  BY <1>1, <1>3, <1>4, <1>5 DEF Handle

\* Without a ring that began before the end of the last one was handled, and
\* without a stop that missed the worker, a call that rings has one ring in one
\* place: asked for, queued, played or reported (audio_play.c and
\* layout_interphone.c 939-947).
THEOREM OneRingAtATime == Spec => []OneRing
<1>1. Init => RingInv
  BY EmptyLacks DEF Init, RingInv, Stale, RingAsked, RingPlays
<1>2. IInv /\ RingInv /\ [Next]_vars => RingInv'
  <2>1. IInv /\ RingInv /\ Next => RingInv'
    BY RingWorkerStep, RingScreenStep, RingEventStep DEF Next
  <2>2. RingInv /\ UNCHANGED vars => RingInv'
    BY DEF vars, worker, screen, history, RingInv, Single, Stale, RingAsked, RingPlays,
       Lacks, Once
  <2> QED
    BY <2>1, <2>2
<1>3. RingInv => OneRing
  BY SinglePlace DEF RingInv, OneRing, RingsOnce
<1> QED
  BY <1>1, <1>2, <1>3, Invariant, PTL DEF Spec
=============================================================================
