----------------------------- MODULE AudioPlay ------------------------------
(***************************************************************************)
(* The sound player (audio_play.c) between the LVGL thread, which asks for *)
(* sounds and stops them, and the worker, which plays them.  The worker    *)
(* reports the end of a ring through the event queue of the user interface *)
(* (layout_define.c), and the handler of that event rings again while the  *)
(* interphone still rings (layout_interphone.c).                           *)
(***************************************************************************)
EXTENDS Integers, Sequences

CONSTANTS NodeMax,      \* AUDIO_PLAY_QUEUE_MAX (8)
          EventMax      \* OS_EVENT_NUM_MAX (32)

ASSUME NodeAssumption == NodeMax \in Nat \ {0}
ASSUME EventAssumption == EventMax \in Nat \ {0}

VARIABLES free,       \* nodes in audio_play_queue_free
          queue,      \* sounds in audio_play_queue_head
          hand,       \* node of the worker
          pc,         \* statement of audio_play_task
          stop,       \* audio_play_stop
          status,     \* audio_play_status
          ui,         \* what the LVGL thread is doing
          request,    \* the sound audio_play is asked for
          talking,    \* talking
          call,       \* interphone_status: none, ringing (PUBLISH, OUT, IN), TALK
          mute,       \* system_mute of the user data; no code writes it
          events,     \* lv_os_event_queue_head
          raced,      \* history: a stop found the worker between two sounds
          gone,       \* history: a ring or its end was dropped
          doubled     \* history: a ring began while another, or its end, was pending
vars == <<free, queue, hand, pc, stop, status, ui, request, talking, call, mute, events,
          raced, gone, doubled>>
worker == <<hand, pc>>
screen == <<ui, request, talking, call, mute>>
history == <<raced, gone, doubled>>

Sounds == {"ring", "touch"}
None == "none"
Events == {"end", "call", "hangup"}
Steps == {"loop", "look", "taken", "cleared", "playing", "over", "reported"}

Init ==
  /\ free = NodeMax
  /\ queue = <<>>
  /\ hand = None /\ pc = "loop"
  /\ stop = FALSE /\ status = FALSE
  /\ ui = "idle" /\ request = None
  /\ talking = FALSE /\ call = "none"
  /\ mute \in BOOLEAN      \* user_data_init reads it from the flash
  /\ events = <<>>
  /\ raced = FALSE /\ gone = FALSE /\ doubled = FALSE

Rings(s) == \E i \in DOMAIN s : s[i] = "ring"

-----------------------------------------------------------------------------
(* The event queue: a pool of EventMax nodes, handled in order, one event  *)
(* at a time; an event that finds the pool empty is dropped.               *)

Pushed(e) == IF Len(events) < EventMax THEN Append(events, e) ELSE events

\* The network thread: somebody calls, or hangs up.
NetworkEvent(e) ==
  /\ e \in {"call", "hangup"}
  /\ Len(events) < EventMax
  /\ events' = Append(events, e)
  /\ UNCHANGED <<free, queue, stop, status, worker, screen, history>>

-----------------------------------------------------------------------------
(* The LVGL thread.                                                        *)

\* audio_play, first statement: the sound that plays is told to stop
AskPlay(sound) ==
  /\ ui' = "asked"
  /\ request' = sound
  /\ stop' = TRUE

\* interphone_ring_play, which does nothing if the system is mute
RingPlay == IF mute THEN UNCHANGED <<ui, request, stop>> ELSE AskPlay("ring")

\* audio_play, the rest: a node of the pool is queued, if there is one
Insert ==
  /\ ui = "asked"
  /\ ui' = "idle" /\ request' = None
  /\ IF free = 0
     THEN /\ UNCHANGED <<free, queue>>
          /\ gone' = (gone \/ request = "ring")
     ELSE /\ free' = free - 1
          /\ queue' = Append(queue, request)
          /\ UNCHANGED gone
  /\ UNCHANGED <<stop, status, worker, talking, call, mute, events, raced, doubled>>

\* audio_play_stop_set, first loop: the queue is emptied
Drain ==
  /\ queue' = <<>>
  /\ free' = free + Len(queue)
  /\ ui' = "stopping"

\* audio_play_stop_set, second loop: until the worker does not play
StopAgain ==
  /\ ui = "stopping" /\ status
  /\ stop' = TRUE
  /\ UNCHANGED <<free, queue, status, worker, screen, events, history>>

\* (variant of StopDone: the worker is not waited for)
StopAtOnce ==
  /\ ui = "stopping"
  /\ ui' = "idle"
  /\ talking' = (call = "talk")
  /\ stop' = TRUE
  /\ raced' = (raced \/ pc \in {"taken", "cleared"})
  /\ UNCHANGED <<free, queue, status, worker, request, call, mute, events, gone, doubled>>

\* ... and what its caller does then: the answer button opens the talk
StopDone ==
  /\ ui = "stopping" /\ ~status
  /\ ui' = "idle"
  /\ talking' = (call = "talk")
  /\ raced' = (raced \/ pc \in {"taken", "cleared"})
  /\ UNCHANGED <<free, queue, stop, status, worker, request, call, mute, events, gone, doubled>>

\* A touch of the screen clicks, except in a talk.
Touch ==
  /\ ui = "idle" /\ ~talking
  /\ AskPlay("touch")
  /\ UNCHANGED <<free, queue, status, worker, talking, call, mute, events, history>>

\* The volume slider of the ringing page plays the ring if nothing plays.
Slide ==
  /\ ui = "idle" /\ call = "ring" /\ ~status
  /\ RingPlay
  /\ doubled' = (doubled \/ ~mute)
  /\ UNCHANGED <<free, queue, status, worker, talking, call, mute, events, raced, gone>>

\* The answer button of the ringing page
Answer ==
  /\ ui = "idle" /\ call = "ring"
  /\ call' = "talk"
  /\ Drain
  /\ UNCHANGED <<stop, status, worker, request, talking, mute, events, history>>

\* The interphone page is left.
Leave ==
  /\ call' = "none" /\ talking' = FALSE
  /\ Drain

HangUp ==
  /\ ui = "idle" /\ call # "none"
  /\ Leave
  /\ UNCHANGED <<stop, status, worker, request, mute, events, history>>

\* interphone_ring_play_finsih_callback: the end of a ring
HandleEnd ==
  /\ ui = "idle" /\ events # <<>> /\ Head(events) = "end"
  /\ events' = Tail(events)
  /\ IF call = "ring" THEN RingPlay ELSE UNCHANGED <<ui, request, stop>>
  /\ UNCHANGED <<free, queue, status, worker, talking, call, mute, history>>

\* A call rings, if there is none already.
HandleCall ==
  /\ ui = "idle" /\ events # <<>> /\ Head(events) = "call"
  /\ events' = Tail(events)
  /\ IF call = "none"
     THEN /\ call' = "ring" /\ RingPlay
          /\ doubled' = (doubled \/ "end" \in {events[i] : i \in DOMAIN events})
     ELSE UNCHANGED <<call, ui, request, stop, doubled>>
  /\ UNCHANGED <<free, queue, status, worker, talking, mute, raced, gone>>

HandleHangUp ==
  /\ ui = "idle" /\ events # <<>> /\ Head(events) = "hangup"
  /\ events' = Tail(events)
  /\ IF call # "none" THEN Leave ELSE UNCHANGED <<call, talking, queue, free, ui>>
  /\ UNCHANGED <<stop, status, worker, request, mute, history>>

-----------------------------------------------------------------------------
(* The worker, audio_play_task.                                            *)

\* The node of the last sound goes back to the pool.
GiveBack ==
  /\ pc = "loop"
  /\ pc' = "look" /\ hand' = None
  /\ free' = free + (IF hand = None THEN 0 ELSE 1)
  /\ UNCHANGED <<queue, stop, status, screen, events, history>>

\* (variant of Take: the superseded sounds are not given back)
TakeLosing ==
  /\ pc = "look"
  /\ IF queue = <<>>
     THEN pc' = "loop" /\ UNCHANGED <<hand, queue, gone>>
     ELSE /\ pc' = "taken"
          /\ hand' = queue[Len(queue)]
          /\ queue' = <<>>
          /\ gone' = (gone \/ Rings(SubSeq(queue, 1, Len(queue) - 1)))
  /\ UNCHANGED <<free, stop, status, screen, events, raced, doubled>>

\* audio_play_queue_empty: the youngest sound is taken, the older ones are
\* given back unplayed.
Take ==
  /\ pc = "look"
  /\ IF queue = <<>>
     THEN pc' = "loop" /\ UNCHANGED <<hand, queue, free, gone>>
     ELSE /\ pc' = "taken"
          /\ hand' = queue[Len(queue)]
          /\ queue' = <<>>
          /\ free' = free + Len(queue) - 1
          /\ gone' = (gone \/ Rings(SubSeq(queue, 1, Len(queue) - 1)))
  /\ UNCHANGED <<stop, status, screen, events, raced, doubled>>

ClearStop ==
  /\ pc = "taken"
  /\ pc' = "cleared"
  /\ stop' = FALSE
  /\ UNCHANGED <<free, queue, hand, status, screen, events, history>>

Begin ==
  /\ pc = "cleared"
  /\ pc' = "playing"
  /\ status' = TRUE
  /\ UNCHANGED <<free, queue, hand, stop, screen, events, history>>

\* audio_play_decode_start returns: the file is at its end, or a ring (mp3) has
\* seen the stop; a click (pcm) is short and plays out.
PlayedOut ==
  /\ pc = "playing"
  /\ pc' = "over"
  /\ UNCHANGED <<free, queue, hand, stop, status, screen, events, history>>

\* (variant of Report: the end of every sound runs the callback of the ring)
ReportAll ==
  /\ pc = "over"
  /\ pc' = "reported"
  /\ events' = Pushed("end")
  /\ gone' = (gone \/ Len(events) = EventMax)
  /\ UNCHANGED <<free, queue, hand, stop, status, screen, raced, doubled>>

\* (variant of Report: the worker waits for a free event)
ReportWaiting ==
  /\ pc = "over"
  /\ hand = "ring" => Len(events) < EventMax
  /\ pc' = "reported"
  /\ events' = IF hand = "ring" THEN Append(events, "end") ELSE events
  /\ UNCHANGED <<free, queue, hand, stop, status, screen, history>>

\* (variant of Report: a ring that was stopped is not reported)
ReportUnstopped ==
  /\ pc = "over"
  /\ pc' = "reported"
  /\ events' = IF hand = "ring" /\ ~stop THEN Pushed("end") ELSE events
  /\ gone' = (gone \/ (hand = "ring" /\ Len(events) = EventMax))
  /\ UNCHANGED <<free, queue, hand, stop, status, screen, raced, doubled>>

\* The end of a ring is reported.
Report ==
  /\ pc = "over"
  /\ pc' = "reported"
  /\ IF hand = "ring"
     THEN /\ events' = Pushed("end")
          /\ gone' = (gone \/ Len(events) = EventMax)
     ELSE UNCHANGED <<events, gone>>
  /\ UNCHANGED <<free, queue, hand, stop, status, screen, raced, doubled>>

ClearStatus ==
  /\ pc = "reported"
  /\ pc' = "loop"
  /\ status' = FALSE
  /\ UNCHANGED <<free, queue, hand, stop, screen, events, history>>

-----------------------------------------------------------------------------
Worker == GiveBack \/ Take \/ ClearStop \/ Begin \/ PlayedOut \/ Report \/ ClearStatus
Continue == Insert \/ StopAgain \/ StopDone
Handle == HandleEnd \/ HandleCall \/ HandleHangUp

Next == \/ (\E e \in Events : NetworkEvent(e)) \/ Touch \/ Slide \/ Answer \/ HangUp
        \/ Continue \/ Handle \/ Worker

Spec == Init /\ [][Next]_vars

\* The worker is a thread, a call in progress goes on, and the event task runs
\* every 30 ms between the touches (so it runs again and again, but not while
\* the thread is inside a handler).
FairSpec == Spec /\ WF_vars(Worker) /\ WF_vars(Continue) /\ SF_vars(Handle)

-----------------------------------------------------------------------------
(* Properties.                                                             *)

\* Every variable has its type (the globals of audio_play.c).
TypeOK ==
  /\ free \in 0 .. NodeMax
  /\ queue \in Seq(Sounds)
  /\ hand \in Sounds \cup {None}
  /\ pc \in Steps
  /\ stop \in BOOLEAN /\ status \in BOOLEAN /\ talking \in BOOLEAN
  /\ ui \in {"idle", "asked", "stopping"}
  /\ request \in Sounds \cup {None}
  /\ call \in {"none", "ring", "talk"} /\ mute \in BOOLEAN
  /\ events \in Seq(Events) /\ Len(events) <= EventMax
  /\ raced \in BOOLEAN /\ gone \in BOOLEAN /\ doubled \in BOOLEAN

Held == IF hand = None THEN 0 ELSE 1

\* The pool neither leaks nor grows, although nodes come back from four places
\* (the loop, the superseded sounds, the two loops of a stop).
NodesKept == free + Len(queue) + Held = NodeMax

\* While somebody talks nothing plays: audio_play_stop_set has waited for the
\* worker, a click is not asked for and an end reported late does not ring.  The
\* exception is a stop that comes between the dequeue and the status.
Sounding == pc \in {"taken", "cleared", "playing"}
SilentInTalk == talking => ~Sounding /\ queue = <<>>
TalkIsSilent == ~raced => SilentInTalk

\* There is one ring at a time, queued, playing or reported: with two, each
\* would cut the other off and bring it back.  It takes a ring that begins before
\* the end of the last one has been handled.
RingPlaces ==
  {<<"queue", i>> : i \in {k \in DOMAIN queue : queue[k] = "ring"}}
  \cup {<<"event", i>> : i \in {k \in DOMAIN events : events[k] = "end"}}
  \cup (IF ui = "asked" /\ request = "ring" THEN {<<"asked", 0>>} ELSE {})
  \cup (IF hand = "ring" /\ pc \notin {"loop", "look", "reported"}
        THEN {<<"worker", 0>>} ELSE {})
RingsOnce == call = "ring" => \A p, q \in RingPlaces : p = q
OneRing == ~doubled /\ ~raced => RingsOnce

\* The thread that stops a sound goes on: it waits for the worker, which reports
\* into a queue only this thread empties.
StopReturns == ui = "stopping" ~> ui # "stopping"

\* A call that nobody answers keeps ringing, unless the system is mute, or its ring
\* or the report of its end was dropped (superseded in the queue, no node, no event).
RingGoesOn ==
  call = "ring" ~> (call # "ring" \/ mute \/ gone \/ (pc = "playing" /\ hand = "ring"))
=============================================================================
