---------------------------- MODULE AviRecorder ----------------------------
(***************************************************************************)
(* The AVI recorder of api/video/video_record.c.  The user interface       *)
(* starts and stops it, the two receiving threads (or the capture thread)  *)
(* push video and audio frames into one fixed pool of nodes, and a worker  *)
(* thread first looks for the key frame the file must begin with and then  *)
(* writes both streams in capture order.                                   *)
(*                                                                         *)
(* Time is counted in units of 20 ms: two frames are in step when they     *)
(* were captured less than two units (40 ms) apart.                        *)
(***************************************************************************)
EXTENDS Integers, Sequences, Functions

CONSTANTS
  BufferMax,   \* AVI_FRAME_BUFFER_MAX, the size of the pool (16)
  Batch,       \* frames of one stream the worker holds while writing (9)
  VideoKinds,  \* the H.264 frames that occur: "whole", "sps", "pps", "i", "p"
  AudioModes,  \* the values of has_audio the callers use
  Codings,     \* the values of frame_type: 0 for H.264, 1 for MJPEG
  Threads,     \* identities for created threads
  MaxTime      \* bound on the clock

ASSUME BufferAssumption == BufferMax \in Nat \ {0} /\ Batch \in Nat \ {0}
ASSUME KindsAssumption  == VideoKinds \subseteq {"whole", "sps", "pps", "i", "p"}
ASSUME TimeAssumption   == MaxTime \in Nat
ASSUME ModesAssumption  == AudioModes \subseteq BOOLEAN /\ Codings \subseteq {0, 1}

Nodes == 1..BufferMax    \* avi_frame_buffer, in index order
Empty == [pts |-> 0, kind |-> "none"]   \* frame.data == NULL

VARIABLES
  now,        \* get_sys_ms
  taskRun,    \* video_record_task_run
  threadRun,  \* video_record_thread_run
  ready,      \* video_record_ready
  info,       \* record_info1: has_audio and frame_type
  free,       \* avi_frame_queue_free
  video,      \* avi_video_queue_head
  audio,      \* avi_audio_queue_head
  frame,      \* node -> its frame
  pc,         \* thread -> the statement of the worker it is at
  vhand,      \* thread -> its local video_node(s), oldest first
  ahand,      \* thread -> its local audio_node(s), oldest first
  found,      \* thread -> the kinds of key frame it has written
  last,       \* thread -> pts of the frame it wrote last (history only)
  late        \* some thread had not run its first statement when its creator
              \* stopped the recording again (history only)

vars == <<now, taskRun, threadRun, ready, info, free, video, audio, frame,
          pc, vhand, ahand, found, last, late>>

flags  == <<taskRun, threadRun, ready, info, late>>
queues == <<free, video, audio, frame>>
locals == <<vhand, ahand, found, last>>

Searching == {"first", "firstVideo", "firstAudio", "firstWrite"}
Writing   == {"loop", "loopVideo", "loopAudio", "loopWrite"}
AllPCs    == {"none", "created", "opened", "giveBack", "close", "finish"}
               \union Searching \union Writing

Live(t) == pc[t] # "none"
Goto(t, from, to) == pc[t] = from /\ pc' = [pc EXCEPT ![t] = to]

Held(t) == Range(vhand[t]) \union Range(ahand[t])

TypeOK ==
  /\ now \in 0..MaxTime
  /\ taskRun \in BOOLEAN /\ threadRun \in BOOLEAN /\ ready \in BOOLEAN
  /\ late \in BOOLEAN
  /\ info \in [hasAudio : BOOLEAN, coding : {0, 1}]
  /\ free \in Seq(Nodes) /\ video \in Seq(Nodes) /\ audio \in Seq(Nodes)
  /\ frame \in [Nodes -> [pts : 0..MaxTime,
                          kind : VideoKinds \union {"none", "pcm"}]]
  /\ pc \in [Threads -> AllPCs]
  /\ vhand \in [Threads -> Seq(Nodes)] /\ ahand \in [Threads -> Seq(Nodes)]
  /\ found \in [Threads -> SUBSET VideoKinds]
  /\ last \in [Threads -> 0..MaxTime]

Init ==
  /\ now = 0
  /\ taskRun = FALSE /\ threadRun = FALSE /\ ready = FALSE
  /\ late = FALSE
  /\ info = [hasAudio |-> FALSE, coding |-> 0]
  /\ free = [i \in 1..BufferMax |-> i]
  /\ video = <<>> /\ audio = <<>>
  /\ frame = [n \in Nodes |-> Empty]
  /\ pc = [t \in Threads |-> "none"]
  /\ vhand = [t \in Threads |-> <<>>] /\ ahand = [t \in Threads |-> <<>>]
  /\ found = [t \in Threads |-> {}]
  /\ last = [t \in Threads |-> 0]

\* avi_record_queue_node_del on each node of s in turn.
NodesDel(s) ==
  /\ free' = free \o s
  /\ frame' = [n \in Nodes |-> IF n \in Range(s) THEN Empty ELSE frame[n]]

Tick ==
  /\ now < MaxTime
  /\ now' = now + 1
  /\ UNCHANGED <<flags, queues, pc, locals>>

-----------------------------------------------------------------------------
(* The user-interface thread.                                              *)

\* Variant: the worker of the last recording is not looked at.
StartAgain(t) ==
  /\ taskRun = FALSE
  /\ Goto(t, "none", "created")
  /\ info' \in [hasAudio : AudioModes, coding : Codings]
  /\ taskRun' = TRUE
  /\ UNCHANGED <<now, late, threadRun, ready, queues, locals>>

\* A start while either flag is set changes nothing and answers false.
Start(t) ==
  /\ taskRun = FALSE /\ threadRun = FALSE
  /\ Goto(t, "none", "created")
  /\ info' \in [hasAudio : AudioModes, coding : Codings]
  /\ taskRun' = TRUE
  /\ UNCHANGED <<now, late, threadRun, ready, queues, locals>>

Stop ==
  /\ taskRun = TRUE
  /\ taskRun' = FALSE
  /\ late' = (late \/ \E t \in Threads : pc[t] = "created")
  /\ UNCHANGED <<now, threadRun, ready, info, queues, pc, locals>>

-----------------------------------------------------------------------------
(* The pushing threads; the head mutex is held from the test to the end.   *)

NodeNew(kind) ==
  /\ free # <<>>
  /\ free' = Tail(free)
  /\ frame' = [frame EXCEPT ![Head(free)] = [pts |-> now, kind |-> kind]]

PushVideo(kind) ==
  /\ ready = TRUE
  /\ NodeNew(kind)
  /\ video' = Append(video, Head(free))
  /\ UNCHANGED <<now, flags, audio, pc, locals>>

PushAudio ==
  /\ ready = TRUE /\ info.hasAudio
  /\ NodeNew("pcm")
  /\ audio' = Append(audio, Head(free))
  /\ UNCHANGED <<now, flags, video, pc, locals>>

-----------------------------------------------------------------------------
(* The worker thread video_record_task.                                    *)

ThreadBegin(t) ==
  /\ Goto(t, "created", "opened")
  /\ threadRun' = TRUE
  /\ UNCHANGED <<now, late, taskRun, ready, info, queues, locals>>

\* The file is open and its header written.
ThreadReady(t) ==
  /\ Goto(t, "opened", "first")
  /\ ready' = TRUE
  /\ UNCHANGED <<now, late, taskRun, threadRun, info, queues, locals>>

\* avi_write_one_frame: one round takes at most one frame of each stream.

FirstTest(t) ==
  /\ Goto(t, "first", IF taskRun THEN "firstVideo" ELSE "giveBack")
  /\ UNCHANGED <<now, flags, queues, locals>>

\* Variant: the newest frame is taken.
FirstNewest(t) ==
  /\ Goto(t, "firstVideo", "firstAudio")
  /\ IF vhand[t] = <<>> /\ video # <<>>
     THEN /\ vhand' = [vhand EXCEPT ![t] = <<video[Len(video)]>>]
          /\ video' = SubSeq(video, 1, Len(video) - 1)
     ELSE UNCHANGED <<vhand, video>>
  /\ UNCHANGED <<now, flags, free, audio, frame, ahand, found, last>>

FirstVideo(t) ==
  /\ Goto(t, "firstVideo", "firstAudio")
  /\ IF vhand[t] = <<>> /\ video # <<>>
     THEN /\ vhand' = [vhand EXCEPT ![t] = <<Head(video)>>]
          /\ video' = Tail(video)
     ELSE UNCHANGED <<vhand, video>>
  /\ UNCHANGED <<now, flags, free, audio, frame, ahand, found, last>>

FirstAudio(t) ==
  /\ Goto(t, "firstAudio", "firstWrite")
  /\ IF info.hasAudio /\ ahand[t] = <<>> /\ audio # <<>>
     THEN /\ ahand' = [ahand EXCEPT ![t] = <<Head(audio)>>]
          /\ audio' = Tail(audio)
     ELSE UNCHANGED <<ahand, audio>>
  /\ UNCHANGED <<now, flags, free, video, frame, vhand, found, last>>

DropHands(t) ==
  /\ vhand' = [vhand EXCEPT ![t] = <<>>]
  /\ ahand' = [ahand EXCEPT ![t] = <<>>]

Usable(t) ==
  vhand[t] # <<>> /\ (info.coding = 0 => frame[Head(vhand[t])].kind # "p")

\* No video frame, or one that cannot begin a file.
FirstSkip(t) ==
  /\ ~Usable(t)
  /\ Goto(t, "firstWrite", "first")
  /\ NodesDel(vhand[t] \o ahand[t])
  /\ DropHands(t)
  /\ UNCHANGED <<now, flags, video, audio, found, last>>

\* Variant: the sound for the key frame is waited for without a look at the stop.
FirstAwaitAudio(t) ==
  /\ Usable(t) /\ info.hasAudio /\ ahand[t] = <<>>
  /\ Goto(t, "firstWrite", "firstAudio")
  /\ UNCHANGED <<now, flags, queues, locals>>

FirstWaitAudio(t) ==
  /\ Usable(t) /\ info.hasAudio /\ ahand[t] = <<>>
  /\ Goto(t, "firstWrite", "first")
  /\ UNCHANGED <<now, flags, queues, locals>>

Abs(i) == IF i < 0 THEN -i ELSE i
Lead(t) == frame[Head(vhand[t])].pts - frame[Head(ahand[t])].pts
InStep(t) == ~info.hasAudio \/ (ahand[t] # <<>> /\ Abs(Lead(t)) < 2)

\* A file may go on once it has a whole key frame or all three parts of one.
Complete(kinds, coding) ==
  coding = 1 \/ "whole" \in kinds \/ {"i", "sps", "pps"} \subseteq kinds

\* Variant: the kind is read from the audio node.
FirstWrongKind(t) ==
  /\ Usable(t) /\ InStep(t)
  /\ Goto(t, "firstWrite", "first")
  /\ found' = [found EXCEPT ![t] = {frame[n].kind : n \in Range(ahand[t])}]
  /\ NodesDel(vhand[t] \o ahand[t])
  /\ DropHands(t)
  /\ UNCHANGED <<now, flags, video, audio, last>>

FirstWrite(t) ==
  LET kinds == found[t] \union {frame[Head(vhand[t])].kind} IN
  /\ Usable(t) /\ InStep(t)
  /\ Goto(t, "firstWrite",
          IF Complete(kinds, info.coding) THEN "loop" ELSE "first")
  /\ found' = [found EXCEPT ![t] = kinds]
  /\ NodesDel(vhand[t] \o ahand[t])
  /\ DropHands(t)
  /\ UNCHANGED <<now, flags, video, audio, last>>

\* Out of step: one node is given back, the pointers to both are cleared.
FirstOutOfStep(t) ==
  /\ Usable(t) /\ info.hasAudio /\ ahand[t] # <<>> /\ ~InStep(t)
  /\ Goto(t, "firstWrite", "first")
  /\ NodesDel(IF Lead(t) < 0 THEN vhand[t] ELSE ahand[t])
  /\ DropHands(t)
  /\ UNCHANGED <<now, flags, video, audio, found, last>>

\* avi_write_frame_loop.

LoopTest(t) ==
  /\ Goto(t, "loop", IF taskRun THEN "loopVideo" ELSE "giveBack")
  /\ UNCHANGED <<now, flags, queues, locals>>

LoopVideo(t) ==
  /\ Goto(t, "loopVideo", "loopAudio")
  /\ IF video # <<>> /\ Len(vhand[t]) < Batch
     THEN /\ vhand' = [vhand EXCEPT ![t] = Append(@, Head(video))]
          /\ video' = Tail(video)
     ELSE UNCHANGED <<vhand, video>>
  /\ UNCHANGED <<now, flags, free, audio, frame, ahand, found, last>>

LoopAudio(t) ==
  /\ Goto(t, "loopAudio", "loopWrite")
  /\ IF audio # <<>> /\ Len(ahand[t]) < Batch
     THEN /\ ahand' = [ahand EXCEPT ![t] = Append(@, Head(audio))]
          /\ audio' = Tail(audio)
     ELSE UNCHANGED <<ahand, audio>>
  /\ UNCHANGED <<now, flags, free, video, frame, vhand, found, last>>

LoopNoVideo(t) ==
  /\ vhand[t] = <<>>
  /\ Goto(t, "loopWrite", "loop")
  /\ UNCHANGED <<now, flags, queues, locals>>

\* Variant: the comparison of the time stamps is the wrong way round.
AudioLater(t) == ahand[t] # <<>> /\ Lead(t) < 0

AudioFirst(t) == ahand[t] # <<>> /\ Lead(t) > 0

LoopWriteAudio(t) ==
  /\ vhand[t] # <<>> /\ AudioFirst(t)
  /\ Goto(t, "loopWrite", "loop")
  /\ last' = [last EXCEPT ![t] = frame[Head(ahand[t])].pts]
  /\ NodesDel(<<Head(ahand[t])>>)
  /\ ahand' = [ahand EXCEPT ![t] = Tail(@)]
  /\ UNCHANGED <<now, flags, video, audio, vhand, found>>

LoopWriteVideo(t) ==
  /\ vhand[t] # <<>> /\ ~AudioFirst(t)
  /\ Goto(t, "loopWrite", "loop")
  /\ last' = [last EXCEPT ![t] = frame[Head(vhand[t])].pts]
  /\ NodesDel(<<Head(vhand[t])>>)
  /\ vhand' = [vhand EXCEPT ![t] = Tail(@)]
  /\ UNCHANGED <<now, flags, video, audio, ahand, found>>

\* Either loop ends by giving back what it still holds.
GiveBack(t) ==
  /\ Goto(t, "giveBack", "close")
  /\ NodesDel(vhand[t] \o ahand[t])
  /\ DropHands(t)
  /\ UNCHANGED <<now, flags, video, audio, found, last>>

\* Variant: the queues are emptied, their nodes are not given back.
CloseForgets(t) ==
  /\ Goto(t, "close", "finish")
  /\ ready' = FALSE
  /\ video' = <<>> /\ audio' = <<>>
  /\ UNCHANGED <<now, late, taskRun, threadRun, info, free, frame, locals>>

\* Under the head mutex: not ready, the file closed, both queues released.
Close(t) ==
  /\ Goto(t, "close", "finish")
  /\ ready' = FALSE
  /\ NodesDel(video \o audio)
  /\ video' = <<>> /\ audio' = <<>>
  /\ UNCHANGED <<now, late, taskRun, threadRun, info, locals>>

\* Event, rename and sync; then the thread ends and its locals with it.
Finish(t) ==
  /\ Goto(t, "finish", "none")
  /\ threadRun' = FALSE
  /\ found' = [found EXCEPT ![t] = {}]
  /\ last' = [last EXCEPT ![t] = 0]
  /\ UNCHANGED <<now, late, taskRun, ready, info, queues, vhand, ahand>>

Worker(t) ==
  \/ ThreadBegin(t) \/ ThreadReady(t)
  \/ FirstTest(t) \/ FirstVideo(t) \/ FirstAudio(t)
  \/ FirstSkip(t) \/ FirstWaitAudio(t) \/ FirstWrite(t) \/ FirstOutOfStep(t)
  \/ LoopTest(t) \/ LoopVideo(t) \/ LoopAudio(t)
  \/ LoopNoVideo(t) \/ LoopWriteAudio(t) \/ LoopWriteVideo(t)
  \/ GiveBack(t) \/ Close(t) \/ Finish(t)

Next ==
  \/ Tick
  \/ \E t \in Threads : Start(t)
  \/ Stop
  \/ \E k \in VideoKinds : PushVideo(k)
  \/ PushAudio
  \/ \E t \in Threads : Worker(t)

Spec == Init /\ [][Next]_vars

\* The worker is a thread of its own and is scheduled again and again.
FairSpec == Spec /\ \A t \in Threads : WF_vars(Worker(t))

-----------------------------------------------------------------------------
(* Properties.                                                             *)

\* No node is in two places: a frame that was given back is not written, and
\* no node is given back twice, although two streams, two loops and the
\* release at the end all give nodes back.
OnePlace ==
  LET places == <<free, video, audio>>
      injective(s) == \A i, j \in DOMAIN s : s[i] = s[j] => i = j
  IN /\ injective(free \o video \o audio)
     /\ \A t \in Threads :
          /\ injective(vhand[t] \o ahand[t])
          /\ \A k \in 1..3 : Held(t) \intersect Range(places[k]) = {}
          /\ \A u \in Threads : t # u => Held(t) \intersect Held(u) = {}

\* video_record.c:559-562 "release all AVI frame resources ... and free all
\* the frame memory": when no recording is on, the pool is whole again, so a
\* recording never leaves less memory to the next one.
PoolRestored == (\A t \in Threads : ~Live(t)) => Range(free) = Nodes

\* Once the key frame is written, both streams go to the file in the order of
\* their capture: nothing still waiting is older than what was written last,
\* although the streams have queues of their own and frames are taken from
\* them in separate critical sections.
CaptureOrder ==
  \A t \in Threads :
    pc[t] \in Writing =>
      \A n \in Held(t) \union Range(video) \union Range(audio) :
        frame[n].pts >= last[t]

\* A recording starts with nothing of the one before.  When no worker is left,
\* however many overlapped, the queues are empty and nothing is accepted; and
\* unless a thread was late, no worker is left when the two flags allow a start.
NoLeftover ==
  /\ (\A t \in Threads : ~Live(t)) => video = <<>> /\ audio = <<>> /\ ready = FALSE
  /\ ~late /\ taskRun = FALSE /\ threadRun = FALSE => \A t \in Threads : ~Live(t)

\* A worker that looks for frames lets the streams push them - the end of one
\* recording does not mute the next - unless a thread was late to start.
WritingIsReady ==
  ~late => \A t \in Threads :
             pc[t] \in Searching \union Writing => ready = TRUE

\* A pushed video frame does not wait for ever, unless its recorder waits for sound
\* that need not come.
VideoLeaves ==
  \A n \in Nodes : n \in Range(video) ~> (n \notin Range(video) \/ info.hasAudio)

\* A stopped recording ends, whatever it was waiting for: a frame, a key frame, or
\* the sound for the key frame in hand while the pool is full of pictures.
StopFinishes ==
  (taskRun = FALSE) ~> (taskRun = TRUE \/ \A t \in Threads : ~Live(t))
=============================================================================
