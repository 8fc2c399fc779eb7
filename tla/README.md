# A verification development for the indoor monitor

The program is the application of a video door phone: an indoor monitor with a
touch screen (LVGL) that shows and talks to door panels over IP multicast, talks
to other indoor monitors, is reachable from a phone application (Tuya), and
records calls on an SD card.  It is C on an Anyka SoC, one process with many
threads.  Several monitors hang on one local network and share the door panels
without any server: what keeps them consistent is what each of them does with
the datagrams of the others.

These modules model the parts in which a mistake is hard to see in a test: the
threads that are opened and closed by flags, the node pools they share, the
events between the threads and the user interface, and the protocols by which
monitors share a panel, call each other and set their clocks.  `PROJECT.json` maps every definition
to the lines it stands for; every path below is relative to `src/src/`.

## Inventory

| part | state | operations | talks to |
|---|---|---|---|
| call audio, sending (`api/network/network_audio_package.c` 40-423, `api/common/leo_monitor.c`) | task, thread and ready flags, socket, group address, free and head queue over 64 nodes | open, close, push, worker thread | UI thread opens/closes; capture thread or Tuya thread pushes; receiving half shares the address |
| call audio, receiving (same file, 425-, `api/audio/audio_decode.c`) | the same shape; the decoder's flags and queue | open, close, receive thread, decoder thread | the sending half, audio output |
| AVI recorder (`api/video/video_record.c`) | task, thread and ready flags, `record_info1`, one pool of 16 nodes, a queue for each stream | start, stop, push, recorder thread (find key frame, merge, release) | video and audio receivers push; UI starts/stops; event when done |
| door panel sharing (`layout/layout_monitor.c`, `layout_home.c`, `layout_define.c`, `api/network/network_common.c`) | per monitor: layout, channel, talking; per door: `occupy_resource`, `is_monitor_data_busy`, age | enter/leave, talk button, keys, application events, calls, heartbeat, commands | multicast datagrams to the other monitors |
| interphone (`layout/layout_interphone.c`) | status of five values, page, peer, flags, countdown | call, answer, hang up, refuse, busy, countdown | the other monitors, the sound player, the standby timer |
| sound player (`api/audio/audio_play.c`) | pool of 8 nodes, queue, status | start, stop, worker thread | LVGL thread both ways |
| UI event queue (`layout/layout_define.c` 115-278) | pool of 32 events | send from any thread, dispatch in the LVGL thread | everything |
| standby timer (`layout/layout_define.c`), presence and time (`api/network/network_common.c`) | countdown; on-line table with ages, clock in six messages | open, close, reset; heartbeat, ageing, clock messages | pages; all devices |
| video reception (`network_video_package.c`) | fragments of the current frame, upload gate, key frame counter | open, close, receive, reassemble, request | decoder, recorder, application |
| video decoding (`api/video/video_decode.c`, `api/queue/ring_buffer.c`) | device, task and decoder flags, ring of bytes | open, close, push, decoder task | video reception, vendor decoder |
| raw frame queue, playback, thumbnails (`api/video/`) | queues and worker flags of the same shape | start, stop, push | display |
| audio input and output (`api/audio/`) | devices | start, stop | devices |
| files, settings, upgrade, Wi-Fi, keys | files, pins | I/O | vendor and shell |

Hard behaviours, and where they bite (the full list is `hazards` in
`PROJECT.json`):

* every worker thread is started by `open` and stopped by a flag it polls, and
  sets the flag its opener waits for *itself*, in its first statement;
* nodes travel between two queues and local variables under different mutexes,
  with early returns in between;
* two streams with queues of their own are merged by time stamp while they draw
  on one pool;
* monitors learn who talks to a panel, who calls whom and what time it is from
  single UDP datagrams; there is no acknowledgement (`DATA_BUSY_ACK` exists and
  is never sent), datagrams of a round carry no number, and a talk ends in a
  dozen ways;
* marks, rings and calls are ended by timers, which other pages and another
  thread open and close;
* the LVGL thread waits for a worker that reports into the queue only the LVGL
  thread empties, and what does not fit into that queue is dropped;
* one writer and one reader of a ring of bytes, where the writer moves the
  reader's address.

What makes each part correct: pools neither leak nor hold a node twice; frames
leave once, in order, and within the call or recording they belong to; workers
do not overlap; a closed component stops; at a panel one monitor talks, the
others know, and know again when it is free; two monitors in a call agree on it,
and a call nobody touches ends; a call rings until it is answered and nothing
plays into the talk; a picture is made of the bytes of one panel and of whole
frames; a clock shows one time.

## Modules

| module | models | state and actions against the code |
|---|---|---|
| `FrameChannel` | abstract: what a frame queue promises (each frame once, in order, or discarded for good) | `channel`, `current`; `Accept`, `Deliver`, `Done`, `Discard` |
| `AudioSend` | sending half of the call audio | the globals under their names (`taskRun` is `networK_audio_send_task_run` and so on), `pc` is the statement of `network_audio_send_package_task`, `hand` its local `node`; one action for each critical section.  `TalkOpen`, `Open` and `TalkClose` are `audio_talk_open` and `audio_talk_close` |
| `AudioReceive` | receiving half and the audio decoder behind it | the flags of both, the group address both halves share, one `pc` for each receive and decoder thread; `TalkOpen`/`TalkClose` as above, from the receiver's side |
| `AviRecorder`, `MCAviRecorder` | the recorder | both loops of the worker with their locals (`vhand`, `ahand`), one action for each critical section; `NodesDel` is `avi_record_queue_node_del` |
| `DoorLine`, `MCDoorLine` | door panel sharing by any number of monitors | one action for each button, key, application event and command handler, whole, with the datagrams it sends; `Second` is `account_heartbeat_send_task` on all monitors |
| `Interphone`, `MCInterphone` | calls between any number of monitors | per monitor the status, page, peer, flags and countdown; one action for each button and for each case of the command handler (`Receive`), the countdown (`Tick`) and the screen saver (`StandbyTimeout`) |
| `AudioPlay` | the player, its worker and the event queue, with the interphone page as the user of both | the pool, queue and status under their names, `pc` of the worker between its critical sections; `Handle` takes one event out of the UI queue and is the whole handler |
| `VideoIn` | reception of video: reassembly, the gate of the upload, key frame requests | parts of frames in order, possibly lost; `Receive` is one turn of the loop of the receive thread |
| `ClockSync` | time synchronisation and the standby timer | per monitor page, timer, parts received; `Send` puts one datagram of a round into the network threads of the others (`Receive`), pages and `Tick` are the LVGL thread |
| `ByteFifo` | abstract: a fifo of bytes that gives up its oldest when it is full | `cache`, `out`; `Put`, `Get`, `Clear` |
| `RingBuffer` | the operators of `ring_buffer.c` | memory, two addresses that may stand *at* the tail, a length; `Write` with overtaking, `Read` |
| `VideoDecode`, `MCVideoDecode` | the video decoder with its ring, `monitor_open` and the receive thread | open, close, push and task; one action for each stretch under the ring's lock or between two waits |
| `AudioSendProofs`, `DoorLineProofs`, `InterphoneProofs`, `AudioPlayProofs`, `AviRecorderProofs`, `ClockSyncProofs`, `VideoDecodeProofs`, `ReceptionProofs` (of `VideoIn` and `AudioReceive`) | theorems | see below |

`AudioSend` implements `FrameChannel`, `VideoDecode` implements `ByteFifo`.
`AudioReceive` and `AudioSend` share the group address: each keeps the whole of
`audio_talk_open` and `audio_talk_close`, with the other half as what it does to
the address.  `AudioPlay` composes the player with the event queue and the
interphone page; `VideoDecode` the decoder with the ring buffer and the thread
`VideoIn` describes.

Every component module contains, next to some actions, a *variant*: the same
action with a plausible mistake (`ReleaseLost`, `StopThreadRun`,
`ReceiveBusyKeeps`, ...).  No specification uses them; they are there to see that
a property notices the mistake.

What is abstracted: the payload of an audio frame is the address it was captured
for, or the call it belongs to; a recorded video frame is its kind and its time
in units of 20 ms (the recorder compares with 40 ms); a received frame is a
number and its count of parts; a byte of the ring is its place in the stream and
its panel; "home" is every layout but those modelled; panels are on line.  In
`DoorLine` a datagram under way is an element of a set, so that it can be
delivered in any order (UDP and the UI event queue do not keep it) and equal ones
merge; in `Interphone` it is appended to the event queue of its receiver, which handles
them in the order of arrival.  Seconds are counted up to `Timeout`, which stands
for the 30 and 60 seconds of the code.

History variables, which guard no action except that `MaxLost` bounds a count of
losses: `target` and `late` in `AudioSend`, `late` and `tardy` in `AudioReceive`,
`last` and `late` in `AviRecorder`, `settled` and `lost` in `DoorLine`, and those named as
such in the header of each other module.

`late` becomes true when a component is closed before the thread of the last
open has run its first statement.  Then the flag the next open waits for is
still in its initial state and two workers overlap; the same statement in the
recorder and in both halves of the call audio.  The properties that fail then
are stated for `~late`; all others hold with overlapping workers as well.

`tardy` becomes true in `AudioReceive` when an open waited three seconds for a
thread of the call before and gave up.  `audio_talk_open` does not look at that, and
the call goes on with the old receiver still there, or with a decoder that is ready
and has no thread.  Both variables start again when a call begins while everything
is quiet (no thread, nothing queued, decoder not ready): what went wrong in the
calls before is over then, and the properties hold again.

## Runs

| run | bounds | shows |
|---|---|---|
| `send` | 2 nodes, 2 threads, 2 addresses | conservation of nodes, nothing stranded, refinement of `FrameChannel`, frames leave, in any order of open, close and late threads; without a late thread workers do not overlap and a call sends its own frames |
| `avi_ends` | 2 nodes, arrays of 2, 2 threads, one time, with and without sound, key frames whole or in parts | the pool is whole after every recording, also with sound as long as no pair is out of step; a frame waits at most for sound; a stopped recording ends, also when it waits for sound and pictures have taken the pool |
| `avi_audio` | 2 nodes, arrays of 1, 2 threads, times 0..2, both codings, with and without sound | with sound: capture order; a recording starts with nothing of the one before |
| `avi_leak` | 3 nodes, times 0..3 | *violated*: an out-of-step pair loses one node for good, against the comment of `avi_frame_release_all` |
| `door_touch` | 4 monitors, 2 unit doors and a public one, age 5, 1 loss | screen only, everybody waits for the datagrams: a talk is known to all a second after the last change or loss, and unless a datagram was lost the talker is alone |
| `door_live` | 2 monitors in 2 flats, a unit and a public door, 1 loss, everything switched on | `occupy_resource` only during a talk and only for its door; marks of a door nobody talks to go away |
| `phone_two` | 2 monitors, 1 second, 2 datagrams under way, 1 loss | status, page, peer and flags describe one call; with everything delivered and nothing lost both sides agree; a caller does not wait for ever, and a ring that nobody answers ends, whatever is lost |
| `play` | 3 nodes, 2 events | no node lost, nothing plays into a talk (unless the stop fell into the gap below), one ring at a time, a stop returns, an unanswered call keeps ringing unless the system is mute or a report was dropped |
| `video_in` | frame numbers modulo 2, 1 to 3 parts, 3 requests, 2 parts lost | one part lost never joins parts of two frames; the upload gets going again with the next key frame that arrives |
| `clock` | 3 monitors, rounds of 2 datagrams, 2 rounds, 1 loss | a clock is set to one time unless a datagram is lost or rounds overlap; a door is left by the screen saver only after a clock was set there; a page nobody touches is left |
| `receive` | 2 addresses, 2 threads of each kind, queue of 1 | unless a thread was late or an open gave up, a call plays its own voice and is not deaf; after a call its threads end, and unless an open gave up nothing is left in the queue |
| `video_decode` | ring of 3, frames of 1, 2 and 4 bytes, reads of 2, 2 panels | refinement of `ByteFifo`; a panel is shown nothing of the panel before |

Some more configurations are kept for running by hand.  They hold:
`AudioSend_more` (the payload of a frame in hand belongs to that thread, a
serving worker is ready, a closed sender stops), `AviRecorder_more` (a writing
recorder is ready, no node in two places), `AudioReceive_more` (a queue of
two), `DoorLine_all` (`OccupiesItsTalk` with
more calls and nothing lost), `Interphone_three` (`Agreed` with three monitors).
And the following show a property *violated*, which says what the code does not
do: `AudioPlay_double`, `AudioPlay_stop`, `AudioReceive_tardy`, `AudioSend_twice`,
`DoorLine_calls`, `DoorLine_keys`, `DoorLine_race`, `Interphone_busy`, `VideoIn_gap`
(below).

Why the bounds are enough.  Two threads is the least that overlap, and more
cannot be created without a second `late` round of the same kind.  Two nodes fill
the pool, empty it, and put one node in hand and one in a queue, of the same
stream (with `Batch` 1 its array is then full) or of both.  `Batch` is 9 in the
code.  `MaxTime` 2 gives frames in step, one unit apart and out of step; the
single time of `avi_ends` leaves no pair out of step, which `avi_leak` is about.
Three doors are the least for a list with one of them busy, and four monitors make all of
them busy while one still has the list: then only the event of `DATA_BUSY` takes it
away (more than one loss is left to the theorem `ButtonTalkIsKnown`); the two flats and the
two kinds of door are the cases that `DEVICE_GROUP` and `DEVICE_ALL` tell apart.
`AgeMax` is 5 where the number matters (`door_touch`) and 0 or 1 where only
expiry does.  `MaxPending` is how many datagrams may be under way while people
act: 0 (each is handled before anybody acts again, and the list on the home
screen has been refreshed) separates the mistakes of the protocol from its races,
2 gives the race.

In `phone_two` two monitors are both caller and callee, two datagrams under way
let calls cross and let an answer meet a hang-up, and one loss is enough to leave
either side behind; the third monitor (who is told that the called one is busy)
is in `Interphone_three`.  In `play` three nodes hold one sound at the worker, one
queued and one that supersedes it, or leave the pool empty; two events let a stale
end of ring stand behind another event, and fill the queue.  In `receive` a pool
of one node is full with one frame, queued or with the worker; `AudioReceive_more`
has two, a frame queued behind the one that is played.  In `video_in` numbers
modulo 2 let a lost frame bring back the number of the one before, three parts
have a first, a middle and a last, and two losses are one more than the reassembly
survives.  In `clock` a round of two datagrams already mixes, two rounds overlap,
and the third monitor gets both.  In `video_decode` a ring of three bytes with
frames of one, two and four has every address, the one at the tail included, every
way to wrap, an overtaken reader, and one frame longer than the ring (the frames
of the program are at most 218 KB and the ring longer, so that case is the
ring's, not the decoder's).

Deadlock is checked in every run.

### Fairness

`AudioSend` and `AviRecorder`: weak fairness of each worker thread and of the
open in progress - the operating system schedules runnable threads again and
again, and the loops sleep but never block.  `AudioReceive`: the same for each
receive thread, each decoder thread and the open, which goes on whether its wait
succeeds or gives up.  Nobody owes a push, an open, a
close or a tick of the clock.  `DoorLine`: strong fairness of `Second` (a thread
of its own with a sleep of a second; strong only because the bound on datagrams
under way may disable it for a while) and weak fairness of delivery of what is not
lost.  `Interphone`: weak fairness, for each monitor, of receiving what arrived,
of the countdown and of the screen saver: all three are callbacks the LVGL loop
comes back to.  `AudioPlay`: weak fairness of the worker and of the LVGL thread
when it is inside a stop; strong fairness of `Handle`, because touches may always
come first in a turn of the loop but the event task runs in between.  `VideoIn`:
weak fairness of the receive thread's begin, turn and end, and of the panel, which
sends frames as long as it is asked to.  `ClockSync`: weak fairness of the timer, of the screen saver and
of the rest of a round once begun.  Nobody owes a touch or a call.  `VideoDecode` is checked for
safety only.

### What the violations say

* `avi_leak`: lines 359-376 must give back one node and keep the other, or give
  back both.  After sixteen such pairs nothing is recorded until a restart.
* `AudioSend_twice` (and in the same way `video_record_start` and the receiving
  half): line 378 says the open waits for the old thread to quit; it waits for a
  flag that thread has not set yet.  The flag that says the thread exists should
  be set by the creator, before `ak_thread_create`.
* `AudioReceive_tardy`: lines 684 (`network_audio_package.c`) and 203
  (`audio_decode.c`) give up after three seconds and say so, but `leo_monitor.c`
  208-219 goes on: a frame the old receiver still has goes into the queue of the next
  call, and `audio_decode_start` makes a decoder ready that has no thread.
  `audio_talk_open` should end with what was opened closed again.
* `AudioPlay_stop`: a stop between the dequeue of a sound and the setting of
  `audio_play_status` (349-355) finds nothing to stop, and the ring plays into the
  talk.  `AudioPlay_double`: the volume slider, or the end of a ring of the last call,
  starts a second ring beside the one asked for.
* `DoorLine_race`, `DoorLine_calls`, `DoorLine_keys`: the talk button does not
  look at the busy mark; leaving the monitor layout after a ring sends
  `DATA_RELEASE` for a panel somebody else holds; the key path does not set
  `occupy_resource`, so the talk is unknown after the marks expire.
* `Interphone_busy`: a busy answer is taken without a look at its sender or at the
  status, so a late one ends a call with somebody else.  `Agreed` therefore
  leaves out what follows a call that was begun while an answer to an older one was
  on its way (`hasty`).
* `VideoIn_gap`: line 799 says that after a loss the application gets a key frame
  first.  Only a frame of the wrong length, or data without a header, closes the
  gate; a frame that is lost as a whole does not, nor do viewers that leave and
  return.

Seen on the way and not a run of its own:

* recorder: it waits for audio without giving its key frame back while the video
  stream can take the whole pool; the comment at `video_record.c` 502 describes a
  filter that is not there;
* doors: the comment at `layout_define.c` 355 says five seconds where the code
  takes seven ticks; with no free door the refresh at `layout_home.c` 2877
  returns before it updates an open list, and only the event that each `DATA_BUSY`
  pushes (`network_common.c` 884, `layout_home.c` 3100) deletes the list, so
  `AloneAtDoor` rests on that line (with `ReceiveBusyKeeps` for `ReceiveBusy` the run
  `door_touch` shows a second monitor at the door);
* interphone: an accept that arrives in the publishing status is ignored; the
  callee's standby timer is not closed in a talk, so a callee who does not touch
  the screen hangs up after a minute; when the hang-up of the callee is lost the
  talk of the caller has no end (`CallEnds` is about its waiting); the ring page
  has no countdown, only the screen saver ends it;
* player: a ring superseded by a touch sound, or refused by an empty pool, is
  never reported, and the call is silent; the decoder buffer is not freed when the
  file cannot be opened (298);
* clock: after a lost datagram, or with two senders, a clock mixes the fields of
  two times; setting the clock opens the screen saver's timer again on whatever
  page is shown;
* receiving half: with a late thread a frame of the previous call may be played,
  or the decoder is deaf;
* ring buffer: an overflow drops the oldest bytes, not whole frames, so the
  decoder starts inside one.

## Theorems

For every value of the constants, under the named assumptions in the modules
(positive pool and ring sizes, `NoGroup` not a group, `FamilyOf` a function,
bounds that are numbers).  Each proof module states the inductive invariant, one
lemma per action or group of actions, and the theorems of the specification.

* `AudioSendProofs!TypeCorrect`.  Inductive with `HandHeld`: a thread has a node
  exactly between `Take` and `QueueDel`; without it `QueueDel` could put NULL in
  the free queue.
* `AudioSendProofs!NothingLeft`: `[]NothingStranded`.  Inductive with
  `ReadyServed` (pushes are accepted only while a worker will look at the queue
  once more) and `QueueServed` (what is queued has a worker that will at least
  drain it); both hold with any number of overlapping workers because a worker
  leaves only through `StopReady` and `ReleaseAll`.
* `AudioSendProofs!PoolConserved`: `[]NodeConservation`, stated as `Placed` over
  ranges of sequences without repetition; the lemmas `TailDistinct`,
  `ConcatDistinct` and `AppendDistinct` say what the queue operations do to those.
* `AudioSendProofs!Implements`: `Spec => IsFrameChannel`.  `Push` is `Accept`,
  `Take` is `Deliver`, `QueueDel` is `Done`, `ReleaseAll` is `Discard`, all
  others stutter; needs `Placed` (a node being sent is not accepted again).
* `AudioSendProofs!WorkersAlone`: `[]OneWorker`.  The strengthening `Handover`
  says why two flags suffice: a thread that has not begun is announced by the
  task flag, one that has begun by the thread flag, and the open that creates has
  seen both cleared.
* `AudioSendProofs!SendsItsCall`: `[]OwnCallFrames`.  `OwnFrames` says it of the
  queue and of every hand, `CallIsOpen` that the task flag is set only in a call, so
  the receiving half never overwrites the address while it is; `Handover` and
  `QueueServed` give an empty queue when the next call sets it.
* `DoorLineProofs!TypeCorrect`, and `DoorLineProofs!Announces`:
  `[]OccupiesItsTalk`, inductive by itself over all handlers.
* `DoorLineProofs!ButtonTalkIsKnown`: `[]TalkIsKnown`, if there are no keys and no
  application (`~Keys`, `~Tuya`: their talks are not announced, see `DoorLine_keys`)
  and people act when the datagrams have arrived (`Prompt`: no older release can
  overtake an announcement); any number of monitors, flats, doors, visitors and
  losses.  `TalkHeld` says that who talks is on the monitor page and renews the mark
  of that door; `KnownInv` that each other monitor has the mark, or has it in its
  queue.
* `DoorLineProofs!AloneAtTheDoor`: `[]AloneAtDoor`, for one door and nobody ringing
  (`~Calls`) besides; any number of monitors and flats.  Without `Prompt`, `~Calls`
  or `~Keys` it is false (`DoorLine_race`, `DoorLine_calls`, `DoorLine_keys`).  With
  more doors, where the list is shown, it is model-checked only (`door_touch`).
* `InterphoneProofs!TypeCorrect` and `OneCallOnly`: `[]OneCall`, inductive with
  `OthersWrite` (nobody gets a datagram of its own) over every button and every
  case of the command handler, whatever is lost or late: a monitor may be wrong
  about the other side, never about itself.
* `InterphoneProofs!BothAgree`: `[]Agreed`, for any number of monitors.  `Agreed`
  is about empty queues; what makes it inductive is about full ones.  `Side` says
  for each pair of monitors what the datagrams between them stand for: a monitor in
  `PUBLISH` has its call, the ring or a refusal on the way, one in `OUT` or `TALK`
  has the other side with it or a hang-up coming, an accept or a ring that no
  hang-up follows comes from somebody who talks or rings.  The order within a queue
  matters (`Open`, `Bare`, `First`, `Then`, `Gap`); `OwnAdded` and `OwnDropped` say
  what an appended and a read datagram do to it.  `Token`: of the calls of a monitor
  one at a time is under way, as the call or as its refusal, so the refusal it reads
  without a look at the sender is that of its own call.  This is where `~hasty` is
  needed: see the finding.
* `AudioPlayProofs!TypeCorrect`, `PoolKept`: `[]NodesKept`, over the walk of the
  worker that takes the youngest sound and gives back the rest; and
  `SilentTalk`: `[]TalkIsSilent`, with what the code does not say: when the
  status is set (`WorkerStatus`), that a stop has emptied the queue (`StopEmpties`)
  and that a talk is not entered with a sound asked for (`TalkAsksNothing`).
* `AudioPlayProofs!OneRingAtATime`: `[]OneRing`.  `Single` says that the places of a
  ring (asked for, queued, at the worker, reported) exclude each other while a call
  rings, `Stale` that between two calls nothing of a ring is left but reports.
* `AviRecorderProofs!TypeCorrect`; `Ordered`: `[]CaptureOrder`; `NothingLeftover`:
  `[]NoLeftover`; `OnePlaceOnly`: `[]OnePlace`, with overlapping workers too.  One
  invariant: no node is in two places (`Apart`), so a frame keeps its time stamp
  while it is queued or held; queues and hands are sorted and each queue is younger
  than the hands filled from it (`Streams`); a worker that writes has in hand, and
  finds in the queues, nothing older than what it wrote last (`ThreadOK`: a video
  frame is written without a partner only when no older sound can come any more,
  and every frame that is kept was captured by then, `Captured`); frames are kept
  only while a worker will release them (`Drained`); and unless a thread was late
  the two flags tell of every worker that lives (`Handover`), so a start finds none.
* `AviRecorderProofs!SilentPoolRestored`: `[]PoolRestored` for recordings without
  sound (`TRUE \notin AudioModes`): no node of sound exists (`Silent`) and every
  node is in the free queue, the video queue or a hand (`Somewhere`).  With sound
  the property is false: `avi_leak`.
* `ClockSyncProofs!TypeCorrect`, `OneTimeOnly`: `[]OneTime`, because with one
  sender and nothing lost every other monitor has counted exactly the datagrams
  sent (`InStep`), and none between rounds (`AtRest`); and
  `DoorIsLeftByClock`: the action property `DoorStays`.
* `ReceptionProofs!TypeCorrect` and `HandsOnFrames`: `[]Intact` of `VideoIn`.  The
  invariant relates the buffer to what is on the way: the buffer has the parts
  before it of the same frame (`Whole`), or lacks data (`Short`) and then stays
  shorter than its header says until the next header, which a second loss would
  have to take.
* `ReceptionProofs!AudioTypeCorrect`, `HearsItsCall`: `[]OwnVoice`, and `Hears`:
  `[]NotDeaf`, of `AudioReceive`.  Both follow from one invariant (`RInv`, `DInv`):
  unless a thread was late or an open gave up, each half has one thread, its flags
  tell where that stands, and socket, frame and queue belong to the group of the
  call.  `Life` holds whatever happened (a thread has a frame or a node exactly while it
  works on it, a socket has its thread, a closed call wants none), so a call that
  begins in `Quiet` satisfies the invariant again (`QuietKeepsR`, `QuietKeepsD`).
* `VideoDecodeProofs!TypeCorrect`, `Implements`: `Spec => IsByteFifo` for every
  length of the ring and every set of frames, and `ShowsItsPanel`:
  `[]OwnPicture`.  `CellBehind` says where in memory the i-th byte of the content
  is when addresses may stand at the tail; `Apart` how far the addresses stand from
  each other, `Room` how many bytes a write pushes out; from these `WriteAppends` and
  `ReadLeaves`.  `OwnPicture` follows from `Own`: unless the receive thread could
  not be waited for, it pushes for the panel the decoder was opened for.

Only model-checked: liveness (`MarkExpires` included), which is out of the
prover's reach, as is induction over data.  Every invariant that a passing run
checks is stated by a theorem, `AloneAtDoor` for one door.

## Not modelled

The components with their reasons are in `PROJECT.json`.  In short: pure I/O and
shell commands (Wi-Fi, addresses, pins, settings, own upgrade), text building
(cameras), presentation (the other screens), and vendor or third-party code
(codecs, LVGL, avilib, Tuya, lodepng, resampling), which together are most of the
lines of the repository.  Left out of the modelled parts:

* recorder: the file; doors: the opening of the lock, pictures, sounds, presence,
  and the time between a received `DATA_BUSY` and the event it pushes, which is one
  step (with `MaxPending` 0 nobody acts in between);
* interphone: calling several devices at once (the page allows one), ringing
  itself (it is in `AudioPlay`); player: decoding and volume; `system_mute` is read from
  the flash and has any value, which no code changes;
* receiving half: `audio_decode_stop`, which has no caller (it sets the ready flag
  instead of clearing it); frames of more than one datagram, put together as in `VideoIn`,
  and the conversion of the sampling rate;
* video reception: the sending half, which has no caller; a close before the first
  statement of the thread; a header without data, or of a frame larger than
  `VIDEO_FRAME_MAX`, which starts no frame and shuts the gate (734-741) and which a
  panel does not send: a frame of the model has data and fits (`Store`);
* decoder: network cameras (a library outside the repository), the type check of
  the push (the type is always 0), the task's first statement being late;
  `ring_buffer_init` takes no lock and is one step, which only
  a receive thread that could not be waited for can meet (`tardy`);
* clock: ageing of devices and duplicate device numbers.

## Plan

Done so far, in this order: the call audio and the recorder first, because their
worker threads are the pattern of every other; then the promises the monitors
make to each other (doors, calls, clocks); then the player with the event queue,
and video from the datagram to the decoder.

1. The raw frame queue and the playback thread (the pools of the screen, with the
   early return of `video_raw_queue.c` 98).
2. `Presence`: ageing of devices, with the range of the loop at
   `network_common.c` 1085, and duplicate device numbers.
3. The recorder behind `VideoIn` and `AudioReceive`: what a lost part of a frame
   does to a recording.
4. Proofs: the invariants of the modules above, as they are written.
