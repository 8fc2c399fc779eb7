---------------------------- MODULE VideoDecode -----------------------------
(***************************************************************************)
(* The picture of a door panel on its way to the decoder: the LVGL thread  *)
(* changes the panel (monitor_open, leo_monitor.c), the receive thread of  *)
(* network_video_package.c pushes frames, and the decoder task             *)
(* (video_decode.c) reads the ring buffer between them.  Opening waits for *)
(* the old thread, three seconds at most.                                  *)
(*                                                                         *)
(* A created receive thread runs its first statement at once, and a panel  *)
(* is not changed between the creation of a decoder task and its first     *)
(* statement; for threads that come late see AudioSend and AudioReceive.   *)
(* Network cameras come through a library of their own and are left out.   *)
(* A byte carries the panel it comes from.                                 *)
(***************************************************************************)
EXTENDS RingBuffer

CONSTANTS Panels,     \* the panels and cameras shown
          NoPanel,
          Frames,     \* frames, as sequences of bytes
          ReadMax     \* size of the buffer of the decoder task (100 KB)

ASSUME PanelsAssumption == NoPanel \notin Panels
ASSUME FramesAssumption == \A f \in Frames : f \in Seq(Nat) /\ f # <<>>
ASSUME ReadAssumption == ReadMax \in Nat \ {0}

VARIABLES run,        \* video_decode_run
          threadRun,  \* video_decode_thread_run
          ready,      \* video_decode_ready
          pc,         \* statement of video_decode_task
          session,    \* the panel the decoder was opened for
          feedTask,   \* networK_video_receive_task_run
          feedPc,     \* statement of the receive thread
          feeder,     \* the panel it has joined
          frame,      \* the frame it is pushing
          ui,         \* what the LVGL thread is doing
          want,       \* monitor_channel
          tardy       \* history: opening did not wait for the end of the receive thread
vars == <<ring, out, run, threadRun, ready, pc, session, feedTask, feedPc, feeder, frame,
          ui, want, tardy>>
decoder == <<run, threadRun, ready, pc, session>>
feed == <<feedTask, feedPc, feeder, frame>>
screen == <<ui, want, tardy>>

Byte(p, v) == [from |-> p, value |-> v]
Chunk(p, f) == [i \in DOMAIN f |-> Byte(p, f[i])]
Chunks == {Chunk(p, f) : p \in Panels, f \in Frames}

Init ==
  /\ head = FALSE /\ cells = [c \in Addresses |-> Junk]
  /\ rAddr = 0 /\ wAddr = 0 /\ cacheLen = 0 /\ out = <<>>
  /\ run = FALSE /\ threadRun = FALSE /\ ready = FALSE /\ pc = "none" /\ session = NoPanel
  /\ feedTask = FALSE /\ feedPc = "none" /\ feeder = NoPanel /\ frame = <<>>
  /\ ui = "idle" /\ want = NoPanel /\ tardy = FALSE

-----------------------------------------------------------------------------
(* The LVGL thread.                                                        *)

\* monitor_reset: decoder and receiver are told to stop.
Reset == run' = FALSE /\ feedTask' = FALSE

MonitorOpen(p) ==
  /\ ui = "idle" /\ pc # "begin"
  /\ Reset
  /\ ui' = "feed" /\ want' = p
  /\ UNCHANGED <<ring, out, threadRun, ready, pc, session, feedPc, feeder, frame, tardy>>

MonitorClose ==
  /\ ui = "idle" /\ pc # "begin"
  /\ Reset
  /\ want' = NoPanel
  /\ UNCHANGED <<ring, out, threadRun, ready, pc, session, feedPc, feeder, frame, ui, tardy>>

\* (variant of FeedOpen: the old receive thread is not waited for, and goes on)
FeedOpenAtOnce ==
  /\ ui = "feed"
  /\ ui' = "decode"
  /\ feedTask' = TRUE
  /\ IF feedPc = "none" THEN feedPc' = "loop" /\ feeder' = want
                        ELSE UNCHANGED <<feedPc, feeder>>
  /\ UNCHANGED <<ring, out, decoder, frame, want, tardy>>

\* network_video_receive_package_open, after the old receive thread
FeedOpen ==
  /\ ui = "feed" /\ feedPc = "none"
  /\ ui' = "decode"
  /\ feedTask' = TRUE /\ feedPc' = "loop" /\ feeder' = want
  /\ UNCHANGED <<ring, out, decoder, frame, want, tardy>>

\* ... or without success when it is still there after three seconds; monitor_open
\* goes on.
FeedGivesUp ==
  /\ ui = "feed" /\ feedPc # "none"
  /\ ui' = "decode" /\ tardy' = TRUE
  /\ UNCHANGED <<ring, out, decoder, feed, want>>

\* video_decode_open, in the same way
DecodeOpen ==
  /\ ui = "decode" /\ ~threadRun
  /\ ui' = "idle"
  /\ ready' = FALSE /\ run' = TRUE
  /\ pc' = "begin" /\ session' = want
  /\ UNCHANGED <<ring, out, threadRun, feed, want, tardy>>

DecodeGivesUp ==
  /\ ui = "decode" /\ threadRun
  /\ ui' = "idle"
  /\ UNCHANGED <<ring, out, decoder, feed, want, tardy>>

-----------------------------------------------------------------------------
(* The receive thread.                                                     *)

\* A frame is complete.
FeedReceive ==
  /\ feedPc = "loop" /\ feedTask
  /\ feedPc' = "received"
  /\ \E f \in Frames : frame' = Chunk(feeder, f)
  /\ UNCHANGED <<ring, out, decoder, feedTask, feeder, screen>>

\* video_decode_push looks at two flags ...
PushCheck ==
  /\ feedPc = "received"
  /\ IF run /\ ready THEN feedPc' = "checked" /\ UNCHANGED frame
                     ELSE feedPc' = "loop" /\ frame' = <<>>
  /\ UNCHANGED <<ring, out, decoder, feedTask, feeder, screen>>

\* ... and writes later.
PushWrite ==
  /\ feedPc = "checked"
  /\ Write(frame)
  /\ feedPc' = "loop" /\ frame' = <<>>
  /\ UNCHANGED <<out, decoder, feedTask, feeder, screen>>

FeedEnd ==
  /\ feedPc = "loop" /\ ~feedTask
  /\ feedPc' = "none" /\ feeder' = NoPanel
  /\ UNCHANGED <<ring, out, decoder, feedTask, frame, screen>>

-----------------------------------------------------------------------------
(* The decoder task.                                                       *)

Goto(from, to) == pc = from /\ pc' = to

Begin ==
  /\ Goto("begin", "open")
  /\ threadRun' = TRUE
  /\ UNCHANGED <<ring, out, run, ready, session, feed, screen>>

\* video_decode_device_open: when the decoder cannot be opened there is no ring,
\* and the task goes on.
DeviceOpen ==
  /\ Goto("open", "opened")
  /\ Allocate \/ UNCHANGED ring
  /\ UNCHANGED <<out, run, threadRun, ready, session, feed, screen>>

Serve ==
  /\ Goto("opened", "loop")
  /\ ready' = TRUE
  /\ UNCHANGED <<ring, out, run, threadRun, session, feed, screen>>

LoopTest ==
  /\ run /\ Goto("loop", "read")
  /\ UNCHANGED <<ring, out, run, threadRun, ready, session, feed, screen>>

ReadRing ==
  /\ Goto("read", "loop")
  /\ Read(ReadMax)
  /\ UNCHANGED <<run, threadRun, ready, session, feed, screen>>

Stop ==
  /\ ~run /\ Goto("loop", "stopped")
  /\ ready' = FALSE
  /\ UNCHANGED <<ring, out, run, threadRun, session, feed, screen>>

\* The stream is ended and the device closed.
DeviceClose ==
  /\ Goto("stopped", "closed")
  /\ Free /\ out' = <<>>
  /\ UNCHANGED <<run, threadRun, ready, session, feed, screen>>

Exit ==
  /\ Goto("closed", "none")
  /\ threadRun' = FALSE
  /\ UNCHANGED <<ring, out, run, ready, session, feed, screen>>

-----------------------------------------------------------------------------
Screen == (\E p \in Panels : MonitorOpen(p)) \/ MonitorClose \/ FeedOpen \/ FeedGivesUp
          \/ DecodeOpen \/ DecodeGivesUp
Feed == FeedReceive \/ PushCheck \/ PushWrite \/ FeedEnd
Task == Begin \/ DeviceOpen \/ Serve \/ LoopTest \/ ReadRing \/ Stop \/ DeviceClose \/ Exit

Next == Screen \/ Feed \/ Task

Spec == Init /\ [][Next]_vars

-----------------------------------------------------------------------------
(* Properties.                                                             *)

Bytes == [from : Panels, value : Nat]

\* Every variable has its type (video_decode.c, ring_buffer.c).
TypeOK ==
  /\ head \in BOOLEAN /\ cells \in [Addresses -> Bytes \cup {Junk}]
  /\ rAddr \in 0 .. RingLen /\ wAddr \in 0 .. RingLen /\ cacheLen \in 0 .. RingLen
  /\ run \in BOOLEAN /\ threadRun \in BOOLEAN /\ ready \in BOOLEAN
  /\ pc \in {"none", "begin", "open", "opened", "loop", "read", "stopped", "closed"}
  /\ session \in Panels \cup {NoPanel} /\ feeder \in Panels \cup {NoPanel}
  /\ want \in Panels \cup {NoPanel}
  /\ feedTask \in BOOLEAN /\ feedPc \in {"none", "loop", "received", "checked"}
  /\ frame \in Chunks \cup {<<>>}
  /\ ui \in {"idle", "feed", "decode"} /\ tardy \in BOOLEAN

\* The bytes reach the decoder in the order the frames were pushed, each once, and
\* memory that was never written is never read, however the two addresses are
\* folded and the reader is overtaken.
Fifo == INSTANCE ByteFifo WITH Size <- RingLen, cache <- Cache
IsByteFifo == Fifo!Spec

\* After a change of panel the decoder is given nothing of the panel before,
\* although a frame may be between the two flags and the ring at any time: the old
\* receive thread is waited for before the decoder is opened (unless that took too
\* long).
OwnPicture == ~tardy => \A i \in DOMAIN out : out[i].from = session
=============================================================================
