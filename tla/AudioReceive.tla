---------------------------- MODULE AudioReceive ----------------------------
(***************************************************************************)
(* The receiving half of the call audio: a thread that receives the frames *)
(* of the other side (network_audio_package.c) and a worker that writes    *)
(* them to the speaker (audio_decode.c), as leo_monitor.c opens and closes *)
(* them.  Both threads are ended by a flag and set a flag when they end;   *)
(* the worker is also told "ready", by the thread that opens a call and by *)
(* itself.  Calls follow each other with different devices.                *)
(*                                                                         *)
(* A frame is the group it was sent to.  It fits into a datagram; VideoIn  *)
(* is about frames that do not.  While the phone application listens it    *)
(* gets the frames instead of the speaker, and a worker that is behind     *)
(* drops some: the model lets either happen at any time.                   *)
(***************************************************************************)
EXTENDS Integers, Sequences, FiniteSets

CONSTANTS Groups,       \* multicast addresses of the devices a call can be with
          NoGroup,
          Threads,      \* identities for created threads
          QueueMax      \* AUDIO_DECODE_QUEUE_MAX (8)

ASSUME GroupsAssumption == NoGroup \notin Groups
ASSUME QueueAssumption == QueueMax \in Nat \ {0}
ASSUME ThreadsAssumption == IsFiniteSet(Threads)

VARIABLES
  group,      \* network_audio_group_ip
  status,     \* audio_talk_status
  opener,     \* where the LVGL thread is in audio_talk_open or audio_play_open
  want,       \* the device and the kind of the call that is opened
  inTask,     \* networK_audio_receive_task_run
  inRun,      \* network_audio_receive_thread_run
  inPc,       \* statement of network_audio_receive_package_task, by thread
  socket,     \* the group audio_package_receive_fd has joined
  frame,      \* receive_frame_buffer, by thread
  task,       \* audio_decode_task_run
  run,        \* audio_decode_thread_run
  ready,      \* audio_decode_ready
  pc,         \* statement of audio_decode_task, by thread
  node,       \* the node it has taken, by thread
  queue,      \* audio_decode_queue_head
  late,       \* history: a call was closed before its threads had begun
  tardy       \* history: an open gave up before the thread it waits for had ended
audioVars == <<group, status, opener, want, inTask, inRun, inPc, socket, frame,
               task, run, ready, pc, node, queue, late, tardy>>
client == <<status, opener, want>>
incoming == <<inTask, inRun, inPc, socket, frame>>
decoder == <<task, run, ready, pc, node, queue>>
history == <<late, tardy>>

InSteps == {"none", "begin", "join", "loop", "frame", "exit"}
Steps == {"none", "begin", "loop", "write", "mute", "exit"}
Nothing == [to |-> NoGroup, mobile |-> FALSE]
ByThread(x) == [t \in Threads |-> x]

AudioInit ==
  /\ group = NoGroup /\ status = FALSE /\ opener = "idle" /\ want = Nothing
  /\ inTask = FALSE /\ inRun = FALSE /\ inPc = ByThread("none")
  /\ socket = NoGroup /\ frame = ByThread(NoGroup)
  /\ task = FALSE /\ run = FALSE /\ ready = FALSE /\ pc = ByThread("none")
  /\ node = ByThread(NoGroup)
  /\ queue = <<>>
  /\ late = FALSE /\ tardy = FALSE

-----------------------------------------------------------------------------
(* The LVGL thread.  Every open waits up to three seconds for the thread of *)
(* the last call and then gives up; audio_talk_open does not look at what   *)
(* an open returns.  A wait may end either way as long as the thread runs.  *)

\* Every thread has ended ...
Ended == \A t \in Threads : inPc[t] = "none" /\ pc[t] = "none"

\* ... and nothing is left of the calls before: what went wrong in them is over.
Quiet == Ended /\ queue = <<>> /\ ~ready

\* audio_talk_open with a device
TalkOpen(g, mobile) ==
  /\ opener = "idle" /\ ~status
  /\ want' = [to |-> g, mobile |-> mobile]
  /\ opener' = "receive"
  /\ late' = (late /\ ~Quiet) /\ tardy' = (tardy /\ ~Quiet)
  /\ UNCHANGED <<group, status, incoming, decoder>>

\* The decoder follows, unless the application calls: then the talk is open.
ReceiveAsked ==
  /\ opener' = IF want.mobile THEN "idle" ELSE "decode"
  /\ status' = want.mobile
  /\ want' = [want EXCEPT !.to = NoGroup]

\* network_audio_receive_package_open; the sending half is opened as well, and a
\* call of the application has no worker.
ReceiveOpen(t) ==
  /\ opener = "receive" /\ ~inTask /\ ~inRun
  /\ inPc[t] = "none"
  /\ group' = want.to
  /\ inTask' = TRUE
  /\ inPc' = [inPc EXCEPT ![t] = "begin"]
  /\ ReceiveAsked
  /\ UNCHANGED <<inRun, socket, frame, decoder, history>>

\* ... or refuses; the sending half copies the address unless it refuses as well.
ReceiveRefused ==
  /\ opener = "receive" /\ (inTask \/ inRun)
  /\ group' \in {group, want.to}
  /\ ReceiveAsked
  /\ tardy' = TRUE
  /\ UNCHANGED <<incoming, decoder, late>>

\* (variant of DecodeOpen: the worker of the last call is not waited for)
DecodeOpenAtOnce(t) ==
  /\ opener = "decode" /\ ~task
  /\ pc[t] = "none"
  /\ task' = TRUE
  /\ ready' = FALSE
  /\ pc' = [pc EXCEPT ![t] = "begin"]
  /\ opener' = "start"
  /\ UNCHANGED <<group, status, want, incoming, run, node, queue, history>>

\* audio_decode_open ...
DecodeOpen(t) ==
  /\ opener = "decode" /\ ~task /\ ~run
  /\ pc[t] = "none"
  /\ task' = TRUE
  /\ ready' = FALSE
  /\ pc' = [pc EXCEPT ![t] = "begin"]
  /\ opener' = "start"
  /\ UNCHANGED <<group, status, want, incoming, run, node, queue, history>>

\* ... which refuses while a worker is wanted ...
DecodeIsOpen ==
  /\ opener = "decode" /\ task
  /\ opener' = "start"
  /\ UNCHANGED <<group, status, want, incoming, decoder, history>>

\* ... and when the last one has not ended: the start that follows makes it ready.
DecodeTimeout ==
  /\ opener = "decode" /\ ~task /\ run
  /\ opener' = "start"
  /\ tardy' = TRUE
  /\ UNCHANGED <<group, status, want, incoming, decoder, late>>

\* audio_decode_start, without a mutex, and the end of the open
DecodeStart ==
  /\ opener = "start"
  /\ ready' = TRUE
  /\ opener' = "idle" /\ status' = TRUE
  /\ UNCHANGED <<group, want, incoming, task, run, pc, node, queue, history>>

\* audio_play_open: the talk button while a recording has opened the call
PlayOpen ==
  /\ opener = "idle" /\ status
  /\ opener' = "decode"
  /\ want' = Nothing
  /\ UNCHANGED <<group, status, incoming, decoder, history>>

\* audio_talk_close.  A thread that has not begun yet is missed by the wait of the
\* next open, and runs beside the thread that open creates.
TalkClose ==
  /\ opener = "idle" /\ status
  /\ inTask' = FALSE /\ task' = FALSE
  /\ status' = FALSE
  /\ late' = (late \/ \E t \in Threads : inPc[t] = "begin" \/ pc[t] = "begin")
  /\ want' = Nothing
  /\ UNCHANGED <<group, opener, inRun, inPc, socket, frame, run, ready,
                 pc, node, queue, tardy>>

-----------------------------------------------------------------------------
(* The thread network_audio_receive_package_task.                          *)

InGoto(t, from, to) == inPc[t] = from /\ inPc' = [inPc EXCEPT ![t] = to]

InBegin(t) ==
  /\ InGoto(t, "begin", "join")
  /\ inRun' = TRUE
  /\ UNCHANGED <<group, client, inTask, socket, frame, decoder, history>>

\* network_audio_receive_socket_open, which keeps a socket that is open
Join(t) ==
  /\ InGoto(t, "join", "loop")
  /\ socket' = IF socket = NoGroup THEN group ELSE socket
  /\ UNCHANGED <<group, client, inTask, inRun, frame, decoder, history>>

\* A frame arrives.
Arrive(t) ==
  /\ inTask /\ socket # NoGroup
  /\ InGoto(t, "loop", "frame")
  /\ frame' = [frame EXCEPT ![t] = socket]
  /\ UNCHANGED <<group, client, inTask, inRun, socket, decoder, history>>

\* A client of the application is on line and has entered: it gets the frame.
ToApplication(t) ==
  /\ InGoto(t, "frame", "loop")
  /\ frame' = [frame EXCEPT ![t] = NoGroup]
  /\ UNCHANGED <<group, client, inTask, inRun, socket, decoder, history>>

\* A node of the pool is free: the others are queued or with a worker.
Room == Len(queue) + Cardinality({t \in Threads : node[t] # NoGroup}) < QueueMax

\* (variant of Push: without a look at the pool)
PushMore(t) ==
  /\ InGoto(t, "frame", "loop")
  /\ frame' = [frame EXCEPT ![t] = NoGroup]
  /\ queue' = IF ready THEN Append(queue, frame[t]) ELSE queue
  /\ UNCHANGED <<group, client, inTask, inRun, socket,
                 task, run, ready, pc, node, history>>

\* audio_decode_queue_push, under the mutex of the queue
Push(t) ==
  /\ InGoto(t, "frame", "loop")
  /\ frame' = [frame EXCEPT ![t] = NoGroup]
  /\ queue' = IF ready /\ Room THEN Append(queue, frame[t]) ELSE queue
  /\ UNCHANGED <<group, client, inTask, inRun, socket,
                 task, run, ready, pc, node, history>>

InStop(t) ==
  /\ ~inTask
  /\ InGoto(t, "loop", "exit")
  /\ socket' = NoGroup
  /\ UNCHANGED <<group, client, inTask, inRun, frame, decoder, history>>

InExit(t) ==
  /\ InGoto(t, "exit", "none")
  /\ inRun' = FALSE
  /\ UNCHANGED <<group, client, inTask, socket, frame, decoder, history>>

-----------------------------------------------------------------------------
(* The worker audio_decode_task.                                           *)

PcGoto(t, from, to) == pc[t] = from /\ pc' = [pc EXCEPT ![t] = to]

Begin(t) ==
  /\ PcGoto(t, "begin", "loop")
  /\ run' = TRUE
  /\ UNCHANGED <<group, client, incoming, task, ready, node, queue, history>>

Take(t) ==
  /\ task /\ queue # <<>>
  /\ PcGoto(t, "loop", "write")
  /\ node' = [node EXCEPT ![t] = Head(queue)]
  /\ queue' = Tail(queue)
  /\ UNCHANGED <<group, client, incoming, task, run, ready, history>>

\* The frame is written if the worker is ready and not behind; the node is given back.
Plays(t) == pc[t] = "write" /\ ready
Write(t) ==
  /\ PcGoto(t, "write", "loop")
  /\ node' = [node EXCEPT ![t] = NoGroup]
  /\ UNCHANGED <<group, client, incoming, task, run, ready, queue, history>>

\* (variant of Stop: the worker looks at the wrong flag)
StopUnready(t) ==
  /\ ~ready
  /\ PcGoto(t, "loop", "mute")
  /\ UNCHANGED <<group, client, incoming, task, run, ready, node, queue, history>>

\* The end of the loop, and silence for the speaker
Stop(t) ==
  /\ ~task
  /\ PcGoto(t, "loop", "mute")
  /\ UNCHANGED <<group, client, incoming, task, run, ready, node, queue, history>>

\* (variant of Drain: the queue is left)
DrainNothing(t) ==
  /\ PcGoto(t, "mute", "exit")
  /\ ready' = FALSE
  /\ UNCHANGED <<group, client, incoming, task, run, node, queue, history>>

\* Under the mutex of the queue
Drain(t) ==
  /\ PcGoto(t, "mute", "exit")
  /\ ready' = FALSE
  /\ queue' = <<>>
  /\ UNCHANGED <<group, client, incoming, task, run, node, history>>

Exit(t) ==
  /\ PcGoto(t, "exit", "none")
  /\ run' = FALSE
  /\ UNCHANGED <<group, client, incoming, task, ready, node, queue, history>>

-----------------------------------------------------------------------------
Opening == ReceiveRefused \/ DecodeIsOpen \/ DecodeTimeout \/ DecodeStart
           \/ \E t \in Threads : ReceiveOpen(t) \/ DecodeOpen(t)
Receiver(t) == InBegin(t) \/ Join(t) \/ Arrive(t) \/ ToApplication(t) \/ Push(t)
               \/ InStop(t) \/ InExit(t)
Worker(t) == Begin(t) \/ Take(t) \/ Write(t) \/ Stop(t) \/ Drain(t)
             \/ Exit(t)

AudioNext ==
  \/ \E g \in Groups, mobile \in BOOLEAN : TalkOpen(g, mobile)
  \/ Opening \/ PlayOpen \/ TalkClose
  \/ \E t \in Threads : Receiver(t) \/ Worker(t)

AudioSpec == AudioInit /\ [][AudioNext]_audioVars

\* Threads run, an open goes on.
FairAudioSpec ==
  /\ AudioSpec
  /\ WF_audioVars(Opening)
  /\ \A t \in Threads : WF_audioVars(Receiver(t)) /\ WF_audioVars(Worker(t))

-----------------------------------------------------------------------------
(* Properties.                                                             *)

\* Every variable has its type (the statics of the two files).
AudioTypeOK ==
  /\ group \in Groups \cup {NoGroup} /\ socket \in Groups \cup {NoGroup}
  /\ status \in BOOLEAN
  /\ opener \in {"idle", "receive", "decode", "start"}
  /\ want \in [to : Groups \cup {NoGroup}, mobile : BOOLEAN]
  /\ inTask \in BOOLEAN /\ inRun \in BOOLEAN
  /\ inPc \in [Threads -> InSteps]
  /\ frame \in [Threads -> Groups \cup {NoGroup}]
  /\ task \in BOOLEAN /\ run \in BOOLEAN /\ ready \in BOOLEAN
  /\ pc \in [Threads -> Steps]
  /\ node \in [Threads -> Groups \cup {NoGroup}]
  /\ late \in BOOLEAN /\ tardy \in BOOLEAN
  /\ queue \in Seq(Groups) /\ Len(queue) <= QueueMax

\* In a call nothing is heard of the device of the call before: neither from its
\* receiver, nor from the queue, nor from its worker.  A thread that was late or an
\* open that gave up may break this, until everything was quiet once.
OnTime == ~late /\ ~tardy
PlaysOwn ==
  \A t \in Threads : Plays(t) /\ (status \/ opener # "idle") /\ task => node[t] = group
OwnVoice == OnTime => PlaysOwn

\* A call that is open hears the other side: it has a receiver and, unless it is
\* one of the application, a worker that goes on and a queue that accepts frames,
\* whatever the threads of the calls before still do to the flags.
Hearing ==
  status /\ opener = "idle" =>
    /\ inTask /\ \E t \in Threads : inPc[t] \in {"begin", "join", "loop", "frame"}
    /\ ~want.mobile => /\ ready /\ task
                       /\ \E t \in Threads : pc[t] \in {"begin", "loop", "write"}
NotDeaf == OnTime => Hearing

\* After a call its threads end, late or not, and unless an open gave up they leave
\* nothing for the next call.
CallsEnd == ~status ~> (status \/ (Ended /\ (tardy \/ Quiet)))
=============================================================================
