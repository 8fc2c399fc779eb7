------------------------------ MODULE AudioSend ------------------------------
(***************************************************************************)
(* The sending half of the call audio (api/network/network_audio_package.c *)
(* lines 40-423) as api/common/leo_monitor.c drives it.                    *)
(*                                                                         *)
(* The user-interface thread opens and closes the sender, the capture      *)
(* thread (or the Tuya thread) pushes frames, and a worker thread takes    *)
(* them from a queue and sends them to the multicast group of the device   *)
(* the call is with.  Frames live in a fixed pool of nodes that move from  *)
(* the free queue to the head queue, into the worker's hand and back.      *)
(***************************************************************************)
EXTENDS Integers, Sequences, Functions

CONSTANTS
  PackageMax, \* AUDIO_QUEUE_PACKAGE_MAX, the size of the pool (64)
  Threads,    \* identities for created threads; bounds how many live at once
  Groups,     \* multicast addresses of the devices a call can be with
  NoGroup     \* a node whose data was freed (package.data == NULL)

ASSUME PackageMaxAssumption == PackageMax \in Nat \ {0}
ASSUME GroupsAssumption     == NoGroup \notin Groups

Nodes  == 1..PackageMax   \* network_audio_package_buffer, in index order
NoNode == 0               \* node == NULL

VARIABLES
  taskRun,    \* networK_audio_send_task_run
  threadRun,  \* network_audio_send_thread_run
  ready,      \* network_audio_send_ready
  sock,       \* audio_package_send_fd # -1
  group,      \* network_audio_group_ip, shared with the receiving half
  free,       \* network_audio_send_queue_free
  head,       \* network_audio_send_queue_head
  payload,    \* node -> the group its frame was captured for
  pc,         \* thread -> the statement of the worker it is at
  hand,       \* thread -> the local variable `node'
  target,     \* thread -> the group it was created for (history only)
  status,     \* audio_talk_status of leo_monitor.c
  opener,     \* where the user-interface thread is inside audio_talk_open
  want,       \* eth_ip, the argument of the open in progress
  late        \* some thread had not run its first statement when its creator
              \* closed the sender again (history only)

vars == <<taskRun, threadRun, ready, sock, group, free, head, payload,
          pc, hand, target, status, opener, want, late>>

flags   == <<taskRun, threadRun, ready, sock, group>>
queues  == <<free, head, payload>>
threads == <<pc, hand, target>>
client  == <<status, opener, want, late>>

\* Statements of the worker while it may still take frames, and afterwards.
Serving  == {"loop", "take", "send", "del", "stop"}
Stopping == {"micClose", "drain"}
AllPCs   == {"none", "created", "socket", "exit"} \union Serving \union Stopping

Live(t) == pc[t] # "none"
Goto(t, from, to) == pc[t] = from /\ pc' = [pc EXCEPT ![t] = to]

\* queue.c: nodes with no data, as network_audio_send_package_queue_del
\* leaves each of them.
Cleared(ns) == [n \in Nodes |-> IF n \in ns THEN NoGroup ELSE payload[n]]

TypeOK ==
  /\ taskRun \in BOOLEAN /\ threadRun \in BOOLEAN /\ ready \in BOOLEAN
  /\ sock \in BOOLEAN /\ status \in BOOLEAN /\ late \in BOOLEAN
  /\ group \in Groups \union {NoGroup}
  /\ free \in Seq(Nodes) /\ head \in Seq(Nodes)
  /\ payload \in [Nodes -> Groups \union {NoGroup}]
  /\ pc \in [Threads -> AllPCs]
  /\ hand \in [Threads -> Nodes \union {NoNode}]
  /\ target \in [Threads -> Groups \union {NoGroup}]
  /\ opener \in {"idle", "check", "wait", "create"}
  /\ want \in Groups \union {NoGroup}

Init ==
  /\ taskRun = FALSE /\ threadRun = FALSE /\ ready = FALSE /\ sock = FALSE
  /\ group = NoGroup
  /\ free = [i \in 1..PackageMax |-> i]
  /\ head = <<>>
  /\ payload = [n \in Nodes |-> NoGroup]
  /\ pc = [t \in Threads |-> "none"]
  /\ hand = [t \in Threads |-> NoNode]
  /\ target = [t \in Threads |-> NoGroup]
  /\ status = FALSE /\ opener = "idle" /\ want = NoGroup /\ late = FALSE

-----------------------------------------------------------------------------
(* The user-interface thread.                                              *)

\* audio_talk_open up to the call of the sender: the receiving half is opened
\* first and copies the address into the shared network_audio_group_ip, unless
\* it refuses.
TalkOpen(g) ==
  /\ opener = "idle" /\ status = FALSE
  /\ group' \in {group, g}
  /\ want' = g
  /\ opener' = "check"
  /\ UNCHANGED <<taskRun, threadRun, ready, sock, queues, threads, status, late>>

\* audio_talk_open ignores what the sender answers.
TalkOpened ==
  opener' = "idle" /\ status' = TRUE /\ want' = NoGroup /\ UNCHANGED late

OpenCheck ==
  /\ opener = "check"
  /\ IF taskRun THEN TalkOpened
                ELSE opener' = "wait" /\ UNCHANGED <<status, want, late>>
  /\ UNCHANGED <<flags, queues, threads>>

\* Variant: does not look at the flag of the old thread.
WaitNothing ==
  /\ opener = "wait"
  /\ opener' = "create"
  /\ UNCHANGED <<flags, queues, threads, status, want, late>>

\* 300 rounds of 10 ms; it may see the flag cleared in any of them.
WaitThreadQuit ==
  /\ opener = "wait" /\ threadRun = FALSE
  /\ opener' = "create"
  /\ UNCHANGED <<flags, queues, threads, status, want, late>>

WaitTimeout ==
  /\ opener = "wait" /\ threadRun = TRUE
  /\ TalkOpened
  /\ UNCHANGED <<flags, queues, threads>>

OpenCreate(t) ==
  /\ opener = "create" /\ pc[t] = "none"
  /\ group' = want
  /\ taskRun' = TRUE
  /\ pc' = [pc EXCEPT ![t] = "created"]
  /\ target' = [target EXCEPT ![t] = want]
  /\ TalkOpened
  /\ UNCHANGED <<threadRun, ready, sock, queues, hand>>

\* audio_talk_close; network_audio_send_package_close itself returns early
\* when the task is not running.
TalkClose ==
  /\ opener = "idle" /\ status = TRUE
  /\ taskRun' = FALSE
  /\ status' = FALSE
  /\ late' = (late \/ \E t \in Threads : pc[t] = "created")
  /\ UNCHANGED <<threadRun, ready, sock, group, queues, threads, opener, want>>

-----------------------------------------------------------------------------
(* The capture thread.  Push holds the head mutex from its first statement *)
(* to its last; the free mutex is taken inside it.                         *)

QueueNew ==
  /\ free # <<>>
  /\ free' = Tail(free)
  /\ payload' = [payload EXCEPT ![Head(free)] = group]

\* Variant: the new frame goes to the wrong end of the queue.
PushFront ==
  /\ ready = TRUE
  /\ QueueNew
  /\ head' = <<Head(free)>> \o head
  /\ UNCHANGED <<flags, threads, client>>

Push ==
  /\ ready = TRUE
  /\ QueueNew
  /\ head' = Append(head, Head(free))
  /\ UNCHANGED <<flags, threads, client>>

-----------------------------------------------------------------------------
(* The worker thread network_audio_send_package_task.                      *)

ThreadBegin(t) ==
  /\ Goto(t, "created", "socket")
  /\ threadRun' = TRUE
  /\ UNCHANGED <<taskRun, ready, sock, group, queues, hand, target, client>>

ThreadReady(t) ==
  /\ Goto(t, "socket", "loop")
  /\ sock' = TRUE
  /\ ready' = TRUE
  /\ UNCHANGED <<taskRun, threadRun, group, queues, hand, target, client>>

LoopTest(t) ==
  /\ Goto(t, "loop", IF taskRun THEN "take" ELSE "stop")
  /\ UNCHANGED <<flags, queues, hand, target, client>>

\* Variant: the newest frame is taken.
TakeNewest(t) ==
  /\ head # <<>>
  /\ Goto(t, "take", "send")
  /\ hand' = [hand EXCEPT ![t] = head[Len(head)]]
  /\ head' = SubSeq(head, 1, Len(head) - 1)
  /\ UNCHANGED <<flags, free, payload, target, client>>

Take(t) ==
  /\ head # <<>>
  /\ Goto(t, "take", "send")
  /\ hand' = [hand EXCEPT ![t] = Head(head)]
  /\ head' = Tail(head)
  /\ UNCHANGED <<flags, free, payload, target, client>>

TakeNothing(t) ==
  /\ head = <<>>
  /\ Goto(t, "take", "loop")
  /\ UNCHANGED <<flags, queues, hand, target, client>>

SendPackage(t) ==
  /\ Goto(t, "send", "del")
  /\ UNCHANGED <<flags, queues, hand, target, client>>

\* Variant: the pointer is cleared before the node is inserted.
QueueDelCleared(t) ==
  /\ Goto(t, "del", "loop")
  /\ payload' = Cleared({hand[t]})
  /\ hand' = [hand EXCEPT ![t] = NoNode]
  /\ free' = Append(free, hand'[t])
  /\ UNCHANGED <<flags, head, target, client>>

QueueDel(t) ==
  /\ Goto(t, "del", "loop")
  /\ payload' = Cleared({hand[t]})
  /\ free' = Append(free, hand[t])
  /\ hand' = [hand EXCEPT ![t] = NoNode]
  /\ UNCHANGED <<flags, head, target, client>>

StopStillReady(t) ==
  /\ Goto(t, "stop", "micClose")
  /\ UNCHANGED <<flags, queues, hand, target, client>>

StopReady(t) ==
  /\ Goto(t, "stop", "micClose")
  /\ ready' = FALSE
  /\ UNCHANGED <<taskRun, threadRun, sock, group, queues, hand, target, client>>

\* audio_input_close (the microphone is another component), socket_close.
SocketClose(t) ==
  /\ Goto(t, "micClose", "drain")
  /\ sock' = FALSE
  /\ UNCHANGED <<taskRun, threadRun, ready, group, queues, hand, target, client>>

\* Variants: the queue is not released; its nodes are not given back.
ReleaseNone(t) ==
  /\ Goto(t, "drain", "exit")
  /\ UNCHANGED <<flags, queues, hand, target, client>>

ReleaseLost(t) ==
  /\ Goto(t, "drain", "exit")
  /\ payload' = Cleared(Range(head))
  /\ head' = <<>>
  /\ UNCHANGED <<flags, free, hand, target, client>>

\* network_audio_send_release_all: the head mutex is held throughout.
ReleaseAll(t) ==
  /\ Goto(t, "drain", "exit")
  /\ free' = free \o head
  /\ payload' = Cleared(Range(head))
  /\ head' = <<>>
  /\ UNCHANGED <<flags, hand, target, client>>

ThreadExit(t) ==
  /\ Goto(t, "exit", "none")
  /\ threadRun' = FALSE
  /\ UNCHANGED <<taskRun, ready, sock, group, queues, hand, target, client>>

Worker(t) ==
  \/ ThreadBegin(t) \/ ThreadReady(t) \/ LoopTest(t)
  \/ Take(t) \/ TakeNothing(t) \/ SendPackage(t) \/ QueueDel(t)
  \/ StopReady(t) \/ SocketClose(t) \/ ReleaseAll(t) \/ ThreadExit(t)

Open ==
  \/ OpenCheck \/ WaitThreadQuit \/ WaitTimeout
  \/ \E t \in Threads : OpenCreate(t)

Next ==
  \/ \E g \in Groups : TalkOpen(g)
  \/ Open
  \/ TalkClose
  \/ Push
  \/ \E t \in Threads : Worker(t)

Spec == Init /\ [][Next]_vars

\* The scheduler runs every runnable thread again and again; nobody owes the
\* sender a push, an open or a close.
Fairness ==
  /\ \A t \in Threads : WF_vars(Worker(t))
  /\ WF_vars(Open)

FairSpec == Spec /\ Fairness

-----------------------------------------------------------------------------
(* Properties.                                                             *)

\* Every node of network_audio_package_buffer is in exactly one place: the
\* free queue, the head queue or one thread's hand.  A node lost by an early
\* return or inserted twice would shrink or corrupt the pool for good.
NodeConservation ==
  /\ \A i, j \in DOMAIN free : free[i] = free[j] => i = j
  /\ \A i, j \in DOMAIN head : head[i] = head[j] => i = j
  /\ \A i \in DOMAIN free, j \in DOMAIN head : free[i] # head[j]
  /\ \A t \in Threads : hand[t] \notin Range(free) \union Range(head)
  /\ \A t, u \in Threads : t # u /\ hand[t] # NoNode => hand[t] # hand[u]
  /\ \A n \in Nodes : \/ n \in Range(free) \/ n \in Range(head)
                      \/ \E t \in Threads : hand[t] = n

\* Whatever the order of opens, closes and thread starts, once every worker
\* is gone no push is accepted any more and no accepted frame is left to be
\* sent in the next call.
NothingStranded ==
  (\A t \in Threads : ~Live(t)) => ready = FALSE /\ head = <<>>

\* The data of a queued frame is there until the frame is sent, and a free
\* node holds none (package.data is freed exactly once).
PayloadOwned ==
  /\ \A n \in Range(head) : payload[n] # NoGroup
  /\ \A n \in Range(free) : payload[n] = NoGroup
  /\ \A t \in Threads : hand[t] # NoNode => payload[hand[t]] # NoGroup

\* Two workers never run at once - the sender is reopened only when the worker
\* of the previous call has finished - unless a thread was late to start.
OneWorker == ~late => \A t, u \in Threads : Live(t) /\ Live(u) => t = u

\* A worker that is taking frames belongs to a sender that accepts them and
\* has a socket: an open call is never mute because of the previous one.
ServingIsReady ==
  ~late => \A t \in Threads : pc[t] \in Serving => ready = TRUE /\ sock = TRUE

\* While a call is on, its worker sends only frames captured for that call's
\* address, although address, queues and flags are shared by all calls.  (The
\* worker of a call that is already closed may send one frame of the old call
\* to the address of the next: the receiving half has overwritten it.)
OwnCallFrames ==
  ~late => \A t \in Threads :
    pc[t] = "send" /\ payload[hand[t]] # group => taskRun = FALSE

\* network_audio_package.c:378 waits for the old thread and returns false if
\* it has not quit, so no thread is created while another one is alive.
CreateAfterQuit ==
  [][\A t \in Threads : pc[t] = "none" /\ pc'[t] = "created"
       => \A u \in Threads : pc[u] = "none"]_vars

\* The sender is a frame channel: what is queued is what was accepted and is
\* not yet sent, what is delivered is what the workers have in hand.  So frames
\* leave once and in order, over close and reopen and overlapping workers.
InHand == {hand[t] : t \in Threads} \ {NoNode}
Channel == INSTANCE FrameChannel WITH
             Frames <- Nodes, channel <- head, current <- InHand
IsFrameChannel == Channel!Spec

\* An accepted frame does not stay queued for ever: it is sent or discarded.
FrameLeaves == \A n \in Nodes : n \in Range(head) ~> n \notin Range(head)

\* A closed sender's threads all finish, unless the sender is opened again.
CloseStops == (taskRun = FALSE) ~> (taskRun = TRUE \/ \A t \in Threads : ~Live(t))
=============================================================================
