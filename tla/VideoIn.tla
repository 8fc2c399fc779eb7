------------------------------ MODULE VideoIn -------------------------------
(***************************************************************************)
(* Reception of the picture of a door panel (the receiving half of         *)
(* network_video_package.c).  The panel sends each frame as UDP datagrams  *)
(* of which the first has a header with the size; the receive thread puts  *)
(* frames together and hands each to the decoder and the recorder, or, in  *)
(* a session of the phone application, to the application, from a key      *)
(* frame on.                                                               *)
(*                                                                         *)
(* A frame of n datagrams has n - 1 full ones and a tail.  Frames are      *)
(* numbered modulo Numbers; the code does not look at the number.          *)
(***************************************************************************)
EXTENDS Integers, Sequences

CONSTANTS Numbers,      \* bound: frame numbers in use, to tell frames apart
          Counts,       \* how many datagrams a frame may have
          Full,         \* data in a full datagram
          KeyMax,       \* requests for a key frame without an answer (50)
          MaxLost       \* bound: datagrams that may be lost

ASSUME NumbersAssumption == Numbers \in Nat /\ Numbers > 1
ASSUME SizesAssumption == Counts \subseteq Nat \ {0} /\ Full \in Nat \ {0}
ASSUME BoundsAssumption == KeyMax \in Nat /\ MaxLost \in Nat

VARIABLES number,     \* panel: number of the next frame
          asked,      \* panel: a request for a key frame has arrived
          wire,       \* datagrams on the way and in the socket buffer
          lost,       \* history: datagrams lost
          taskRun,    \* networK_video_receive_task_run
          threadRun,  \* network_video_receive_thread_run, socket open
          start,      \* receive_frame_start
          size,       \* receive_frame_size
          count,      \* receive_frame_count
          buffer,     \* receive_frame_buffer up to count, by datagram
          tuya,       \* the application shows this panel (two flags of its own)
          first,      \* is_first_frame_i_frame
          keyCount,   \* key_frame_count
          upload      \* the last frame given to the application
vars == <<number, asked, wire, lost, taskRun, threadRun, start, size, count, buffer,
          tuya, first, keyCount, upload>>
panel == <<number, asked>>
locals == <<start, size, count, buffer>>
gate == <<first, keyCount>>

Packets == [no : 0 .. Numbers - 1, part : Nat, len : 1 .. Full, size : Nat, key : BOOLEAN]
Uploads == [no : 0 .. Numbers - 1, key : BOOLEAN]

\* Frame k of n datagrams, the last with t units of data
Frame(k, n, t, isKey) ==
  [i \in 1 .. n |-> [no |-> k, part |-> i, len |-> IF i < n THEN Full ELSE t,
                     size |-> (n - 1) * Full + t, key |-> isKey]]
NoUpload == [no |-> 0, key |-> TRUE]

Init ==
  /\ number = 0 /\ asked = FALSE
  /\ wire = <<>> /\ lost = 0
  /\ taskRun = FALSE /\ threadRun = FALSE
  /\ start = FALSE /\ size = 0 /\ count = 0 /\ buffer = <<>>
  /\ tuya = FALSE /\ first = FALSE /\ keyCount = 0
  /\ upload = NoUpload

-----------------------------------------------------------------------------
(* The panel and the network.                                              *)

\* A frame: a key frame when one was asked for, else of either kind.
SendFrame ==
  /\ taskRun /\ wire = <<>>
  /\ \E n \in Counts, t \in 1 .. Full, isKey \in BOOLEAN :
       /\ asked => isKey
       /\ wire' = Frame(number, n, t, isKey)
  /\ number' = (number + 1) % Numbers
  /\ asked' = FALSE
  /\ UNCHANGED <<lost, taskRun, threadRun, locals, tuya, gate, upload>>

\* The network, or a full socket buffer, drops a datagram.
Lose ==
  /\ wire # <<>> /\ lost < MaxLost
  /\ wire' = Tail(wire)
  /\ lost' = lost + 1
  /\ UNCHANGED <<panel, taskRun, threadRun, locals, tuya, gate, upload>>

\* Datagrams for a group nobody has joined are not received.
NotJoined ==
  /\ wire # <<>> /\ ~threadRun
  /\ wire' = <<>>
  /\ UNCHANGED <<panel, lost, taskRun, threadRun, locals, tuya, gate, upload>>

-----------------------------------------------------------------------------
(* The monitor.                                                            *)

\* network_video_receive_package_open.  A thread that has not begun yet when it
\* is closed is waited for here, although threadRun does not tell (AudioSend is
\* about that case).
Open ==
  /\ ~taskRun /\ ~threadRun
  /\ taskRun' = TRUE
  /\ UNCHANGED <<panel, wire, lost, threadRun, locals, tuya, gate, upload>>

\* network_video_receive_package_close
Close ==
  /\ taskRun /\ threadRun
  /\ taskRun' = FALSE
  /\ UNCHANGED <<panel, wire, lost, threadRun, locals, tuya, gate, upload>>

\* A viewer enters the session of the application, or the last one leaves.
Viewers ==
  /\ tuya' = ~tuya
  /\ UNCHANGED <<panel, wire, lost, taskRun, threadRun, locals, gate, upload>>

\* (variant of ThreadBegin: the locals are static, as key_frame_count is)
ThreadBeginStatic ==
  /\ taskRun /\ ~threadRun
  /\ threadRun' = TRUE
  /\ UNCHANGED <<panel, wire, lost, taskRun, locals, tuya, gate, upload>>

ThreadBegin ==
  /\ taskRun /\ ~threadRun
  /\ threadRun' = TRUE
  /\ start' = FALSE /\ size' = 0 /\ count' = 0 /\ buffer' = <<>>
  /\ UNCHANGED <<panel, wire, lost, taskRun, tuya, gate, upload>>

ThreadEnd ==
  /\ threadRun /\ ~taskRun
  /\ first' = FALSE /\ keyCount' = 0
  /\ threadRun' = FALSE
  /\ UNCHANGED <<panel, wire, lost, taskRun, locals, tuya, upload>>

-----------------------------------------------------------------------------
(* The receive loop: one datagram.                                         *)

Packet == Head(wire)
Receiving == threadRun /\ taskRun /\ wire # <<>>
IsHeader == Packet.part = 1

\* A header starts the frame anew; other data continues the frame that is open.
\* (The panel sends no header without data and no frame above VIDEO_FRAME_MAX.)
Expected == IF IsHeader THEN Packet.size ELSE size
Count == (IF IsHeader THEN 0 ELSE count) + Packet.len
Filled == IF IsHeader THEN <<Packet>> ELSE Append(buffer, Packet)

Read ==
  /\ wire' = Tail(wire)
  /\ UNCHANGED <<number, taskRun, threadRun, tuya>>

Store ==
  /\ Receiving
  /\ IsHeader \/ start
  /\ Count <= Expected
  /\ start' = (Count # Expected)
  /\ size' = Expected /\ count' = Count /\ buffer' = Filled
  /\ Read

\* The datagram fits and does not complete the frame.
ReceivePart ==
  /\ Store /\ Count < Expected
  /\ UNCHANGED <<asked, lost, gate, upload>>

\* It completes the frame, and the content of the buffer is handed on.
Completes == Store /\ Count = Expected

\* On the screen of the monitor: decoder and recorder get the frame.
ReceiveShown ==
  /\ Completes /\ ~tuya
  /\ UNCHANGED <<asked, lost, gate, upload>>

\* In a session: a key frame opens the gate.  Its kind is read from the start of
\* the buffer.
IsKeyFrame == Filled[1].key
Uploaded == upload' = [no |-> Filled[1].no, key |-> IsKeyFrame]

\* (variant of ReceiveKeyFrame: the gate stays closed)
ReceiveKeyFrameShut ==
  /\ Completes /\ tuya /\ IsKeyFrame
  /\ keyCount' = 0
  /\ Uploaded
  /\ UNCHANGED <<asked, lost, first>>

ReceiveKeyFrame ==
  /\ Completes /\ tuya /\ IsKeyFrame
  /\ first' = TRUE /\ keyCount' = 0
  /\ Uploaded
  /\ UNCHANGED <<asked, lost>>

ReceiveUploaded ==
  /\ Completes /\ tuya /\ ~IsKeyFrame /\ first
  /\ Uploaded
  /\ UNCHANGED <<asked, lost, gate>>

\* (variant of ReceiveAsks: one request too many)
ReceiveAsksMore ==
  /\ Completes /\ tuya /\ ~IsKeyFrame /\ ~first
  /\ IF keyCount <= KeyMax
     THEN keyCount' = keyCount + 1 /\ asked' = TRUE /\ UNCHANGED lost
     ELSE UNCHANGED <<keyCount, asked, lost>>
  /\ UNCHANGED <<first, upload>>

\* ... and before it opens, key frames are asked for, a limited number of times.
\* The request is a datagram, which may be lost.
ReceiveAsks ==
  /\ Completes /\ tuya /\ ~IsKeyFrame /\ ~first
  /\ IF keyCount < KeyMax
     THEN /\ keyCount' = keyCount + 1
          /\ \/ asked' = TRUE /\ UNCHANGED lost
             \/ lost < MaxLost /\ lost' = lost + 1 /\ UNCHANGED asked
     ELSE UNCHANGED <<keyCount, asked, lost>>
  /\ UNCHANGED <<first, upload>>

\* More data than the frame has: dropped; the frame stays open.
ReceiveTooMuch ==
  /\ Receiving
  /\ IsHeader \/ start
  /\ Count > Expected
  /\ first' = FALSE
  /\ Read
  /\ UNCHANGED <<asked, lost, locals, keyCount, upload>>

\* Data without a header
ReceiveUnknown ==
  /\ Receiving
  /\ ~IsHeader /\ ~start
  /\ first' = FALSE
  /\ Read
  /\ UNCHANGED <<asked, lost, locals, keyCount, upload>>

Receive == \/ ReceivePart \/ ReceiveShown \/ ReceiveKeyFrame \/ ReceiveUploaded
           \/ ReceiveAsks \/ ReceiveTooMuch \/ ReceiveUnknown

-----------------------------------------------------------------------------
Next == \/ SendFrame \/ Lose \/ NotJoined \/ Open \/ Close \/ Viewers
        \/ ThreadBegin \/ ThreadEnd \/ Receive

Spec == Init /\ [][Next]_vars

\* The panel sends, the thread runs.  (Nobody has to open, close or view.)
FairSpec == Spec /\ WF_vars(SendFrame) /\ WF_vars(ThreadBegin) /\ WF_vars(ThreadEnd)
                 /\ WF_vars(Receive)

-----------------------------------------------------------------------------
(* Properties.                                                             *)

\* Every variable has its type (globals and locals of the receive task).
TypeOK ==
  /\ number \in 0 .. Numbers - 1 /\ asked \in BOOLEAN
  /\ wire \in Seq(Packets) /\ buffer \in Seq(Packets)
  /\ lost \in 0 .. MaxLost
  /\ taskRun \in BOOLEAN /\ threadRun \in BOOLEAN /\ tuya \in BOOLEAN
  /\ start \in BOOLEAN /\ size \in Nat /\ count \in Nat
  /\ first \in BOOLEAN /\ keyCount \in 0 .. KeyMax
  /\ upload \in Uploads

\* What is handed to decoder, recorder and application is one frame, whole and in
\* order, although nothing but lengths tells a part of one frame from a part of
\* another: it takes two lost datagrams, a tail and the next header, to mix two.
Belongs(p, q) == p.no = q.no /\ p.size = q.size /\ p.key = q.key
OneFrame == \A i \in DOMAIN buffer : buffer[i].part = i /\ Belongs(buffer[i], buffer[1])
Intact == lost <= 1 /\ ~start => OneFrame

\* A session whose gate is closed gets its picture (back), whatever requests and
\* key frames are lost, unless the requests are used up (they are counted over
\* all sessions of a stream).
Recovers ==
  (threadRun /\ taskRun /\ tuya /\ ~first)
    ~> (first \/ ~tuya \/ ~taskRun \/ keyCount = KeyMax)

\* "Only when the first frame is an I frame ...; after a loss or another anomaly
\* the next I frame has to be waited for" (network_video_package.c 799): a frame
\* given to the application is a key frame or follows the one given before it.
Decodable ==
  [][upload' # upload =>
       upload'.key \/ upload'.no = (upload.no + 1) % Numbers]_vars
=============================================================================
