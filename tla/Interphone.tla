----------------------------- MODULE Interphone -----------------------------
(***************************************************************************)
(* Calls between the monitors of a flat (layout_interphone.c).  Each       *)
(* monitor has the status of its own call, a flag for each other monitor   *)
(* and the number of the monitor that called it.  The monitors agree by    *)
(* datagrams INTERCOM_CALL of five kinds:                                  *)
(*   call (1), ack "it rings" (2), accept (3), hangup (4), busy (5).       *)
(* A datagram goes into the event queue of its receiver and is handled     *)
(* there in the order of arrival; it may be lost on the way.               *)
(***************************************************************************)
EXTENDS Integers, Sequences, FiniteSets

CONSTANTS Monitors,     \* the monitors of one flat (INDOOR_ID1 ..)
          Timeout,      \* seconds a call waits for an answer (30)
          MaxUnderWay,  \* bound: people act only below this many datagrams
          MaxLost       \* bound: datagrams that may be lost

ASSUME TimeoutAssumption == Timeout \in Nat \ {0}
ASSUME BoundsAssumption == MaxUnderWay \in Nat /\ MaxLost \in Nat

VARIABLES layout,     \* cur_layout; "home" is every other layout
          talking,    \* in a talk with a door panel, on the monitor layout
          status,     \* interphone_status
          master,     \* interphone_call_mastar_device
          flag,       \* interphone_device_btn_status_flag, by monitor
          timer,      \* intercom_timeout_val while intercom_timer_ptask runs
          standby,    \* standby_open_status
          inbox,      \* datagrams and events on the way to each monitor
          lost,       \* history: how many were lost
          hasty       \* history: a call began while an older one was unread
vars == <<layout, talking, status, master, flag, timer, standby, inbox, lost, hasty>>

Layouts == {"home", "phone", "door"}
Statuses == {"IDLE", "PUBLISH", "OUT", "IN", "TALK"}
Kinds == {"call", "ack", "accept", "hangup", "busy"}
Messages == [kind : Kinds, from : Monitors]
Off == -1
NoFlags == [p \in Monitors |-> 0]
OnlyFlag(p, n) == [NoFlags EXCEPT ![p] = n]

Init ==
  /\ layout = [m \in Monitors |-> "home"]
  /\ talking = [m \in Monitors |-> FALSE]
  /\ status = [m \in Monitors |-> "IDLE"]
  /\ master = [m \in Monitors |-> m]      \* nobody yet
  /\ flag = [m \in Monitors |-> NoFlags]
  /\ timer = [m \in Monitors |-> Off]
  /\ standby = [m \in Monitors |-> TRUE]
  /\ inbox = [m \in Monitors |-> <<>>]
  /\ lost = 0
  /\ hasty = FALSE

-----------------------------------------------------------------------------
(* Datagrams.  A monitor does not receive what it sends to the group.      *)

Others(m) == Monitors \ {m}
UnderWay == UNION {{m} \X DOMAIN inbox[m] : m \in Monitors}
Room == Cardinality(UnderWay) < MaxUnderWay

\* box after m has sent a message of kind k to the monitors `to'
Sent(box, m, k, to) ==
  [p \in Monitors |-> IF p \in to THEN Append(box[p], [kind |-> k, from |-> m])
                                  ELSE box[p]]

\* The oldest event of m is of one of these kinds.
Oldest(m, kinds) == inbox[m] # <<>> /\ Head(inbox[m]).kind \in kinds
From(m) == Head(inbox[m]).from
Rest(m) == [inbox EXCEPT ![m] = Tail(@)]

\* An answer to an earlier call of m may still come.
Unsettled(m) ==
  \/ \E i \in DOMAIN inbox[m] : inbox[m][i].kind = "busy"
  \/ \E p \in Others(m) : \E i \in DOMAIN inbox[p] :
        inbox[p][i].kind = "call" /\ inbox[p][i].from = m

-----------------------------------------------------------------------------
(* Pages.  goto_layout runs the quit function of the old layout and the    *)
(* enter function of the new one.                                          *)

\* (variant of Idle: the quit function clears the status only)
IdleStatusOnly(m) ==
  /\ status' = [status EXCEPT ![m] = "IDLE"]
  /\ UNCHANGED <<flag, timer>>

\* What the quit function of the interphone leaves behind.
Idle(m) ==
  /\ status' = [status EXCEPT ![m] = "IDLE"]
  /\ flag' = [flag EXCEPT ![m] = NoFlags]
  /\ timer' = [timer EXCEPT ![m] = Off]

\* Quit of the interphone page (out_falg is false), then layout l
Quit(m, l, box) ==
  /\ Idle(m)
  /\ layout' = [layout EXCEPT ![m] = l]
  /\ standby' = [standby EXCEPT ![m] = l # "door"]
  /\ inbox' = Sent(box, m, "hangup", Others(m))
  /\ UNCHANGED <<talking, master, lost>>

\* The interphone button of the home screen
OpenPage(m) ==
  /\ layout[m] = "home"
  /\ Room
  /\ Idle(m)
  /\ layout' = [layout EXCEPT ![m] = "phone"]
  /\ UNCHANGED <<talking, master, standby, inbox, lost, hasty>>

\* (variant of PickDevice: one second too many)
PickLonger(m, p) ==
  /\ layout[m] = "phone" /\ status[m] = "IDLE" /\ p # m
  /\ Room
  /\ status' = [status EXCEPT ![m] = "PUBLISH"]
  /\ flag' = [flag EXCEPT ![m] = OnlyFlag(p, 1)]
  /\ timer' = [timer EXCEPT ![m] = Timeout + 1]
  /\ inbox' = Sent(inbox, m, "call", {p})
  /\ hasty' = (hasty \/ Unsettled(m))
  /\ UNCHANGED <<layout, talking, master, standby, lost>>

\* A device button of the idle page.  The timer is run once at once, which
\* counts when a new second has begun.
PickDevice(m, p) ==
  /\ layout[m] = "phone" /\ status[m] = "IDLE" /\ p # m
  /\ Room
  /\ status' = [status EXCEPT ![m] = "PUBLISH"]
  /\ flag' = [flag EXCEPT ![m] = OnlyFlag(p, 1)]
  /\ \E t \in {Timeout, Timeout - 1} : timer' = [timer EXCEPT ![m] = t]
  /\ inbox' = Sent(inbox, m, "call", {p})
  /\ hasty' = (hasty \/ Unsettled(m))
  /\ UNCHANGED <<layout, talking, master, standby, lost>>

\* The button of the calling page: before the other side rings it leads back
\* to the idle page.
Cancel(m) ==
  /\ status[m] = "PUBLISH"
  /\ Room
  /\ Quit(m, "phone", inbox)
  /\ UNCHANGED hasty

\* The buttons that hang up or refuse, the back button and the home key
GoHome(m) ==
  /\ layout[m] = "phone"
  /\ Room
  /\ Quit(m, "home", inbox)
  /\ UNCHANGED hasty

\* The screen saver: nobody has touched the screen for a minute.
StandbyTimeout(m) ==
  /\ layout[m] = "phone" /\ standby[m]
  /\ Quit(m, "home", inbox)
  /\ UNCHANGED hasty

\* Another monitor sends the time: the screen saver's timer is opened, whatever
\* page had closed it (ClockSync is about that).
SetClock(m) ==
  /\ standby' = [standby EXCEPT ![m] = TRUE]
  /\ UNCHANGED <<layout, talking, status, master, flag, timer, inbox, lost, hasty>>

\* (variant of Tick: the countdown starts again when it has run out)
TickForever(m) ==
  /\ timer[m] # Off
  /\ timer' = [timer EXCEPT ![m] = IF @ = 0 THEN Timeout ELSE @ - 1]
  /\ UNCHANGED <<layout, talking, status, master, flag, standby, inbox, lost, hasty>>

\* intercom_timer_task in a new second
Tick(m) ==
  /\ timer[m] # Off
  /\ IF timer[m] = 0
     THEN Quit(m, "home", inbox)
     ELSE /\ timer' = [timer EXCEPT ![m] = @ - 1]
          /\ UNCHANGED <<layout, talking, status, master, flag, standby, inbox, lost>>
  /\ UNCHANGED hasty

\* The answer button of a ringing monitor
Answer(m) ==
  /\ status[m] = "IN"
  /\ Room
  /\ status' = [status EXCEPT ![m] = "TALK"]
  /\ flag' = [flag EXCEPT ![m][master[m]] = 3]
  /\ timer' = [timer EXCEPT ![m] = Off]
  /\ inbox' = Sent(inbox, m, "accept", {master[m]})
  /\ UNCHANGED <<layout, talking, master, standby, lost, hasty>>

\* A visitor rings, or the door is shown from the home screen; the monitor
\* layout closes the standby timer and its quit function opens it again.
VisitDoor(m) ==
  \/ /\ layout[m] = "phone"
     /\ Room
     /\ Quit(m, "door", inbox)
     /\ UNCHANGED hasty
  \/ /\ layout[m] = "home"
     /\ layout' = [layout EXCEPT ![m] = "door"]
     /\ standby' = [standby EXCEPT ![m] = FALSE]
     /\ UNCHANGED <<talking, status, master, flag, timer, inbox, lost, hasty>>

TalkAtDoor(m) ==
  /\ layout[m] = "door" /\ ~talking[m]
  /\ talking' = [talking EXCEPT ![m] = TRUE]
  /\ UNCHANGED <<layout, status, master, flag, timer, standby, inbox, lost, hasty>>

LeaveDoor(m) ==
  /\ layout[m] = "door"
  /\ layout' = [layout EXCEPT ![m] = "home"]
  /\ talking' = [talking EXCEPT ![m] = FALSE]
  /\ standby' = [standby EXCEPT ![m] = TRUE]
  /\ UNCHANGED <<status, master, flag, timer, inbox, lost, hasty>>

-----------------------------------------------------------------------------
(* Events.                                                                 *)

\* (variant of Ring: a call is taken whatever the status is)
RingAlways(m) ==
  /\ Oldest(m, {"call"})
  /\ master' = [master EXCEPT ![m] = From(m)]
  /\ status' = [status EXCEPT ![m] = "IN"]
  /\ flag' = [flag EXCEPT ![m] = OnlyFlag(From(m), 2)]
  /\ layout' = [layout EXCEPT ![m] = "phone"]
  /\ inbox' = Sent(Rest(m), m, "ack", {From(m)})
  /\ hasty' = (hasty \/ Unsettled(m))
  /\ UNCHANGED <<talking, timer, standby, lost>>

\* (variant of Ring: the ringing monitor closes its standby timer, as the caller does)
RingAwake(m) ==
  /\ Oldest(m, {"call"})
  /\ status[m] = "IDLE" /\ ~talking[m]
  /\ master' = [master EXCEPT ![m] = From(m)]
  /\ status' = [status EXCEPT ![m] = "IN"]
  /\ flag' = [flag EXCEPT ![m] = OnlyFlag(From(m), 2)]
  /\ layout' = [layout EXCEPT ![m] = "phone"]
  /\ standby' = [standby EXCEPT ![m] = FALSE]
  /\ inbox' = Sent(Rest(m), m, "ack", {From(m)})
  /\ hasty' = (hasty \/ Unsettled(m))
  /\ UNCHANGED <<talking, timer, lost>>

\* A call while another page is shown goes to the interphone page, which
\* rings; a call while the idle page is shown rings there.
Ring(m) ==
  /\ Oldest(m, {"call"})
  /\ status[m] = "IDLE" /\ ~talking[m]
  /\ master' = [master EXCEPT ![m] = From(m)]
  /\ status' = [status EXCEPT ![m] = "IN"]
  /\ flag' = [flag EXCEPT ![m] = OnlyFlag(From(m), 2)]
  /\ layout' = [layout EXCEPT ![m] = "phone"]
  /\ standby' = [standby EXCEPT ![m] = @ \/ layout[m] = "door"]
  /\ inbox' = Sent(Rest(m), m, "ack", {From(m)})
  /\ hasty' = (hasty \/ Unsettled(m))
  /\ UNCHANGED <<talking, timer, lost>>

\* During a call, and during a talk with a panel, a caller is told "busy".
Refuse(m) ==
  /\ Oldest(m, {"call"})
  /\ status[m] # "IDLE" \/ talking[m]
  /\ inbox' = Sent(Rest(m), m, "busy", {From(m)})
  /\ UNCHANGED <<layout, talking, status, master, flag, timer, standby, lost, hasty>>

\* The called monitor rings.
ReceiveAck(m) ==
  /\ Oldest(m, {"ack"})
  /\ status[m] = "PUBLISH" /\ flag[m][From(m)] = 1
  /\ status' = [status EXCEPT ![m] = "OUT"]
  /\ flag' = [flag EXCEPT ![m][From(m)] = 2]
  /\ standby' = [standby EXCEPT ![m] = FALSE]
  /\ inbox' = Rest(m)
  /\ UNCHANGED <<layout, talking, master, timer, lost, hasty>>

\* The called monitor has answered; others that were called are told.
ReceiveAccept(m) ==
  /\ Oldest(m, {"accept"})
  /\ status[m] = "OUT" /\ flag[m][From(m)] = 2
  /\ status' = [status EXCEPT ![m] = "TALK"]
  /\ flag' = [flag EXCEPT ![m] = OnlyFlag(From(m), 3)]
  /\ timer' = [timer EXCEPT ![m] = Off]
  /\ standby' = [standby EXCEPT ![m] = FALSE]
  /\ inbox' = Sent(Rest(m), m, "hangup",
                   {p \in Others(m) \ {From(m)} : flag[m][p] \in {1, 2}})
  /\ UNCHANGED <<layout, talking, master, lost, hasty>>

\* (variant of EndsCall: not in a talk)
EndsRing(m, p) ==
  \/ status[m] = "IN" /\ master[m] = p
  \/ status[m] \in {"OUT", "PUBLISH"} /\ flag[m][p] = 2

\* The other side has left.
EndsCall(m, p) ==
  \/ status[m] = "IN" /\ master[m] = p
  \/ status[m] \in {"OUT", "PUBLISH"} /\ flag[m][p] = 2
  \/ status[m] = "TALK" /\ flag[m][p] = 3

ReceiveHangUp(m) ==
  /\ Oldest(m, {"hangup"})
  /\ EndsCall(m, From(m))
  /\ Quit(m, "home", Rest(m))
  /\ UNCHANGED hasty

\* A refused caller goes back to the idle page, without a hang-up: nobody
\* looks from whom the refusal is, and in which status it comes.
ReceiveBusy(m) ==
  /\ Oldest(m, {"busy"})
  /\ layout[m] = "phone"
  /\ Idle(m)
  /\ inbox' = Rest(m)
  /\ UNCHANGED <<layout, talking, master, standby, lost, hasty>>

\* Everything else is read and has no effect.
Ignore(m) ==
  /\ \/ Oldest(m, {"ack"}) /\ ~(status[m] = "PUBLISH" /\ flag[m][From(m)] = 1)
     \/ Oldest(m, {"accept"}) /\ ~(status[m] = "OUT" /\ flag[m][From(m)] = 2)
     \/ Oldest(m, {"hangup"}) /\ ~EndsCall(m, From(m))
     \/ Oldest(m, {"busy"}) /\ layout[m] # "phone"
  /\ inbox' = Rest(m)
  /\ UNCHANGED <<layout, talking, status, master, flag, timer, standby, lost, hasty>>

Receive(m) == \/ Ring(m) \/ Refuse(m) \/ ReceiveAck(m) \/ ReceiveAccept(m)
              \/ ReceiveHangUp(m) \/ ReceiveBusy(m) \/ Ignore(m)

\* The network drops the youngest datagram for m.
Lose(m) ==
  /\ inbox[m] # <<>> /\ lost < MaxLost
  /\ inbox' = [inbox EXCEPT ![m] = SubSeq(@, 1, Len(@) - 1)]
  /\ lost' = lost + 1
  /\ UNCHANGED <<layout, talking, status, master, flag, timer, standby, hasty>>

Next == \E m \in Monitors :
  \/ OpenPage(m) \/ (\E p \in Monitors : PickDevice(m, p)) \/ Cancel(m) \/ GoHome(m)
  \/ Answer(m) \/ VisitDoor(m) \/ TalkAtDoor(m) \/ LeaveDoor(m)
  \/ StandbyTimeout(m) \/ SetClock(m) \/ Tick(m) \/ Receive(m) \/ Lose(m)

Spec == Init /\ [][Next]_vars

\* The event task and the timer task run in the LVGL loop; a page nobody
\* touches is left by the screen saver.
FairSpec ==
  /\ Spec
  /\ \A m \in Monitors : WF_vars(Receive(m)) /\ WF_vars(Tick(m)) /\ WF_vars(StandbyTimeout(m))
-----------------------------------------------------------------------------
(* Properties.                                                             *)

\* Every variable has its type (the globals of layout_interphone.c).
TypeOK ==
  /\ layout \in [Monitors -> Layouts]
  /\ talking \in [Monitors -> BOOLEAN]
  /\ status \in [Monitors -> Statuses]
  /\ master \in [Monitors -> Monitors]
  /\ flag \in [Monitors -> [Monitors -> 0 .. 3]]
  /\ timer \in [Monitors -> {Off} \cup 0 .. Timeout]
  /\ standby \in [Monitors -> BOOLEAN]
  /\ inbox \in [Monitors -> Seq(Messages)]
  /\ lost \in 0 .. MaxLost
  /\ hasty \in BOOLEAN

Calls(m, p, n) == flag[m] = OnlyFlag(p, n)

CallOf(m) ==
  /\ status[m] # "IDLE" => layout[m] = "phone"
  /\ talking[m] => layout[m] = "door"
  /\ timer[m] # Off <=> status[m] \in {"PUBLISH", "OUT"}
  /\ status[m] = "IDLE" => flag[m] = NoFlags
  /\ status[m] = "PUBLISH" => \E p \in Others(m) : Calls(m, p, 1)
  /\ status[m] = "OUT" => \E p \in Others(m) : Calls(m, p, 2)
  /\ status[m] = "IN" => master[m] # m /\ Calls(m, master[m], 2)
  /\ status[m] = "TALK" => \E p \in Others(m) : Calls(m, p, 3)

\* The three things that describe the call of a monitor, written by ten
\* handlers, agree: the status, the one flag that is set and the countdown,
\* which runs while a caller waits and never into a talk (it would cut it off).
OneCall == \A m \in Monitors : CallOf(m)

\* When everything on the way has been handled and nothing was lost, both
\* sides see the same call: who talks is talked to, who rings is called by the
\* one it shows, who calls rings there.  (It needs ~hasty: see Shared.)
Settled == lost = 0 /\ \A m \in Monitors : inbox[m] = <<>>
SameCall(m) ==
  /\ status[m] # "PUBLISH"
  /\ status[m] = "IN" => status[master[m]] = "OUT" /\ flag[master[m]][m] = 2
  /\ status[m] = "OUT" =>
       \E p \in Monitors : flag[m][p] = 2 /\ status[p] = "IN" /\ master[p] = m
  /\ status[m] = "TALK" =>
       \E p \in Monitors : flag[m][p] = 3 /\ status[p] = "TALK" /\ flag[p][m] = 3
Agreed == Settled /\ ~hasty => \A m \in Monitors : SameCall(m)

\* The same without ~hasty: a refusal ends only the call it refuses ("the device
\* of the other side is busy", layout_interphone.c 1116).
Shared == Settled => \A m \in Monitors : SameCall(m)

\* A monitor that has called somebody stops waiting, whatever was lost.
CallEnds == \A m \in Monitors :
  status[m] \in {"PUBLISH", "OUT"} ~> status[m] \notin {"PUBLISH", "OUT"}

\* A ring that nobody answers ends although the hang-up of the caller may be
\* lost: the ringing monitor has no countdown, only the screen saver.
RingEnds == \A m \in Monitors :
  status[m] = "IN" ~> (status[m] # "IN" \/ hasty)
=============================================================================
