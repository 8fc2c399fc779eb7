------------------------------ MODULE DoorLine ------------------------------
(***************************************************************************)
(* How the indoor monitors share the door panels.  Each monitor runs       *)
(* layout/layout_monitor.c and the parts of layout/layout_home.c,          *)
(* layout/layout_define.c and api/network/network_common.c it needs; they  *)
(* tell each other by multicast datagrams who talks (OUTDOOR_TALK), which  *)
(* panel is in use (DATA_BUSY, once a second) and when it is free again    *)
(* (DATA_RELEASE).  Datagrams may be lost, and the event queue of the user *)
(* interface lets one overtake another.                                    *)
(*                                                                         *)
(* "home" stands for every layout but the monitor layout.  Panels are on   *)
(* line.  Nobody ever sends DATA_BUSY_ACK, so outdoor_call_mask stays 0    *)
(* and is left out.                                                        *)
(***************************************************************************)
EXTENDS Integers, FiniteSets

CONSTANTS
  Monitors,   \* indoor monitors
  Doors,      \* door panels, as the monitors number them
  UnitDoors,  \* those that belong to one flat; the others are public
  Families,   \* flats
  FamilyOf,   \* monitor -> its flat
  AgeMax,     \* seconds without DATA_BUSY before a mark is cleared (5)
  Calls,      \* TRUE: visitors press the call button of a panel
  Keys,       \* TRUE: the hardware keys are used
  Tuya,       \* TRUE: the phone application is used
  MaxPending, \* bound: people act only while at most so many datagrams are
              \* under way; 0: each is handled before anybody acts again
  MaxLost     \* bound on the datagrams that get lost

ASSUME MonitorsAssumption == IsFiniteSet(Monitors)
ASSUME DoorsAssumption    == UnitDoors \subseteq Doors
ASSUME FamilyAssumption   == FamilyOf \in [Monitors -> Families]
ASSUME AgeAssumption      == AgeMax \in Nat
ASSUME FeaturesAssumption == {Calls, Keys, Tuya} \subseteq BOOLEAN
ASSUME BoundsAssumption   == MaxPending \in Nat /\ MaxLost \in Nat

VARIABLES
  screen,   \* monitor -> cur_layout
  enter,    \* monitor -> layout_monitor_enter_flag
  ch,       \* monitor -> the door of monitor_channel
  talking,  \* monitor -> talking
  panel,    \* monitor -> the monitor layout has its buttons, keys and timer
  list,     \* monitor -> the clickable doors of the list on the home screen
  occupy,   \* monitor -> the doors with occupy_resource set
  busy,     \* monitor -> the doors with is_monitor_data_busy set
  age,      \* monitor -> door -> device_busy_disapear_times
  wire,     \* datagrams under way, one for each receiver
  lost,     \* how many datagrams were lost
  settled   \* nobody has acted and nothing was lost since the last second
            \* (history only)

view == <<screen, enter, ch, panel, list>>
net  == <<busy, age, lost>>
vars == <<screen, enter, ch, talking, panel, list, occupy, busy, age, wire,
          lost, settled>>

Commands == {"talk", "busy", "release", "call"}
Messages == [to : Monitors, cmd : Commands, door : Doors, family : Families]

TypeOK ==
  /\ screen \in [Monitors -> {"home", "monitor"}]
  /\ enter \in [Monitors -> {"none", "manual", "call", "tuya"}]
  /\ ch \in [Monitors -> Doors]
  /\ talking \in [Monitors -> BOOLEAN]
  /\ panel \in [Monitors -> BOOLEAN]
  /\ list \in [Monitors -> SUBSET Doors]
  /\ occupy \in [Monitors -> SUBSET Doors]
  /\ busy \in [Monitors -> SUBSET Doors]
  /\ age \in [Monitors -> [Doors -> 0..(AgeMax + 1)]]
  /\ wire \in SUBSET Messages
  /\ lost \in Nat
  /\ settled \in BOOLEAN

Init ==
  /\ screen = [m \in Monitors |-> "home"]
  /\ enter = [m \in Monitors |-> "none"]
  /\ ch \in [Monitors -> Doors]
  /\ talking = [m \in Monitors |-> FALSE]
  /\ panel = [m \in Monitors |-> FALSE]
  /\ list = [m \in Monitors |-> {}]
  /\ occupy = [m \in Monitors |-> {}]
  /\ busy = [m \in Monitors |-> {}]
  /\ age = [m \in Monitors |-> [d \in Doors |-> 0]]
  /\ wire = {} /\ lost = 0 /\ settled = TRUE

\* DEVICE_GROUP reaches the monitors of the sender's flat, DEVICE_ALL every
\* monitor; the sockets do not loop a datagram back to its sender.
Audience(m, d) ==
  {r \in Monitors \ {m} : d \in UnitDoors => FamilyOf[r] = FamilyOf[m]}

Tell(m, cmd, d) ==
  {[to |-> r, cmd |-> cmd, door |-> d, family |-> FamilyOf[m]] :
     r \in Audience(m, d)}

\* Variant: the refresh does not look at the marks.
RefreshedAlike(m) == list[m]

\* What the list becomes at its next refresh; the refresh task returns early
\* when every door is busy.
Refreshed(m) ==
  IF list[m] = {} \/ Doors \subseteq busy[m] THEN list[m] ELSE Doors \ busy[m]

Prompt == MaxPending = 0

Quiet ==
  /\ Cardinality(wire) <= MaxPending
  /\ Prompt => \A m \in Monitors : list[m] = Refreshed(m)

Acts == Quiet /\ settled' = FALSE

-----------------------------------------------------------------------------
(* Leaving and entering the monitor layout (goto_layout).                  *)

\* The quit function releases the door it talked to, and also one that rang.
LeaveTells(m) ==
  IF talking[m] \/ enter[m] = "call" THEN Tell(m, "release", ch[m]) ELSE {}

GoHome(m) ==
  /\ screen' = [screen EXCEPT ![m] = "home"]
  /\ enter' = [enter EXCEPT ![m] = "none"]
  /\ talking' = [talking EXCEPT ![m] = FALSE]
  /\ panel' = [panel EXCEPT ![m] = FALSE]
  /\ occupy' = [occupy EXCEPT ![m] = {}]
  /\ UNCHANGED <<ch, list>>

Enter(m, d, flag) ==
  /\ screen' = [screen EXCEPT ![m] = "monitor"]
  /\ enter' = [enter EXCEPT ![m] = flag]
  /\ ch' = [ch EXCEPT ![m] = d]
  /\ panel' = [panel EXCEPT ![m] = (flag # "tuya")]
  /\ list' = [list EXCEPT ![m] = {}]

\* The home button, the return key, and the end of the countdown.
Leave(m) ==
  /\ Acts /\ screen[m] = "monitor" /\ panel[m]
  /\ GoHome(m)
  /\ wire' = wire \union LeaveTells(m)
  /\ UNCHANGED net

\* A call of another monitor (layout_interphone.c) takes the screen, not
\* during a talk.
InterphoneCall(m) ==
  /\ Acts /\ screen[m] = "monitor" /\ ~talking[m]
  /\ GoHome(m)
  /\ wire' = wire \union LeaveTells(m)
  /\ UNCHANGED net

-----------------------------------------------------------------------------
(* The user at the home screen.                                            *)

Free(m) == Doors \ busy[m]

\* The monitor button goes to the only door that is free ...
HomeMonitor(m, d) ==
  /\ Acts /\ screen[m] = "home" /\ list[m] = {}
  /\ Free(m) = {d}
  /\ Enter(m, d, "manual")
  /\ UNCHANGED <<talking, occupy, wire, net>>

\* ... or shows all of them, each clickable until the next refresh.  Without
\* a free door the button itself is disabled by the refresh task.
HomeList(m) ==
  /\ Acts /\ screen[m] = "home" /\ list[m] = {}
  /\ Cardinality(Free(m)) # 1 /\ (Prompt => Free(m) # {})
  /\ list' = [list EXCEPT ![m] = Doors]
  /\ UNCHANGED <<screen, enter, ch, talking, panel, occupy, wire, net>>

Refresh(m) ==
  /\ list[m] # Refreshed(m)
  /\ list' = [list EXCEPT ![m] = Refreshed(m)]
  /\ UNCHANGED <<screen, enter, ch, talking, panel, occupy, wire, net>>
  /\ UNCHANGED settled

HomePick(m, d) ==
  /\ Acts /\ screen[m] = "home" /\ d \in list[m]
  /\ Enter(m, d, "manual")
  /\ UNCHANGED <<talking, occupy, wire, net>>

HomeCancel(m) ==
  /\ Acts /\ screen[m] = "home" /\ list[m] # {}
  /\ list' = [list EXCEPT ![m] = {}]
  /\ UNCHANGED <<screen, enter, ch, talking, panel, occupy, wire, net>>

\* key_monitor outside the monitor layout: the first door on line.
KeyEnter(m, d) ==
  /\ Keys /\ Acts /\ screen[m] = "home"
  /\ Enter(m, d, "manual")
  /\ UNCHANGED <<talking, occupy, wire, net>>

-----------------------------------------------------------------------------
(* The user at the monitor screen.                                         *)

StartTalk(m) ==
  /\ talking' = [talking EXCEPT ![m] = TRUE]
  /\ wire' = wire \union Tell(m, "talk", ch[m]) \union Tell(m, "busy", ch[m])

\* Variant: the door is not kept announced.
ButtonTalkOnce(m) ==
  /\ Acts /\ screen[m] = "monitor" /\ panel[m] /\ ~talking[m]
  /\ StartTalk(m)
  /\ UNCHANGED <<view, occupy, net>>

\* The second press of either hangs up as Leave does.
ButtonTalk(m) ==
  /\ Acts /\ screen[m] = "monitor" /\ panel[m] /\ ~talking[m]
  /\ StartTalk(m)
  /\ occupy' = [occupy EXCEPT ![m] = @ \union {ch[m]}]
  /\ UNCHANGED <<view, net>>

KeyTalk(m) ==
  /\ Keys /\ Acts /\ screen[m] = "monitor" /\ panel[m] /\ ~talking[m]
  /\ StartTalk(m)
  /\ UNCHANGED <<view, occupy, net>>

\* key_monitor inside the monitor layout, only while the application has it.
KeySwitch(m, d) ==
  /\ Keys /\ Acts /\ screen[m] = "monitor" /\ panel[m]
  /\ enter[m] = "tuya" /\ ~talking[m] /\ d # ch[m]
  /\ ch' = [ch EXCEPT ![m] = d]
  /\ UNCHANGED <<screen, enter, panel, list, talking, occupy, wire, net>>

-----------------------------------------------------------------------------
(* The phone application.                                                  *)

\* tuya_event_extern_proc: a free door is entered; without one only
\* layout_monitor_enter_flag changes.
TuyaEnter(m) ==
  /\ Tuya /\ Acts /\ screen[m] = "home"
  /\ IF Free(m) = {}
     THEN /\ enter' = [enter EXCEPT ![m] = "tuya"]
          /\ UNCHANGED <<screen, ch, panel, list>>
     ELSE \E d \in Free(m) : Enter(m, d, "tuya")
  /\ UNCHANGED <<talking, occupy, wire, net>>

\* tuya_event_inside_proc; MONITOR_ENTER takes the monitor layout over.
TuyaTakeOver(m) ==
  /\ Tuya /\ Acts /\ screen[m] = "monitor"
  /\ enter' = [enter EXCEPT ![m] = "tuya"]
  /\ occupy' = [occupy EXCEPT ![m] = @ \ {ch[m]}]
  /\ UNCHANGED <<screen, ch, panel, list, talking, wire, net>>

InTuya(m) == Tuya /\ Acts /\ screen[m] = "monitor" /\ enter[m] = "tuya"

TuyaSwap(m, d) ==
  /\ InTuya(m) /\ ~talking[m] /\ d \in Free(m) /\ d # ch[m]
  /\ ch' = [ch EXCEPT ![m] = d]
  /\ UNCHANGED <<screen, enter, panel, list, talking, occupy, wire, net>>

TuyaTalk(m) ==
  /\ InTuya(m)
  /\ StartTalk(m)
  /\ occupy' = [occupy EXCEPT ![m] = @ \union {ch[m]}]
  /\ UNCHANGED <<view, net>>

\* The DATA_RELEASE it prepares is overwritten before it is sent.
TuyaHangUp(m) ==
  /\ InTuya(m)
  /\ talking' = [talking EXCEPT ![m] = FALSE]
  /\ occupy' = [occupy EXCEPT ![m] = @ \ {ch[m]}]
  /\ UNCHANGED <<view, wire, net>>

TuyaQuit(m) ==
  /\ InTuya(m)
  /\ GoHome(m)
  /\ wire' = wire \union LeaveTells(m)
  /\ UNCHANGED net

-----------------------------------------------------------------------------
(* Datagrams.                                                              *)

\* A panel rings in flat f; a public one is heard by the other flats as well.
PanelCall(d, f) ==
  /\ Calls /\ Acts
  /\ wire' = wire \union
       {[to |-> r, cmd |-> "call", door |-> d, family |-> f] :
          r \in {x \in Monitors : d \in UnitDoors => FamilyOf[x] = f}}
  /\ UNCHANGED <<view, talking, occupy, net>>

\* Variant: the list stays as it is.
ReceiveBusyKeeps(m, msg) ==
  /\ msg.cmd = "busy"
  /\ busy' = [busy EXCEPT ![m] = @ \union {msg.door}]
  /\ age' = [age EXCEPT ![m][msg.door] = 0]
  /\ wire' = wire \ {msg}
  /\ UNCHANGED <<view, talking, occupy, lost>>

\* The event it pushes deletes the list, if one is shown: its refresh alone
\* would keep the doors clickable once none is free.
ReceiveBusy(m, msg) ==
  /\ msg.cmd = "busy"
  /\ busy' = [busy EXCEPT ![m] = @ \union {msg.door}]
  /\ age' = [age EXCEPT ![m][msg.door] = 0]
  /\ list' = [list EXCEPT ![m] = {}]
  /\ wire' = wire \ {msg}
  /\ UNCHANGED <<screen, enter, ch, panel, talking, occupy, lost>>

ReceiveRelease(m, msg) ==
  /\ msg.cmd = "release"
  /\ busy' = [busy EXCEPT ![m] = @ \ {msg.door}]
  /\ wire' = wire \ {msg}
  /\ UNCHANGED <<view, talking, occupy, age, lost>>

\* monitor_indoor_cmd_func, registered by the monitor layout alone.
TalkSendsHome(m, d) == screen[m] = "monitor" /\ ~talking[m] /\ ch[m] = d

ReceiveTalk(m, msg) ==
  /\ msg.cmd = "talk"
  /\ IF TalkSendsHome(m, msg.door)
     THEN /\ GoHome(m)
          /\ wire' = (wire \ {msg}) \union LeaveTells(m)
     ELSE /\ wire' = wire \ {msg}
          /\ UNCHANGED <<view, talking, occupy>>
  /\ UNCHANGED net

\* monitor_call_extern_func; without its flat's number a call is ignored.
CallAtHome(m, msg) ==
  /\ msg.cmd = "call" /\ screen[m] = "home"
  /\ IF msg.family = FamilyOf[m] THEN Enter(m, msg.door, "call")
                                 ELSE UNCHANGED view
  /\ wire' = wire \ {msg}
  /\ UNCHANGED <<talking, occupy, net>>

\* monitor_call_inside_func, one action for each of its ways out.
CallInside(m, msg) == msg.cmd = "call" /\ screen[m] = "monitor"

CallOtherFamily(m, msg) ==
  /\ CallInside(m, msg) /\ msg.family # FamilyOf[m]
  /\ IF ch[m] = msg.door
     THEN /\ GoHome(m)
          /\ wire' = (wire \ {msg}) \union LeaveTells(m)
     ELSE /\ wire' = wire \ {msg}
          /\ UNCHANGED <<view, talking, occupy>>
  /\ UNCHANGED net

CallEndsTuya(m, msg) ==
  /\ CallInside(m, msg) /\ msg.family = FamilyOf[m] /\ enter[m] = "tuya"
  /\ Enter(m, msg.door, "call")
  /\ talking' = [talking EXCEPT ![m] = FALSE]
  /\ occupy' = [occupy EXCEPT ![m] = {}]
  /\ wire' = (wire \ {msg}) \union LeaveTells(m)
  /\ UNCHANGED net

CallOwn(m, msg) ==
  CallInside(m, msg) /\ msg.family = FamilyOf[m] /\ enter[m] # "tuya"

\* A call of the other unit door does not disturb a talk ...
CallIgnored(m, msg) ==
  /\ CallOwn(m, msg)
  /\ msg.door # ch[m] /\ msg.door \in UnitDoors /\ talking[m]
  /\ wire' = wire \ {msg}
  /\ UNCHANGED <<view, talking, occupy, net>>

\* Variant: the old door stays announced.
CallHangsUpKeeps(m, msg) ==
  /\ CallOwn(m, msg)
  /\ msg.door # ch[m] /\ msg.door \notin UnitDoors /\ talking[m]
  /\ talking' = [talking EXCEPT ![m] = FALSE]
  /\ wire' = (wire \ {msg}) \union Tell(m, "release", ch[m])
  /\ ch' = [ch EXCEPT ![m] = msg.door]
  /\ enter' = [enter EXCEPT ![m] = "call"]
  /\ UNCHANGED <<screen, panel, list, occupy, net>>

\* ... a call of another public door ends it.
CallHangsUp(m, msg) ==
  /\ CallOwn(m, msg)
  /\ msg.door # ch[m] /\ msg.door \notin UnitDoors /\ talking[m]
  /\ talking' = [talking EXCEPT ![m] = FALSE]
  /\ occupy' = [occupy EXCEPT ![m] = @ \ {ch[m]}]
  /\ wire' = (wire \ {msg}) \union Tell(m, "release", ch[m])
  /\ ch' = [ch EXCEPT ![m] = msg.door]
  /\ enter' = [enter EXCEPT ![m] = "call"]
  /\ UNCHANGED <<screen, panel, list, net>>

CallShown(m, msg) ==
  /\ CallOwn(m, msg)
  /\ msg.door = ch[m] \/ ~talking[m]
  /\ ch' = [ch EXCEPT ![m] = msg.door]
  /\ enter' = [enter EXCEPT ![m] = "call"]
  /\ wire' = wire \ {msg}
  /\ UNCHANGED <<screen, panel, list, talking, occupy, net>>

Receive(m, msg) ==
  /\ \/ ReceiveBusy(m, msg) \/ ReceiveRelease(m, msg) \/ ReceiveTalk(m, msg)
     \/ CallAtHome(m, msg) \/ CallOtherFamily(m, msg) \/ CallEndsTuya(m, msg)
     \/ CallIgnored(m, msg) \/ CallHangsUp(m, msg) \/ CallShown(m, msg)
  /\ UNCHANGED settled

Deliver == \E msg \in wire : Receive(msg.to, msg)

Lose ==
  /\ lost < MaxLost
  /\ lost' = lost + 1
  /\ \E msg \in wire : wire' = wire \ {msg}
  /\ settled' = FALSE
  /\ UNCHANGED <<view, talking, occupy, busy, age>>

-----------------------------------------------------------------------------
(* account_heartbeat_send_task, once a second at every monitor: first the  *)
(* marks of the others grow older, then the own doors are announced.       *)

Expired(m) == {d \in busy[m] : age[m][d] > AgeMax}

\* Variants: nothing grows older; the age is not reset with the mark.
AgedNever(m) == [d \in Doors |-> IF d \in Expired(m) THEN 0 ELSE age[m][d]]

AgedOn(m) ==
  [d \in Doors |-> IF d \in busy[m] THEN age[m][d] + 1 ELSE age[m][d]]

Aged(m) ==
  [d \in Doors |-> IF d \in Expired(m) THEN 0
                   ELSE IF d \in busy[m] THEN age[m][d] + 1 ELSE age[m][d]]

Second ==
  /\ Prompt => wire = {}
  /\ busy' = [m \in Monitors |-> busy[m] \ Expired(m)]
  /\ age' = [m \in Monitors |-> Aged(m)]
  /\ wire' = wire \union
       UNION {UNION {Tell(m, "busy", d) : d \in occupy[m]} : m \in Monitors}
  /\ settled' = TRUE
  /\ UNCHANGED <<view, talking, occupy, lost>>

-----------------------------------------------------------------------------
User(m) ==
  \/ Leave(m) \/ InterphoneCall(m)
  \/ HomeList(m) \/ HomeCancel(m) \/ ButtonTalk(m) \/ KeyTalk(m)
  \/ TuyaEnter(m) \/ TuyaTakeOver(m)
  \/ TuyaTalk(m) \/ TuyaHangUp(m) \/ TuyaQuit(m)
  \/ \E d \in Doors : \/ HomeMonitor(m, d) \/ HomePick(m, d)
                      \/ KeyEnter(m, d) \/ KeySwitch(m, d)
                      \/ TuyaSwap(m, d)

Next ==
  \/ \E m \in Monitors : User(m) \/ Refresh(m)
  \/ \E d \in Doors, f \in Families : PanelCall(d, f)
  \/ Deliver \/ Lose \/ Second

Spec == Init /\ [][Next]_vars

\* Seconds pass whatever people do (only the bound MaxPending lets a second
\* wait for datagrams), and what is not lost arrives.
FairSpec == Spec /\ SF_vars(Second) /\ WF_vars(Deliver)

-----------------------------------------------------------------------------
(* Properties.                                                             *)

\* A monitor announces a door as its own only while it talks to that door: no
\* path out of a talk - leaving, a call, a takeover - leaves the flag behind,
\* which would keep the door busy for everybody for good.
OccupiesItsTalk ==
  \A m \in Monitors :
    occupy[m] # {} => /\ screen[m] = "monitor" /\ talking[m]
                      /\ occupy[m] = {ch[m]}

\* A panel hears one monitor at a time.  network_common.c:526-532 says that
\* before a talk the monitors find out whether another device is talking, and
\* that the panel is busy if so.
SamePanel(m, n) == ch[m] = ch[n] /\ n \in Audience(m, ch[m])

OneTalker ==
  \A m, n \in Monitors : talking[m] /\ talking[n] => ~SamePanel(m, n)

\* Once the datagrams have arrived, all of them, no other monitor shows the
\* door somebody talks to: watchers were sent home and nobody can enter.
AloneAtDoor ==
  lost = 0 /\ wire = {} =>
    \A m, n \in Monitors :
      talking[m] /\ screen[n] = "monitor" => ~SamePanel(m, n)

\* layout_define.c:403 "tell the devices that this device occupies the panel":
\* a second after the last change or loss every monitor concerned knows it,
\* however often marks were released, lost or expired before.
TalkIsKnown ==
  settled /\ wire = {} =>
    \A m \in Monitors : talking[m] =>
      \A n \in Audience(m, ch[m]) : ch[m] \in busy[n]

\* A door nobody talks to any more does not stay marked busy, although releases
\* get lost, are sent by the wrong monitor or are not sent at all.
MarkExpires ==
  \A m \in Monitors, d \in Doors :
    d \in busy[m] ~> \/ d \notin busy[m]
                     \/ \E n \in Monitors : talking[n] /\ ch[n] = d
=============================================================================
