--------------------------- MODULE DoorLineProofs ---------------------------
(***************************************************************************)
(* For any number of monitors, doors and flats: every variable keeps its   *)
(* type, a monitor announces only the door it talks to, a talk with the    *)
(* button becomes known to every monitor it concerns, and at the only door *)
(* nobody else stays.  The last two are theorems of the part of the code   *)
(* for which they are true; their hypotheses name what they leave out.     *)
(***************************************************************************)
EXTENDS DoorLine, FiniteSetTheorems, TLAPS

LEMMA TellType ==
  ASSUME NEW m \in Monitors, NEW d \in Doors, NEW cmd \in Commands
  PROVE  Tell(m, cmd, d) \subseteq Messages
BY FamilyAssumption DEF Tell, Audience, Messages

LEMMA LeaveTellsType ==
  ASSUME TypeOK, NEW m \in Monitors
  PROVE  LeaveTells(m) \subseteq Messages
<1>1. ch[m] \in Doors /\ "release" \in Commands
  BY DEF TypeOK, Commands
<1> QED
  BY <1>1, TellType DEF LeaveTells

LEMMA GoHomeType ==
  ASSUME TypeOK, NEW m \in Monitors, GoHome(m)
  PROVE  /\ screen' \in [Monitors -> {"home", "monitor"}]
         /\ enter' \in [Monitors -> {"none", "manual", "call", "tuya"}]
         /\ ch' \in [Monitors -> Doors]
         /\ talking' \in [Monitors -> BOOLEAN]
         /\ panel' \in [Monitors -> BOOLEAN]
         /\ list' \in [Monitors -> SUBSET Doors]
         /\ occupy' \in [Monitors -> SUBSET Doors]
BY DEF TypeOK, GoHome

LEMMA EnterType ==
  ASSUME TypeOK, NEW m \in Monitors, NEW d \in Doors,
         NEW flag \in {"manual", "call", "tuya"}, Enter(m, d, flag)
  PROVE  /\ screen' \in [Monitors -> {"home", "monitor"}]
         /\ enter' \in [Monitors -> {"none", "manual", "call", "tuya"}]
         /\ ch' \in [Monitors -> Doors]
         /\ panel' \in [Monitors -> BOOLEAN]
         /\ list' \in [Monitors -> SUBSET Doors]
BY DEF TypeOK, Enter

LEMMA StartTalkType ==
  ASSUME TypeOK, NEW m \in Monitors, StartTalk(m)
  PROVE  talking' \in [Monitors -> BOOLEAN] /\ wire' \in SUBSET Messages
<1>1. ch[m] \in Doors /\ {"talk", "busy"} \subseteq Commands
  BY DEF TypeOK, Commands
<1>2. /\ Tell(m, "talk", ch[m]) \subseteq Messages
      /\ Tell(m, "busy", ch[m]) \subseteq Messages
  BY <1>1, TellType
<1> QED
  BY <1>2 DEF TypeOK, StartTalk

\* What one second does to the ages.
LEMMA AgedType ==
  ASSUME TypeOK, NEW m \in Monitors
  PROVE  Aged(m) \in [Doors -> 0..(AgeMax + 1)]
<1> SUFFICES ASSUME NEW d \in Doors
             PROVE  (IF d \in Expired(m) THEN 0
                     ELSE IF d \in busy[m] THEN age[m][d] + 1 ELSE age[m][d])
                      \in 0..(AgeMax + 1)
  BY DEF Aged
<1>1. AgeMax \in Nat /\ age[m][d] \in 0..(AgeMax + 1)
  BY AgeAssumption DEF TypeOK
<1>2. d \in busy[m] /\ d \notin Expired(m) => ~(age[m][d] > AgeMax)
  BY DEF Expired
<1> QED
  BY <1>1, <1>2

-----------------------------------------------------------------------------
LEMMA UserType ==
  ASSUME TypeOK, NEW m \in Monitors, User(m)
  PROVE  TypeOK'
<1> USE DEF view, net, Acts
<1>1. CASE Leave(m) \/ InterphoneCall(m) \/ TuyaQuit(m)
  <2>1. GoHome(m) /\ wire' = wire \union LeaveTells(m) /\ UNCHANGED net
        /\ settled' = FALSE
    BY <1>1 DEF Leave, InterphoneCall, TuyaQuit, InTuya
  <2> QED
    BY <2>1, GoHomeType, LeaveTellsType DEF TypeOK
<1>2. CASE HomeList(m)
  BY <1>2 DEF HomeList, TypeOK
<1>3. CASE HomeCancel(m)
  BY <1>3 DEF HomeCancel, TypeOK
<1>4. CASE ButtonTalk(m)
  <2>1. occupy' \in [Monitors -> SUBSET Doors]
    BY <1>4 DEF ButtonTalk, TypeOK
  <2>2. talking' \in [Monitors -> BOOLEAN] /\ wire' \in SUBSET Messages
    BY <1>4, StartTalkType DEF ButtonTalk
  <2> QED
    BY <1>4, <2>1, <2>2 DEF ButtonTalk, TypeOK
<1>5. CASE KeyTalk(m)
  BY <1>5, StartTalkType DEF KeyTalk, TypeOK
<1>6. CASE TuyaEnter(m)
  <2>1. UNCHANGED <<talking, occupy, wire, net>> /\ settled' = FALSE
    BY <1>6 DEF TuyaEnter
  <2>2. CASE Free(m) = {}
    BY <1>6, <2>1, <2>2 DEF TuyaEnter, TypeOK
  <2>3. CASE Free(m) # {}
    <3>1. PICK d \in Doors : Enter(m, d, "tuya")
      BY <1>6, <2>3 DEF TuyaEnter, Free
    <3> QED
      BY <2>1, <3>1, EnterType DEF TypeOK
  <2> QED
    BY <2>2, <2>3
<1>7. CASE TuyaTakeOver(m)
  BY <1>7 DEF TuyaTakeOver, TypeOK
<1>8. CASE TuyaTalk(m)
  <2>1. occupy' \in [Monitors -> SUBSET Doors]
    BY <1>8 DEF TuyaTalk, InTuya, TypeOK
  <2>2. talking' \in [Monitors -> BOOLEAN] /\ wire' \in SUBSET Messages
    BY <1>8, StartTalkType DEF TuyaTalk, InTuya
  <2> QED
    BY <1>8, <2>1, <2>2 DEF TuyaTalk, InTuya, TypeOK
<1>9. CASE TuyaHangUp(m)
  BY <1>9 DEF TuyaHangUp, InTuya, TypeOK
<1>10. ASSUME NEW d \in Doors,
              HomeMonitor(m, d) \/ HomePick(m, d) \/ KeyEnter(m, d)
       PROVE  TypeOK'
  <2>1. Enter(m, d, "manual")
    BY <1>10 DEF HomeMonitor, HomePick, KeyEnter
  <2>2. UNCHANGED <<talking, occupy, wire, net>> /\ settled' = FALSE
    BY <1>10 DEF HomeMonitor, HomePick, KeyEnter
  <2> QED
    BY <2>1, <2>2, EnterType DEF TypeOK
<1>11. ASSUME NEW d \in Doors, KeySwitch(m, d) \/ TuyaSwap(m, d)
       PROVE  TypeOK'
  BY <1>11 DEF KeySwitch, TuyaSwap, InTuya, TypeOK
<1> QED
  BY <1>1, <1>2, <1>3, <1>4, <1>5, <1>6, <1>7, <1>8, <1>9, <1>10, <1>11
     DEF User

LEMMA ReceiveType ==
  ASSUME TypeOK, NEW msg \in wire, Receive(msg.to, msg)
  PROVE  TypeOK'
<1> DEFINE m == msg.to
<1> USE DEF view, net
<1>1. /\ m \in Monitors /\ msg.door \in Doors
      /\ wire \ {msg} \in SUBSET Messages /\ settled' = settled
  BY DEF TypeOK, Messages, Receive
<1>2. CASE ReceiveBusy(m, msg)
  <2>1. AgeMax \in Nat /\ 0 \in 0..(AgeMax + 1)
    BY AgeAssumption
  <2> QED
    BY <1>1, <1>2, <2>1 DEF ReceiveBusy, TypeOK
<1>3. CASE ReceiveRelease(m, msg)
  BY <1>1, <1>3 DEF ReceiveRelease, TypeOK
<1>4. CASE ReceiveTalk(m, msg) \/ CallOtherFamily(m, msg)
  <2>1. CASE GoHome(m) /\ wire' = (wire \ {msg}) \union LeaveTells(m)
    BY <1>1, <1>4, <2>1, GoHomeType, LeaveTellsType
       DEF ReceiveTalk, CallOtherFamily, TypeOK
  <2>2. CASE wire' = wire \ {msg} /\ UNCHANGED <<view, talking, occupy>>
    BY <1>1, <1>4, <2>2 DEF ReceiveTalk, CallOtherFamily, TypeOK
  <2> QED
    BY <1>4, <2>1, <2>2 DEF ReceiveTalk, CallOtherFamily
<1>5. CASE CallAtHome(m, msg)
  <2>1. CASE Enter(m, msg.door, "call")
    BY <1>1, <1>5, <2>1, EnterType DEF CallAtHome, TypeOK
  <2>2. CASE UNCHANGED view
    BY <1>1, <1>5, <2>2 DEF CallAtHome, TypeOK
  <2> QED
    BY <1>5, <2>1, <2>2 DEF CallAtHome
<1>6. CASE CallEndsTuya(m, msg)
  BY <1>1, <1>6, EnterType, LeaveTellsType DEF CallEndsTuya, TypeOK
<1>7. CASE CallIgnored(m, msg)
  BY <1>1, <1>7 DEF CallIgnored, TypeOK
<1>8. CASE CallHangsUp(m, msg)
  <2>1. Tell(m, "release", ch[m]) \subseteq Messages
    BY <1>1, TellType DEF TypeOK, Commands
  <2> QED
    BY <1>1, <1>8, <2>1 DEF CallHangsUp, TypeOK
<1>9. CASE CallShown(m, msg)
  BY <1>1, <1>9 DEF CallShown, TypeOK
<1> QED
  BY <1>2, <1>3, <1>4, <1>5, <1>6, <1>7, <1>8, <1>9 DEF Receive

\* Every step keeps the types.
LEMMA NextType == TypeOK /\ [Next]_vars => TypeOK'
<1> SUFFICES ASSUME TypeOK, [Next]_vars
             PROVE  TypeOK'
  OBVIOUS
<1>1. ASSUME NEW m \in Monitors, User(m)
      PROVE  TypeOK'
  BY <1>1, UserType
<1>2. ASSUME NEW m \in Monitors, Refresh(m)
      PROVE  TypeOK'
  <2>1. Refreshed(m) \in SUBSET Doors
    BY DEF Refreshed, TypeOK
  <2> QED
    BY <1>2, <2>1 DEF Refresh, net, TypeOK
<1>3. ASSUME NEW d \in Doors, NEW f \in Families, PanelCall(d, f)
      PROVE  TypeOK'
  <2>1. wire' \in SUBSET Messages
    BY <1>3 DEF PanelCall, Messages, Commands, TypeOK
  <2> QED
    BY <1>3, <2>1 DEF PanelCall, Acts, view, net, TypeOK
<1>4. CASE Deliver
  BY <1>4, ReceiveType DEF Deliver
<1>5. CASE Lose
  <2>1. lost' \in Nat /\ settled' = FALSE
    BY <1>5 DEF Lose, TypeOK
  <2>2. PICK msg \in wire : wire' = wire \ {msg}
    BY <1>5 DEF Lose
  <2>3. wire' \in SUBSET Messages
    BY <2>2 DEF TypeOK
  <2>4. UNCHANGED <<screen, enter, ch, talking, panel, list, occupy, busy, age>>
    BY <1>5 DEF Lose, view
  <2> QED
    BY <2>1, <2>3, <2>4 DEF TypeOK
<1>6. CASE Second
  <2>1. age' \in [Monitors -> [Doors -> 0..(AgeMax + 1)]]
    BY <1>6, AgedType DEF Second
  <2>2. wire' \in SUBSET Messages
    <3>1. ASSUME NEW m \in Monitors, NEW d \in occupy[m]
          PROVE  Tell(m, "busy", d) \subseteq Messages
      BY TellType DEF Commands, TypeOK
    <3> QED
      BY <1>6, <3>1 DEF Second, TypeOK
  <2> QED
    BY <1>6, <2>1, <2>2 DEF Second, view, TypeOK
<1>7. CASE UNCHANGED vars
  BY <1>7 DEF vars, TypeOK
<1> QED
  BY <1>1, <1>2, <1>3, <1>4, <1>5, <1>6, <1>7 DEF Next

\* Every variable keeps its type, the age of a mark never exceeds AgeMax + 1
\* and every datagram is well formed.
THEOREM TypeCorrect == Spec => []TypeOK
<1>1. Init => TypeOK
  <2>1. 0 \in 0..(AgeMax + 1)
    BY AgeAssumption
  <2> QED
    BY <2>1 DEF Init, TypeOK
<1> QED
  BY <1>1, NextType, PTL DEF Spec

-----------------------------------------------------------------------------
(* OccupiesItsTalk is inductive together with the types.                   *)

Announcing(m) ==
  /\ screen[m] = "monitor" /\ talking[m]
  /\ occupy[m] = {ch[m]}

LEMMA GoHomeClears ==
  ASSUME TypeOK, OccupiesItsTalk, NEW m \in Monitors, GoHome(m)
  PROVE  OccupiesItsTalk'
<1> SUFFICES ASSUME NEW n \in Monitors, occupy'[n] # {}
             PROVE  Announcing(n)'
  BY DEF OccupiesItsTalk, Announcing
<1>1. n # m
  BY DEF GoHome, TypeOK
<1>2. occupy'[n] = occupy[n] /\ screen'[n] = screen[n]
      /\ talking'[n] = talking[n] /\ ch'[n] = ch[n]
  BY <1>1 DEF GoHome, TypeOK
<1> QED
  BY <1>2 DEF OccupiesItsTalk, Announcing

\* A step that leaves the announcements of m alone, or makes them one door.
LEMMA OneMonitor ==
  ASSUME OccupiesItsTalk, NEW m \in Monitors,
         \A n \in Monitors \ {m} :
           /\ occupy'[n] = occupy[n] /\ screen'[n] = screen[n]
           /\ talking'[n] = talking[n] /\ ch'[n] = ch[n],
         occupy'[m] # {} => Announcing(m)'
  PROVE  OccupiesItsTalk'
BY DEF OccupiesItsTalk, Announcing

LEMMA EnterAnnounces ==
  ASSUME TypeOK, OccupiesItsTalk, NEW m \in Monitors, NEW d \in Doors, NEW flag,
         screen[m] = "home", Enter(m, d, flag), UNCHANGED <<talking, occupy>>
  PROVE  OccupiesItsTalk'
<1>1. occupy'[m] = {}
  BY DEF OccupiesItsTalk
<1>2. \A n \in Monitors \ {m} :
        /\ occupy'[n] = occupy[n] /\ screen'[n] = screen[n]
        /\ talking'[n] = talking[n] /\ ch'[n] = ch[n]
  BY DEF Enter, TypeOK
<1> QED
  BY <1>1, <1>2, OneMonitor

LEMMA UserAnnounces ==
  ASSUME TypeOK, OccupiesItsTalk, NEW m \in Monitors, User(m)
  PROVE  OccupiesItsTalk'
<1> USE DEF view
<1>0. occupy[m] # {} => Announcing(m)
  BY DEF OccupiesItsTalk, Announcing
<1>1. CASE Leave(m) \/ InterphoneCall(m) \/ TuyaQuit(m)
  BY <1>1, GoHomeClears DEF Leave, InterphoneCall, TuyaQuit
<1>2. CASE HomeList(m) \/ HomeCancel(m)
  BY <1>2 DEF HomeList, HomeCancel, OccupiesItsTalk
<1>3. CASE ButtonTalk(m) \/ TuyaTalk(m)
  <2>1. talking' = [talking EXCEPT ![m] = TRUE]
        /\ occupy' = [occupy EXCEPT ![m] = @ \union {ch[m]}]
        /\ screen[m] = "monitor" /\ UNCHANGED <<screen, ch>>
    BY <1>3 DEF ButtonTalk, TuyaTalk, InTuya, StartTalk
  <2>2. occupy'[m] = {ch'[m]} /\ talking'[m] /\ screen'[m] = "monitor"
    BY <1>0, <2>1 DEF Announcing, TypeOK
  <2>3. \A n \in Monitors \ {m} :
          /\ occupy'[n] = occupy[n] /\ screen'[n] = screen[n]
          /\ talking'[n] = talking[n] /\ ch'[n] = ch[n]
    BY <2>1 DEF TypeOK
  <2> QED
    BY <2>2, <2>3, OneMonitor DEF Announcing
<1>4. CASE KeyTalk(m)
  <2>1. talking' = [talking EXCEPT ![m] = TRUE] /\ ~talking[m]
        /\ UNCHANGED <<screen, ch, occupy>>
    BY <1>4 DEF KeyTalk, StartTalk
  <2> QED
    BY <1>0, <2>1 DEF Announcing, TypeOK, OccupiesItsTalk
<1>5. CASE TuyaTakeOver(m)
  BY <1>5 DEF TuyaTakeOver, TypeOK, OccupiesItsTalk
<1>6. CASE TuyaHangUp(m)
  <2>1. occupy'[m] = {}
    BY <1>0, <1>6 DEF TuyaHangUp, Announcing, TypeOK
  <2>2. \A n \in Monitors \ {m} :
          /\ occupy'[n] = occupy[n] /\ screen'[n] = screen[n]
          /\ talking'[n] = talking[n] /\ ch'[n] = ch[n]
    BY <1>6 DEF TuyaHangUp, TypeOK
  <2> QED
    BY <2>1, <2>2, OneMonitor
<1>7. ASSUME NEW d \in Doors,
             HomeMonitor(m, d) \/ HomePick(m, d) \/ KeyEnter(m, d)
      PROVE  OccupiesItsTalk'
  BY <1>7, EnterAnnounces DEF HomeMonitor, HomePick, KeyEnter
<1>8. ASSUME NEW d \in Doors, KeySwitch(m, d) \/ TuyaSwap(m, d)
      PROVE  OccupiesItsTalk'
  <2>1. ch' = [ch EXCEPT ![m] = d] /\ ~talking[m]
        /\ UNCHANGED <<screen, talking, occupy>>
    BY <1>8 DEF KeySwitch, TuyaSwap
  <2> QED
    BY <1>0, <2>1 DEF Announcing, TypeOK, OccupiesItsTalk
<1>9. CASE TuyaEnter(m)
  <2>1. screen[m] = "home" /\ UNCHANGED <<talking, occupy>>
    BY <1>9 DEF TuyaEnter
  <2>2. CASE Free(m) = {}
    BY <1>9, <2>1, <2>2 DEF TuyaEnter, OccupiesItsTalk
  <2>3. CASE Free(m) # {}
    BY <1>9, <2>1, <2>3, EnterAnnounces DEF TuyaEnter, Free
  <2> QED
    BY <2>2, <2>3
<1> QED
  BY <1>1, <1>2, <1>3, <1>4, <1>5, <1>6, <1>7, <1>8, <1>9 DEF User

LEMMA ReceiveAnnounces ==
  ASSUME TypeOK, OccupiesItsTalk, NEW msg \in wire, Receive(msg.to, msg)
  PROVE  OccupiesItsTalk'
<1> DEFINE m == msg.to
<1> USE DEF view
<1>0. m \in Monitors /\ (occupy[m] # {} => Announcing(m))
  BY DEF TypeOK, Messages, OccupiesItsTalk, Announcing
<1>1. CASE ReceiveBusy(m, msg) \/ ReceiveRelease(m, msg) \/ CallIgnored(m, msg)
  BY <1>1 DEF ReceiveBusy, ReceiveRelease, CallIgnored, OccupiesItsTalk
<1>2. CASE ReceiveTalk(m, msg) \/ CallOtherFamily(m, msg)
  <2>1. CASE GoHome(m)
    BY <1>0, <2>1, GoHomeClears
  <2>2. CASE UNCHANGED <<view, talking, occupy>>
    BY <2>2 DEF OccupiesItsTalk
  <2> QED
    BY <1>2, <2>1, <2>2 DEF ReceiveTalk, CallOtherFamily
<1>3. CASE CallAtHome(m, msg)
  <2>1. occupy[m] = {}
    BY <1>0, <1>3 DEF CallAtHome, Announcing
  <2>2. \A n \in Monitors \ {m} :
          /\ occupy'[n] = occupy[n] /\ screen'[n] = screen[n]
          /\ talking'[n] = talking[n] /\ ch'[n] = ch[n]
    BY <1>3 DEF CallAtHome, Enter, TypeOK
  <2>3. occupy'[m] = {}
    BY <1>3, <2>1 DEF CallAtHome
  <2> QED
    BY <1>0, <2>2, <2>3, OneMonitor
<1>4. CASE CallEndsTuya(m, msg)
  <2>1. occupy'[m] = {}
    BY <1>0, <1>4 DEF CallEndsTuya, TypeOK
  <2>2. \A n \in Monitors \ {m} :
          /\ occupy'[n] = occupy[n] /\ screen'[n] = screen[n]
          /\ talking'[n] = talking[n] /\ ch'[n] = ch[n]
    BY <1>4 DEF CallEndsTuya, Enter, TypeOK
  <2> QED
    BY <1>0, <2>1, <2>2, OneMonitor
<1>5. CASE CallHangsUp(m, msg)
  <2>1. occupy'[m] = {}
    BY <1>0, <1>5 DEF CallHangsUp, Announcing, TypeOK
  <2>2. \A n \in Monitors \ {m} :
          /\ occupy'[n] = occupy[n] /\ screen'[n] = screen[n]
          /\ talking'[n] = talking[n] /\ ch'[n] = ch[n]
    BY <1>5 DEF CallHangsUp, TypeOK
  <2> QED
    BY <1>0, <2>1, <2>2, OneMonitor
<1>6. CASE CallShown(m, msg)
  <2>1. msg.door = ch[m] \/ ~talking[m]
    BY <1>6 DEF CallShown
  <2>2. ch' = [ch EXCEPT ![m] = msg.door] /\ UNCHANGED <<screen, talking, occupy>>
    BY <1>6 DEF CallShown
  <2> QED
    BY <1>0, <2>1, <2>2 DEF Announcing, TypeOK, OccupiesItsTalk
<1> QED
  BY <1>1, <1>2, <1>3, <1>4, <1>5, <1>6 DEF Receive

\* A monitor announces a door as its own only while it talks to it: no way out
\* of a talk leaves occupy_resource behind, with any number of monitors.
THEOREM Announces == Spec => []OccupiesItsTalk
<1>1. Init => OccupiesItsTalk
  BY DEF Init, OccupiesItsTalk
<1>2. TypeOK /\ OccupiesItsTalk /\ [Next]_vars => OccupiesItsTalk'
  <2> SUFFICES ASSUME TypeOK, OccupiesItsTalk, [Next]_vars
               PROVE  OccupiesItsTalk'
    OBVIOUS
  <2>1. ASSUME NEW m \in Monitors, User(m)
        PROVE  OccupiesItsTalk'
    BY <2>1, UserAnnounces
  <2>2. CASE Deliver
    BY <2>2, ReceiveAnnounces DEF Deliver
  <2>3. CASE \/ \E m \in Monitors : Refresh(m)
             \/ \E d \in Doors, f \in Families : PanelCall(d, f)
             \/ Lose \/ Second \/ UNCHANGED vars
    <3>1. UNCHANGED <<screen, ch, talking, occupy>>
      BY <2>3 DEF Refresh, PanelCall, Lose, Second, vars, view
    <3> QED
      BY <3>1 DEF OccupiesItsTalk
  <2> QED
    BY <2>1, <2>2, <2>3 DEF Next
<1> QED
  BY <1>1, <1>2, TypeCorrect, PTL DEF Spec
-----------------------------------------------------------------------------
(* TalkIsKnown, while nobody uses the hardware keys or the phone           *)
(* application (which talk without announcing) and each second finds the   *)
(* datagrams of the last one delivered.  Doors, flats, visitors and losses *)
(* are arbitrary.  The strengthening: who talks announces, and after a     *)
(* second without change only announcements are under way.                 *)

Coming(cmd, n, d) == \E msg \in wire : msg.to = n /\ msg.cmd = cmd /\ msg.door = d

TalkHeld == \A m \in Monitors : talking[m] => screen[m] = "monitor" /\ occupy[m] = {ch[m]}

KnownInv ==
  settled =>
    /\ \A msg \in wire : msg.cmd = "busy"
    /\ \A m \in Monitors : talking[m] =>
         \A n \in Audience(m, ch[m]) : ch[m] \in busy[n] \/ Coming("busy", n, ch[m])

\* The others talk and announce as before.
Elsewhere(m) ==
  \A n \in Monitors \ {m} :
    /\ occupy'[n] = occupy[n] /\ screen'[n] = screen[n]
    /\ talking'[n] = talking[n] /\ ch'[n] = ch[n]

LEMMA OneHolds ==
  ASSUME TalkHeld, NEW m \in Monitors, Elsewhere(m), talking'[m] => Announcing(m)'
  PROVE  TalkHeld'
BY DEF TalkHeld, Announcing, Elsewhere

LEMMA GoHomeHolds ==
  ASSUME TypeOK, TalkHeld, NEW m \in Monitors, GoHome(m)
  PROVE  TalkHeld'
<1>1. Elsewhere(m) /\ ~talking'[m]
  BY DEF GoHome, TypeOK, Elsewhere
<1> QED
  BY <1>1, OneHolds

LEMMA UserHolds ==
  ASSUME TypeOK, OccupiesItsTalk, TalkHeld, ~Keys, ~Tuya, NEW m \in Monitors, User(m)
  PROVE  TalkHeld'
<1> USE DEF view
<1>1. CASE Leave(m) \/ InterphoneCall(m)
  BY <1>1, GoHomeHolds DEF Leave, InterphoneCall
<1>2. CASE HomeList(m) \/ HomeCancel(m)
  BY <1>2 DEF HomeList, HomeCancel, TalkHeld
<1>3. CASE ButtonTalk(m)
  <2>1. talking' = [talking EXCEPT ![m] = TRUE] /\ ~talking[m]
        /\ occupy' = [occupy EXCEPT ![m] = @ \union {ch[m]}]
        /\ screen[m] = "monitor" /\ UNCHANGED <<screen, ch>>
    BY <1>3 DEF ButtonTalk, StartTalk
  <2>2. occupy[m] = {}
    BY <2>1 DEF OccupiesItsTalk
  <2>3. Announcing(m)' /\ Elsewhere(m)
    BY <2>1, <2>2 DEF Announcing, Elsewhere, TypeOK
  <2> QED
    BY <2>3, OneHolds
<1>4. ASSUME NEW d \in Doors, HomeMonitor(m, d) \/ HomePick(m, d)
      PROVE  TalkHeld'
  <2>1. screen[m] = "home" /\ Enter(m, d, "manual") /\ UNCHANGED <<talking, occupy>>
    BY <1>4 DEF HomeMonitor, HomePick
  <2>2. ~talking'[m] /\ Elsewhere(m)
    BY <2>1 DEF TalkHeld, Enter, TypeOK, Elsewhere
  <2> QED
    BY <2>2, OneHolds
<1> QED
  BY <1>1, <1>2, <1>3, <1>4
     DEF User, KeyTalk, KeyEnter, KeySwitch, TuyaEnter, TuyaTakeOver, TuyaTalk,
         TuyaHangUp, TuyaQuit, TuyaSwap, InTuya

LEMMA ReceiveHolds ==
  ASSUME TypeOK, TalkHeld, NEW msg \in wire, Receive(msg.to, msg)
  PROVE  TalkHeld'
<1> DEFINE m == msg.to
<1> USE DEF view
<1>0. m \in Monitors
  BY DEF TypeOK, Messages
<1>1. CASE ReceiveBusy(m, msg) \/ ReceiveRelease(m, msg) \/ CallIgnored(m, msg)
  BY <1>1 DEF ReceiveBusy, ReceiveRelease, CallIgnored, TalkHeld
<1>2. CASE ReceiveTalk(m, msg) \/ CallOtherFamily(m, msg)
  <2>1. CASE GoHome(m)
    BY <1>0, <2>1, GoHomeHolds
  <2>2. CASE UNCHANGED <<view, talking, occupy>>
    BY <2>2 DEF TalkHeld
  <2> QED
    BY <1>2, <2>1, <2>2 DEF ReceiveTalk, CallOtherFamily
<1>3. CASE CallAtHome(m, msg)
  <2>1. ~talking[m] /\ talking' = talking
    BY <1>0, <1>3 DEF CallAtHome, TalkHeld
  <2>2. Elsewhere(m)
    BY <1>3 DEF CallAtHome, Enter, TypeOK, Elsewhere
  <2> QED
    BY <1>0, <2>1, <2>2, OneHolds
<1>4. CASE CallEndsTuya(m, msg)
  <2>1. ~talking'[m] /\ Elsewhere(m)
    BY <1>0, <1>4 DEF CallEndsTuya, Enter, TypeOK, Elsewhere
  <2> QED
    BY <1>0, <2>1, OneHolds
<1>5. CASE CallHangsUp(m, msg)
  <2>1. ~talking'[m] /\ Elsewhere(m)
    BY <1>0, <1>5 DEF CallHangsUp, TypeOK, Elsewhere
  <2> QED
    BY <1>0, <2>1, OneHolds
<1>6. CASE CallShown(m, msg)
  <2>1. msg.door = ch[m] \/ ~talking[m]
    BY <1>6 DEF CallShown
  <2>2. ch' = [ch EXCEPT ![m] = msg.door] /\ UNCHANGED <<screen, talking, occupy>>
    BY <1>6 DEF CallShown
  <2> QED
    BY <1>0, <2>1, <2>2 DEF TalkHeld, TypeOK
<1> QED
  BY <1>1, <1>2, <1>3, <1>4, <1>5, <1>6 DEF Receive

LEMMA NextHolds ==
  ASSUME TypeOK, OccupiesItsTalk, TalkHeld, ~Keys, ~Tuya, [Next]_vars
  PROVE  TalkHeld'
<1>1. ASSUME NEW m \in Monitors, User(m)
      PROVE  TalkHeld'
  BY <1>1, UserHolds
<1>2. CASE Deliver
  BY <1>2, ReceiveHolds DEF Deliver
<1>3. CASE \/ \E m \in Monitors : Refresh(m)
           \/ \E d \in Doors, f \in Families : PanelCall(d, f)
           \/ Lose \/ Second \/ UNCHANGED vars
  <2>1. UNCHANGED <<screen, ch, talking, occupy>>
    BY <1>3 DEF Refresh, PanelCall, Lose, Second, vars, view
  <2> QED
    BY <2>1 DEF TalkHeld
<1> QED
  BY <1>1, <1>2, <1>3 DEF Next

\* What a second sends: who talks is announced to all of its audience.
LEMMA SecondAnnounces ==
  ASSUME TypeOK, TalkHeld, Prompt, Second
  PROVE  /\ \A msg \in wire' : msg.cmd = "busy" /\ \E m \in Monitors : msg.family = FamilyOf[m]
         /\ \A m \in Monitors : talking[m] =>
              \A n \in Audience(m, ch[m]) : Coming("busy", n, ch[m])'
<1>1. wire' = UNION {UNION {Tell(m, "busy", d) : d \in occupy[m]} : m \in Monitors}
  BY DEF Second
<1>2. \A m \in Monitors : \A d \in occupy[m] : Tell(m, "busy", d) \subseteq wire'
  BY <1>1
<1>3. ASSUME NEW msg \in wire'
      PROVE  msg.cmd = "busy" /\ \E m \in Monitors : msg.family = FamilyOf[m]
  <2>1. PICK m \in Monitors : \E d \in occupy[m] : msg \in Tell(m, "busy", d)
    BY <1>1
  <2> QED
    BY <2>1 DEF Tell
<1>4. ASSUME NEW m \in Monitors, talking[m], NEW n \in Audience(m, ch[m])
      PROVE  \E msg \in wire' : msg.to = n /\ msg.cmd = "busy" /\ msg.door = ch[m]
  <2> DEFINE msg == [to |-> n, cmd |-> "busy", door |-> ch[m], family |-> FamilyOf[m]]
  <2>1. ch[m] \in occupy[m]
    BY <1>4 DEF TalkHeld
  <2>2. msg \in Tell(m, "busy", ch[m])
    BY DEF Tell
  <2>3. msg \in wire'
    BY <1>2, <2>1, <2>2
  <2> QED
    BY <2>3
<1>5. ch' = ch
  BY DEF Second, view
<1> QED
  BY <1>3, <1>4, <1>5 DEF Coming

LEMMA NextKnown ==
  ASSUME TypeOK, TalkHeld, KnownInv, Prompt, [Next]_vars
  PROVE  KnownInv'
<1>1. CASE \/ \E m \in Monitors : User(m)
           \/ \E d \in Doors, f \in Families : PanelCall(d, f)
           \/ Lose
  <2>1. settled' = FALSE
    BY <1>1 DEF User, PanelCall, Lose, Acts, Leave, InterphoneCall, HomeList, HomeCancel,
       ButtonTalk, KeyTalk, TuyaEnter, TuyaTakeOver, TuyaTalk, TuyaHangUp, TuyaQuit,
       InTuya, HomeMonitor, HomePick, KeyEnter, KeySwitch, TuyaSwap
  <2> QED
    BY <2>1 DEF KnownInv
<1>2. CASE (\E m \in Monitors : Refresh(m)) \/ UNCHANGED vars
  <2>1. UNCHANGED <<wire, ch, talking, busy, settled>>
    BY <1>2 DEF Refresh, vars, net
  <2> QED
    BY <2>1 DEF KnownInv, Coming, Audience
<1>3. CASE Second
  <2>1. UNCHANGED <<ch, talking>>
    BY <1>3 DEF Second, view
  <2> QED
    BY <1>3, <2>1, SecondAnnounces DEF KnownInv, Audience
<1>4. CASE Deliver
  <2> SUFFICES ASSUME settled'
               PROVE  KnownInv'
    BY DEF KnownInv
  <2>1. PICK msg \in wire : Receive(msg.to, msg)
    BY <1>4 DEF Deliver
  <2>2. settled /\ msg.cmd = "busy"
    BY <2>1 DEF Receive, KnownInv
  <2>3. ReceiveBusy(msg.to, msg)
    BY <2>1, <2>2 DEF Receive, ReceiveRelease, ReceiveTalk, CallAtHome, CallOtherFamily,
       CallEndsTuya, CallIgnored, CallHangsUp, CallShown, CallOwn, CallInside
  <2>4. /\ wire' = wire \ {msg} /\ UNCHANGED <<ch, talking>>
        /\ busy' = [busy EXCEPT ![msg.to] = @ \union {msg.door}]
    BY <2>3 DEF ReceiveBusy, view
  <2>5. ASSUME NEW n \in Monitors, NEW d \in Doors, d \in busy[n] \/ Coming("busy", n, d)
        PROVE  d \in busy'[n] \/ Coming("busy", n, d)'
    <3>1. CASE msg.to = n /\ msg.door = d
      BY <2>4, <3>1 DEF TypeOK
    <3>2. CASE ~(msg.to = n /\ msg.door = d)
      BY <2>4, <2>5, <3>2 DEF TypeOK, Coming
    <3> QED
      BY <3>1, <3>2
  <2>6. \A x \in wire' : x.cmd = "busy"
    BY <2>2, <2>4 DEF KnownInv
  <2>7. ASSUME NEW m \in Monitors, talking'[m], NEW n \in Audience(m, ch[m])
        PROVE  ch[m] \in busy'[n] \/ Coming("busy", n, ch[m])'
    <3>1. PICK d \in Doors : d = ch[m]
      BY DEF TypeOK
    <3>2. n \in Monitors /\ (d \in busy[n] \/ Coming("busy", n, d))
      BY <2>2, <2>4, <2>7, <3>1 DEF KnownInv, Audience
    <3>3. d \in busy'[n] \/ Coming("busy", n, d)'
      BY <2>5, <3>2
    <3> QED
      BY <2>4, <3>1, <3>3 DEF Coming
  <2> QED
    BY <2>4, <2>6, <2>7 DEF KnownInv, Audience, Coming
<1> QED
  BY <1>1, <1>2, <1>3, <1>4 DEF Next

\* Who talks with the button is known: a second after the last change or loss
\* the door is marked at every monitor it concerns, for any monitors, doors,
\* flats and visitors, however many datagrams were lost before.  The hypotheses
\* leave out the talks that are not announced (key_talk and the phone
\* application) and a release that is overtaken by a later announcement.
THEOREM ButtonTalkIsKnown ==
  ASSUME ~Keys, ~Tuya, Prompt
  PROVE  Spec => []TalkIsKnown
<1>1. Init => TalkHeld /\ KnownInv
  BY DEF Init, TalkHeld, KnownInv
<1>2. TypeOK /\ OccupiesItsTalk /\ TalkHeld /\ KnownInv /\ [Next]_vars
        => TalkHeld' /\ KnownInv'
  BY NextHolds, NextKnown
<1>3. KnownInv => TalkIsKnown
  BY DEF KnownInv, TalkIsKnown, Coming
<1> QED
  BY <1>1, <1>2, <1>3, TypeCorrect, Announces, PTL DEF Spec
-----------------------------------------------------------------------------
(* AloneAtDoor, with one door, the screen only and people that act when    *)
(* the datagrams of the last act have arrived.  The strengthening, as long *)
(* as nothing was lost: whom a talk concerns does not talk, is about to be *)
(* sent home if it watches, keeps the door marked or is about to mark it,  *)
(* and no release is on its way to it.                                     *)

Sent(d) == {[to |-> p[1][1], cmd |-> p[1][2], door |-> d, family |-> FamilyOf[p[2]]] :
              p \in (Monitors \X {"talk", "busy", "release"}) \X Monitors}

Plainly(d) ==
  /\ wire \subseteq Sent(d)
  /\ \A m \in Monitors : list[m] = {} /\ enter[m] \in {"none", "manual"}

\* What a monitor n in the audience of a talk at door d is like.
Yields(n, d) ==
  /\ ~talking[n]
  /\ screen[n] = "monitor" => Coming("talk", n, d)
  /\ (d \in busy[n] /\ age[n][d] = 0) \/ Coming("busy", n, d)
  /\ ~Coming("release", n, d)

AloneInv(d) ==
  lost = 0 => \A m \in Monitors : talking[m] => \A n \in Audience(m, d) : Yields(n, d)

\* The part of Yields that depends on n and the datagrams to n alone.
SameFor(n, d) ==
  /\ talking'[n] = talking[n] /\ screen'[n] = screen[n]
  /\ d \in busy'[n] <=> d \in busy[n]
  /\ age'[n][d] = age[n][d]
  /\ \A cmd \in Commands : Coming(cmd, n, d)' <=> Coming(cmd, n, d)

LEMMA SentFinite == ASSUME NEW d PROVE IsFiniteSet(Sent(d))
<1> DEFINE P == (Monitors \X {"talk", "busy", "release"}) \X Monitors
<1> DEFINE f == [p \in P |-> [to |-> p[1][1], cmd |-> p[1][2], door |-> d,
                              family |-> FamilyOf[p[2]]]]
<1>1. IsFiniteSet({"talk", "busy", "release"})
  <2>1. IsFiniteSet({"talk"}) /\ IsFiniteSet({"busy"}) /\ IsFiniteSet({"release"})
    BY FS_Singleton
  <2>2. IsFiniteSet({"talk"} \union {"busy"})
    BY <2>1, FS_Union
  <2>3. IsFiniteSet(({"talk"} \union {"busy"}) \union {"release"})
    BY <2>1, <2>2, FS_Union
  <2>4. {"talk", "busy", "release"} = ({"talk"} \union {"busy"}) \union {"release"}
    OBVIOUS
  <2> QED
    BY <2>3, <2>4
<1>2. IsFiniteSet(Monitors \X {"talk", "busy", "release"})
  BY <1>1, MonitorsAssumption, FS_Product
<1>3. IsFiniteSet(P)
  BY <1>2, MonitorsAssumption, FS_Product
<1>4. f \in Surjection(P, Sent(d))
  BY DEF Surjection, Sent
<1> QED
  BY <1>3, <1>4, FS_Surjection

\* People act only when nothing is under way.
LEMMA NothingUnderWay ==
  ASSUME Prompt, NEW d, wire \subseteq Sent(d), Quiet
  PROVE  wire = {}
<1>1. IsFiniteSet(wire) /\ Cardinality(wire) \in Nat
  BY SentFinite, FS_Subset, FS_CardinalityType
<1>2. Cardinality(wire) = 0
  BY <1>1 DEF Quiet, Prompt
<1> QED
  BY <1>1, <1>2, FS_EmptySet

LEMMA TellSent ==
  ASSUME NEW m \in Monitors, NEW d, NEW cmd \in {"talk", "busy", "release"}
  PROVE  Tell(m, cmd, d) \subseteq Sent(d)
<1> SUFFICES ASSUME NEW r \in Audience(m, d)
             PROVE  [to |-> r, cmd |-> cmd, door |-> d, family |-> FamilyOf[m]] \in Sent(d)
  BY DEF Tell
<1> DEFINE p == <<<<r, cmd>>, m>>
<1>1. p \in (Monitors \X {"talk", "busy", "release"}) \X Monitors
  BY DEF Audience
<1>2. p[1][1] = r /\ p[1][2] = cmd /\ p[2] = m
  OBVIOUS
<1> QED
  BY <1>1, <1>2 DEF Sent

\* Whom a talk at one door concerns, it concerns both ways.
LEMMA AudienceAlike ==
  ASSUME NEW d, NEW m \in Monitors, NEW n \in Audience(m, d)
  PROVE  /\ n \in Monitors /\ n # m /\ m \in Audience(n, d)
         /\ \A k \in Monitors \ {m} : n \in Audience(k, d) => m \in Audience(k, d)
BY DEF Audience

\* At rest the audience of a talk is home and has the door marked.
LEMMA AtRest ==
  ASSUME TypeOK, NEW d \in Doors, AloneInv(d), lost = 0, wire = {},
         NEW m \in Monitors, talking[m], NEW n \in Audience(m, d)
  PROVE  ~talking[n] /\ screen[n] # "monitor" /\ d \in busy[n] /\ age[n][d] = 0
BY DEF AloneInv, Yields, Coming

LEMMA SameYields ==
  ASSUME NEW n, NEW d, SameFor(n, d), Yields(n, d)
  PROVE  Yields(n, d)'
BY DEF SameFor, Yields, Commands

LEMMA UserAlone ==
  ASSUME TypeOK, TalkHeld, NEW d \in Doors, Doors = {d}, ~Keys, ~Tuya, Prompt,
         Plainly(d), AloneInv(d), NEW u \in Monitors, User(u)
  PROVE  Plainly(d)' /\ AloneInv(d)'
<1> USE DEF view, net, Acts
<1>0. /\ \A m \in Monitors : ch[m] = d
      /\ \A m \in Monitors : list[m] = {} /\ enter[m] \in {"none", "manual"}
  BY DEF TypeOK, Plainly
<1>1. CASE Leave(u) \/ InterphoneCall(u)
  <2>1. GoHome(u) /\ wire' = wire \union LeaveTells(u) /\ UNCHANGED <<busy, age, lost>> /\ Quiet
    BY <1>1 DEF Leave, InterphoneCall
  <2>2. wire = {}
    BY <2>1, NothingUnderWay DEF Plainly
  <2>3. wire' = IF talking[u] THEN Tell(u, "release", d) ELSE {}
    BY <1>0, <2>1, <2>2 DEF LeaveTells
  <2>4. Plainly(d)'
    <3>1. wire' \subseteq Sent(d)
      BY <2>3, TellSent
    <3>2. \A m \in Monitors : list'[m] = {} /\ enter'[m] \in {"none", "manual"}
      BY <1>0, <2>1 DEF GoHome, TypeOK
    <3> QED
      BY <3>1, <3>2 DEF Plainly, Sent
  <2>5. ASSUME lost = 0, NEW m \in Monitors, talking'[m], NEW n \in Audience(m, d)
        PROVE  Yields(n, d)'
    <3>1. m # u /\ talking[m] /\ n \in Monitors
      BY <2>1, <2>5 DEF GoHome, TypeOK, Audience
    <3>2. ~talking[n] /\ screen[n] # "monitor" /\ d \in busy[n] /\ age[n][d] = 0
      BY <2>2, <2>5, <3>1, AtRest
    <3>3. ~(talking[u] /\ n \in Audience(u, d))
      <4> SUFFICES ASSUME talking[u], n \in Audience(u, d)
                   PROVE  FALSE
        OBVIOUS
      <4>1. u \in Audience(m, d)
        BY <3>1, AudienceAlike
      <4> QED
        BY <2>2, <2>5, <3>1, <4>1, AtRest
    <3>4. ~Coming("release", n, d)'
      BY <2>3, <3>3 DEF Coming, Tell
    <3>5. ~talking'[n] /\ screen'[n] # "monitor"
      BY <2>1, <3>1, <3>2 DEF GoHome, TypeOK
    <3> QED
      BY <2>1, <3>2, <3>4, <3>5 DEF Yields
  <2> QED
    BY <2>1, <2>4, <2>5 DEF AloneInv, Audience
<1>2. CASE HomeList(u)
  <2>1. Cardinality(Free(u)) # 1 /\ Free(u) # {}
    BY <1>2 DEF HomeList
  <2>2. Free(u) = {d}
    BY <2>1 DEF Free
  <2> QED
    BY <2>1, <2>2, FS_Singleton
<1>3. CASE HomeCancel(u)
  BY <1>0, <1>3 DEF HomeCancel
<1>4. CASE ButtonTalk(u)
  <2>1. /\ Quiet /\ screen[u] = "monitor" /\ UNCHANGED <<screen, enter, list, busy, age, lost>>
        /\ talking' = [talking EXCEPT ![u] = TRUE]
        /\ wire' = wire \union Tell(u, "talk", ch[u]) \union Tell(u, "busy", ch[u])
    BY <1>4 DEF ButtonTalk, StartTalk
  <2>2. wire = {}
    BY <2>1, NothingUnderWay DEF Plainly
  <2>3. wire' = Tell(u, "talk", d) \union Tell(u, "busy", d)
    BY <1>0, <2>1, <2>2
  <2>4. Plainly(d)'
    <3>1. wire' \subseteq Sent(d)
      BY <2>3, TellSent
    <3> QED
      BY <1>0, <2>1, <3>1 DEF Plainly, Sent
  <2>5. ASSUME NEW n PROVE ~Coming("release", n, d)'
    BY <2>3 DEF Coming, Tell
  <2>6. ASSUME lost = 0, NEW m \in Monitors, talking'[m], NEW n \in Audience(m, d)
        PROVE  Yields(n, d)'
    <3>0. n \in Monitors /\ n # m /\ m \in Audience(n, d)
      BY AudienceAlike
    <3>1. CASE m = u
      <4>1. ~talking[n]
        BY <2>1, <2>2, <2>6, <3>0, <3>1, AtRest
      <4>2. ~talking'[n]
        BY <2>1, <3>0, <3>1, <4>1 DEF TypeOK
      <4>3. ASSUME NEW cmd \in {"talk", "busy"}
            PROVE  \E msg \in wire' : msg.to = n /\ msg.cmd = cmd /\ msg.door = d
        <5> DEFINE msg == [to |-> n, cmd |-> cmd, door |-> d, family |-> FamilyOf[u]]
        <5>1. msg \in Tell(u, cmd, d)
          BY <3>1 DEF Tell
        <5>2. msg \in wire'
          BY <2>3, <5>1
        <5> QED
          BY <5>2
      <4>4. Coming("talk", n, d)' /\ Coming("busy", n, d)'
        BY <4>3 DEF Coming
      <4> QED
        BY <2>5, <4>2, <4>4 DEF Yields
    <3>2. CASE m # u
      <4>1. talking[m]
        BY <2>1, <2>6, <3>2 DEF TypeOK
      <4>2. ~talking[n] /\ screen[n] # "monitor" /\ d \in busy[n] /\ age[n][d] = 0
        BY <2>2, <2>6, <4>1, AtRest
      <4>3. n # u /\ ~talking'[n]
        BY <2>1, <3>0, <4>2 DEF TypeOK
      <4> QED
        BY <2>1, <2>5, <4>2, <4>3 DEF Yields
    <3> QED
      BY <3>1, <3>2
  <2> QED
    BY <2>1, <2>4, <2>6 DEF AloneInv, Audience
<1>5. ASSUME NEW e \in Doors, HomeMonitor(u, e) \/ HomePick(u, e)
      PROVE  Plainly(d)' /\ AloneInv(d)'
  <2>1. /\ Quiet /\ Free(u) = {d} /\ Enter(u, e, "manual")
        /\ UNCHANGED <<talking, occupy, wire, busy, age, lost>>
    BY <1>0, <1>5 DEF HomeMonitor, HomePick
  <2>2. wire = {} /\ d \notin busy[u]
    BY <2>1, NothingUnderWay DEF Plainly, Free
  <2>3. Plainly(d)'
    BY <1>0, <2>1 DEF Plainly, Enter, TypeOK, Sent
  <2>4. ASSUME lost = 0, NEW m \in Monitors, talking[m], NEW n \in Audience(m, d)
        PROVE  Yields(n, d)'
    <3>1. /\ n \in Monitors /\ ~talking[n] /\ screen[n] # "monitor"
          /\ d \in busy[n] /\ age[n][d] = 0
      BY <2>2, <2>4, AtRest, AudienceAlike
    <3>2. screen'[n] # "monitor"
      BY <2>1, <2>2, <3>1 DEF Enter, TypeOK
    <3> QED
      BY <2>1, <2>2, <3>1, <3>2 DEF Yields, Coming
  <2> QED
    BY <2>1, <2>3, <2>4 DEF AloneInv, Audience
<1> QED
  BY <1>1, <1>2, <1>3, <1>4, <1>5
     DEF User, KeyTalk, KeyEnter, KeySwitch, TuyaEnter, TuyaTakeOver, TuyaTalk,
         TuyaHangUp, TuyaQuit, TuyaSwap, InTuya

LEMMA DeliverAlone ==
  ASSUME TypeOK, NEW d \in Doors, Doors = {d}, Plainly(d), AloneInv(d),
         NEW msg \in wire, Receive(msg.to, msg)
  PROVE  Plainly(d)' /\ AloneInv(d)'
<1> DEFINE r == msg.to
<1> USE DEF view, net
<1>0. /\ r \in Monitors /\ msg.door = d /\ msg.cmd # "call" /\ ch[r] = d
      /\ \A m \in Monitors : list[m] = {} /\ enter[m] \in {"none", "manual"}
  <2>1. r \in Monitors
    BY DEF TypeOK, Messages
  <2>2. msg \in Sent(d)
    BY DEF Plainly
  <2>3. msg.door = d /\ msg.cmd \in {"talk", "busy", "release"}
    BY <2>2 DEF Sent
  <2>4. ch[r] = d
    BY <2>1 DEF TypeOK
  <2> QED
    BY <2>1, <2>3, <2>4 DEF Plainly
<1>1. ReceiveBusy(r, msg) \/ ReceiveRelease(r, msg) \/ ReceiveTalk(r, msg)
  BY <1>0 DEF Receive, CallAtHome, CallOtherFamily, CallEndsTuya, CallIgnored,
     CallHangsUp, CallShown, CallOwn, CallInside
<1>2. wire' = wire \ {msg} /\ UNCHANGED lost
  BY <1>0, <1>1 DEF ReceiveBusy, ReceiveRelease, ReceiveTalk, TalkSendsHome, LeaveTells
<1>3. /\ talking' = talking \/ (~talking[r] /\ talking' = [talking EXCEPT ![r] = FALSE])
      /\ list' = list \/ list' = [list EXCEPT ![r] = {}]
      /\ enter' = enter \/ enter' = [enter EXCEPT ![r] = "none"]
      /\ screen' = screen \/ screen' = [screen EXCEPT ![r] = "home"]
  BY <1>1 DEF ReceiveBusy, ReceiveRelease, ReceiveTalk, TalkSendsHome, GoHome
<1>4. Plainly(d)'
  <2>1. \A m \in Monitors : list'[m] = {} /\ enter'[m] \in {"none", "manual"}
    BY <1>0, <1>3 DEF TypeOK
  <2>2. wire' \subseteq Sent(d)
    BY <1>2 DEF Plainly
  <2> QED
    BY <2>1, <2>2 DEF Plainly, Sent
<1>5. ASSUME NEW n \in Monitors \ {r}
      PROVE  SameFor(n, d)
  <2>1. talking'[n] = talking[n] /\ screen'[n] = screen[n]
    BY <1>3 DEF TypeOK
  <2>2. busy'[n] = busy[n] /\ age'[n] = age[n]
    BY <1>1 DEF ReceiveBusy, ReceiveRelease, ReceiveTalk, TypeOK
  <2>3. \A cmd \in Commands : Coming(cmd, n, d)' <=> Coming(cmd, n, d)
    BY <1>2 DEF Coming
  <2> QED
    BY <2>1, <2>2, <2>3 DEF SameFor
<1>6. ASSUME Yields(r, d)
      PROVE  Yields(r, d)'
  <2>1. ~talking'[r]
    BY <1>3, <1>6 DEF Yields, TypeOK
  <2>2. msg.cmd # "release"
    BY <1>0, <1>6 DEF Yields, Coming
  <2>3. \A cmd \in Commands : Coming(cmd, r, d)' => Coming(cmd, r, d)
    BY <1>2 DEF Coming
  <2>4. \A cmd \in Commands \ {msg.cmd} : Coming(cmd, r, d)' <=> Coming(cmd, r, d)
    BY <1>2 DEF Coming
  <2>5. CASE ReceiveBusy(r, msg)
    <3>1. d \in busy'[r] /\ age'[r][d] = 0 /\ screen' = screen /\ msg.cmd = "busy"
      BY <1>0, <2>5 DEF ReceiveBusy, TypeOK
    <3> QED
      BY <1>6, <2>1, <2>3, <2>4, <3>1 DEF Yields, Commands
  <2>6. CASE ReceiveTalk(r, msg)
    <3>1. screen'[r] # "monitor"
      BY <1>0, <1>6, <2>6 DEF ReceiveTalk, TalkSendsHome, GoHome, TypeOK, Yields
    <3>2. UNCHANGED <<busy, age>> /\ msg.cmd = "talk"
      BY <2>6 DEF ReceiveTalk
    <3> QED
      BY <1>6, <2>1, <2>3, <2>4, <3>1, <3>2 DEF Yields, Commands
  <2>7. CASE ReceiveRelease(r, msg)
    BY <2>2, <2>7 DEF ReceiveRelease
  <2> QED
    BY <1>1, <2>5, <2>6, <2>7
<1>7. ASSUME lost = 0, NEW m \in Monitors, talking'[m], NEW n \in Audience(m, d)
      PROVE  Yields(n, d)'
  <2>1. talking[m] /\ n \in Monitors
    BY <1>3, <1>7 DEF TypeOK, Audience
  <2>2. Yields(n, d)
    BY <1>7, <2>1 DEF AloneInv
  <2>3. CASE n = r
    BY <1>6, <2>2, <2>3
  <2>4. CASE n # r
    BY <1>5, <2>1, <2>2, <2>4, SameYields
  <2> QED
    BY <2>3, <2>4
<1> QED
  BY <1>2, <1>4, <1>7 DEF AloneInv, Audience

LEMMA SecondAlone ==
  ASSUME TypeOK, TalkHeld, NEW d \in Doors, Doors = {d}, Prompt, Plainly(d), AloneInv(d),
         Second
  PROVE  Plainly(d)' /\ AloneInv(d)'
<1>1. /\ wire = {} /\ UNCHANGED <<screen, enter, ch, list, talking, lost>>
      /\ busy' = [m \in Monitors |-> busy[m] \ Expired(m)]
      /\ wire' = UNION {UNION {Tell(m, "busy", e) : e \in occupy[m]} : m \in Monitors}
  BY DEF Second, view
<1>2. Plainly(d)'
  <2>1. ASSUME NEW m \in Monitors, NEW e \in occupy[m]
        PROVE  Tell(m, "busy", e) \subseteq Sent(d)
    <3>1. e = d
      BY DEF TypeOK
    <3> QED
      BY <3>1, TellSent
  <2>2. wire' \subseteq Sent(d)
    BY <1>1, <2>1
  <2> QED
    BY <1>1, <2>2 DEF Plainly, Sent
<1>3. ASSUME lost = 0, NEW m \in Monitors, talking[m], NEW n \in Audience(m, d)
      PROVE  Yields(n, d)'
  <2>1. ~talking[n] /\ screen[n] # "monitor"
    BY <1>1, <1>3, AtRest
  <2>2. ch[m] = d
    BY DEF TypeOK
  <2>3. Coming("busy", n, d)'
    BY <1>1, <1>3, <2>2, SecondAnnounces DEF Coming
  <2>4. ~Coming("release", n, d)'
    BY SecondAnnounces DEF Coming
  <2> QED
    BY <1>1, <2>1, <2>3, <2>4 DEF Yields
<1> QED
  BY <1>1, <1>2, <1>3 DEF AloneInv, Audience

LEMMA NextAlone ==
  ASSUME TypeOK, TalkHeld, NEW d \in Doors, Doors = {d}, ~Calls, ~Keys, ~Tuya, Prompt,
         Plainly(d), AloneInv(d), [Next]_vars
  PROVE  Plainly(d)' /\ AloneInv(d)'
<1>1. ASSUME NEW m \in Monitors, User(m)
      PROVE  Plainly(d)' /\ AloneInv(d)'
  BY <1>1, UserAlone
<1>2. ASSUME NEW m \in Monitors, Refresh(m)
      PROVE  FALSE
  BY <1>2 DEF Refresh, Refreshed, Plainly
<1>3. ASSUME NEW e \in Doors, NEW f \in Families, PanelCall(e, f)
      PROVE  FALSE
  BY <1>3 DEF PanelCall
<1>4. CASE Deliver
  BY <1>4, DeliverAlone DEF Deliver
<1>5. CASE Lose
  <2>1. lost' # 0
    BY <1>5 DEF Lose, TypeOK
  <2>2. wire' \subseteq wire /\ UNCHANGED <<list, enter>>
    BY <1>5 DEF Lose, view
  <2> QED
    BY <2>1, <2>2 DEF AloneInv, Plainly, Sent
<1>6. CASE Second
  BY <1>6, SecondAlone
<1>7. CASE UNCHANGED vars
  BY <1>7 DEF vars, AloneInv, Plainly, Yields, Coming, Audience, Sent
<1> QED
  BY <1>1, <1>2, <1>3, <1>4, <1>5, <1>6, <1>7 DEF Next

\* With one door and no loss nobody else shows the door somebody talks to once
\* the datagrams have arrived, for any number of monitors and flats: watchers
\* were sent home (layout_monitor.c 400-412) and the mark of the door, renewed
\* each second before it can expire, keeps everybody from entering.
THEOREM AloneAtTheDoor ==
  ASSUME NEW d, Doors = {d}, ~Calls, ~Keys, ~Tuya, Prompt
  PROVE  Spec => []AloneAtDoor
<1>0. d \in Doors
  OBVIOUS
<1>1. Init => TalkHeld /\ Plainly(d) /\ AloneInv(d)
  BY DEF Init, TalkHeld, Plainly, AloneInv
<1>2. TypeOK /\ OccupiesItsTalk /\ TalkHeld /\ Plainly(d) /\ AloneInv(d) /\ [Next]_vars
        => TalkHeld' /\ Plainly(d)' /\ AloneInv(d)'
  BY <1>0, NextHolds, NextAlone
<1>3. TypeOK /\ AloneInv(d) => AloneAtDoor
  <2> SUFFICES ASSUME TypeOK, AloneInv(d), lost = 0, wire = {},
                      NEW m \in Monitors, NEW n \in Monitors, talking[m],
                      screen[n] = "monitor", SamePanel(m, n)
               PROVE  FALSE
    BY DEF AloneAtDoor
  <2>1. n \in Audience(m, d)
    BY DEF SamePanel, TypeOK
  <2> QED
    BY <1>0, <2>1, AtRest
<1> QED
  BY <1>1, <1>2, <1>3, TypeCorrect, Announces, PTL DEF Spec
=============================================================================
