--------------------------- MODULE InterphoneProofs ---------------------------
(***************************************************************************)
(* For any number of monitors, any timeout, any number of datagrams on the *)
(* way and lost: every variable keeps its type, status, flags, layout and  *)
(* countdown of a monitor describe one call, and both sides of a call      *)
(* agree on it once everything has been handled.                           *)
(*                                                                         *)
(* The flag that a monitor sets when it rings is that of the caller, so    *)
(* the call must come from somebody else: the first strengthening says     *)
(* that no monitor gets a datagram of its own.                             *)
(*                                                                         *)
(* Agreed speaks of empty queues only.  Its strengthening says for every   *)
(* pair of monitors what the datagrams between them stand for while they   *)
(* are on the way (Side), and that a monitor has one call under way at a   *)
(* time (Token).  The first half of the proof is about queues alone: what  *)
(* an appended and a read datagram change; the second half is one lemma    *)
(* for each handler.                                                       *)
(***************************************************************************)
EXTENDS Interphone, TLAPS

\* What m can find in its event queue
Mail(m) == [kind : Kinds, from : Others(m)]
OthersWrite == \A m \in Monitors : inbox[m] \in Seq(Mail(m))
IInv == TypeOK /\ OthersWrite /\ OneCall

-----------------------------------------------------------------------------
(* Event queues.                                                           *)

Boxes(box) == /\ box \in [Monitors -> Seq(Messages)]
              /\ \A m \in Monitors : box[m] \in Seq(Mail(m))

LEMMA MailIsMessage ==
  ASSUME NEW m \in Monitors
  PROVE  Mail(m) \subseteq Messages
BY DEF Mail, Messages, Others

LEMMA SentBoxes ==
  ASSUME NEW box, Boxes(box), NEW m \in Monitors, NEW k \in Kinds,
         NEW to \in SUBSET Others(m)
  PROVE  Boxes(Sent(box, m, k, to))
<1> DEFINE message == [kind |-> k, from |-> m]
<1>1. message \in Messages
  BY DEF Messages
<1>2. \A p \in to : p \in Monitors /\ message \in Mail(p)
  BY DEF Mail, Others
<1> HIDE DEF message
<1>3. ASSUME NEW p \in Monitors
      PROVE  /\ Sent(box, m, k, to)[p] \in Seq(Messages)
             /\ Sent(box, m, k, to)[p] \in Seq(Mail(p))
  <2>1. Sent(box, m, k, to)[p] = IF p \in to THEN Append(box[p], message) ELSE box[p]
    BY DEF Sent, message
  <2>2. box[p] \in Seq(Messages) /\ box[p] \in Seq(Mail(p))
    BY DEF Boxes
  <2>3. CASE p \in to
    <3>1. Append(box[p], message) \in Seq(Messages)
      BY <1>1, <2>2
    <3>2. Append(box[p], message) \in Seq(Mail(p))
      BY <1>2, <2>2, <2>3
    <3> QED
      BY <2>1, <2>3, <3>1, <3>2
  <2>4. CASE p \notin to
    BY <2>1, <2>2, <2>4
  <2> QED
    BY <2>3, <2>4
<1>4. Sent(box, m, k, to) \in [Monitors -> Seq(Messages)]
  BY <1>3 DEF Sent
<1> QED
  BY <1>3, <1>4 DEF Boxes

LEMMA RestBoxes ==
  ASSUME Boxes(inbox), NEW m \in Monitors, inbox[m] # <<>>
  PROVE  /\ Boxes(Rest(m))
         /\ From(m) \in Others(m)
<1>1. inbox[m] \in Seq(Messages) /\ inbox[m] \in Seq(Mail(m))
  BY DEF Boxes
<1>2. Tail(inbox[m]) \in Seq(Messages)
  BY <1>1
<1>3. Tail(inbox[m]) \in Seq(Mail(m))
  BY <1>1
<1>4. Head(inbox[m]) \in Mail(m)
  BY <1>1
<1>5. Boxes(Rest(m))
  BY <1>2, <1>3 DEF Rest, Boxes
<1>6. From(m) \in Others(m)
  BY <1>4 DEF From, Mail
<1> QED
  BY <1>5, <1>6

LEMMA LoseBoxes ==
  ASSUME Boxes(inbox), NEW m \in Monitors, inbox[m] # <<>>
  PROVE  Boxes([inbox EXCEPT ![m] = SubSeq(@, 1, Len(@) - 1)])
<1>1. inbox[m] \in Seq(Messages) /\ inbox[m] \in Seq(Mail(m))
  BY DEF Boxes
<1>2. SubSeq(inbox[m], 1, Len(inbox[m]) - 1) \in Seq(Messages)
  BY <1>1
<1>3. SubSeq(inbox[m], 1, Len(inbox[m]) - 1) \in Seq(Mail(m))
  BY <1>1
<1> QED
  BY <1>2, <1>3 DEF Boxes

-----------------------------------------------------------------------------
(* Flags.                                                                  *)

LEMMA FlagType ==
  ASSUME NEW p \in Monitors, NEW n \in 0 .. 3
  PROVE  OnlyFlag(p, n) \in [Monitors -> 0 .. 3] /\ NoFlags \in [Monitors -> 0 .. 3]
BY DEF OnlyFlag, NoFlags

LEMMA FlagValue ==
  ASSUME NEW p \in Monitors, NEW q \in Monitors, NEW n \in 0 .. 3
  PROVE  OnlyFlag(p, n)[q] = IF q = p THEN n ELSE 0
BY DEF OnlyFlag, NoFlags

\* A flag that is raised again is still the only one.
LEMMA FlagAgain ==
  ASSUME NEW p \in Monitors, NEW n \in 0 .. 3, NEW k \in 0 .. 3
  PROVE  [OnlyFlag(p, n) EXCEPT ![p] = k] = OnlyFlag(p, k)
BY DEF OnlyFlag, NoFlags

-----------------------------------------------------------------------------
(* A step of m leaves the calls of the others alone.                       *)

Only(m) == \A n \in Monitors : n # m =>
  /\ layout'[n] = layout[n] /\ talking'[n] = talking[n] /\ status'[n] = status[n]
  /\ master'[n] = master[n] /\ flag'[n] = flag[n] /\ timer'[n] = timer[n]

LEMMA OthersKeepTheirCalls ==
  ASSUME OneCall, NEW m \in Monitors, Only(m), CallOf(m)'
  PROVE  OneCall'
<1> SUFFICES ASSUME NEW n \in Monitors, n # m
             PROVE  CallOf(n)'
  BY DEF OneCall
<1>1. CallOf(n)
  BY DEF OneCall
<1> QED
  BY <1>1 DEF Only, CallOf, Calls

Types ==
  /\ layout \in [Monitors -> Layouts] /\ talking \in [Monitors -> BOOLEAN]
  /\ status \in [Monitors -> Statuses] /\ master \in [Monitors -> Monitors]
  /\ flag \in [Monitors -> [Monitors -> 0 .. 3]]
  /\ timer \in [Monitors -> {Off} \cup 0 .. Timeout]
  /\ standby \in [Monitors -> BOOLEAN]
  /\ lost \in 0 .. MaxLost /\ hasty \in BOOLEAN

LEMMA InvariantParts ==
  IInv <=> Types /\ Boxes(inbox) /\ OneCall
BY DEF IInv, TypeOK, OthersWrite, Types, Boxes

\* How every case of the proof ends
LEMMA Assemble ==
  ASSUME IInv, NEW m \in Monitors, Types', Boxes(inbox)', Only(m), CallOf(m)'
  PROVE  IInv'
<1>1. OneCall'
  BY OthersKeepTheirCalls DEF IInv
<1> QED
  BY <1>1, InvariantParts DEF IInv, TypeOK, OthersWrite, Types, Boxes

-----------------------------------------------------------------------------
(* People and timers.                                                      *)

LEMMA IdleIsNoCall ==
  ASSUME IInv, NEW m \in Monitors, Idle(m),
         talking'[m] => layout'[m] = "door"
  PROVE  /\ status' \in [Monitors -> Statuses]
         /\ flag' \in [Monitors -> [Monitors -> 0 .. 3]]
         /\ timer' \in [Monitors -> {Off} \cup 0 .. Timeout]
         /\ CallOf(m)'
<1>1. status' = [status EXCEPT ![m] = "IDLE"] /\ flag' = [flag EXCEPT ![m] = NoFlags]
      /\ timer' = [timer EXCEPT ![m] = Off]
  BY DEF Idle
<1>2. NoFlags \in [Monitors -> 0 .. 3]
  BY DEF NoFlags
<1>3. status'[m] = "IDLE" /\ flag'[m] = NoFlags /\ timer'[m] = Off
  BY <1>1 DEF IInv, TypeOK
<1> QED
  BY <1>1, <1>2, <1>3 DEF IInv, TypeOK, Statuses, CallOf

\* Whoever leaves the interphone page has no call and tells the others.
LEMMA QuitStep ==
  ASSUME IInv, NEW m \in Monitors, NEW l \in Layouts, NEW box, Boxes(box),
         Quit(m, l, box), layout[m] = "phone", hasty' \in BOOLEAN
  PROVE  IInv'
<1>1. ~talking[m]
  BY DEF IInv, OneCall, CallOf
<1>2. talking'[m] => layout'[m] = "door"
  BY <1>1 DEF Quit
<1>3. Types' /\ CallOf(m)'
  BY <1>2, IdleIsNoCall DEF Quit, IInv, TypeOK, Types
<1>4. Boxes(inbox)'
  <2>1. Others(m) \in SUBSET Others(m) /\ "hangup" \in Kinds
    BY DEF Kinds
  <2>2. inbox' = Sent(box, m, "hangup", Others(m))
    BY DEF Quit
  <2>3. Boxes(inbox')
    BY <2>1, <2>2, SentBoxes
  <2> QED
    BY <2>3 DEF Boxes, Mail, Others
<1>5. Only(m)
  BY DEF Quit, Idle, Only, IInv, TypeOK
<1> QED
  BY <1>3, <1>4, <1>5, Assemble

LEMMA PersonStep ==
  ASSUME IInv, NEW m \in Monitors,
         Cancel(m) \/ GoHome(m) \/ StandbyTimeout(m)
  PROVE  IInv'
<1>1. layout[m] = "phone"
  BY DEF Cancel, GoHome, StandbyTimeout, IInv, OneCall, CallOf
<1>2. Boxes(inbox)
  BY DEF IInv, TypeOK, OthersWrite, Boxes
<1>3. hasty' \in BOOLEAN
  BY DEF Cancel, GoHome, StandbyTimeout, IInv, TypeOK
<1>4. \E l \in Layouts : Quit(m, l, inbox)
  BY DEF Cancel, GoHome, StandbyTimeout, Layouts
<1> QED
  BY <1>1, <1>2, <1>3, <1>4, QuitStep

LEMMA OpenPageStep ==
  ASSUME IInv, NEW m \in Monitors, OpenPage(m)
  PROVE  IInv'
<1>1. ~talking[m]
  BY DEF OpenPage, IInv, OneCall, CallOf
<1>2. talking'[m] => layout'[m] = "door"
  BY <1>1 DEF OpenPage
<1>3. Types' /\ CallOf(m)'
  BY <1>2, IdleIsNoCall DEF OpenPage, IInv, TypeOK, Types, Layouts
<1>4. Boxes(inbox)'
  BY DEF OpenPage, IInv, TypeOK, OthersWrite, Boxes, Mail, Others
<1>5. Only(m)
  BY DEF OpenPage, Idle, Only, IInv, TypeOK
<1> QED
  BY <1>3, <1>4, <1>5, Assemble

LEMMA PickDeviceStep ==
  ASSUME IInv, NEW m \in Monitors, NEW p \in Monitors, PickDevice(m, p)
  PROVE  IInv'
<1>1. p \in Others(m)
  BY DEF PickDevice, Others
<1>2. ~talking[m]
  BY DEF PickDevice, IInv, OneCall, CallOf
<1>3. OnlyFlag(p, 1) \in [Monitors -> 0 .. 3]
  BY FlagType
<1>4. \A t \in {Timeout, Timeout - 1} : t \in 0 .. Timeout /\ t # Off
  BY TimeoutAssumption DEF Off
<1>5. Types'
  BY <1>3, <1>4 DEF PickDevice, IInv, TypeOK, Types, Statuses
<1>6. Boxes(inbox)'
  <2>1. Boxes(inbox) /\ {p} \in SUBSET Others(m) /\ "call" \in Kinds
    BY <1>1 DEF IInv, TypeOK, OthersWrite, Boxes, Kinds
  <2>2. Boxes(inbox')
    BY <2>1, SentBoxes DEF PickDevice
  <2> QED
    BY <2>2 DEF Boxes, Mail, Others
<1>7. status'[m] = "PUBLISH" /\ flag'[m] = OnlyFlag(p, 1) /\ timer'[m] # Off
      /\ layout'[m] = "phone" /\ ~talking'[m]
  BY <1>2, <1>4 DEF PickDevice, IInv, TypeOK
<1>8. CallOf(m)'
  BY <1>1, <1>7 DEF CallOf, Calls, Others, OnlyFlag, NoFlags
<1>9. Only(m)
  BY DEF PickDevice, Only, IInv, TypeOK
<1> QED
  BY <1>5, <1>6, <1>8, <1>9, Assemble

LEMMA SetClockStep ==
  ASSUME IInv, NEW m \in Monitors, SetClock(m)
  PROVE  IInv'
<1>1. Types'
  BY DEF SetClock, IInv, TypeOK, Types
<1>2. Boxes(inbox)'
  BY DEF SetClock, IInv, TypeOK, OthersWrite, Boxes, Mail, Others
<1>3. CallOf(m)'
  BY DEF SetClock, IInv, OneCall, CallOf, Calls
<1>4. Only(m)
  BY DEF SetClock, Only
<1> QED
  BY <1>1, <1>2, <1>3, <1>4, Assemble

LEMMA TickStep ==
  ASSUME IInv, NEW m \in Monitors, Tick(m)
  PROVE  IInv'
<1>1. Boxes(inbox) /\ layout[m] = "phone"
  BY DEF Tick, IInv, TypeOK, OthersWrite, Boxes, OneCall, CallOf
<1>2. CASE timer[m] = 0
  <2>1. Quit(m, "home", inbox) /\ hasty' \in BOOLEAN /\ "home" \in Layouts
    BY <1>2 DEF Tick, IInv, TypeOK, Layouts
  <2> QED
    BY <1>1, <2>1, QuitStep
<1>3. CASE timer[m] # 0
  <2>1. timer[m] \in 1 .. Timeout
    BY <1>3, TimeoutAssumption DEF Tick, IInv, TypeOK
  <2>2. timer[m] - 1 \in 0 .. Timeout /\ timer[m] - 1 # Off
    BY <2>1, TimeoutAssumption DEF Off
  <2>3. timer' = [timer EXCEPT ![m] = timer[m] - 1]
        /\ UNCHANGED <<layout, talking, status, master, flag, standby, inbox, lost, hasty>>
    BY <1>3 DEF Tick
  <2>4. Types'
    BY <2>2, <2>3 DEF IInv, TypeOK, Types
  <2>5. Boxes(inbox)'
    BY <1>1, <2>3 DEF Boxes, Mail, Others
  <2>6. timer'[m] # Off /\ timer[m] # Off
    BY <2>2, <2>3 DEF Tick, IInv, TypeOK
  <2>7. CallOf(m)'
    BY <2>3, <2>6 DEF IInv, OneCall, CallOf, Calls
  <2>8. Only(m)
    BY <2>3 DEF Only, IInv, TypeOK
  <2> QED
    BY <2>4, <2>5, <2>7, <2>8, Assemble
<1> QED
  BY <1>2, <1>3

LEMMA AnswerStep ==
  ASSUME IInv, NEW m \in Monitors, Answer(m)
  PROVE  IInv'
<1> DEFINE p == master[m]
<1>1. p \in Others(m) /\ flag[m] = OnlyFlag(p, 2) /\ layout[m] = "phone" /\ ~talking[m]
  BY DEF Answer, IInv, TypeOK, OneCall, CallOf, Calls, Others
<1>2. p \in Monitors
  BY <1>1 DEF Others
<1>3. flag' = [flag EXCEPT ![m] = [OnlyFlag(p, 2) EXCEPT ![p] = 3]]
  BY <1>1, <1>2 DEF Answer, IInv, TypeOK
<1>4. flag' = [flag EXCEPT ![m] = OnlyFlag(p, 3)]
  <2>1. 2 \in 0 .. 3 /\ 3 \in 0 .. 3
    OBVIOUS
  <2>2. [OnlyFlag(p, 2) EXCEPT ![p] = 3] = OnlyFlag(p, 3)
    BY <1>2, <2>1, FlagAgain
  <2> QED
    BY <1>3, <2>2, Zenon
<1>5. OnlyFlag(p, 3) \in [Monitors -> 0 .. 3]
  BY <1>2, FlagType
<1>6. Types'
  BY <1>4, <1>5 DEF Answer, IInv, TypeOK, Types, Statuses
<1>7. Boxes(inbox)'
  <2>1. Boxes(inbox) /\ {p} \in SUBSET Others(m) /\ "accept" \in Kinds
    BY <1>1 DEF IInv, TypeOK, OthersWrite, Boxes, Kinds
  <2>2. Boxes(inbox')
    BY <2>1, SentBoxes DEF Answer
  <2> QED
    BY <2>2 DEF Boxes, Mail, Others
<1>8. status'[m] = "TALK" /\ flag'[m] = OnlyFlag(p, 3) /\ timer'[m] = Off
      /\ layout'[m] = "phone" /\ ~talking'[m]
  BY <1>1, <1>4 DEF Answer, IInv, TypeOK
<1>9. CallOf(m)'
  BY <1>1, <1>8 DEF CallOf, Calls, Others, OnlyFlag, NoFlags
<1>10. Only(m)
  BY <1>4 DEF Answer, Only, IInv, TypeOK
<1> QED
  BY <1>6, <1>7, <1>9, <1>10, Assemble

LEMMA DoorStep ==
  ASSUME IInv, NEW m \in Monitors, VisitDoor(m) \/ TalkAtDoor(m) \/ LeaveDoor(m)
  PROVE  IInv'
<1>1. Boxes(inbox)
  BY DEF IInv, TypeOK, OthersWrite, Boxes
<1>2. CASE layout[m] = "phone"
  <2>1. Quit(m, "door", inbox) /\ hasty' \in BOOLEAN /\ "door" \in Layouts
    BY <1>2 DEF VisitDoor, TalkAtDoor, LeaveDoor, IInv, TypeOK, Layouts
  <2> QED
    BY <1>1, <1>2, <2>1, QuitStep
<1>3. CASE layout[m] # "phone"
  <2>1. UNCHANGED <<status, master, flag, timer, inbox, lost, hasty>>
    BY <1>3 DEF VisitDoor, TalkAtDoor, LeaveDoor
  <2>2. status[m] = "IDLE"
    BY <1>3 DEF IInv, OneCall, CallOf
  <2>3. Types'
    BY <1>3 DEF VisitDoor, TalkAtDoor, LeaveDoor, IInv, TypeOK, Types, Layouts
  <2>4. talking'[m] => layout'[m] = "door"
    BY <1>3 DEF VisitDoor, TalkAtDoor, LeaveDoor, IInv, TypeOK, OneCall, CallOf
  <2>5. CallOf(m)'
    BY <2>1, <2>2, <2>4 DEF IInv, OneCall, CallOf, Calls
  <2>6. Only(m)
    BY <1>3 DEF VisitDoor, TalkAtDoor, LeaveDoor, Only, IInv, TypeOK
  <2>7. Boxes(inbox)'
    BY <1>1, <2>1 DEF Boxes, Mail, Others
  <2> QED
    BY <2>3, <2>5, <2>6, <2>7, Assemble
<1> QED
  BY <1>2, <1>3

-----------------------------------------------------------------------------
(* Events.                                                                 *)

\* An answer to the oldest event
LEMMA AnswerBoxes ==
  ASSUME IInv, NEW m \in Monitors, NEW kinds, Oldest(m, kinds),
         NEW k \in Kinds, NEW to \in SUBSET Others(m)
  PROVE  Boxes(Rest(m)) /\ Boxes(Sent(Rest(m), m, k, to)) /\ From(m) \in Others(m)
<1>1. Boxes(inbox) /\ inbox[m] # <<>>
  BY DEF IInv, TypeOK, OthersWrite, Boxes, Oldest
<1>2. Boxes(Rest(m)) /\ From(m) \in Others(m)
  BY <1>1, RestBoxes
<1> QED
  BY <1>2, SentBoxes

LEMMA BoxesNext ==
  ASSUME Boxes(inbox')
  PROVE  Boxes(inbox)'
BY DEF Boxes, Mail, Others

LEMMA RingStep ==
  ASSUME IInv, NEW m \in Monitors, Ring(m)
  PROVE  IInv'
<1> DEFINE p == From(m)
<1>1. Oldest(m, {"call"}) /\ {"call", "ack"} \subseteq Kinds
  BY DEF Ring, Kinds
<1>2. p \in Others(m)
  BY <1>1, AnswerBoxes
<1>3. p \in Monitors /\ p # m /\ {p} \in SUBSET Others(m)
  BY <1>2 DEF Others
<1>4. Boxes(inbox')
  BY <1>1, <1>3, AnswerBoxes DEF Ring
<1>5. OnlyFlag(p, 2) \in [Monitors -> 0 .. 3]
  BY <1>3, FlagType
<1>6. /\ master' = [master EXCEPT ![m] = p]
      /\ status' = [status EXCEPT ![m] = "IN"]
      /\ flag' = [flag EXCEPT ![m] = OnlyFlag(p, 2)]
      /\ layout' = [layout EXCEPT ![m] = "phone"]
      /\ standby' = [standby EXCEPT ![m] = @ \/ layout[m] = "door"]
      /\ hasty' \in BOOLEAN
      /\ UNCHANGED <<talking, timer, lost>>
      /\ ~talking[m] /\ status[m] = "IDLE"
  BY DEF Ring, IInv, TypeOK
<1>7. Types'
  BY <1>3, <1>5, <1>6 DEF IInv, TypeOK, Types, Statuses, Layouts
<1>8. master'[m] = p /\ status'[m] = "IN" /\ flag'[m] = OnlyFlag(p, 2)
      /\ ~talking'[m] /\ layout'[m] = "phone" /\ timer'[m] = Off
  BY <1>6 DEF IInv, TypeOK, OneCall, CallOf
<1>9. CallOf(m)'
  BY <1>3, <1>8 DEF CallOf, Calls, OnlyFlag, NoFlags
<1>10. Only(m)
  BY <1>6 DEF Only, IInv, TypeOK
<1> QED
  BY <1>4, <1>7, <1>9, <1>10, BoxesNext, Assemble

\* Events that leave the state of the call alone
LEMMA UnreadStep ==
  ASSUME IInv, NEW m \in Monitors, Boxes(inbox'), lost' \in 0 .. MaxLost,
         UNCHANGED <<layout, talking, status, master, flag, timer, standby, hasty>>
  PROVE  IInv'
<1>1. Types'
  BY DEF IInv, TypeOK, Types
<1>2. CallOf(m)'
  BY DEF IInv, OneCall, CallOf, Calls
<1>3. Only(m)
  BY DEF Only
<1> QED
  BY <1>1, <1>2, <1>3, BoxesNext, Assemble

LEMMA RefuseStep ==
  ASSUME IInv, NEW m \in Monitors, Refuse(m) \/ Ignore(m) \/ Lose(m)
  PROVE  IInv'
<1>1. CASE Refuse(m)
  <2>1. Oldest(m, {"call"}) /\ "busy" \in Kinds
    BY <1>1 DEF Refuse, Kinds
  <2>2. {From(m)} \in SUBSET Others(m)
    BY <2>1, AnswerBoxes
  <2>3. Boxes(inbox')
    BY <1>1, <2>1, <2>2, AnswerBoxes DEF Refuse
  <2> QED
    BY <1>1, <2>3, UnreadStep DEF Refuse, IInv, TypeOK
<1>2. CASE Ignore(m)
  <2>1. Boxes(inbox) /\ inbox[m] # <<>> /\ inbox' = Rest(m)
    BY <1>2 DEF Ignore, Oldest, IInv, TypeOK, OthersWrite, Boxes
  <2>2. Boxes(inbox')
    BY <2>1, RestBoxes
  <2> QED
    BY <1>2, <2>2, UnreadStep DEF Ignore, IInv, TypeOK
<1>3. CASE Lose(m)
  <2>1. Boxes(inbox) /\ inbox[m] # <<>>
    BY <1>3 DEF Lose, IInv, TypeOK, OthersWrite, Boxes
  <2>2. Boxes(inbox')
    BY <1>3, <2>1, LoseBoxes DEF Lose
  <2>3. lost' \in 0 .. MaxLost
    BY <1>3, BoundsAssumption DEF Lose, IInv, TypeOK
  <2> QED
    BY <1>3, <2>2, <2>3, UnreadStep DEF Lose
<1> QED
  BY <1>1, <1>2, <1>3

\* The call whose flag has the value n is the one the flag describes.
LEMMA CallWith ==
  ASSUME NEW f, NEW p \in Monitors, NEW q \in Monitors, NEW n \in 1 .. 3,
         f = OnlyFlag(q, n), f[p] = n
  PROVE  f = OnlyFlag(p, n)
<1>1. q = p
  BY FlagValue
<1> QED
  BY <1>1

LEMMA ReceiveAckStep ==
  ASSUME IInv, NEW m \in Monitors, ReceiveAck(m)
  PROVE  IInv'
<1> DEFINE p == From(m)
<1>1. Oldest(m, {"ack"}) /\ "ack" \in Kinds /\ {} \in SUBSET Others(m)
  BY DEF ReceiveAck, Kinds
<1>2. p \in Others(m) /\ p \in Monitors /\ Boxes(inbox')
  BY <1>1, AnswerBoxes DEF ReceiveAck, Others
<1> HIDE DEF p
<1>3. flag[m] = OnlyFlag(p, 1)
  <2>1. PICK q \in Others(m) : flag[m] = OnlyFlag(q, 1)
    BY DEF ReceiveAck, IInv, OneCall, CallOf, Calls
  <2>2. q \in Monitors /\ flag[m][p] = 1
    BY DEF Others, ReceiveAck, p
  <2>3. 1 \in 1 .. 3
    OBVIOUS
  <2> QED
    BY <1>2, <2>1, <2>2, <2>3, CallWith
<1>4. [flag[m] EXCEPT ![p] = 2] = OnlyFlag(p, 2)
  BY <1>2, <1>3, FlagAgain
<1>5. flag' = [flag EXCEPT ![m] = OnlyFlag(p, 2)]
  <2>1. flag' = [flag EXCEPT ![m] = [flag[m] EXCEPT ![p] = 2]]
    BY DEF ReceiveAck, p
  <2> QED
    BY <1>4, <2>1, Zenon
<1>6. OnlyFlag(p, 2) \in [Monitors -> 0 .. 3]
  BY <1>2, FlagType
<1>7. Types'
  <2>1. /\ status' = [status EXCEPT ![m] = "OUT"]
        /\ standby' = [standby EXCEPT ![m] = FALSE]
        /\ UNCHANGED <<layout, talking, master, timer, lost, hasty>>
    BY DEF ReceiveAck
  <2> QED
    BY <1>5, <1>6, <2>1 DEF IInv, TypeOK, Types, Statuses
<1>8. status'[m] = "OUT" /\ flag'[m] = OnlyFlag(p, 2) /\ timer'[m] # Off
      /\ layout'[m] = "phone" /\ ~talking'[m]
  BY <1>5 DEF ReceiveAck, IInv, TypeOK, OneCall, CallOf
<1>9. CallOf(m)'
  BY <1>2, <1>8 DEF CallOf, Calls, Others, OnlyFlag, NoFlags
<1>10. Only(m)
  BY <1>5 DEF ReceiveAck, Only, IInv, TypeOK
<1> QED
  BY <1>2, <1>7, <1>9, <1>10, BoxesNext, Assemble

LEMMA ReceiveAcceptStep ==
  ASSUME IInv, NEW m \in Monitors, ReceiveAccept(m)
  PROVE  IInv'
<1> DEFINE p == From(m)
           told == {q \in Others(m) \ {From(m)} : flag[m][q] \in {1, 2}}
<1>1. Oldest(m, {"accept"}) /\ "hangup" \in Kinds /\ told \in SUBSET Others(m)
  BY DEF ReceiveAccept, Kinds
<1>2. p \in Others(m) /\ p \in Monitors /\ Boxes(Sent(Rest(m), m, "hangup", told))
  BY <1>1, AnswerBoxes DEF Others
<1>3. Boxes(inbox')
  BY <1>2 DEF ReceiveAccept
<1> HIDE DEF p
<1>4. flag' = [flag EXCEPT ![m] = OnlyFlag(p, 3)]
  BY DEF ReceiveAccept, p
<1>5. OnlyFlag(p, 3) \in [Monitors -> 0 .. 3]
  BY <1>2, FlagType
<1>6. Types'
  BY <1>4, <1>5 DEF ReceiveAccept, IInv, TypeOK, Types, Statuses
<1>7. status'[m] = "TALK" /\ flag'[m] = OnlyFlag(p, 3) /\ timer'[m] = Off
      /\ layout'[m] = "phone" /\ ~talking'[m]
  BY <1>4 DEF ReceiveAccept, IInv, TypeOK, OneCall, CallOf
<1>8. CallOf(m)'
  BY <1>2, <1>7 DEF CallOf, Calls, Others, OnlyFlag, NoFlags
<1>9. Only(m)
  BY <1>4 DEF ReceiveAccept, Only, IInv, TypeOK
<1> QED
  BY <1>3, <1>6, <1>8, <1>9, BoxesNext, Assemble

LEMMA ReceiveEndStep ==
  ASSUME IInv, NEW m \in Monitors, ReceiveHangUp(m) \/ ReceiveBusy(m)
  PROVE  IInv'
<1>1. Boxes(inbox) /\ inbox[m] # <<>>
  BY DEF ReceiveHangUp, ReceiveBusy, Oldest, IInv, TypeOK, OthersWrite, Boxes
<1>2. Boxes(Rest(m))
  BY <1>1, RestBoxes
<1>3. CASE ReceiveHangUp(m)
  <2>1. layout[m] = "phone"
    BY <1>3 DEF ReceiveHangUp, EndsCall, IInv, OneCall, CallOf
  <2>2. Quit(m, "home", Rest(m)) /\ hasty' \in BOOLEAN /\ "home" \in Layouts
    BY <1>3 DEF ReceiveHangUp, IInv, TypeOK, Layouts
  <2> QED
    BY <1>2, <2>1, <2>2, QuitStep
<1>4. CASE ReceiveBusy(m)
  <2>1. Idle(m) /\ inbox' = Rest(m) /\ layout[m] = "phone"
        /\ UNCHANGED <<layout, talking, master, standby, lost, hasty>>
    BY <1>4 DEF ReceiveBusy
  <2>2. talking'[m] => layout'[m] = "door"
    BY <2>1 DEF IInv, OneCall, CallOf
  <2>3. Types' /\ CallOf(m)'
    BY <2>1, <2>2, IdleIsNoCall DEF IInv, TypeOK, Types
  <2>4. Only(m)
    BY <2>1 DEF Idle, Only, IInv, TypeOK
  <2> QED
    BY <1>2, <2>1, <2>3, <2>4, BoxesNext, Assemble
<1> QED
  BY <1>3, <1>4

-----------------------------------------------------------------------------
LEMMA InitInvariant == Init => IInv
<1> SUFFICES ASSUME Init
             PROVE  IInv
  OBVIOUS
<1>1. TypeOK
  <2>1. lost \in 0 .. MaxLost /\ flag \in [Monitors -> [Monitors -> 0 .. 3]]
    BY BoundsAssumption DEF Init, NoFlags
  <2>2. inbox \in [Monitors -> Seq(Messages)]
    BY DEF Init
  <2>3. "home" \in Layouts /\ "IDLE" \in Statuses
    BY DEF Layouts, Statuses
  <2> QED
    BY <2>1, <2>2, <2>3 DEF Init, TypeOK
<1>2. OthersWrite
  BY DEF Init, OthersWrite
<1>3. OneCall
  BY DEF Init, OneCall, CallOf
<1> QED
  BY <1>1, <1>2, <1>3 DEF IInv

LEMMA Inductive == IInv /\ [Next]_vars => IInv'
<1> SUFFICES ASSUME IInv, [Next]_vars
             PROVE  IInv'
  OBVIOUS
<1>1. CASE UNCHANGED vars
  BY <1>1 DEF vars, IInv, TypeOK, OthersWrite, OneCall, CallOf, Calls, Mail
<1>2. CASE Next
  <2>1. PICK m \in Monitors :
          \/ OpenPage(m) \/ (\E p \in Monitors : PickDevice(m, p)) \/ Cancel(m) \/ GoHome(m)
          \/ Answer(m) \/ VisitDoor(m) \/ TalkAtDoor(m) \/ LeaveDoor(m)
          \/ StandbyTimeout(m) \/ SetClock(m) \/ Tick(m) \/ Receive(m) \/ Lose(m)
    BY <1>2 DEF Next
  <2>2. CASE OpenPage(m)
    BY <2>2, OpenPageStep
  <2>3. CASE \E p \in Monitors : PickDevice(m, p)
    BY <2>3, PickDeviceStep
  <2>4. CASE Cancel(m) \/ GoHome(m) \/ StandbyTimeout(m)
    BY <2>4, PersonStep
  <2>5. CASE Answer(m)
    BY <2>5, AnswerStep
  <2>6. CASE VisitDoor(m) \/ TalkAtDoor(m) \/ LeaveDoor(m)
    BY <2>6, DoorStep
  <2>7. CASE SetClock(m)
    BY <2>7, SetClockStep
  <2>8. CASE Tick(m)
    BY <2>8, TickStep
  <2>9. CASE Receive(m) \/ Lose(m)
    BY <2>9, RingStep, RefuseStep, ReceiveAckStep, ReceiveAcceptStep, ReceiveEndStep
       DEF Receive
  <2> QED
    BY <2>1, <2>2, <2>3, <2>4, <2>5, <2>6, <2>7, <2>8, <2>9
<1> QED
  BY <1>1, <1>2

\* The invariant holds of every behaviour (layout_interphone.c as a whole).
THEOREM Invariant == Spec => []IInv
<1>1. Init => IInv
  BY InitInvariant
<1>2. IInv /\ [Next]_vars => IInv'
  BY Inductive
<1> QED
  BY <1>1, <1>2, PTL DEF Spec

\* Every variable keeps its type: the globals of layout_interphone.c and the
\* datagrams, for any number of monitors.
THEOREM TypeCorrect == Spec => []TypeOK
<1>1. IInv => TypeOK
  BY DEF IInv
<1> QED
  BY <1>1, Invariant, PTL

\* Status, flags, layout and countdown describe one call, whatever datagrams are
\* lost, late or unexpected: the ten handlers that write them agree.
THEOREM OneCallOnly == Spec => []OneCall
<1>1. IInv => OneCall
  BY DEF IInv
<1> QED
  BY <1>1, Invariant, PTL
-----------------------------------------------------------------------------
(* What both sides of a call see.  The messages of one monitor in the queue *)
(* of another are described by what follows what.                           *)

Msg(k, p) == [kind |-> k, from |-> p]

Has(s, x) == \E i \in DOMAIN s : s[i] = x
Once(s, x) == \A i, j \in DOMAIN s : s[i] = x /\ s[j] = x => i = j
\* some x that no y follows; that neither y nor z follows; that no y precedes
Open(s, x, y) == \E i \in DOMAIN s : s[i] = x /\ \A j \in DOMAIN s : i < j => s[j] # y
Bare(s, x, y, z) == \E i \in DOMAIN s :
  s[i] = x /\ \A j \in DOMAIN s : i < j => s[j] # y /\ s[j] # z
First(s, x, y) == \E i \in DOMAIN s : s[i] = x /\ \A j \in DOMAIN s : j < i => s[j] # y
\* an x and later a y; an x and later a z without y between them
Then(s, x, y) == \E i, j \in DOMAIN s : i < j /\ s[i] = x /\ s[j] = y
Gap(s, x, y, z) == \E i, j \in DOMAIN s :
  i < j /\ s[i] = x /\ s[j] = z /\ \A l \in DOMAIN s : i < l /\ l < j => s[l] # y

LEMMA AppendDomain ==
  ASSUME NEW s \in Seq(Messages), NEW n \in Messages
  PROVE  /\ Append(s, n) \in Seq(Messages) /\ Len(s) \in Nat
         /\ DOMAIN s = 1 .. Len(s) /\ DOMAIN Append(s, n) = 1 .. (Len(s) + 1)
         /\ \A i \in 1 .. Len(s) : Append(s, n)[i] = s[i]
         /\ Append(s, n)[Len(s) + 1] = n
OBVIOUS

LEMMA TailDomain ==
  ASSUME NEW s \in Seq(Messages), s # <<>>
  PROVE  /\ Tail(s) \in Seq(Messages) /\ Len(s) \in Nat \ {0} /\ Head(s) \in Messages
         /\ DOMAIN s = 1 .. Len(s) /\ DOMAIN Tail(s) = 1 .. (Len(s) - 1)
         /\ \A i \in 1 .. (Len(s) - 1) : Tail(s)[i] = s[i + 1]
         /\ Head(s) = s[1]
OBVIOUS

\* t is s with a new message n
Added(s, n, t) == \A x, y, z : x # y /\ y # z /\ x # z =>
  /\ Has(t, x) <=> Has(s, x) \/ n = x
  /\ Open(t, x, y) <=> n = x \/ (Open(s, x, y) /\ n # y)
  /\ Bare(t, x, y, z) <=> n = x \/ (Bare(s, x, y, z) /\ n # y /\ n # z)
  /\ First(t, x, y) <=> First(s, x, y) \/ (n = x /\ ~Has(s, y))
  /\ Then(t, x, y) <=> Then(s, x, y) \/ (Has(s, x) /\ n = y)
  /\ Gap(t, x, y, z) <=> Gap(s, x, y, z) \/ (n = z /\ Open(s, x, y))
  /\ Once(t, x) <=> Once(s, x) /\ (n = x => ~Has(s, x))

LEMMA AppendAdds ==
  ASSUME NEW s \in Seq(Messages), NEW n \in Messages
  PROVE  Added(s, n, Append(s, n))
<1> SUFFICES ASSUME NEW x, NEW y, NEW z, x # y, y # z, x # z
             PROVE  LET t == Append(s, n) IN
                    /\ Has(t, x) <=> Has(s, x) \/ n = x
                    /\ Open(t, x, y) <=> n = x \/ (Open(s, x, y) /\ n # y)
                    /\ Bare(t, x, y, z) <=> n = x \/ (Bare(s, x, y, z) /\ n # y /\ n # z)
                    /\ First(t, x, y) <=> First(s, x, y) \/ (n = x /\ ~Has(s, y))
                    /\ Then(t, x, y) <=> Then(s, x, y) \/ (Has(s, x) /\ n = y)
                    /\ Gap(t, x, y, z) <=> Gap(s, x, y, z) \/ (n = z /\ Open(s, x, y))
                    /\ Once(t, x) <=> Once(s, x) /\ (n = x => ~Has(s, x))
  BY DEF Added
<1> DEFINE t == Append(s, n)
           d == Len(s)
<1>1. /\ d \in Nat /\ DOMAIN s = 1 .. d /\ DOMAIN t = 1 .. (d + 1)
      /\ \A i \in 1 .. d : t[i] = s[i]
      /\ t[d + 1] = n
  BY AppendDomain
<1> HIDE DEF t, d
<1>2. /\ \A i \in DOMAIN s : i \in DOMAIN t /\ t[i] = s[i] /\ i < d + 1 /\ ~(d + 1 < i)
      /\ \A i \in DOMAIN t : i \in DOMAIN s \/ i = d + 1
      /\ d + 1 \in DOMAIN t /\ t[d + 1] = n /\ ~(d + 1 < d + 1) /\ d + 1 \notin DOMAIN s
  BY <1>1
<1>3. Has(t, x) <=> Has(s, x) \/ n = x
  BY <1>2 DEF Has
<1>4. Open(t, x, y) <=> n = x \/ (Open(s, x, y) /\ n # y)
  BY <1>2 DEF Open
<1>5. Bare(t, x, y, z) <=> n = x \/ (Bare(s, x, y, z) /\ n # y /\ n # z)
  BY <1>2 DEF Bare
<1>6. First(t, x, y) <=> First(s, x, y) \/ (n = x /\ ~Has(s, y))
  BY <1>2 DEF First, Has
<1>7. Then(t, x, y) <=> Then(s, x, y) \/ (Has(s, x) /\ n = y)
  BY <1>2 DEF Then, Has
<1>8. Gap(t, x, y, z) <=> Gap(s, x, y, z) \/ (n = z /\ Open(s, x, y))
  BY <1>2 DEF Gap, Open
<1>9. Once(t, x) <=> Once(s, x) /\ (n = x => ~Has(s, x))
  BY <1>2 DEF Once, Has
<1> QED
  BY <1>3, <1>4, <1>5, <1>6, <1>7, <1>8, <1>9 DEF t

\* t is s without its oldest message n.
Dropped(s, n, t) == \A x, y, z : x # y /\ y # z /\ x # z =>
  /\ Has(s, x) <=> n = x \/ Has(t, x)
  /\ Open(s, x, y) <=> Open(t, x, y) \/ (n = x /\ ~Has(t, y))
  /\ Bare(s, x, y, z) <=> Bare(t, x, y, z) \/ (n = x /\ ~Has(t, y) /\ ~Has(t, z))
  /\ First(s, x, y) <=> n = x \/ (n # y /\ First(t, x, y))
  /\ Then(s, x, y) <=> Then(t, x, y) \/ (n = x /\ Has(t, y))
  /\ Gap(s, x, y, z) <=> Gap(t, x, y, z) \/ (n = x /\ First(t, z, y))
  /\ Once(s, x) <=> Once(t, x) /\ (n = x => ~Has(t, x))

LEMMA TailDrops ==
  ASSUME NEW s \in Seq(Messages), s # <<>>
  PROVE  Dropped(s, Head(s), Tail(s))
<1> SUFFICES ASSUME NEW x, NEW y, NEW z, x # y, y # z, x # z
             PROVE  LET n == Head(s)
                        t == Tail(s) IN
                    /\ Has(s, x) <=> n = x \/ Has(t, x)
                    /\ Open(s, x, y) <=> Open(t, x, y) \/ (n = x /\ ~Has(t, y))
                    /\ Bare(s, x, y, z) <=> Bare(t, x, y, z) \/ (n = x /\ ~Has(t, y) /\ ~Has(t, z))
                    /\ First(s, x, y) <=> n = x \/ (n # y /\ First(t, x, y))
                    /\ Then(s, x, y) <=> Then(t, x, y) \/ (n = x /\ Has(t, y))
                    /\ Gap(s, x, y, z) <=> Gap(t, x, y, z) \/ (n = x /\ First(t, z, y))
                    /\ Once(s, x) <=> Once(t, x) /\ (n = x => ~Has(t, x))
  BY DEF Dropped
<1> DEFINE t == Tail(s)
           h == Head(s)
           d == Len(s)
<1>1. /\ d \in Nat \ {0} /\ DOMAIN s = 1 .. d /\ DOMAIN t = 1 .. (d - 1)
      /\ \A i \in 1 .. (d - 1) : t[i] = s[i + 1]
      /\ s[1] = h
  BY TailDomain
<1> HIDE DEF t, d, h
<1>2. /\ \A i \in DOMAIN t : i + 1 \in DOMAIN s /\ t[i] = s[i + 1] /\ 1 < i + 1 /\ ~(i + 1 < 1)
      /\ \A i \in DOMAIN s : i = 1 \/ \E j \in DOMAIN t : i = j + 1
      /\ 1 \in DOMAIN s /\ s[1] = h /\ ~(1 < 1)
      /\ \A i, j \in DOMAIN t : (i < j <=> i + 1 < j + 1) /\ (i + 1 = j + 1 => i = j)
  <2>1. \A i \in DOMAIN s : i = 1 \/ \E j \in DOMAIN t : i = j + 1
    <3> SUFFICES ASSUME NEW i \in DOMAIN s, i # 1
                 PROVE  \E j \in DOMAIN t : i = j + 1
      OBVIOUS
    <3>1. i - 1 \in DOMAIN t /\ i = (i - 1) + 1
      BY <1>1
    <3> QED
      BY <3>1
  <2> QED
    BY <1>1, <2>1
<1>3. Has(s, x) <=> h = x \/ Has(t, x)
  BY <1>2 DEF Has
<1>4. Open(s, x, y) <=> Open(t, x, y) \/ (h = x /\ ~Has(t, y))
  BY <1>2 DEF Open, Has
<1>5. Bare(s, x, y, z) <=> Bare(t, x, y, z) \/ (h = x /\ ~Has(t, y) /\ ~Has(t, z))
  BY <1>2 DEF Bare, Has
<1>6. First(s, x, y) <=> h = x \/ (h # y /\ First(t, x, y))
  BY <1>2 DEF First
<1>7. Then(s, x, y) <=> Then(t, x, y) \/ (h = x /\ Has(t, y))
  BY <1>2 DEF Then, Has
<1>8. Gap(s, x, y, z) <=> Gap(t, x, y, z) \/ (h = x /\ First(t, z, y))
  BY <1>2 DEF Gap, First
<1>9. Once(s, x) <=> Once(t, x) /\ (h = x => ~Has(t, x))
  BY <1>2 DEF Once, Has
<1> QED
  BY <1>3, <1>4, <1>5, <1>6, <1>7, <1>8, <1>9 DEF t, h

\* The last x that is followed by no y is bare, or a z after it is open.
LEMMA Follows ==
  ASSUME NEW s \in Seq(Messages), NEW x, NEW y, NEW z
  PROVE  /\ Has(s, x) /\ ~Open(s, x, y) => Has(s, y)
         /\ Has(s, x) /\ ~First(s, x, y) => Has(s, y)
         /\ Open(s, x, y) \/ First(s, x, y) \/ Then(s, x, y) \/ Gap(s, x, y, z) => Has(s, x)
         /\ Then(s, x, y) \/ Gap(s, x, z, y) => Has(s, y)
         /\ Bare(s, x, y, z) => Open(s, x, y)
         /\ Open(s, x, y) => Bare(s, x, y, z) \/ Open(s, z, y)
         /\ Open(s, x, y) => Has(s, z) \/ Bare(s, x, y, z)
<1>1. \A i, j, l \in DOMAIN s : i < j /\ j < l => i < l
  OBVIOUS
<1>2. Open(s, x, y) => Bare(s, x, y, z) \/ Open(s, z, y)
  BY <1>1 DEF Open, Bare
<1> QED
  BY <1>2 DEF Has, Open, First, Then, Gap, Bare

\* The messages of p in the queue s
HasCall(s, p) == Has(s, Msg("call", p))
HasAck(s, p) == Has(s, Msg("ack", p))
HasAccept(s, p) == Has(s, Msg("accept", p))
HasHangUp(s, p) == Has(s, Msg("hangup", p))
HasBusy(s, p) == Has(s, Msg("busy", p))
OpenCall(s, p) == Open(s, Msg("call", p), Msg("hangup", p))
OpenAck(s, p) == Open(s, Msg("ack", p), Msg("hangup", p))
OpenAccept(s, p) == Open(s, Msg("accept", p), Msg("hangup", p))
BareAck(s, p) == Bare(s, Msg("ack", p), Msg("hangup", p), Msg("accept", p))
FirstCall(s, p) == First(s, Msg("call", p), Msg("hangup", p))
AckAccept(s, p) == Then(s, Msg("ack", p), Msg("accept", p))
OnceCall(s, p) == Once(s, Msg("call", p))
LooseCall(s, p) == Gap(s, Msg("accept", p), Msg("hangup", p), Msg("call", p))

\* t tells the same of p as s.
Same(s, t, p) ==
  /\ (HasCall(s, p) <=> HasCall(t, p)) /\ (HasAck(s, p) <=> HasAck(t, p))
  /\ (HasAccept(s, p) <=> HasAccept(t, p)) /\ (HasHangUp(s, p) <=> HasHangUp(t, p))
  /\ (HasBusy(s, p) <=> HasBusy(t, p)) /\ (OpenCall(s, p) <=> OpenCall(t, p))
  /\ (OpenAck(s, p) <=> OpenAck(t, p)) /\ (OpenAccept(s, p) <=> OpenAccept(t, p))
  /\ (BareAck(s, p) <=> BareAck(t, p)) /\ (FirstCall(s, p) <=> FirstCall(t, p))
  /\ (AckAccept(s, p) <=> AckAccept(t, p)) /\ (LooseCall(s, p) <=> LooseCall(t, p))
  /\ (OnceCall(s, p) <=> OnceCall(t, p))

LEMMA Different ==
  ASSUME NEW p, NEW q, NEW k, NEW l
  PROVE  /\ Msg(k, p) = Msg(l, q) <=> k = l /\ p = q
         /\ Msg(k, p).kind = k /\ Msg(k, p).from = p
BY DEF Msg

LEMMA MessageIs ==
  ASSUME NEW n \in Messages
  PROVE  n = Msg(n.kind, n.from) /\ n.kind \in Kinds /\ n.from \in Monitors
BY DEF Messages, Msg

LEMMA OwnAdded ==
  ASSUME NEW s, NEW t, NEW p, NEW k, Added(s, Msg(k, p), t)
  PROVE  /\ HasCall(t, p) <=> HasCall(s, p) \/ k = "call"
         /\ HasAck(t, p) <=> HasAck(s, p) \/ k = "ack"
         /\ HasAccept(t, p) <=> HasAccept(s, p) \/ k = "accept"
         /\ HasHangUp(t, p) <=> HasHangUp(s, p) \/ k = "hangup"
         /\ HasBusy(t, p) <=> HasBusy(s, p) \/ k = "busy"
         /\ OpenCall(t, p) <=> k = "call" \/ (OpenCall(s, p) /\ k # "hangup")
         /\ OpenAck(t, p) <=> k = "ack" \/ (OpenAck(s, p) /\ k # "hangup")
         /\ OpenAccept(t, p) <=> k = "accept" \/ (OpenAccept(s, p) /\ k # "hangup")
         /\ BareAck(t, p) <=> k = "ack" \/ (BareAck(s, p) /\ k # "hangup" /\ k # "accept")
         /\ FirstCall(t, p) <=> FirstCall(s, p) \/ (k = "call" /\ ~HasHangUp(s, p))
         /\ AckAccept(t, p) <=> AckAccept(s, p) \/ (HasAck(s, p) /\ k = "accept")
         /\ LooseCall(t, p) <=> LooseCall(s, p) \/ (k = "call" /\ OpenAccept(s, p))
         /\ OnceCall(t, p) <=> OnceCall(s, p) /\ (k = "call" => ~HasCall(s, p))
<1> DEFINE n == Msg(k, p)
           c == Msg("call", p)
           r == Msg("ack", p)
           a == Msg("accept", p)
           h == Msg("hangup", p)
           b == Msg("busy", p)
<1>2. /\ c # r /\ c # a /\ c # h /\ c # b /\ r # a /\ r # h /\ r # b /\ a # h /\ a # b /\ h # b
      /\ (n = c <=> k = "call") /\ (n = r <=> k = "ack") /\ (n = a <=> k = "accept")
      /\ (n = h <=> k = "hangup") /\ (n = b <=> k = "busy")
  BY Different
<1> HIDE DEF n, c, r, a, h, b
<1>3. Added(s, n, t)
  BY DEF n
<1>4. /\ HasCall(t, p) <=> HasCall(s, p) \/ k = "call"
      /\ OnceCall(t, p) <=> OnceCall(s, p) /\ (k = "call" => ~HasCall(s, p))
  BY <1>2, <1>3 DEF Added, HasCall, OnceCall, c
<1>5. /\ HasAck(t, p) <=> HasAck(s, p) \/ k = "ack"
      /\ OpenAck(t, p) <=> k = "ack" \/ (OpenAck(s, p) /\ k # "hangup")
      /\ BareAck(t, p) <=> k = "ack" \/ (BareAck(s, p) /\ k # "hangup" /\ k # "accept")
  BY <1>2, <1>3 DEF Added, HasAck, OpenAck, BareAck, r, a, h
<1>6. /\ HasAccept(t, p) <=> HasAccept(s, p) \/ k = "accept"
      /\ OpenAccept(t, p) <=> k = "accept" \/ (OpenAccept(s, p) /\ k # "hangup")
      /\ LooseCall(t, p) <=> LooseCall(s, p) \/ (k = "call" /\ OpenAccept(s, p))
  BY <1>2, <1>3 DEF Added, HasAccept, OpenAccept, LooseCall, a, h, c
<1>7. /\ HasHangUp(t, p) <=> HasHangUp(s, p) \/ k = "hangup"
      /\ HasBusy(t, p) <=> HasBusy(s, p) \/ k = "busy"
  BY <1>2, <1>3 DEF Added, HasHangUp, HasBusy, h, b
<1>8. /\ OpenCall(t, p) <=> k = "call" \/ (OpenCall(s, p) /\ k # "hangup")
      /\ FirstCall(t, p) <=> FirstCall(s, p) \/ (k = "call" /\ ~HasHangUp(s, p))
  BY <1>2, <1>3 DEF Added, OpenCall, FirstCall, HasHangUp, h, c
<1>9. AckAccept(t, p) <=> AckAccept(s, p) \/ (HasAck(s, p) /\ k = "accept")
  BY <1>2, <1>3 DEF Added, AckAccept, HasAck, r, a
<1> QED
  BY <1>4, <1>5, <1>6, <1>7, <1>8, <1>9

LEMMA OwnDropped ==
  ASSUME NEW s, NEW t, NEW p, NEW k, Dropped(s, Msg(k, p), t)
  PROVE  /\ HasCall(s, p) <=> HasCall(t, p) \/ k = "call"
         /\ HasAck(s, p) <=> HasAck(t, p) \/ k = "ack"
         /\ HasAccept(s, p) <=> HasAccept(t, p) \/ k = "accept"
         /\ HasHangUp(s, p) <=> HasHangUp(t, p) \/ k = "hangup"
         /\ HasBusy(s, p) <=> HasBusy(t, p) \/ k = "busy"
         /\ OpenCall(s, p) <=> OpenCall(t, p) \/ (k = "call" /\ ~HasHangUp(t, p))
         /\ OpenAck(s, p) <=> OpenAck(t, p) \/ (k = "ack" /\ ~HasHangUp(t, p))
         /\ OpenAccept(s, p) <=> OpenAccept(t, p) \/ (k = "accept" /\ ~HasHangUp(t, p))
         /\ BareAck(s, p) <=>
              BareAck(t, p) \/ (k = "ack" /\ ~HasHangUp(t, p) /\ ~HasAccept(t, p))
         /\ FirstCall(s, p) <=> k = "call" \/ (FirstCall(t, p) /\ k # "hangup")
         /\ AckAccept(s, p) <=> AckAccept(t, p) \/ (k = "ack" /\ HasAccept(t, p))
         /\ LooseCall(s, p) <=> LooseCall(t, p) \/ (k = "accept" /\ FirstCall(t, p))
         /\ OnceCall(s, p) <=> OnceCall(t, p) /\ (k = "call" => ~HasCall(t, p))
<1> DEFINE n == Msg(k, p)
           c == Msg("call", p)
           r == Msg("ack", p)
           a == Msg("accept", p)
           h == Msg("hangup", p)
           b == Msg("busy", p)
<1>2. /\ c # r /\ c # a /\ c # h /\ c # b /\ r # a /\ r # h /\ r # b /\ a # h /\ a # b /\ h # b
      /\ (n = c <=> k = "call") /\ (n = r <=> k = "ack") /\ (n = a <=> k = "accept")
      /\ (n = h <=> k = "hangup") /\ (n = b <=> k = "busy")
  BY Different
<1> HIDE DEF n, c, r, a, h, b
<1>3. Dropped(s, n, t)
  BY DEF n
<1>4. /\ HasCall(s, p) <=> HasCall(t, p) \/ k = "call"
      /\ OnceCall(s, p) <=> OnceCall(t, p) /\ (k = "call" => ~HasCall(t, p))
  BY <1>2, <1>3 DEF Dropped, HasCall, OnceCall, c
<1>5. /\ HasAck(s, p) <=> HasAck(t, p) \/ k = "ack"
      /\ OpenAck(s, p) <=> OpenAck(t, p) \/ (k = "ack" /\ ~HasHangUp(t, p))
      /\ BareAck(s, p) <=>
           BareAck(t, p) \/ (k = "ack" /\ ~HasHangUp(t, p) /\ ~HasAccept(t, p))
  BY <1>2, <1>3 DEF Dropped, HasAck, OpenAck, BareAck, HasHangUp, HasAccept, r, a, h
<1>6. /\ HasAccept(s, p) <=> HasAccept(t, p) \/ k = "accept"
      /\ OpenAccept(s, p) <=> OpenAccept(t, p) \/ (k = "accept" /\ ~HasHangUp(t, p))
      /\ LooseCall(s, p) <=> LooseCall(t, p) \/ (k = "accept" /\ FirstCall(t, p))
  BY <1>2, <1>3 DEF Dropped, HasAccept, OpenAccept, LooseCall, FirstCall, HasHangUp, a, h, c
<1>7. /\ HasHangUp(s, p) <=> HasHangUp(t, p) \/ k = "hangup"
      /\ HasBusy(s, p) <=> HasBusy(t, p) \/ k = "busy"
  BY <1>2, <1>3 DEF Dropped, HasHangUp, HasBusy, h, b
<1>8. /\ OpenCall(s, p) <=> OpenCall(t, p) \/ (k = "call" /\ ~HasHangUp(t, p))
      /\ FirstCall(s, p) <=> k = "call" \/ (FirstCall(t, p) /\ k # "hangup")
  BY <1>2, <1>3 DEF Dropped, OpenCall, FirstCall, HasHangUp, h, c
<1>9. AckAccept(s, p) <=> AckAccept(t, p) \/ (k = "ack" /\ HasAccept(t, p))
  BY <1>2, <1>3 DEF Dropped, AckAccept, HasAccept, r, a
<1> QED
  BY <1>4, <1>5, <1>6, <1>7, <1>8, <1>9

\* A message of somebody else changes nothing.
LEMMA OtherAdded ==
  ASSUME NEW s, NEW t, NEW n, NEW p, Added(s, n, t), n.from # p
  PROVE  Same(s, t, p)
<1> DEFINE c == Msg("call", p)
           r == Msg("ack", p)
           a == Msg("accept", p)
           h == Msg("hangup", p)
           b == Msg("busy", p)
<1>2. /\ c # r /\ c # a /\ c # h /\ c # b /\ r # a /\ r # h /\ r # b /\ a # h /\ a # b /\ h # b
      /\ n # c /\ n # r /\ n # a /\ n # h /\ n # b
  BY Different
<1> HIDE DEF c, r, a, h, b
<1>3. /\ (HasCall(s, p) <=> HasCall(t, p)) /\ (HasAck(s, p) <=> HasAck(t, p))
      /\ (HasAccept(s, p) <=> HasAccept(t, p)) /\ (HasHangUp(s, p) <=> HasHangUp(t, p))
      /\ (HasBusy(s, p) <=> HasBusy(t, p))
  BY <1>2 DEF Added, HasCall, HasAck, HasAccept, HasHangUp, HasBusy, c, r, a, h, b
<1>4. /\ (OpenCall(s, p) <=> OpenCall(t, p)) /\ (OpenAck(s, p) <=> OpenAck(t, p))
      /\ (OpenAccept(s, p) <=> OpenAccept(t, p)) /\ (BareAck(s, p) <=> BareAck(t, p))
  BY <1>2 DEF Added, OpenCall, OpenAck, OpenAccept, BareAck, c, r, a, h
<1>5. /\ (FirstCall(s, p) <=> FirstCall(t, p)) /\ (AckAccept(s, p) <=> AckAccept(t, p))
      /\ (LooseCall(s, p) <=> LooseCall(t, p)) /\ (OnceCall(s, p) <=> OnceCall(t, p))
  BY <1>2 DEF Added, FirstCall, AckAccept, LooseCall, OnceCall, c, r, a, h
<1> QED
  BY <1>3, <1>4, <1>5 DEF Same

LEMMA OtherDropped ==
  ASSUME NEW s, NEW t, NEW n, NEW p, Dropped(s, n, t), n.from # p
  PROVE  Same(s, t, p)
<1> DEFINE c == Msg("call", p)
           r == Msg("ack", p)
           a == Msg("accept", p)
           h == Msg("hangup", p)
           b == Msg("busy", p)
<1>2. /\ c # r /\ c # a /\ c # h /\ c # b /\ r # a /\ r # h /\ r # b /\ a # h /\ a # b /\ h # b
      /\ n # c /\ n # r /\ n # a /\ n # h /\ n # b
  BY Different
<1> HIDE DEF c, r, a, h, b
<1>3. /\ (HasCall(s, p) <=> HasCall(t, p)) /\ (HasAck(s, p) <=> HasAck(t, p))
      /\ (HasAccept(s, p) <=> HasAccept(t, p)) /\ (HasHangUp(s, p) <=> HasHangUp(t, p))
      /\ (HasBusy(s, p) <=> HasBusy(t, p))
  BY <1>2 DEF Dropped, HasCall, HasAck, HasAccept, HasHangUp, HasBusy, c, r, a, h, b
<1>4. /\ (OpenCall(s, p) <=> OpenCall(t, p)) /\ (OpenAck(s, p) <=> OpenAck(t, p))
      /\ (OpenAccept(s, p) <=> OpenAccept(t, p)) /\ (BareAck(s, p) <=> BareAck(t, p))
  BY <1>2 DEF Dropped, OpenCall, OpenAck, OpenAccept, BareAck, c, r, a, h
<1>5. /\ (FirstCall(s, p) <=> FirstCall(t, p)) /\ (AckAccept(s, p) <=> AckAccept(t, p))
      /\ (LooseCall(s, p) <=> LooseCall(t, p)) /\ (OnceCall(s, p) <=> OnceCall(t, p))
  BY <1>2 DEF Dropped, FirstCall, AckAccept, LooseCall, OnceCall, c, r, a, h
<1> QED
  BY <1>3, <1>4, <1>5 DEF Same

\* What every queue s satisfies
Sound(s, p) ==
  /\ HasCall(s, p) /\ ~OpenCall(s, p) => HasHangUp(s, p)
  /\ HasAck(s, p) /\ ~OpenAck(s, p) => HasHangUp(s, p)
  /\ HasAccept(s, p) /\ ~OpenAccept(s, p) => HasHangUp(s, p)
  /\ HasCall(s, p) /\ ~FirstCall(s, p) => HasHangUp(s, p)
  /\ OpenCall(s, p) \/ FirstCall(s, p) => HasCall(s, p)
  /\ OpenAccept(s, p) \/ LooseCall(s, p) => HasAccept(s, p)
  /\ OpenAck(s, p) \/ AckAccept(s, p) => HasAck(s, p)
  /\ AckAccept(s, p) => HasAccept(s, p)
  /\ LooseCall(s, p) => HasCall(s, p)
  /\ BareAck(s, p) => OpenAck(s, p)
  /\ OpenAck(s, p) => BareAck(s, p) \/ OpenAccept(s, p)
  /\ OpenAck(s, p) => BareAck(s, p) \/ HasAccept(s, p)

LEMMA MailFollows ==
  ASSUME NEW s \in Seq(Messages), NEW p
  PROVE  Sound(s, p)
BY Follows DEF Sound, HasCall, HasAck, HasAccept, HasHangUp, OpenCall, OpenAck, OpenAccept,
   BareAck, FirstCall, AckAccept, LooseCall

-----------------------------------------------------------------------------
(* The two sides of a call.  r is what a has with b, q what b has with a; s *)
(* is the event queue of a, t that of b, U who may still get an answer.     *)

Side(r, q, s, t, a, b, U) ==
  /\ r = "PUBLISH" => HasCall(t, a) \/ HasAck(s, b) \/ HasBusy(s, b)
  /\ r = "OUT" => \/ q = "IN" \/ (q = "TALK" /\ HasAccept(s, b))
                  \/ HasHangUp(s, b) \/ HasCall(t, a) \/ HasBusy(s, b)
  /\ r = "IN" => /\ a \notin U
                 /\ \/ q \in {"PUBLISH", "OUT"} \/ HasHangUp(s, b)
                    \/ (q = "TALK" /\ HasHangUp(t, a))
  /\ r = "TALK" => \/ q = "TALK" \/ HasHangUp(s, b) \/ (q = "OUT" /\ HasAccept(t, a))
                   \/ (q = "PUBLISH" /\ AckAccept(t, a))
  /\ OpenAccept(s, b) => q = "TALK" /\ b \notin U
  /\ ~LooseCall(s, b)
  /\ OpenAck(s, b) => q = "IN" \/ (q = "TALK" /\ ~BareAck(s, b))
  /\ OpenCall(s, b) => \/ q \in {"PUBLISH", "OUT"}
                       \/ q = "TALK" /\ (HasHangUp(t, a) \/ r \in {"IN", "TALK"})
  /\ FirstCall(s, b) => r \notin {"IN", "TALK"}
  /\ HasBusy(s, b) /\ q \in {"IN", "TALK"} => HasHangUp(t, a)

Link(r, q, s, t, a, b, U) == Side(r, q, s, t, a, b, U) /\ Side(q, r, t, s, b, a, U)

\* Nobody of the two is newly waiting.
Fewer(U, V, a, b) == (a \in V => a \in U) /\ (b \in V => b \in U)

LEMMA SameSelf ==
  ASSUME NEW s, NEW p
  PROVE  Same(s, s, p)
BY DEF Same

LEMMA LinkTurn ==
  ASSUME NEW r, NEW q, NEW s, NEW t, NEW a, NEW b, NEW U, Link(r, q, s, t, a, b, U)
  PROVE  Link(q, r, t, s, b, a, U)
BY DEF Link

\* Messages of others do not matter.
LEMMA LinkKept ==
  ASSUME NEW r, NEW q, NEW s, NEW t, NEW a, NEW b, NEW U, Link(r, q, s, t, a, b, U),
         NEW s2, NEW t2, NEW V, Same(s, s2, b), Same(t, t2, a), Fewer(U, V, a, b)
  PROVE  Link(r, q, s2, t2, a, b, V)
BY DEF Link, Side, Same, Fewer

\* a leaves, alone or at a hang-up of b.
LEMMA LinkQuit ==
  ASSUME NEW r, NEW q, NEW s, NEW t, NEW a, NEW b, NEW U, Link(r, q, s, t, a, b, U),
         NEW s2, NEW t2, NEW V, Fewer(U, V, a, b),
         Same(s, s2, b) \/ Dropped(s, Msg("hangup", b), s2),
         Added(t, Msg("hangup", a), t2)
  PROVE  Link("IDLE", q, s2, t2, a, b, V)
<1>1. \/ Same(s, s2, b)
      \/ /\ HasCall(s, b) <=> HasCall(s2, b)
         /\ HasAck(s, b) <=> HasAck(s2, b)
         /\ HasAccept(s, b) <=> HasAccept(s2, b)
         /\ HasBusy(s, b) <=> HasBusy(s2, b)
         /\ OpenCall(s, b) <=> OpenCall(s2, b)
         /\ OpenAck(s, b) <=> OpenAck(s2, b)
         /\ OpenAccept(s, b) <=> OpenAccept(s2, b)
         /\ BareAck(s, b) <=> BareAck(s2, b)
         /\ LooseCall(s, b) <=> LooseCall(s2, b)
         /\ AckAccept(s, b) <=> AckAccept(s2, b)
  BY OwnDropped
<1>2. /\ HasHangUp(t2, a) /\ ~OpenCall(t2, a) /\ ~OpenAck(t2, a) /\ ~OpenAccept(t2, a)
      /\ HasCall(t2, a) <=> HasCall(t, a)
      /\ HasAck(t2, a) <=> HasAck(t, a)
      /\ HasAccept(t2, a) <=> HasAccept(t, a)
      /\ HasBusy(t2, a) <=> HasBusy(t, a)
      /\ FirstCall(t2, a) <=> FirstCall(t, a)
      /\ LooseCall(t2, a) <=> LooseCall(t, a)
  BY OwnAdded
<1>3. Side("IDLE", q, s2, t2, a, b, V)
  BY <1>1, <1>2 DEF Link, Side, Same, Fewer
<1>4. Side(q, "IDLE", t2, s2, b, a, V)
  BY <1>1, <1>2 DEF Link, Side, Same, Fewer
<1> QED
  BY <1>3, <1>4 DEF Link

\* a, who waits for nothing, calls b.
LEMMA LinkPick ==
  ASSUME NEW q, NEW s, NEW t, NEW a, NEW b, NEW U, Link("IDLE", q, s, t, a, b, U),
         NEW t2, NEW V, b \in V => b \in U,
         Added(t, Msg("call", a), t2)
  PROVE  Link("PUBLISH", q, s, t2, a, b, V)
<1>1. /\ HasCall(t2, a)
      /\ HasHangUp(t2, a) <=> HasHangUp(t, a)
      /\ HasAck(t2, a) <=> HasAck(t, a)
      /\ HasAccept(t2, a) <=> HasAccept(t, a)
      /\ HasBusy(t2, a) <=> HasBusy(t, a)
      /\ OpenAck(t2, a) <=> OpenAck(t, a)
      /\ OpenAccept(t2, a) <=> OpenAccept(t, a)
      /\ FirstCall(t2, a) <=> FirstCall(t, a) \/ ~HasHangUp(t, a)
      /\ LooseCall(t2, a) <=> LooseCall(t, a) \/ OpenAccept(t, a)
      /\ AckAccept(t2, a) <=> AckAccept(t, a)
      /\ BareAck(t2, a) <=> BareAck(t, a)
  BY OwnAdded
<1>3. Side("PUBLISH", q, s, t2, a, b, V)
  BY <1>1 DEF Link, Side
<1>4. Side(q, "PUBLISH", t2, s, b, a, V)
  BY <1>1 DEF Link, Side
<1> QED
  BY <1>3, <1>4 DEF Link

\* a answers the call of b.
LEMMA LinkAnswer ==
  ASSUME NEW q, NEW s \in Seq(Messages), NEW t \in Seq(Messages), NEW a, NEW b, NEW U,
         Link("IN", q, s, t, a, b, U),
         NEW t2 \in Seq(Messages), NEW V, Fewer(U, V, a, b),
         Added(t, Msg("accept", a), t2)
  PROVE  Link("TALK", q, s, t2, a, b, V)
<1>0. Sound(s, b) /\ Sound(t, a) /\ Sound(t2, a)
  BY MailFollows
<1>1. /\ HasCall(t2, a) <=> HasCall(t, a)
      /\ HasAck(t2, a) <=> HasAck(t, a)
      /\ HasAccept(t2, a)
      /\ HasHangUp(t2, a) <=> HasHangUp(t, a)
      /\ HasBusy(t2, a) <=> HasBusy(t, a)
      /\ OpenCall(t2, a) <=> OpenCall(t, a)
      /\ OpenAck(t2, a) <=> OpenAck(t, a)
      /\ ~BareAck(t2, a)
      /\ FirstCall(t2, a) <=> FirstCall(t, a)
      /\ AckAccept(t2, a) <=> AckAccept(t, a) \/ HasAck(t, a)
      /\ LooseCall(t2, a) <=> LooseCall(t, a)
  BY OwnAdded
<1>2. Side("TALK", q, s, t2, a, b, V)
  BY <1>0, <1>1 DEF Sound, Link, Side, Fewer
<1>3. Side(q, "TALK", t2, s, b, a, V)
  BY <1>0, <1>1 DEF Sound, Link, Side, Fewer
<1> QED
  BY <1>2, <1>3 DEF Link

\* a, who waits for nothing, rings at the call of b.
LEMMA LinkRing ==
  ASSUME NEW q, NEW s \in Seq(Messages), NEW t \in Seq(Messages), NEW a, NEW b, NEW U,
         Link("IDLE", q, s, t, a, b, U),
         NEW s2 \in Seq(Messages), NEW t2 \in Seq(Messages),
         NEW V, Fewer(U, V, a, b), a \notin V,
         Dropped(s, Msg("call", b), s2), ~HasCall(s2, b), ~HasBusy(t, a),
         Added(t, Msg("ack", a), t2)
  PROVE  Link("IN", q, s2, t2, a, b, V)
<1>0. Sound(s, b) /\ Sound(t, a) /\ Sound(s2, b) /\ Sound(t2, a)
  BY MailFollows
<1>1. /\ HasCall(s, b) /\ FirstCall(s, b)
      /\ HasAck(s2, b) <=> HasAck(s, b)
      /\ HasAccept(s2, b) <=> HasAccept(s, b)
      /\ HasHangUp(s2, b) <=> HasHangUp(s, b)
      /\ HasBusy(s2, b) <=> HasBusy(s, b)
      /\ OpenCall(s, b) <=> OpenCall(s2, b) \/ ~HasHangUp(s2, b)
      /\ OpenAck(s2, b) <=> OpenAck(s, b)
      /\ OpenAccept(s2, b) <=> OpenAccept(s, b)
      /\ BareAck(s2, b) <=> BareAck(s, b)
      /\ AckAccept(s2, b) <=> AckAccept(s, b)
      /\ LooseCall(s2, b) <=> LooseCall(s, b)
  BY OwnDropped
<1>2. /\ HasCall(t2, a) <=> HasCall(t, a)
      /\ HasAck(t2, a) /\ OpenAck(t2, a) /\ BareAck(t2, a)
      /\ HasAccept(t2, a) <=> HasAccept(t, a)
      /\ HasHangUp(t2, a) <=> HasHangUp(t, a)
      /\ HasBusy(t2, a) <=> HasBusy(t, a)
      /\ OpenCall(t2, a) <=> OpenCall(t, a)
      /\ OpenAccept(t2, a) <=> OpenAccept(t, a)
      /\ FirstCall(t2, a) <=> FirstCall(t, a)
      /\ AckAccept(t2, a) <=> AckAccept(t, a)
      /\ LooseCall(t2, a) <=> LooseCall(t, a)
  BY OwnAdded
<1>4. Side("IN", q, s2, t2, a, b, V)
  BY <1>0, <1>1, <1>2 DEF Sound, Link, Side, Fewer
<1>5. Side(q, "IN", t2, s2, b, a, V)
  BY <1>0, <1>1, <1>2 DEF Sound, Link, Side, Fewer
<1> QED
  BY <1>4, <1>5 DEF Link

\* a refuses the call of b.
LEMMA LinkRefuse ==
  ASSUME NEW r, NEW q, NEW s \in Seq(Messages), NEW t \in Seq(Messages), NEW a, NEW b, NEW U,
         Link(r, q, s, t, a, b, U),
         NEW s2 \in Seq(Messages), NEW t2 \in Seq(Messages),
         NEW V, Fewer(U, V, a, b), b \in U,
         Dropped(s, Msg("call", b), s2), ~HasCall(s2, b),
         Added(t, Msg("busy", a), t2)
  PROVE  Link(r, q, s2, t2, a, b, V)
<1>0. Sound(s, b) /\ Sound(t, a) /\ Sound(s2, b) /\ Sound(t2, a)
  BY MailFollows
<1>1. /\ HasCall(s, b) /\ FirstCall(s, b)
      /\ HasAck(s2, b) <=> HasAck(s, b)
      /\ HasAccept(s2, b) <=> HasAccept(s, b)
      /\ HasHangUp(s2, b) <=> HasHangUp(s, b)
      /\ HasBusy(s2, b) <=> HasBusy(s, b)
      /\ OpenCall(s, b) <=> OpenCall(s2, b) \/ ~HasHangUp(s2, b)
      /\ OpenAck(s2, b) <=> OpenAck(s, b)
      /\ OpenAccept(s2, b) <=> OpenAccept(s, b)
      /\ BareAck(s2, b) <=> BareAck(s, b)
      /\ AckAccept(s2, b) <=> AckAccept(s, b)
      /\ LooseCall(s2, b) <=> LooseCall(s, b)
  BY OwnDropped
<1>2. /\ HasCall(t2, a) <=> HasCall(t, a)
      /\ HasAck(t2, a) <=> HasAck(t, a)
      /\ HasAccept(t2, a) <=> HasAccept(t, a)
      /\ HasHangUp(t2, a) <=> HasHangUp(t, a)
      /\ HasBusy(t2, a)
      /\ OpenCall(t2, a) <=> OpenCall(t, a)
      /\ OpenAck(t2, a) <=> OpenAck(t, a)
      /\ OpenAccept(t2, a) <=> OpenAccept(t, a)
      /\ BareAck(t2, a) <=> BareAck(t, a)
      /\ FirstCall(t2, a) <=> FirstCall(t, a)
      /\ AckAccept(t2, a) <=> AckAccept(t, a)
      /\ LooseCall(t2, a) <=> LooseCall(t, a)
  BY OwnAdded
<1>4. Side(r, q, s2, t2, a, b, V)
  BY <1>0, <1>1, <1>2 DEF Sound, Link, Side, Fewer
<1>5. Side(q, r, t2, s2, b, a, V)
  BY <1>0, <1>1, <1>2 DEF Sound, Link, Side, Fewer
<1> QED
  BY <1>4, <1>5 DEF Link

\* The call of a rings at b.
LEMMA LinkAck ==
  ASSUME NEW q, NEW s \in Seq(Messages), NEW t \in Seq(Messages), NEW a, NEW b, NEW U,
         Link("PUBLISH", q, s, t, a, b, U),
         NEW s2 \in Seq(Messages), NEW V, Fewer(U, V, a, b),
         Dropped(s, Msg("ack", b), s2)
  PROVE  Link("OUT", q, s2, t, a, b, V)
<1>0. Sound(s, b) /\ Sound(t, a) /\ Sound(s2, b)
  BY MailFollows
<1>1. /\ HasAck(s, b)
      /\ HasCall(s2, b) <=> HasCall(s, b)
      /\ HasAccept(s2, b) <=> HasAccept(s, b)
      /\ HasHangUp(s2, b) <=> HasHangUp(s, b)
      /\ HasBusy(s2, b) <=> HasBusy(s, b)
      /\ OpenCall(s2, b) <=> OpenCall(s, b)
      /\ OpenAccept(s2, b) <=> OpenAccept(s, b)
      /\ OpenAck(s, b) <=> OpenAck(s2, b) \/ ~HasHangUp(s2, b)
      /\ BareAck(s, b) <=> BareAck(s2, b) \/ (~HasHangUp(s2, b) /\ ~HasAccept(s2, b))
      /\ FirstCall(s2, b) <=> FirstCall(s, b)
      /\ AckAccept(s, b) <=> AckAccept(s2, b) \/ HasAccept(s2, b)
      /\ LooseCall(s2, b) <=> LooseCall(s, b)
  BY OwnDropped
<1>2. Side("OUT", q, s2, t, a, b, V)
  BY <1>0, <1>1 DEF Sound, Link, Side, Fewer
<1>3. Side(q, "OUT", t, s2, b, a, V)
  BY <1>0, <1>1 DEF Sound, Link, Side, Fewer
<1> QED
  BY <1>2, <1>3 DEF Link

\* b has answered the call of a.
LEMMA LinkAccept ==
  ASSUME NEW q, NEW s \in Seq(Messages), NEW t \in Seq(Messages), NEW a, NEW b, NEW U,
         Link("OUT", q, s, t, a, b, U),
         NEW s2 \in Seq(Messages), NEW V, Fewer(U, V, a, b),
         Dropped(s, Msg("accept", b), s2), HasBusy(t, a) => b \in U
  PROVE  Link("TALK", q, s2, t, a, b, V)
<1>0. Sound(s, b) /\ Sound(t, a) /\ Sound(s2, b)
  BY MailFollows
<1>1. /\ HasAccept(s, b)
      /\ HasCall(s2, b) <=> HasCall(s, b)
      /\ HasAck(s2, b) <=> HasAck(s, b)
      /\ HasHangUp(s2, b) <=> HasHangUp(s, b)
      /\ HasBusy(s2, b) <=> HasBusy(s, b)
      /\ OpenCall(s2, b) <=> OpenCall(s, b)
      /\ OpenAck(s2, b) <=> OpenAck(s, b)
      /\ OpenAccept(s, b) <=> OpenAccept(s2, b) \/ ~HasHangUp(s2, b)
      /\ BareAck(s2, b) <=> BareAck(s, b)
      /\ FirstCall(s2, b) <=> FirstCall(s, b)
      /\ AckAccept(s2, b) <=> AckAccept(s, b)
      /\ LooseCall(s, b) <=> LooseCall(s2, b) \/ FirstCall(s2, b)
  BY OwnDropped
<1>2. Side("TALK", q, s2, t, a, b, V)
  BY <1>0, <1>1 DEF Sound, Link, Side, Fewer
<1>3. Side(q, "TALK", t, s2, b, a, V)
  BY <1>0, <1>1 DEF Sound, Link, Side, Fewer
<1> QED
  BY <1>2, <1>3 DEF Link

\* b refuses a, whatever a is doing by now.
LEMMA LinkBusy ==
  ASSUME NEW r, NEW q, NEW s \in Seq(Messages), NEW t \in Seq(Messages), NEW a, NEW b, NEW U,
         Link(r, q, s, t, a, b, U),
         NEW s2 \in Seq(Messages), NEW V, Fewer(U, V, a, b),
         a \in U, ~HasCall(t, a),
         Dropped(s, Msg("busy", b), s2)
  PROVE  Link("IDLE", q, s2, t, a, b, V)
<1>0. Sound(s, b) /\ Sound(t, a) /\ Sound(s2, b)
  BY MailFollows
<1>1. /\ HasBusy(s, b)
      /\ HasCall(s2, b) <=> HasCall(s, b)
      /\ HasAck(s2, b) <=> HasAck(s, b)
      /\ HasAccept(s2, b) <=> HasAccept(s, b)
      /\ HasHangUp(s2, b) <=> HasHangUp(s, b)
      /\ OpenCall(s2, b) <=> OpenCall(s, b)
      /\ OpenAck(s2, b) <=> OpenAck(s, b)
      /\ OpenAccept(s2, b) <=> OpenAccept(s, b)
      /\ BareAck(s2, b) <=> BareAck(s, b)
      /\ FirstCall(s2, b) <=> FirstCall(s, b)
      /\ AckAccept(s2, b) <=> AckAccept(s, b)
      /\ LooseCall(s2, b) <=> LooseCall(s, b)
  BY OwnDropped
<1>3. Side("IDLE", q, s2, t, a, b, V)
  BY <1>0, <1>1 DEF Sound, Link, Side, Fewer
<1>4. Side(q, "IDLE", t, s2, b, a, V)
  BY <1>0, <1>1 DEF Sound, Link, Side, Fewer
<1> QED
  BY <1>3, <1>4 DEF Link

\* What a reads in vain.
LEMMA LinkIgnore ==
  ASSUME NEW r, NEW q, NEW s \in Seq(Messages), NEW t \in Seq(Messages), NEW a, NEW b, NEW U,
         Link(r, q, s, t, a, b, U),
         NEW s2 \in Seq(Messages), NEW V, Fewer(U, V, a, b),
         NEW k, Dropped(s, Msg(k, b), s2),
         \/ k = "ack" /\ r # "PUBLISH"
         \/ k = "accept" /\ r # "OUT"
         \/ k = "hangup" /\ r \in {"IDLE", "PUBLISH"}
  PROVE  Link(r, q, s2, t, a, b, V)
<1>0. Sound(s, b) /\ Sound(t, a) /\ Sound(s2, b)
  BY MailFollows
<1>1. /\ HasCall(s, b) <=> HasCall(s2, b)
      /\ HasAck(s, b) <=> HasAck(s2, b) \/ k = "ack"
      /\ HasAccept(s, b) <=> HasAccept(s2, b) \/ k = "accept"
      /\ HasHangUp(s, b) <=> HasHangUp(s2, b) \/ k = "hangup"
      /\ HasBusy(s, b) <=> HasBusy(s2, b)
      /\ OpenCall(s, b) <=> OpenCall(s2, b)
      /\ OpenAck(s, b) <=> OpenAck(s2, b) \/ (k = "ack" /\ ~HasHangUp(s2, b))
      /\ OpenAccept(s, b) <=> OpenAccept(s2, b) \/ (k = "accept" /\ ~HasHangUp(s2, b))
      /\ BareAck(s, b) <=>
           BareAck(s2, b) \/ (k = "ack" /\ ~HasHangUp(s2, b) /\ ~HasAccept(s2, b))
      /\ (k # "hangup" => (FirstCall(s, b) <=> FirstCall(s2, b)))
      /\ AckAccept(s, b) <=> AckAccept(s2, b) \/ (k = "ack" /\ HasAccept(s2, b))
      /\ LooseCall(s, b) <=> LooseCall(s2, b) \/ (k = "accept" /\ FirstCall(s2, b))
  BY OwnDropped
<1>3. CASE k = "ack"
  <2>1. Side(r, q, s2, t, a, b, V)
    BY <1>0, <1>1, <1>3 DEF Sound, Link, Side, Fewer
  <2>2. Side(q, r, t, s2, b, a, V)
    BY <1>0, <1>1, <1>3 DEF Sound, Link, Side, Fewer
  <2> QED
    BY <2>1, <2>2 DEF Link
<1>4. CASE k = "accept"
  <2>1. Side(r, q, s2, t, a, b, V)
    BY <1>0, <1>1, <1>4 DEF Sound, Link, Side, Fewer
  <2>2. Side(q, r, t, s2, b, a, V)
    BY <1>0, <1>1, <1>4 DEF Sound, Link, Side, Fewer
  <2> QED
    BY <2>1, <2>2 DEF Link
<1>5. CASE k = "hangup"
  <2>1. Side(r, q, s2, t, a, b, V)
    BY <1>0, <1>1, <1>5 DEF Sound, Link, Side, Fewer
  <2>2. Side(q, r, t, s2, b, a, V)
    BY <1>0, <1>1, <1>5 DEF Sound, Link, Side, Fewer
  <2> QED
    BY <2>1, <2>2 DEF Link
<1> QED
  BY <1>3, <1>4, <1>5

-----------------------------------------------------------------------------
(* The invariant behind Agreed.  Only a flag that is up shows a call.       *)

Rel(a, b) == IF flag[a][b] = 0 THEN "IDLE" ELSE status[a]

\* An answer to an earlier call of a may still come, in terms of the queues.
Waits(a) == \E p \in Others(a) : HasBusy(inbox[a], p) \/ HasCall(inbox[p], a)
Waiting == {a \in Monitors : Waits(a)}

Linked == \A a \in Monitors : \A b \in Others(a) :
  Link(Rel(a, b), Rel(b, a), inbox[a], inbox[b], a, b, Waiting)

\* One call of a is under way at a time, as the call or as its refusal, and a
\* is still in it, or in none.
Token(a) ==
  /\ \A p \in Others(a) : HasBusy(inbox[a], p) \/ HasCall(inbox[p], a) =>
       status[a] = "IDLE" \/ Rel(a, p) # "IDLE"
  /\ \A p, q \in Others(a) : ~(HasBusy(inbox[a], p) /\ HasCall(inbox[q], a))
  /\ \A p, q \in Others(a) : HasCall(inbox[p], a) /\ HasCall(inbox[q], a) => p = q
  /\ \A p \in Others(a) : OnceCall(inbox[p], a)
Tokens == \A a \in Monitors : Token(a)

Both == ~hasty /\ lost = 0 => Linked /\ Tokens

LEMMA UnsettledWaits ==
  ASSUME IInv, NEW m \in Monitors
  PROVE  Unsettled(m) <=> Waits(m)
<1>1. inbox[m] \in Seq(Mail(m)) /\ \A p \in Others(m) : inbox[p] \in Seq(Messages)
  BY DEF IInv, TypeOK, OthersWrite, Others
<1>2. \A i \in DOMAIN inbox[m] : inbox[m][i] \in Mail(m)
  BY <1>1
<1>3. \A p \in Others(m) : \A i \in DOMAIN inbox[p] : inbox[p][i] \in Messages
  BY <1>1
<1>4. (\E i \in DOMAIN inbox[m] : inbox[m][i].kind = "busy")
      <=> \E p \in Others(m) : HasBusy(inbox[m], p)
  <2>1. \A i \in DOMAIN inbox[m] : /\ inbox[m][i].from \in Others(m)
                                  /\ inbox[m][i] = Msg(inbox[m][i].kind, inbox[m][i].from)
    BY <1>2 DEF Mail, Msg
  <2>2. \A i \in DOMAIN inbox[m] : \A p \in Others(m) :
          inbox[m][i] = Msg("busy", p) => inbox[m][i].kind = "busy"
    BY Different
  <2>3. (\E i \in DOMAIN inbox[m] : inbox[m][i].kind = "busy")
        => \E p \in Others(m) : HasBusy(inbox[m], p)
    BY <2>1 DEF HasBusy, Has
  <2> QED
    BY <2>2, <2>3 DEF HasBusy, Has
<1>5. ASSUME NEW p \in Others(m)
      PROVE  (\E i \in DOMAIN inbox[p] : inbox[p][i].kind = "call" /\ inbox[p][i].from = m)
             <=> HasCall(inbox[p], m)
  <2>1. \A i \in DOMAIN inbox[p] :
          inbox[p][i].kind = "call" /\ inbox[p][i].from = m <=> inbox[p][i] = Msg("call", m)
    BY <1>3, MessageIs, Different
  <2> QED
    BY <2>1 DEF HasCall, Has
<1> QED
  BY <1>4, <1>5 DEF Unsettled, Waits

-----------------------------------------------------------------------------
(* What a step does to the queues.                                         *)

\* No new call and no new refusal of p
Less(s, t, p) == /\ HasBusy(t, p) => HasBusy(s, p)
                 /\ HasCall(t, p) => HasCall(s, p)
                 /\ OnceCall(s, p) => OnceCall(t, p)
Shrink == \A a \in Monitors : \A p \in Others(a) : Less(inbox[a], inbox'[a], p)

LEMMA SameLess ==
  ASSUME NEW s, NEW t, NEW p, Same(s, t, p)
  PROVE  Less(s, t, p)
BY DEF Same, Less

LEMMA AddedLess ==
  ASSUME NEW s, NEW t, NEW p, NEW m, NEW k, Added(s, Msg(k, m), t), k \notin {"call", "busy"}
  PROVE  Less(s, t, p)
<1>1. CASE p = m
  BY <1>1, OwnAdded DEF Less
<1>2. CASE p # m
  BY <1>2, OtherAdded, Different, SameLess
<1> QED
  BY <1>1, <1>2

LEMMA DroppedLess ==
  ASSUME NEW s, NEW t, NEW p, NEW m, NEW k, Dropped(s, Msg(k, m), t)
  PROVE  Less(s, t, p)
<1>1. CASE p = m
  BY <1>1, OwnDropped DEF Less
<1>2. CASE p # m
  BY <1>2, OtherDropped, Different, SameLess
<1> QED
  BY <1>1, <1>2

LEMMA SentAdds ==
  ASSUME NEW box, Boxes(box), NEW m \in Monitors, NEW k \in Kinds,
         NEW to \in SUBSET Others(m), NEW p \in Monitors
  PROVE  /\ p \in to => Added(box[p], Msg(k, m), Sent(box, m, k, to)[p])
         /\ p \notin to => Sent(box, m, k, to)[p] = box[p]
<1>1. Msg(k, m) \in Messages /\ box[p] \in Seq(Messages)
  BY DEF Msg, Messages, Boxes
<1>2. Sent(box, m, k, to)[p] = IF p \in to THEN Append(box[p], Msg(k, m)) ELSE box[p]
  BY DEF Sent, Msg
<1> QED
  BY <1>1, <1>2, AppendAdds

LEMMA RestDrops ==
  ASSUME IInv, NEW m \in Monitors, NEW k, Oldest(m, {k})
  PROVE  /\ From(m) \in Others(m)
         /\ Boxes(Rest(m))
         /\ Dropped(inbox[m], Msg(k, From(m)), Rest(m)[m])
         /\ \A p \in Others(m) : Rest(m)[p] = inbox[p]
<1>1. Boxes(inbox) /\ inbox[m] # <<>> /\ Head(inbox[m]).kind = k
  BY DEF IInv, TypeOK, OthersWrite, Boxes, Oldest
<1>2. inbox[m] \in Seq(Messages) /\ inbox \in [Monitors -> Seq(Messages)]
  BY <1>1 DEF Boxes
<1>3. Head(inbox[m]) \in Messages
  BY <1>1, <1>2, TailDomain
<1>4. Head(inbox[m]) = Msg(k, From(m))
  BY <1>1, <1>3, MessageIs DEF From
<1>5. Rest(m)[m] = Tail(inbox[m]) /\ \A p \in Others(m) : Rest(m)[p] = inbox[p]
  BY <1>2 DEF Rest, Others
<1> QED
  BY <1>1, <1>2, <1>4, <1>5, TailDrops, RestBoxes

LEMMA Queues ==
  ASSUME IInv, NEW m \in Monitors
  PROVE  inbox[m] \in Seq(Messages)
BY DEF IInv, TypeOK

-----------------------------------------------------------------------------
(* What a step of m leaves alone.                                          *)

LEMMA WaitingLess ==
  ASSUME Shrink, NEW a \in Monitors, Waits(a)'
  PROVE  Waits(a)
<1>1. PICK p \in Others(a) : HasBusy(inbox'[a], p) \/ HasCall(inbox'[p], a)
  BY DEF Waits, Others
<1>2. p \in Monitors /\ a \in Others(p)
  BY DEF Others
<1>3. Less(inbox[a], inbox'[a], p) /\ Less(inbox[p], inbox'[p], a)
  BY <1>2 DEF Shrink
<1> QED
  BY <1>1, <1>3 DEF Waits, Less

\* The status and the flags of the others
Alone(m) == \A a \in Others(m) : status'[a] = status[a] /\ flag'[a] = flag[a]
\* Queues change for the messages of m only, apart from that of m.
FromOnly(m) == \A a \in Others(m) : \A b \in Others(a) \ {m} : Same(inbox[a], inbox'[a], b)
\* Nobody but m is newly waiting.
Newly(m) == \A a \in Others(m) : Waits(a)' => Waits(a)

LEMMA LinksKept ==
  ASSUME Linked, NEW m \in Monitors, Alone(m), FromOnly(m), Newly(m),
         \A b \in Others(m) :
           Link(Rel(m, b)', Rel(b, m)', inbox'[m], inbox'[b], m, b, Waiting')
  PROVE  Linked'
<1> SUFFICES ASSUME NEW a \in Monitors, NEW b \in Others(a)
             PROVE  Link(Rel(a, b)', Rel(b, a)', inbox'[a], inbox'[b], a, b, Waiting')
  BY DEF Linked, Others
<1>0. b \in Monitors /\ a \in Others(b)
  BY DEF Others
<1>1. CASE a = m
  BY <1>1
<1>2. CASE b = m
  BY <1>0, <1>2, LinkTurn
<1>3. CASE a # m /\ b # m
  <2>1. a \in Others(m) /\ b \in Others(m)
    BY <1>0, <1>3 DEF Others
  <2>2. Rel(a, b)' = Rel(a, b) /\ Rel(b, a)' = Rel(b, a)
    BY <2>1 DEF Alone, Rel
  <2>3. Same(inbox[a], inbox'[a], b) /\ Same(inbox[b], inbox'[b], a)
    BY <1>0, <1>3, <2>1 DEF FromOnly
  <2>4. Fewer(Waiting, Waiting', a, b)
    BY <2>1 DEF Newly, Fewer, Waiting
  <2>5. Link(Rel(a, b), Rel(b, a), inbox[a], inbox[b], a, b, Waiting)
    BY DEF Linked
  <2> QED
    BY <2>2, <2>3, <2>4, <2>5, LinkKept
<1> QED
  BY <1>1, <1>2, <1>3

\* No new call, and m stays in its call or has none.
LEMMA TokensKept ==
  ASSUME Tokens, NEW m \in Monitors, Alone(m), Shrink,
         \/ status'[m] = "IDLE"
         \/ status[m] # "IDLE" /\ \A p \in Others(m) : Rel(m, p) # "IDLE" => Rel(m, p)' # "IDLE"
         \/ ~Waits(m)
  PROVE  Tokens'
<1> SUFFICES ASSUME NEW a \in Monitors
             PROVE  Token(a)'
  BY DEF Tokens
<1>1. Token(a)
  BY DEF Tokens
<1>2. \A p \in Others(a) : /\ HasBusy(inbox'[a], p) => HasBusy(inbox[a], p)
                           /\ HasCall(inbox'[p], a) => HasCall(inbox[p], a)
                           /\ OnceCall(inbox[p], a) => OnceCall(inbox'[p], a)
  BY DEF Shrink, Less, Others
<1>3. \A p \in Others(a) : HasBusy(inbox'[a], p) \/ HasCall(inbox'[p], a) =>
        status'[a] = "IDLE" \/ Rel(a, p)' # "IDLE"
  <2>1. CASE a = m
    BY <1>1, <1>2, <2>1 DEF Token, Waits
  <2>2. CASE a # m
    BY <1>1, <1>2, <2>2 DEF Token, Alone, Others, Rel
  <2> QED
    BY <2>1, <2>2
<1> QED
  BY <1>1, <1>2, <1>3 DEF Token, Others

LEMMA ShrinkFewer ==
  ASSUME Shrink, NEW m \in Monitors
  PROVE  Newly(m) /\ \A a, b \in Monitors : Fewer(Waiting, Waiting', a, b)
<1>1. \A a \in Monitors : Waits(a)' => Waits(a)
  BY WaitingLess
<1> QED
  BY <1>1 DEF Newly, Fewer, Waiting, Others

\* m sends a message, after it may have read one.
LEMMA AfterSent ==
  ASSUME IInv, NEW m \in Monitors, NEW k \in Kinds, NEW to \in SUBSET Others(m),
         NEW box, Boxes(box), \A p \in Others(m) : box[p] = inbox[p],
         inbox' = Sent(box, m, k, to)
  PROVE  /\ FromOnly(m) /\ inbox'[m] = box[m]
         /\ \A p \in Others(m) : /\ p \in to => Added(inbox[p], Msg(k, m), inbox'[p])
                                 /\ p \notin to => inbox'[p] = inbox[p]
<1>1. m \notin to /\ inbox'[m] = box[m]
  BY SentAdds DEF Others
<1>2. ASSUME NEW p \in Others(m)
      PROVE  /\ p \in to => Added(inbox[p], Msg(k, m), inbox'[p])
             /\ p \notin to => inbox'[p] = inbox[p]
  <2>1. p \in Monitors /\ box[p] = inbox[p]
    BY DEF Others
  <2>2. /\ p \in to => Added(box[p], Msg(k, m), inbox'[p])
        /\ p \notin to => inbox'[p] = box[p]
    BY <2>1, SentAdds
  <2> QED
    BY <2>1, <2>2
<1>3. FromOnly(m)
  <2> SUFFICES ASSUME NEW a \in Others(m), NEW b \in Others(a) \ {m}
               PROVE  Same(inbox[a], inbox'[a], b)
    BY DEF FromOnly
  <2>1. Msg(k, m).from # b
    BY Different
  <2> QED
    BY <1>2, <2>1, OtherAdded, SameSelf
<1> QED
  BY <1>1, <1>2, <1>3

\* m only reads.
LEMMA AfterRead ==
  ASSUME NEW m \in Monitors, \A p \in Others(m) : inbox'[p] = inbox[p]
  PROVE  FromOnly(m)
BY SameSelf DEF FromOnly

LEMMA AfterShrink ==
  ASSUME NEW m \in Monitors,
         \/ inbox'[m] = inbox[m]
         \/ \E k, f : Dropped(inbox[m], Msg(k, f), inbox'[m]),
         \A p \in Others(m) :
           \/ inbox'[p] = inbox[p]
           \/ \E k : k \notin {"call", "busy"} /\ Added(inbox[p], Msg(k, m), inbox'[p])
  PROVE  Shrink
<1>1. \A p : Less(inbox[m], inbox'[m], p)
  BY DroppedLess, SameSelf, SameLess
<1>2. \A a \in Others(m) : \A p : Less(inbox[a], inbox'[a], p)
  BY AddedLess, SameSelf, SameLess
<1> QED
  BY <1>1, <1>2 DEF Shrink, Others

-----------------------------------------------------------------------------
(* The steps.                                                              *)

LEMMA FlagIdle ==
  ASSUME NEW p \in Monitors
  PROVE  NoFlags[p] = 0
BY DEF NoFlags

LEMMA QuitLinks ==
  ASSUME IInv, Linked, Tokens, NEW m \in Monitors, NEW l, NEW box, Boxes(box),
         Quit(m, l, box), \A p \in Others(m) : box[p] = inbox[p],
         \/ box[m] = inbox[m]
         \/ \E f \in Others(m) : Dropped(inbox[m], Msg("hangup", f), box[m])
  PROVE  Linked' /\ Tokens'
<1>1. /\ FromOnly(m) /\ inbox'[m] = box[m]
      /\ \A p \in Others(m) : Added(inbox[p], Msg("hangup", m), inbox'[p])
  <2>1. "hangup" \in Kinds /\ inbox' = Sent(box, m, "hangup", Others(m))
    BY DEF Kinds, Quit
  <2> QED
    BY <2>1, AfterSent
<1>2. Alone(m) /\ status'[m] = "IDLE" /\ flag'[m] = NoFlags
  BY DEF Quit, Idle, IInv, TypeOK, Alone, Others
<1>3. Shrink
  BY <1>1, AfterShrink
<1>4. Newly(m) /\ \A b \in Others(m) : Fewer(Waiting, Waiting', m, b)
  BY <1>3, ShrinkFewer DEF Others
<1>5. ASSUME NEW b \in Others(m)
      PROVE  Link(Rel(m, b)', Rel(b, m)', inbox'[m], inbox'[b], m, b, Waiting')
  <2>1. Rel(m, b)' = "IDLE" /\ Rel(b, m)' = Rel(b, m)
    BY <1>2, FlagIdle DEF Rel, Alone, Others
  <2>2. Link(Rel(m, b), Rel(b, m), inbox[m], inbox[b], m, b, Waiting)
    BY DEF Linked
  <2>3. Same(inbox[m], inbox'[m], b) \/ Dropped(inbox[m], Msg("hangup", b), inbox'[m])
    <3>1. CASE inbox'[m] = inbox[m]
      BY <3>1, SameSelf
    <3>2. CASE \E f \in Others(m) : Dropped(inbox[m], Msg("hangup", f), inbox'[m])
      BY <3>2, OtherDropped, Different
    <3> QED
      BY <1>1, <3>1, <3>2
  <2> QED
    BY <1>1, <1>4, <2>1, <2>2, <2>3, LinkQuit
<1> QED
  BY <1>1, <1>2, <1>3, <1>4, <1>5, LinksKept, TokensKept

\* The call of m and p, where the flag is up
LEMMA OnlyRel ==
  ASSUME NEW m \in Monitors, NEW p \in Others(m), NEW n \in 1 .. 3, flag[m] = OnlyFlag(p, n)
  PROVE  /\ Rel(m, p) = status[m]
         /\ \A b \in Others(m) \ {p} : Rel(m, b) = "IDLE"
<1>1. \A b \in Others(m) : OnlyFlag(p, n)[b] = IF b = p THEN n ELSE 0
  BY FlagValue DEF Others
<1> QED
  BY <1>1 DEF Rel

LEMMA IdleRel ==
  ASSUME IInv, NEW m \in Monitors, status[m] = "IDLE"
  PROVE  \A b \in Others(m) : Rel(m, b) = "IDLE"
BY DEF Rel

LEMMA CallRel ==
  ASSUME IInv, NEW m \in Monitors, status[m] # "IDLE"
  PROVE  \E p \in Others(m) : \E n \in 1 .. 3 : flag[m] = OnlyFlag(p, n)
<1>1. status[m] \in {"PUBLISH", "OUT", "IN", "TALK"} /\ master[m] \in Monitors
  BY DEF IInv, TypeOK, Statuses
<1>2. CallOf(m)
  BY DEF IInv, OneCall
<1>3. CASE status[m] = "IN"
  BY <1>1, <1>2, <1>3 DEF CallOf, Calls, Others
<1>4. CASE status[m] # "IN"
  BY <1>1, <1>2, <1>4 DEF CallOf, Calls
<1> QED
  BY <1>3, <1>4

\* Whoever has no call with b is not disturbed by what others do.
LEMMA LinkOther ==
  ASSUME Linked, NEW m \in Monitors, NEW b \in Others(m), Alone(m),
         Rel(m, b)' = Rel(m, b), Same(inbox[m], inbox'[m], b), Same(inbox[b], inbox'[b], m),
         Fewer(Waiting, Waiting', m, b)
  PROVE  Link(Rel(m, b)', Rel(b, m)', inbox'[m], inbox'[b], m, b, Waiting')
<1>1. Rel(b, m)' = Rel(b, m)
  BY DEF Alone, Rel
<1>2. Link(Rel(m, b), Rel(b, m), inbox[m], inbox[b], m, b, Waiting)
  BY DEF Linked
<1> QED
  BY <1>1, <1>2, LinkKept

\* m, who waits for nothing, calls p.
LEMMA PickLinks ==
  ASSUME IInv, Linked, Tokens, NEW m \in Monitors, NEW p \in Monitors, PickDevice(m, p),
         ~Waits(m)
  PROVE  Linked' /\ Tokens'
<1>1. p \in Others(m) /\ {p} \in SUBSET Others(m) /\ "call" \in Kinds
  BY DEF PickDevice, Others, Kinds
<1>2. /\ FromOnly(m) /\ inbox'[m] = inbox[m]
      /\ Added(inbox[p], Msg("call", m), inbox'[p])
      /\ \A b \in Others(m) \ {p} : inbox'[b] = inbox[b]
  <2>1. Boxes(inbox) /\ inbox' = Sent(inbox, m, "call", {p})
    BY DEF IInv, TypeOK, OthersWrite, Boxes, PickDevice
  <2> QED
    BY <1>1, <2>1, AfterSent
<1>3. /\ Alone(m) /\ status[m] = "IDLE" /\ status'[m] = "PUBLISH"
      /\ flag'[m] = OnlyFlag(p, 1)
  BY DEF PickDevice, IInv, TypeOK, Alone, Others
<1>4. \A a \in Others(m) : \A q \in Others(a) :
        /\ HasBusy(inbox'[a], q) => HasBusy(inbox[a], q)
        /\ HasCall(inbox'[q], a) => HasCall(inbox[q], a)
        /\ OnceCall(inbox[q], a) => OnceCall(inbox'[q], a)
  <2> SUFFICES ASSUME NEW a \in Others(m), NEW q \in Others(a)
               PROVE  /\ HasBusy(inbox'[a], q) => HasBusy(inbox[a], q)
                      /\ HasCall(inbox'[q], a) => HasCall(inbox[q], a)
                      /\ OnceCall(inbox[q], a) => OnceCall(inbox'[q], a)
    OBVIOUS
  <2>1. CASE q = m
    <3>1. HasBusy(inbox'[a], m) => HasBusy(inbox[a], m)
      BY <1>2, OwnAdded
    <3> QED
      BY <1>2, <2>1, <3>1
  <2>2. CASE q # m
    <3>1. q \in Others(m) /\ a \in Others(q) \ {m} /\ q \in Others(a) \ {m}
      BY <2>2 DEF Others
    <3> QED
      BY <1>2, <3>1 DEF FromOnly, Same
  <2> QED
    BY <2>1, <2>2
<1>5. Newly(m)
  BY <1>4 DEF Newly, Waits, Others
<1>6. ASSUME NEW b \in Others(m)
      PROVE  Link(Rel(m, b)', Rel(b, m)', inbox'[m], inbox'[b], m, b, Waiting')
  <2>1. Link("IDLE", Rel(b, m), inbox[m], inbox[b], m, b, Waiting)
    BY <1>3, IdleRel DEF Linked
  <2>2. Rel(b, m)' = Rel(b, m) /\ (b \in Waiting' => b \in Waiting)
    BY <1>3, <1>5 DEF Alone, Rel, Newly, Waiting
  <2>3. CASE b = p
    <3>1. Rel(m, b)' = "PUBLISH"
      BY <1>3, <2>3, FlagValue DEF Rel, Others
    <3> QED
      BY <1>2, <2>1, <2>2, <2>3, <3>1, LinkPick
  <2>4. CASE b # p
    <3>1. Rel(m, b)' = "IDLE"
      BY <1>1, <1>3, <2>4, FlagValue DEF Rel, Others
    <3>2. inbox'[b] = inbox[b]
      BY <1>2, <2>4
    <3> QED
      BY <1>2, <2>1, <2>2, <3>1, <3>2 DEF Link, Side
  <2> QED
    BY <2>3, <2>4
<1>7. Token(m)'
  <2>1. \A q \in Others(m) : ~HasBusy(inbox'[m], q) /\ (HasCall(inbox'[q], m) => q = p)
    BY <1>2 DEF Waits
  <2>2. \A q \in Others(m) : OnceCall(inbox'[q], m)
    <3>1. \A q \in Others(m) : OnceCall(inbox[q], m) /\ ~HasCall(inbox[q], m)
      BY DEF Tokens, Token, Waits
    <3>2. OnceCall(inbox'[p], m)
      BY <1>1, <1>2, <3>1, OwnAdded
    <3> QED
      BY <1>2, <3>1, <3>2
  <2>3. Rel(m, p)' # "IDLE"
    BY <1>3, FlagValue DEF Rel, Others
  <2> QED
    BY <2>1, <2>2, <2>3 DEF Token, Others
<1>8. ASSUME NEW a \in Others(m)
      PROVE  Token(a)'
  <2>1. Token(a) /\ status'[a] = status[a] /\ \A q \in Others(a) : Rel(a, q)' = Rel(a, q)
    BY <1>3 DEF Tokens, Alone, Rel, Others
  <2> QED
    BY <1>4, <2>1 DEF Token, Others
<1> QED
  BY <1>2, <1>3, <1>5, <1>6, <1>7, <1>8, LinksKept DEF Tokens, Others

\* A ringing monitor answers.
LEMMA AnswerLinks ==
  ASSUME IInv, Linked, Tokens, NEW m \in Monitors, Answer(m)
  PROVE  Linked' /\ Tokens'
<1>0. PICK p \in Others(m) : p = master[m] /\ flag[m] = OnlyFlag(p, 2)
  BY DEF Answer, IInv, OneCall, CallOf, Calls, TypeOK, Others
<1>1. p \in Monitors /\ {p} \in SUBSET Others(m) /\ "accept" \in Kinds
  BY DEF Others, Kinds
<1>2. /\ FromOnly(m) /\ inbox'[m] = inbox[m]
      /\ Added(inbox[p], Msg("accept", m), inbox'[p])
      /\ \A b \in Others(m) \ {p} : inbox'[b] = inbox[b]
  <2>1. Boxes(inbox) /\ inbox' = Sent(inbox, m, "accept", {p})
    BY <1>0 DEF IInv, TypeOK, OthersWrite, Boxes, Answer
  <2> QED
    BY <1>1, <2>1, AfterSent
<1>3. /\ Alone(m) /\ status[m] = "IN" /\ status'[m] = "TALK" /\ flag'[m][p] = 3
      /\ \A b \in Others(m) \ {p} : flag'[m][b] = flag[m][b]
  BY <1>0, <1>1 DEF Answer, IInv, TypeOK, Alone, Others
<1>4. Shrink
  <2>1. "accept" \notin {"call", "busy"}
    OBVIOUS
  <2> QED
    BY <1>2, <2>1, AfterShrink
<1>5. Newly(m) /\ \A b \in Others(m) : Fewer(Waiting, Waiting', m, b)
  BY <1>4, ShrinkFewer DEF Others
<1>6. /\ Rel(m, p) = "IN" /\ Rel(m, p)' = "TALK"
      /\ \A b \in Others(m) \ {p} : Rel(m, b) = "IDLE" /\ Rel(m, b)' = "IDLE"
  <2>1. flag[m][p] = 2 /\ \A b \in Others(m) \ {p} : flag[m][b] = 0
    BY <1>0, <1>1, FlagValue DEF Others
  <2>2. flag'[m][p] = 3 /\ \A b \in Others(m) \ {p} : flag'[m][b] = 0
    BY <1>3, <2>1
  <2> QED
    BY <1>3, <2>1, <2>2 DEF Rel
<1>7. ASSUME NEW b \in Others(m)
      PROVE  Link(Rel(m, b)', Rel(b, m)', inbox'[m], inbox'[b], m, b, Waiting')
  <2>1. CASE b = p
    <3>1. Link("IN", Rel(b, m), inbox[m], inbox[b], m, b, Waiting)
      BY <1>6, <2>1 DEF Linked
    <3>2. Rel(b, m)' = Rel(b, m) /\ b \in Monitors
      BY <1>3 DEF Alone, Rel, Others
    <3>3. inbox[m] \in Seq(Messages) /\ inbox[b] \in Seq(Messages)
          /\ inbox'[b] \in Seq(Messages)
      BY <1>1, <1>2, <2>1, <3>2, Queues, AnswerStep DEF IInv, TypeOK
    <3> QED
      BY <1>2, <1>5, <1>6, <2>1, <3>1, <3>2, <3>3, LinkAnswer
  <2>2. CASE b # p
    <3>1. Rel(m, b)' = Rel(m, b) /\ inbox'[b] = inbox[b]
      BY <1>2, <1>6, <2>2
    <3> QED
      BY <1>2, <1>3, <1>5, <3>1, SameSelf, LinkOther
  <2> QED
    BY <2>1, <2>2
<1>8. status[m] # "IDLE" /\ \A b \in Others(m) : Rel(m, b) # "IDLE" => Rel(m, b)' # "IDLE"
  <2>1. "TALK" # "IDLE" /\ "IN" # "IDLE"
    OBVIOUS
  <2> QED
    BY <1>3, <1>6, <2>1
<1> QED
  BY <1>2, <1>3, <1>4, <1>5, <1>7, <1>8, LinksKept, TokensKept

\* m, who waits for nothing, rings at a call.
LEMMA RingLinks ==
  ASSUME IInv, Linked, Tokens, NEW m \in Monitors, Ring(m), ~Waits(m)
  PROVE  Linked' /\ Tokens'
<1> DEFINE p == From(m)
<1>1. Oldest(m, {"call"}) /\ "ack" \in Kinds
  BY DEF Ring, Kinds
<1>2. /\ p \in Others(m) /\ {p} \in SUBSET Others(m) /\ Boxes(Rest(m))
      /\ Dropped(inbox[m], Msg("call", p), Rest(m)[m])
      /\ \A b \in Others(m) : Rest(m)[b] = inbox[b]
  BY <1>1, RestDrops
<1>3. /\ FromOnly(m) /\ Dropped(inbox[m], Msg("call", p), inbox'[m])
      /\ Added(inbox[p], Msg("ack", m), inbox'[p])
      /\ \A b \in Others(m) \ {p} : inbox'[b] = inbox[b]
  <2>1. inbox' = Sent(Rest(m), m, "ack", {p})
    BY DEF Ring
  <2> QED
    BY <1>1, <1>2, <2>1, AfterSent
<1>4. /\ Alone(m) /\ status[m] = "IDLE" /\ status'[m] = "IN" /\ flag'[m] = OnlyFlag(p, 2)
  BY DEF Ring, IInv, TypeOK, Alone, Others
<1> HIDE DEF p
<1>5. Shrink
  <2>1. "ack" \notin {"call", "busy"}
    OBVIOUS
  <2> QED
    BY <1>3, <2>1, AfterShrink
<1>6. Newly(m) /\ \A b \in Others(m) : Fewer(Waiting, Waiting', m, b)
  BY <1>5, ShrinkFewer DEF Others
<1>7. m \notin Waiting'
  BY <1>5, WaitingLess DEF Waiting
<1>8. ~HasCall(inbox'[m], p) /\ ~HasBusy(inbox[p], m)
  <2>1. Token(p) /\ m \in Others(p) /\ HasCall(inbox[m], p)
    BY <1>2, <1>3, OwnDropped DEF Tokens, Others
  <2>2. OnceCall(inbox[m], p) /\ ~HasBusy(inbox[p], m)
    BY <2>1 DEF Token
  <2> QED
    BY <1>3, <2>2, OwnDropped
<1>9. ASSUME NEW b \in Others(m)
      PROVE  Link(Rel(m, b)', Rel(b, m)', inbox'[m], inbox'[b], m, b, Waiting')
  <2>1. CASE b = p
    <3>1. Link("IDLE", Rel(b, m), inbox[m], inbox[b], m, b, Waiting)
      BY <1>4, IdleRel DEF Linked
    <3>2. Rel(b, m)' = Rel(b, m) /\ b \in Monitors
      BY <1>4 DEF Alone, Rel, Others
    <3>3. Rel(m, b)' = "IN"
      BY <1>4, <2>1, <3>2, FlagValue DEF Rel
    <3>4. /\ inbox[m] \in Seq(Messages) /\ inbox[b] \in Seq(Messages)
          /\ inbox'[m] \in Seq(Messages) /\ inbox'[b] \in Seq(Messages)
      BY <3>2, RingStep DEF IInv, TypeOK
    <3> QED
      BY <1>3, <1>6, <1>7, <1>8, <2>1, <3>1, <3>2, <3>3, <3>4, LinkRing
  <2>2. CASE b # p
    <3>1. Rel(m, b) = "IDLE" /\ Rel(m, b)' = "IDLE" /\ inbox'[b] = inbox[b]
      BY <1>2, <1>3, <1>4, <2>2, IdleRel, FlagValue DEF Rel, Others
    <3>2. Same(inbox[m], inbox'[m], b)
      BY <1>3, <2>2, OtherDropped, Different
    <3> QED
      BY <1>4, <1>6, <3>1, <3>2, SameSelf, LinkOther
  <2> QED
    BY <2>1, <2>2
<1> QED
  BY <1>3, <1>4, <1>5, <1>6, <1>9, LinksKept, TokensKept

\* m refuses a call: the caller was waiting and goes on waiting.
LEMMA RefuseLinks ==
  ASSUME IInv, Linked, Tokens, NEW m \in Monitors, Refuse(m)
  PROVE  Linked' /\ Tokens'
<1>0. PICK p \in Others(m) : p = From(m)
  BY RestDrops DEF Refuse
<1>1. Oldest(m, {"call"}) /\ "busy" \in Kinds /\ p \in Monitors /\ p # m
      /\ {p} \in SUBSET Others(m) /\ m \in Others(p)
  BY DEF Refuse, Kinds, Others
<1>2. /\ Boxes(Rest(m)) /\ Dropped(inbox[m], Msg("call", p), Rest(m)[m])
      /\ \A b \in Others(m) : Rest(m)[b] = inbox[b]
  BY <1>0, <1>1, RestDrops
<1>3. /\ FromOnly(m) /\ Dropped(inbox[m], Msg("call", p), inbox'[m])
      /\ Added(inbox[p], Msg("busy", m), inbox'[p])
      /\ \A b \in Others(m) \ {p} : inbox'[b] = inbox[b]
  <2>1. inbox' = Sent(Rest(m), m, "busy", {p})
    BY <1>0 DEF Refuse
  <2> QED
    BY <1>1, <1>2, <2>1, AfterSent
<1>4. Alone(m) /\ status' = status /\ flag' = flag
  BY DEF Refuse, Alone
<1>5. HasCall(inbox[m], p) /\ Waits(p) /\ Token(p)
  BY <1>1, <1>3, OwnDropped DEF Waits, Tokens
<1>6. OnceCall(inbox[m], p) /\ ~HasBusy(inbox[p], m) /\ ~HasCall(inbox'[m], p)
  BY <1>1, <1>3, <1>5, OwnDropped DEF Token
<1>7. \A a \in Monitors : \A q \in Others(a) :
        /\ HasBusy(inbox'[a], q) => HasBusy(inbox[a], q) \/ (a = p /\ q = m)
        /\ HasCall(inbox'[q], a) => HasCall(inbox[q], a)
        /\ OnceCall(inbox[q], a) => OnceCall(inbox'[q], a)
  <2>1. \A q : /\ HasBusy(inbox'[m], q) => HasBusy(inbox[m], q)
               /\ HasCall(inbox'[m], q) => HasCall(inbox[m], q)
               /\ OnceCall(inbox[m], q) => OnceCall(inbox'[m], q)
    BY <1>3, DroppedLess DEF Less
  <2>2. ASSUME NEW q
        PROVE  /\ q # m => (HasBusy(inbox'[p], q) => HasBusy(inbox[p], q))
               /\ HasCall(inbox'[p], q) => HasCall(inbox[p], q)
               /\ OnceCall(inbox[p], q) => OnceCall(inbox'[p], q)
    <3>1. CASE q = m
      <4>1. "busy" # "call"
        OBVIOUS
      <4> QED
        BY <1>3, <3>1, <4>1, OwnAdded
    <3>2. CASE q # m
      <4>1. Same(inbox[p], inbox'[p], q)
        BY <1>3, <3>2, OtherAdded, Different
      <4> QED
        BY <3>2, <4>1 DEF Same
    <3> QED
      BY <3>1, <3>2
  <2> QED
    BY <1>3, <2>1, <2>2 DEF Others
<1>8. \A a \in Monitors : Waits(a)' => Waits(a)
  BY <1>5, <1>7 DEF Waits, Others
<1>9. Newly(m) /\ \A b \in Others(m) : Fewer(Waiting, Waiting', m, b)
  BY <1>8 DEF Newly, Fewer, Waiting, Others
<1>10. ASSUME NEW b \in Others(m)
       PROVE  Link(Rel(m, b)', Rel(b, m)', inbox'[m], inbox'[b], m, b, Waiting')
  <2>0. Rel(m, b)' = Rel(m, b) /\ Rel(b, m)' = Rel(b, m)
    BY <1>4 DEF Rel
  <2>1. CASE b = p
    <3>1. Link(Rel(m, b), Rel(b, m), inbox[m], inbox[b], m, b, Waiting) /\ b \in Waiting
      BY <1>1, <1>5, <2>1 DEF Linked, Waiting
    <3>2. /\ inbox[m] \in Seq(Messages) /\ inbox[b] \in Seq(Messages)
          /\ inbox'[m] \in Seq(Messages) /\ inbox'[b] \in Seq(Messages)
      BY <1>1, <2>1, RefuseStep DEF IInv, TypeOK
    <3> QED
      BY <1>3, <1>6, <1>9, <2>0, <2>1, <3>1, <3>2, LinkRefuse
  <2>2. CASE b # p
    <3>1. Same(inbox[m], inbox'[m], b)
      BY <1>3, <2>2, OtherDropped, Different
    <3>2. inbox'[b] = inbox[b]
      BY <1>3, <2>2
    <3> QED
      BY <1>4, <1>9, <2>0, <3>1, <3>2, SameSelf, LinkOther
  <2> QED
    BY <2>1, <2>2
<1>11. ASSUME NEW a \in Monitors
       PROVE  Token(a)'
  <2>1. Token(a) /\ status'[a] = status[a] /\ \A q \in Others(a) : Rel(a, q)' = Rel(a, q)
    BY <1>4 DEF Tokens, Rel
  <2>2. CASE a = p
    <3>1. \A q \in Others(p) : HasCall(inbox[q], p) => q = m
      BY <1>1, <1>5 DEF Token
    <3>2. \A q \in Others(p) : ~HasCall(inbox'[q], p)
      BY <1>6, <1>7, <3>1 DEF Others
    <3>3. \A q \in Others(p) : HasBusy(inbox'[p], q) => HasBusy(inbox[p], q) \/ q = m
      BY <1>1, <1>7
    <3>4. \A q \in Others(p) : OnceCall(inbox'[q], p)
      BY <1>1, <1>5, <1>7 DEF Token
    <3> QED
      BY <1>1, <1>5, <2>1, <2>2, <3>2, <3>3, <3>4 DEF Token, Others
  <2>3. CASE a # p
    BY <1>7, <2>1, <2>3 DEF Token, Others
  <2> QED
    BY <2>2, <2>3
<1> QED
  BY <1>3, <1>4, <1>9, <1>10, <1>11, LinksKept DEF Tokens

\* m reads a message that changes its own call at most.
LEMMA ReadLinks ==
  ASSUME IInv, Linked, Tokens, NEW m \in Monitors, Alone(m), NEW p \in Others(m), NEW k,
         Dropped(inbox[m], Msg(k, p), inbox'[m]),
         \A b \in Others(m) : inbox'[b] = inbox[b],
         \A b \in Others(m) \ {p} : Rel(m, b)' = Rel(m, b),
         Fewer(Waiting, Waiting', m, p) =>
           Link(Rel(m, p)', Rel(p, m), inbox'[m], inbox[p], m, p, Waiting'),
         \/ status'[m] = "IDLE"
         \/ status[m] # "IDLE" /\ (Rel(m, p) # "IDLE" => Rel(m, p)' # "IDLE")
  PROVE  Linked' /\ Tokens'
<1>1. FromOnly(m)
  BY AfterRead
<1>2. Shrink
  BY AfterShrink
<1>3. Newly(m) /\ \A b \in Others(m) : Fewer(Waiting, Waiting', m, b)
  BY <1>2, ShrinkFewer DEF Others
<1>4. ASSUME NEW b \in Others(m)
      PROVE  Link(Rel(m, b)', Rel(b, m)', inbox'[m], inbox'[b], m, b, Waiting')
  <2>1. CASE b = p
    <3>1. Rel(p, m)' = Rel(p, m) /\ inbox'[p] = inbox[p]
      BY DEF Alone, Rel
    <3> QED
      BY <1>3, <2>1, <3>1
  <2>2. CASE b # p
    <3>1. Same(inbox[m], inbox'[m], b)
      BY <2>2, OtherDropped, Different
    <3> QED
      BY <1>3, <2>2, <3>1, SameSelf, LinkOther
  <2> QED
    BY <2>1, <2>2
<1> QED
  BY <1>1, <1>2, <1>3, <1>4, LinksKept, TokensKept

\* The call of m rings.
LEMMA AckLinks ==
  ASSUME IInv, Linked, Tokens, NEW m \in Monitors, ReceiveAck(m)
  PROVE  Linked' /\ Tokens'
<1>0. PICK p \in Others(m) : p = From(m)
  BY RestDrops DEF ReceiveAck
<1>1. /\ p \in Monitors /\ inbox' = Rest(m) /\ Oldest(m, {"ack"})
      /\ inbox[m] \in Seq(Messages) /\ inbox[p] \in Seq(Messages) /\ inbox'[m] \in Seq(Messages)
  BY ReceiveAckStep DEF ReceiveAck, Others, IInv, TypeOK
<1>2. /\ Dropped(inbox[m], Msg("ack", p), inbox'[m])
      /\ \A b \in Others(m) : inbox'[b] = inbox[b]
  BY <1>0, <1>1, RestDrops
<1>3. /\ Alone(m) /\ status[m] = "PUBLISH" /\ status'[m] = "OUT"
      /\ flag[m][p] = 1 /\ flag'[m][p] = 2
      /\ \A b \in Others(m) \ {p} : flag'[m][b] = flag[m][b]
  BY <1>0, <1>1 DEF ReceiveAck, IInv, TypeOK, Alone, Others
<1>4. PICK o \in Others(m) : flag[m] = OnlyFlag(o, 1)
  BY <1>3 DEF IInv, OneCall, CallOf, Calls
<1>5. o = p
  BY <1>1, <1>3, <1>4, FlagValue DEF Others
<1>6. \A b \in Others(m) \ {p} : flag[m][b] = 0
  BY <1>1, <1>4, <1>5, FlagValue DEF Others
<1>7. /\ Rel(m, p) = "PUBLISH" /\ Rel(m, p)' = "OUT"
      /\ \A b \in Others(m) \ {p} : Rel(m, b)' = Rel(m, b)
  BY <1>3, <1>6 DEF Rel
<1>8. ASSUME Fewer(Waiting, Waiting', m, p)
      PROVE  Link(Rel(m, p)', Rel(p, m), inbox'[m], inbox[p], m, p, Waiting')
  <2>1. Link("PUBLISH", Rel(p, m), inbox[m], inbox[p], m, p, Waiting)
    BY <1>7 DEF Linked
  <2> QED
    BY <1>1, <1>2, <1>7, <1>8, <2>1, LinkAck
<1>9. status[m] # "IDLE" /\ Rel(m, p)' # "IDLE"
  BY <1>3, <1>7
<1> QED
  BY <1>2, <1>3, <1>7, <1>8, <1>9, ReadLinks

\* The call of m is answered: nobody else was called.
LEMMA AcceptLinks ==
  ASSUME IInv, Linked, Tokens, NEW m \in Monitors, ReceiveAccept(m)
  PROVE  Linked' /\ Tokens'
<1>0. PICK p \in Others(m) : p = From(m)
  BY RestDrops DEF ReceiveAccept
<1>1. /\ p \in Monitors /\ Oldest(m, {"accept"})
      /\ inbox[m] \in Seq(Messages) /\ inbox[p] \in Seq(Messages) /\ inbox'[m] \in Seq(Messages)
  BY ReceiveAcceptStep DEF ReceiveAccept, Others, IInv, TypeOK
<1>3. /\ Alone(m) /\ status[m] = "OUT" /\ status'[m] = "TALK"
      /\ flag[m][p] = 2 /\ flag'[m] = OnlyFlag(p, 3)
  BY <1>0, <1>1 DEF ReceiveAccept, IInv, TypeOK, Alone, Others
<1>4. PICK o \in Others(m) : flag[m] = OnlyFlag(o, 2)
  BY <1>3 DEF IInv, OneCall, CallOf, Calls
<1>5. o = p
  BY <1>1, <1>3, <1>4, FlagValue DEF Others
<1>6. \A b \in Others(m) \ {p} : flag[m][b] = 0 /\ flag'[m][b] = 0
  BY <1>1, <1>3, <1>4, <1>5, FlagValue DEF Others
<1>2. /\ Dropped(inbox[m], Msg("accept", p), inbox'[m])
      /\ \A b \in Others(m) : inbox'[b] = inbox[b]
  <2>1. {b \in Others(m) \ {From(m)} : flag[m][b] \in {1, 2}} = {}
    BY <1>0, <1>6
  <2>2. inbox' = Sent(Rest(m), m, "hangup", {})
    BY <2>1 DEF ReceiveAccept
  <2>3. Boxes(Rest(m)) /\ \A b \in Others(m) : Rest(m)[b] = inbox[b]
    BY <1>0, <1>1, RestDrops
  <2>4. \A b \in Monitors : inbox'[b] = Rest(m)[b]
    BY <2>2 DEF Sent
  <2> QED
    BY <1>0, <1>1, <2>3, <2>4, RestDrops DEF Others
<1>7. /\ Rel(m, p) = "OUT" /\ Rel(m, p)' = "TALK"
      /\ \A b \in Others(m) \ {p} : Rel(m, b)' = Rel(m, b)
  <2>1. flag'[m][p] = 3
    BY <1>1, <1>3, FlagValue
  <2> QED
    BY <1>3, <1>6, <2>1 DEF Rel
<1>8. ASSUME Fewer(Waiting, Waiting', m, p)
      PROVE  Link(Rel(m, p)', Rel(p, m), inbox'[m], inbox[p], m, p, Waiting')
  <2>1. Link("OUT", Rel(p, m), inbox[m], inbox[p], m, p, Waiting)
    BY <1>7 DEF Linked
  <2>2. HasBusy(inbox[p], m) => p \in Waiting
    BY <1>1 DEF Waiting, Waits, Others
  <2> QED
    BY <1>1, <1>2, <1>7, <1>8, <2>1, <2>2, LinkAccept
<1>9. status[m] # "IDLE" /\ Rel(m, p)' # "IDLE"
  BY <1>3, <1>7
<1> QED
  BY <1>2, <1>3, <1>7, <1>8, <1>9, ReadLinks

\* m takes a refusal: it is that of its own call, or comes too late.
LEMMA BusyLinks ==
  ASSUME IInv, Linked, Tokens, NEW m \in Monitors, Oldest(m, {"busy"}), inbox' = Rest(m),
         Alone(m), status'[m] = "IDLE", \A b \in Others(m) : Rel(m, b)' = "IDLE"
  PROVE  Linked' /\ Tokens'
<1>1. PICK p \in Others(m) : p = From(m)
  BY RestDrops
<1>2. /\ Dropped(inbox[m], Msg("busy", p), inbox'[m])
      /\ \A b \in Others(m) : inbox'[b] = inbox[b]
  BY <1>1, RestDrops
<1>3. p \in Monitors /\ inbox[m] \in Seq(Messages) /\ inbox[p] \in Seq(Messages)
      /\ inbox'[m] \in Seq(Messages)
  <2>1. Boxes(Rest(m))
    BY RestDrops
  <2> QED
    BY <2>1 DEF Others, IInv, TypeOK, Boxes
<1>4. HasBusy(inbox[m], p) /\ m \in Waiting /\ Token(m)
  BY <1>2, OwnDropped DEF Waiting, Waits, Tokens
<1>5. ~HasCall(inbox[p], m) /\ (status[m] = "IDLE" \/ Rel(m, p) # "IDLE")
  BY <1>4 DEF Token
<1>6. \A b \in Others(m) \ {p} : Rel(m, b) = "IDLE"
  <2>1. CASE status[m] = "IDLE"
    BY <2>1, IdleRel
  <2>2. CASE status[m] # "IDLE"
    <3>1. PICK o \in Others(m) : \E n \in 1 .. 3 : flag[m] = OnlyFlag(o, n)
      BY <2>2, CallRel
    <3>2. \A b \in Others(m) \ {o} : Rel(m, b) = "IDLE"
      BY <3>1, OnlyRel
    <3> QED
      BY <1>5, <2>2, <3>2
  <2> QED
    BY <2>1, <2>2
<1>7. ASSUME Fewer(Waiting, Waiting', m, p)
      PROVE  Link(Rel(m, p)', Rel(p, m), inbox'[m], inbox[p], m, p, Waiting')
  <2>1. Link(Rel(m, p), Rel(p, m), inbox[m], inbox[p], m, p, Waiting)
    BY DEF Linked
  <2> QED
    BY <1>2, <1>3, <1>4, <1>5, <1>7, <2>1, LinkBusy
<1> QED
  BY <1>2, <1>6, <1>7, ReadLinks

\* What a call of m with p means for its flags
LEMMA RelMeans ==
  ASSUME IInv, NEW m \in Monitors, NEW p \in Others(m)
  PROVE  /\ Rel(m, p) \in Statuses
         /\ Rel(m, p) = "PUBLISH" => status[m] = "PUBLISH" /\ flag[m][p] = 1
         /\ Rel(m, p) = "OUT" => status[m] = "OUT" /\ flag[m][p] = 2
         /\ Rel(m, p) = "IN" => status[m] = "IN" /\ master[m] = p
         /\ Rel(m, p) = "TALK" => status[m] = "TALK" /\ flag[m][p] = 3
<1>1. p \in Monitors /\ CallOf(m) /\ status[m] \in Statuses /\ master[m] \in Monitors
  BY DEF IInv, TypeOK, OneCall, Others
<1>2. \A o \in Others(m) : \A n \in 1 .. 3 :
        flag[m] = OnlyFlag(o, n) /\ flag[m][p] # 0 => o = p /\ flag[m][p] = n
  BY <1>1, FlagValue DEF Others
<1>3. CASE flag[m][p] = 0
  BY <1>3 DEF Rel, Statuses
<1>4. CASE flag[m][p] # 0
  <2>1. Rel(m, p) = status[m]
    BY <1>4 DEF Rel
  <2>2. CASE status[m] = "IN"
    BY <1>1, <1>2, <1>4, <2>1, <2>2 DEF CallOf, Calls, Others
  <2>3. CASE status[m] # "IN"
    BY <1>1, <1>2, <1>4, <2>1, <2>3 DEF CallOf, Calls
  <2> QED
    BY <2>2, <2>3
<1> QED
  BY <1>3, <1>4

LEMMA IgnoreLinks ==
  ASSUME IInv, Linked, Tokens, NEW m \in Monitors, Ignore(m)
  PROVE  Linked' /\ Tokens'
<1>1. /\ inbox' = Rest(m) /\ status' = status /\ flag' = flag /\ Alone(m)
  BY DEF Ignore, Alone
<1>2. \A b \in Others(m) : Rel(m, b)' = Rel(m, b)
  BY <1>1 DEF Rel
<1>3. ASSUME NEW k, Oldest(m, {k}), NEW p \in Others(m), p = From(m),
             \/ k = "ack" /\ Rel(m, p) # "PUBLISH"
             \/ k = "accept" /\ Rel(m, p) # "OUT"
             \/ k = "hangup" /\ Rel(m, p) \in {"IDLE", "PUBLISH"}
      PROVE  Linked' /\ Tokens'
  <2>1. /\ Dropped(inbox[m], Msg(k, p), inbox'[m]) /\ Boxes(Rest(m))
        /\ \A b \in Others(m) : inbox'[b] = inbox[b]
    BY <1>1, <1>3, RestDrops
  <2>2. p \in Monitors /\ inbox[m] \in Seq(Messages) /\ inbox[p] \in Seq(Messages)
        /\ inbox'[m] \in Seq(Messages)
    BY <1>1, <2>1 DEF Others, IInv, TypeOK, Boxes
  <2>3. ASSUME Fewer(Waiting, Waiting', m, p)
        PROVE  Link(Rel(m, p)', Rel(p, m), inbox'[m], inbox[p], m, p, Waiting')
    <3>1. Link(Rel(m, p), Rel(p, m), inbox[m], inbox[p], m, p, Waiting)
      BY DEF Linked
    <3>2. Link(Rel(m, p), Rel(p, m), inbox'[m], inbox[p], m, p, Waiting')
      BY <1>3, <2>1, <2>2, <2>3, <3>1, LinkIgnore
    <3> QED
      BY <1>2, <3>2
  <2>4. \/ status'[m] = "IDLE"
        \/ status[m] # "IDLE" /\ (Rel(m, p) # "IDLE" => Rel(m, p)' # "IDLE")
    BY <1>1, <1>2
  <2> QED
    BY <1>1, <1>2, <2>1, <2>3, <2>4, ReadLinks
<1>4. CASE Oldest(m, {"ack"}) /\ ~(status[m] = "PUBLISH" /\ flag[m][From(m)] = 1)
  <2>1. From(m) \in Others(m)
    BY <1>4, RestDrops
  <2>2. Rel(m, From(m)) # "PUBLISH"
    BY <1>4, <2>1, RelMeans
  <2> QED
    BY <1>3, <1>4, <2>1, <2>2
<1>5. CASE Oldest(m, {"accept"}) /\ ~(status[m] = "OUT" /\ flag[m][From(m)] = 2)
  <2>1. From(m) \in Others(m)
    BY <1>5, RestDrops
  <2>2. Rel(m, From(m)) # "OUT"
    BY <1>5, <2>1, RelMeans
  <2> QED
    BY <1>3, <1>5, <2>1, <2>2
<1>6. CASE Oldest(m, {"hangup"}) /\ ~EndsCall(m, From(m))
  <2>1. From(m) \in Others(m)
    BY <1>6, RestDrops
  <2>2. Rel(m, From(m)) \in {"IDLE", "PUBLISH"}
    BY <1>6, <2>1, RelMeans DEF EndsCall, Statuses
  <2> QED
    BY <1>3, <1>6, <2>1, <2>2
<1>7. CASE Oldest(m, {"busy"}) /\ layout[m] # "phone"
  <2>1. status[m] = "IDLE"
    BY <1>7 DEF IInv, OneCall, CallOf
  <2>2. \A b \in Others(m) : Rel(m, b)' = "IDLE"
    BY <1>2, <2>1, IdleRel
  <2> QED
    BY <1>1, <1>7, <2>1, <2>2, BusyLinks
<1> QED
  BY <1>4, <1>5, <1>6, <1>7 DEF Ignore

LEMMA ReceiveBusyLinks ==
  ASSUME IInv, Linked, Tokens, NEW m \in Monitors, ReceiveBusy(m)
  PROVE  Linked' /\ Tokens'
<1>1. Alone(m) /\ status'[m] = "IDLE" /\ flag'[m] = NoFlags
  BY DEF ReceiveBusy, Idle, IInv, TypeOK, Alone, Others
<1>2. \A b \in Others(m) : Rel(m, b)' = "IDLE"
  BY <1>1, FlagIdle DEF Rel, Others
<1> QED
  BY <1>1, <1>2, BusyLinks DEF ReceiveBusy

\* Whoever leaves the interphone page
LEMMA LeaveLinks ==
  ASSUME IInv, Linked, Tokens, NEW m \in Monitors,
         (\E l \in Layouts : Quit(m, l, inbox)) \/ ReceiveHangUp(m)
  PROVE  Linked' /\ Tokens'
<1>1. CASE \E l \in Layouts : Quit(m, l, inbox)
  <2>1. Boxes(inbox)
    BY DEF IInv, TypeOK, OthersWrite, Boxes
  <2> QED
    BY <1>1, <2>1, QuitLinks
<1>2. CASE ReceiveHangUp(m)
  <2>1. Oldest(m, {"hangup"}) /\ Quit(m, "home", Rest(m))
    BY <1>2 DEF ReceiveHangUp
  <2>2. /\ Boxes(Rest(m)) /\ \A p \in Others(m) : Rest(m)[p] = inbox[p]
        /\ \E f \in Others(m) : Dropped(inbox[m], Msg("hangup", f), Rest(m)[m])
    BY <2>1, RestDrops
  <2> QED
    BY <2>1, <2>2, QuitLinks
<1> QED
  BY <1>1, <1>2

\* Steps that have nothing to do with a call
LEMMA OtherLinks ==
  ASSUME Linked, Tokens, UNCHANGED <<status, flag, inbox>>
  PROVE  Linked' /\ Tokens'
<1>1. Waiting' = Waiting /\ \A a, b \in Monitors : Rel(a, b)' = Rel(a, b)
  BY DEF Waiting, Waits, Rel
<1>2. Linked'
  BY <1>1 DEF Linked, Others
<1>3. Tokens'
  BY DEF Tokens, Token, Rel
<1> QED
  BY <1>2, <1>3

-----------------------------------------------------------------------------
LEMMA InitBoth == Init => Both
<1> SUFFICES ASSUME Init
             PROVE  Linked /\ Tokens
  BY DEF Both
<1>1. \A a \in Monitors : inbox[a] = <<>> /\ status[a] = "IDLE" /\ flag[a] = NoFlags
  BY DEF Init
<1>2. \A a \in Monitors : \A x : /\ ~Has(inbox[a], x) /\ Once(inbox[a], x)
                                 /\ \A y : ~Open(inbox[a], x, y) /\ ~First(inbox[a], x, y)
                                 /\ \A y, z : ~Gap(inbox[a], x, y, z)
  BY <1>1 DEF Has, Once, Open, First, Gap
<1>3. \A a \in Monitors : \A p :
        /\ ~HasCall(inbox[a], p) /\ ~HasHangUp(inbox[a], p) /\ ~HasBusy(inbox[a], p)
        /\ ~OpenCall(inbox[a], p) /\ ~OpenAck(inbox[a], p) /\ ~OpenAccept(inbox[a], p)
        /\ ~FirstCall(inbox[a], p) /\ ~LooseCall(inbox[a], p) /\ OnceCall(inbox[a], p)
  BY <1>2 DEF HasCall, HasHangUp, HasBusy, OpenCall, OpenAck, OpenAccept, FirstCall,
     LooseCall, OnceCall
<1>4. \A a, b \in Monitors : Rel(a, b) = "IDLE"
  BY <1>1, FlagIdle DEF Rel
<1>5. Linked
  BY <1>3, <1>4 DEF Linked, Link, Side, Others
<1>6. Tokens
  BY <1>3 DEF Tokens, Token, Others
<1> QED
  BY <1>5, <1>6

LEMMA NextBoth == IInv /\ Both /\ [Next]_vars => Both'
<1> SUFFICES ASSUME IInv, Both, [Next]_vars, ~hasty', lost' = 0
             PROVE  Linked' /\ Tokens'
  BY DEF Both
<1>1. CASE UNCHANGED vars
  BY <1>1, OtherLinks DEF vars, Both
<1>2. CASE Next
  <2>1. PICK m \in Monitors :
          \/ OpenPage(m) \/ (\E p \in Monitors : PickDevice(m, p)) \/ Cancel(m) \/ GoHome(m)
          \/ Answer(m) \/ VisitDoor(m) \/ TalkAtDoor(m) \/ LeaveDoor(m)
          \/ StandbyTimeout(m) \/ SetClock(m) \/ Tick(m) \/ Receive(m) \/ Lose(m)
    BY <1>2 DEF Next
  <2>2. CASE OpenPage(m)
    <3>1. status[m] = "IDLE" /\ flag[m] = NoFlags
      BY <2>2 DEF OpenPage, IInv, OneCall, CallOf
    <3>2. UNCHANGED <<status, flag, inbox, lost, hasty>>
      BY <2>2, <3>1 DEF OpenPage, Idle, IInv, TypeOK
    <3> QED
      BY <3>2, OtherLinks DEF Both
  <2>3. CASE \E p \in Monitors : PickDevice(m, p)
    <3>1. PICK p \in Monitors : PickDevice(m, p)
      BY <2>3
    <3>2. ~hasty /\ ~Unsettled(m) /\ lost = 0
      BY <3>1 DEF PickDevice
    <3> QED
      BY <3>1, <3>2, UnsettledWaits, PickLinks DEF Both
  <2>4. CASE Cancel(m) \/ GoHome(m) \/ StandbyTimeout(m)
    <3>1. \E l \in Layouts : Quit(m, l, inbox)
      BY <2>4 DEF Cancel, GoHome, StandbyTimeout, Layouts
    <3>2. ~hasty /\ lost = 0
      BY <2>4 DEF Cancel, GoHome, StandbyTimeout, Quit
    <3> QED
      BY <3>1, <3>2, LeaveLinks DEF Both
  <2>5. CASE Answer(m)
    BY <2>5, AnswerLinks DEF Both, Answer
  <2>6. CASE VisitDoor(m) \/ TalkAtDoor(m) \/ LeaveDoor(m)
    <3>1. CASE layout[m] = "phone"
      <4>1. Quit(m, "door", inbox) /\ "door" \in Layouts /\ ~hasty
        BY <2>6, <3>1 DEF VisitDoor, TalkAtDoor, LeaveDoor, Layouts
      <4>2. lost = 0
        BY <4>1 DEF Quit
      <4> QED
        BY <4>1, <4>2, LeaveLinks DEF Both
    <3>2. CASE layout[m] # "phone"
      <4>1. UNCHANGED <<status, flag, inbox, lost, hasty>>
        BY <2>6, <3>2 DEF VisitDoor, TalkAtDoor, LeaveDoor
      <4> QED
        BY <4>1, OtherLinks DEF Both
    <3> QED
      BY <3>1, <3>2
  <2>7. CASE SetClock(m)
    BY <2>7, OtherLinks DEF SetClock, Both
  <2>8. CASE Tick(m)
    <3>1. CASE timer[m] = 0
      <4>1. Quit(m, "home", inbox) /\ "home" \in Layouts /\ ~hasty
        BY <2>8, <3>1 DEF Tick, Layouts
      <4>2. lost = 0
        BY <4>1 DEF Quit
      <4> QED
        BY <4>1, <4>2, LeaveLinks DEF Both
    <3>2. CASE timer[m] # 0
      <4>1. UNCHANGED <<status, flag, inbox, lost, hasty>>
        BY <2>8, <3>2 DEF Tick
      <4> QED
        BY <4>1, OtherLinks DEF Both
    <3> QED
      BY <3>1, <3>2
  <2>9. CASE Receive(m)
    <3>1. CASE Ring(m)
      <4>1. ~hasty /\ ~Unsettled(m) /\ lost = 0
        BY <3>1 DEF Ring
      <4> QED
        BY <3>1, <4>1, UnsettledWaits, RingLinks DEF Both
    <3>2. CASE Refuse(m)
      BY <3>2, RefuseLinks DEF Both, Refuse
    <3>3. CASE ReceiveAck(m)
      BY <3>3, AckLinks DEF Both, ReceiveAck
    <3>4. CASE ReceiveAccept(m)
      BY <3>4, AcceptLinks DEF Both, ReceiveAccept
    <3>5. CASE ReceiveHangUp(m)
      <4>1. ~hasty /\ lost = 0
        BY <3>5 DEF ReceiveHangUp, Quit
      <4> QED
        BY <3>5, <4>1, LeaveLinks DEF Both
    <3>6. CASE ReceiveBusy(m)
      BY <3>6, ReceiveBusyLinks DEF Both, ReceiveBusy
    <3>7. CASE Ignore(m)
      BY <3>7, IgnoreLinks DEF Both, Ignore
    <3> QED
      BY <2>9, <3>1, <3>2, <3>3, <3>4, <3>5, <3>6, <3>7 DEF Receive
  <2>10. CASE Lose(m)
    <3>1. lost \in Nat /\ lost' = lost + 1
      BY <2>10, BoundsAssumption DEF Lose, IInv, TypeOK
    <3> QED
      BY <3>1
  <2> QED
    BY <2>1, <2>2, <2>3, <2>4, <2>5, <2>6, <2>7, <2>8, <2>9, <2>10
<1> QED
  BY <1>1, <1>2

\* Nothing on the way: what a call says of one side, it says of the other.
LEMMA SettledSame ==
  ASSUME IInv, Linked, Settled, NEW m \in Monitors
  PROVE  SameCall(m)
<1>1. \A a \in Monitors : \A x : ~Has(inbox[a], x) /\ \A y : ~Then(inbox[a], x, y)
  BY DEF Settled, Has, Then
<1>2. \A a \in Monitors : \A p :
        /\ ~HasCall(inbox[a], p) /\ ~HasAck(inbox[a], p) /\ ~HasAccept(inbox[a], p)
        /\ ~HasHangUp(inbox[a], p) /\ ~HasBusy(inbox[a], p) /\ ~AckAccept(inbox[a], p)
  BY <1>1 DEF HasCall, HasAck, HasAccept, HasHangUp, HasBusy, AckAccept
<1>3. ASSUME NEW a \in Monitors, NEW b \in Others(a)
      PROVE  /\ Rel(a, b) # "PUBLISH"
             /\ Rel(a, b) = "OUT" => Rel(b, a) = "IN"
             /\ Rel(a, b) = "IN" => Rel(b, a) = "OUT"
             /\ Rel(a, b) = "TALK" => Rel(b, a) = "TALK"
  <2>1. b \in Monitors /\ a \in Others(b)
    BY DEF Others
  <2>2. Side(Rel(a, b), Rel(b, a), inbox[a], inbox[b], a, b, Waiting)
        /\ Side(Rel(b, a), Rel(a, b), inbox[b], inbox[a], b, a, Waiting)
    BY DEF Linked, Link
  <2> QED
    BY <1>2, <2>1, <2>2 DEF Side
<1>4. CASE status[m] = "IDLE"
  BY <1>4 DEF SameCall
<1>5. CASE status[m] # "IDLE"
  <2>1. PICK p \in Others(m) : \E n \in 1 .. 3 : flag[m] = OnlyFlag(p, n)
    BY <1>5, CallRel
  <2>2. Rel(m, p) = status[m] /\ p \in Monitors /\ m \in Others(p)
    BY <2>1, OnlyRel DEF Others
  <2>3. /\ Rel(m, p) = "OUT" => flag[m][p] = 2 /\ status[p] = "IN" /\ master[p] = m
        /\ Rel(m, p) = "IN" => master[m] = p /\ status[p] = "OUT" /\ flag[p][m] = 2
        /\ Rel(m, p) = "TALK" => flag[m][p] = 3 /\ status[p] = "TALK" /\ flag[p][m] = 3
        /\ Rel(m, p) # "PUBLISH"
    BY <1>3, <2>2, RelMeans
  <2> QED
    BY <2>2, <2>3 DEF SameCall
<1> QED
  BY <1>4, <1>5

\* When everything on the way has been handled and nothing was lost, both sides
\* of every call see the same call, for any number of monitors.
THEOREM BothAgree == Spec => []Agreed
<1>1. Init => IInv /\ Both
  BY InitInvariant, InitBoth
<1>2. (IInv /\ Both) /\ [Next]_vars => (IInv /\ Both)'
  BY Inductive, NextBoth
<1>3. IInv /\ Both => Agreed
  BY SettledSame DEF Both, Agreed, Settled
<1> QED
  BY <1>1, <1>2, <1>3, PTL DEF Spec
=============================================================================
