--------------------------- MODULE ClockSyncProofs ---------------------------
(***************************************************************************)
(* For any number of monitors, datagrams of a round, seconds and losses:   *)
(* every variable keeps its type, the screen saver leaves a door only      *)
(* after the clock was set there, and - while nothing is lost and no two   *)
(* rounds overlap - a clock is set to one time.                            *)
(***************************************************************************)
EXTENDS ClockSync, FiniteSetTheorems, TLAPS

-----------------------------------------------------------------------------
(* Types.                                                                  *)

LEMMA BeginSyncType ==
  ASSUME TypeOK, NEW m \in Monitors, NEW p \in Layouts, BeginSync(m, p)
  PROVE  /\ rounds' \in Numbers /\ overlap' \in BOOLEAN
         /\ sending' \in [Monitors -> [round : Numbers, next : 0 .. Parts, page : Layouts]]
         /\ sending'[m] = [round |-> rounds + 1, next |-> 0, page |-> p]
         /\ \A n \in Monitors : n # m => sending'[n] = sending[n]
<1>1. rounds + 1 \in Numbers /\ 0 \in 0 .. Parts
  BY BoundsAssumption, SizesAssumption DEF BeginSync, TypeOK, Numbers
<1> DEFINE s == [round |-> rounds + 1, next |-> 0, page |-> p]
<1>2. s \in [round : Numbers, next : 0 .. Parts, page : Layouts]
  BY <1>1
<1>3. sending' = [sending EXCEPT ![m] = s] /\ rounds' = rounds + 1
  BY DEF BeginSync
<1>4. overlap' \in BOOLEAN
  BY DEF BeginSync, TypeOK
<1> HIDE DEF s
<1>5. /\ sending' \in [Monitors -> [round : Numbers, next : 0 .. Parts, page : Layouts]]
      /\ sending'[m] = s
      /\ \A n \in Monitors : n # m => sending'[n] = sending[n]
  BY <1>2, <1>3 DEF TypeOK
<1>6. sending'[m] = [round |-> rounds + 1, next |-> 0, page |-> p]
  BY <1>5 DEF s
<1>7. rounds' \in Numbers
  BY <1>1, <1>3
<1> QED
  BY <1>4, <1>5, <1>6, <1>7, Zenon

LEMMA TimerSetType ==
  ASSUME TypeOK, NEW m \in Monitors, Opened(m) \/ Closed(m) \/ UNCHANGED <<open, idle>>
  PROVE  open' \in [Monitors -> BOOLEAN] /\ idle' \in [Monitors -> 0 .. Timeout]
<1>1. 0 \in 0 .. Timeout
  BY SizesAssumption
<1>2. CASE Opened(m)
  BY <1>1, <1>2 DEF Opened, TypeOK
<1>3. CASE Closed(m)
  BY <1>3 DEF Closed, TypeOK
<1>4. CASE UNCHANGED <<open, idle>>
  BY <1>4 DEF TypeOK
<1> QED
  BY <1>2, <1>3, <1>4

LEMMA EnteredType ==
  ASSUME TypeOK, NEW m \in Monitors, NEW p \in Layouts, Entered(m, p)
  PROVE  /\ layout' \in [Monitors -> Layouts] /\ open' \in [Monitors -> BOOLEAN]
         /\ idle' \in [Monitors -> 0 .. Timeout] /\ clocked' \in [Monitors -> BOOLEAN]
<1>1. layout' = [layout EXCEPT ![m] = p] /\ clocked' = [clocked EXCEPT ![m] = FALSE]
  BY DEF Entered
<1>2. Opened(m) \/ Closed(m) \/ UNCHANGED <<open, idle>>
  BY DEF Entered
<1>3. open' \in [Monitors -> BOOLEAN] /\ idle' \in [Monitors -> 0 .. Timeout]
  BY <1>2, TimerSetType
<1>4. layout' \in [Monitors -> Layouts] /\ clocked' \in [Monitors -> BOOLEAN]
  BY <1>1 DEF TypeOK
<1> QED
  BY <1>3, <1>4

LEMMA GotoType ==
  ASSUME TypeOK, NEW m \in Monitors, NEW p \in Layouts, Goto(m, p)
  PROVE  TypeOK'
<1>1. UNCHANGED <<part, count, date, lost>>
  BY DEF Goto, receiver
<1>2. CASE layout[m] = "standby" /\ m = First
  <2>1. BeginSync(m, p) /\ Opened(m) /\ UNCHANGED <<layout, clocked>>
    BY <1>2 DEF Goto
  <2>2. open' \in [Monitors -> BOOLEAN] /\ idle' \in [Monitors -> 0 .. Timeout]
    BY <2>1, SizesAssumption DEF Opened, TypeOK
  <2> QED
    BY <1>1, <2>1, <2>2, BeginSyncType DEF TypeOK
<1>3. CASE ~(layout[m] = "standby" /\ m = First)
  <2>1. Entered(m, p) /\ UNCHANGED <<sending, rounds, overlap>>
    BY <1>3 DEF Goto
  <2> QED
    BY <1>1, <2>1, EnteredType DEF TypeOK
<1> QED
  BY <1>2, <1>3

LEMMA SaveTimeType ==
  ASSUME TypeOK, NEW m \in Monitors, SaveTime(m)
  PROVE  TypeOK'
<1>1. BeginSync(m, "home") /\ Closed(m) /\ "home" \in Layouts
      /\ UNCHANGED <<layout, part, count, date, lost, clocked>>
  BY DEF SaveTime, receiver, Layouts
<1>2. open' \in [Monitors -> BOOLEAN] /\ idle' \in [Monitors -> 0 .. Timeout]
  BY <1>1 DEF Closed, TypeOK
<1> QED
  BY <1>1, <1>2, BeginSyncType DEF TypeOK

LEMMA TimerType ==
  ASSUME TypeOK, NEW m \in Monitors, Touch(m) \/ Tick(m)
  PROVE  TypeOK'
<1>1. UNCHANGED <<layout, open, sending, part, count, date, rounds, lost, overlap, clocked>>
  BY DEF Touch, Tick, receiver
<1>2. idle' \in [Monitors -> 0 .. Timeout]
  <2>1. CASE Touch(m)
    BY <2>1, SizesAssumption DEF Touch, TypeOK
  <2>2. CASE Tick(m)
    <3>1. idle[m] + 1 \in 0 .. Timeout /\ idle' = [idle EXCEPT ![m] = idle[m] + 1]
      BY <2>2, SizesAssumption DEF Tick, TypeOK
    <3> QED
      BY <3>1 DEF TypeOK
  <2> QED
    BY <2>1, <2>2
<1> QED
  BY <1>1, <1>2 DEF TypeOK

LEMMA ReceiveType ==
  ASSUME TypeOK, NEW i \in Indexes, NEW s \in Numbers, NEW to \in SUBSET Monitors,
         Receive(i, s, to)
  PROVE  /\ part' \in [Monitors -> [Indexes -> Numbers]]
         /\ count' \in [Monitors -> Indexes]
         /\ date' \in [Monitors -> SUBSET Numbers]
         /\ open' \in [Monitors -> BOOLEAN] /\ idle' \in [Monitors -> 0 .. Timeout]
         /\ clocked' \in [Monitors -> BOOLEAN]
<1> DEFINE part2 == [r \in Monitors |-> IF r \in to THEN [part[r] EXCEPT ![i] = s] ELSE part[r]]
           set == {r \in to : SetAt(r)}
<1>1. part' = part2 /\ part2 \in [Monitors -> [Indexes -> Numbers]]
  BY DEF Receive, TypeOK
<1>2. count' \in [Monitors -> Indexes]
  <2>1. count' = [r \in Monitors |-> IF r \in set THEN 0
                                     ELSE IF r \in to THEN count[r] + 1 ELSE count[r]]
    BY DEF Receive
  <2>2. 0 \in Indexes
    BY SizesAssumption DEF Indexes
  <2>3. \A r \in to : r \notin set => count[r] + 1 \in Indexes
    BY SizesAssumption DEF SetAt, Indexes, TypeOK
  <2> HIDE DEF set
  <2> QED
    BY <2>1, <2>2, <2>3 DEF TypeOK
<1>3. date' \in [Monitors -> SUBSET Numbers]
  <2>1. date' = [r \in Monitors |-> IF r \in set THEN {part2[r][j] : j \in Indexes} ELSE date[r]]
    BY DEF Receive
  <2>2. \A r \in Monitors : {part2[r][j] : j \in Indexes} \subseteq Numbers
    BY <1>1
  <2> HIDE DEF set, part2
  <2> QED
    BY <2>1, <2>2 DEF TypeOK
<1>4. open' \in [Monitors -> BOOLEAN] /\ clocked' \in [Monitors -> BOOLEAN]
  BY DEF Receive, TypeOK
<1>5. idle' \in [Monitors -> 0 .. Timeout]
  BY SizesAssumption DEF Receive, TypeOK
<1> QED
  BY <1>1, <1>2, <1>3, <1>4, <1>5

LEMMA SendType ==
  ASSUME TypeOK, NEW m \in Monitors, Send(m)
  PROVE  TypeOK'
<1>1. sending[m].next \in Indexes /\ sending[m].round \in Numbers
      /\ sending[m].next + 1 \in 0 .. Parts
  BY SizesAssumption DEF Send, Indexes, TypeOK
<1>2. PICK to \in SUBSET Others(m) :
        /\ lost + Cardinality(Others(m) \ to) <= MaxLost
        /\ lost' = lost + Cardinality(Others(m) \ to)
        /\ Receive(sending[m].next, sending[m].round, to)
  BY DEF Send
<1>3. Cardinality(Others(m) \ to) \in Nat
  BY FirstAssumption, FS_Subset, FS_CardinalityType DEF Others
<1>4. lost' \in 0 .. MaxLost
  BY <1>2, <1>3, BoundsAssumption DEF TypeOK
<1>5. sending' \in [Monitors -> [round : Numbers, next : 0 .. Parts, page : Layouts]]
  BY <1>1 DEF Send, TypeOK
<1>6. UNCHANGED <<layout, rounds, overlap>> /\ to \in SUBSET Monitors
  BY DEF Send, Others
<1> QED
  BY <1>1, <1>2, <1>4, <1>5, <1>6, ReceiveType DEF TypeOK

LEMMA SentType ==
  ASSUME TypeOK, NEW m \in Monitors, Sent(m)
  PROVE  TypeOK'
<1>1. NotSending \in [round : Numbers, next : 0 .. Parts, page : Layouts]
  BY SizesAssumption, BoundsAssumption DEF NotSending, Numbers, Layouts
<1>2. sending' \in [Monitors -> [round : Numbers, next : 0 .. Parts, page : Layouts]]
  BY <1>1 DEF Sent, TypeOK
<1>3. sending[m].page \in Layouts
  BY DEF TypeOK
<1>4. /\ layout' \in [Monitors -> Layouts] /\ clocked' \in [Monitors -> BOOLEAN]
      /\ open' \in [Monitors -> BOOLEAN] /\ idle' \in [Monitors -> 0 .. Timeout]
  <2>1. layout' = [layout EXCEPT ![m] = sending[m].page]
        /\ clocked' = [clocked EXCEPT ![m] = FALSE]
    BY DEF Sent
  <2>2. \/ Opened(m)
        \/ UNCHANGED <<open, idle>>
        \/ Closed(m)
    BY DEF Sent
  <2>3. open' \in [Monitors -> BOOLEAN] /\ idle' \in [Monitors -> 0 .. Timeout]
    BY <2>2, TimerSetType
  <2> QED
    BY <1>3, <2>1, <2>3 DEF TypeOK
<1>5. UNCHANGED <<part, count, date, rounds, lost, overlap>>
  BY DEF Sent, receiver
<1> QED
  BY <1>2, <1>4, <1>5 DEF TypeOK

LEMMA NextType ==
  ASSUME TypeOK, Next
  PROVE  TypeOK'
<1>1. {"home", "door", "standby"} \subseteq Layouts
  BY DEF Layouts
<1>2. PICK m \in Monitors :
        \/ Wake(m) \/ ShowDoor(m) \/ LeaveDoor(m) \/ SaveTime(m) \/ Touch(m)
        \/ Tick(m) \/ StandbyTimeout(m) \/ Send(m) \/ Sent(m)
  BY DEF Next
<1>3. CASE Wake(m) \/ ShowDoor(m) \/ LeaveDoor(m) \/ StandbyTimeout(m)
  BY <1>1, <1>3, GotoType DEF Wake, ShowDoor, LeaveDoor, StandbyTimeout
<1>4. CASE ~(Wake(m) \/ ShowDoor(m) \/ LeaveDoor(m) \/ StandbyTimeout(m))
  BY <1>2, <1>4, SaveTimeType, TimerType, SendType, SentType
<1> QED
  BY <1>3, <1>4

-----------------------------------------------------------------------------
(* The screen saver and the door.  A monitor that sends is not at a door,  *)
(* and at a door the timer is open only if the clock has opened it.        *)

SendsAway == \A m \in Monitors : Sending(m) =>
  layout[m] # "door" /\ (layout[m] = "home" => sending[m].page = "home")
DoorCloses == \A m \in Monitors : layout[m] = "door" /\ open[m] => clocked[m]
DoorInv == SendsAway /\ DoorCloses

LEMMA GotoKeepsDoor ==
  ASSUME TypeOK, DoorInv, NEW m \in Monitors, NEW p \in Layouts, Goto(m, p)
  PROVE  DoorInv'
<1>1. CASE layout[m] = "standby" /\ m = First
  <2>1. BeginSync(m, p) /\ Opened(m) /\ UNCHANGED <<layout, clocked>>
    BY <1>1 DEF Goto
  <2>2. \A n \in Monitors : n # m => sending'[n] = sending[n]
    BY <2>1, BeginSyncType
  <2>3. SendsAway'
    BY <1>1, <2>1, <2>2 DEF DoorInv, SendsAway, Sending
  <2>4. DoorCloses'
    BY <1>1, <2>1 DEF DoorInv, DoorCloses, Opened, TypeOK
  <2> QED
    BY <2>3, <2>4 DEF DoorInv
<1>2. CASE ~(layout[m] = "standby" /\ m = First)
  <2>1. Entered(m, p) /\ sending' = sending /\ ~Sending(m)
    BY <1>2 DEF Goto
  <2>2. layout' = [layout EXCEPT ![m] = p] /\ clocked' = [clocked EXCEPT ![m] = FALSE]
    BY <2>1 DEF Entered
  <2>3. SendsAway'
    BY <2>1, <2>2 DEF DoorInv, SendsAway, Sending, TypeOK
  <2>4. \A n \in Monitors : n # m => open'[n] = open[n]
    BY <2>1 DEF Entered, Opened, Closed, TypeOK
  <2>5. p = "door" => ~open'[m]
    BY <2>1 DEF Entered, Closed, TypeOK
  <2>6. DoorCloses'
    BY <2>2, <2>4, <2>5 DEF DoorInv, DoorCloses, TypeOK
  <2> QED
    BY <2>3, <2>6 DEF DoorInv
<1> QED
  BY <1>1, <1>2

LEMMA SaveTimeKeepsDoor ==
  ASSUME TypeOK, DoorInv, NEW m \in Monitors, SaveTime(m) \/ Touch(m) \/ Tick(m)
  PROVE  DoorInv'
<1>1. CASE SaveTime(m)
  <2>1. BeginSync(m, "home") /\ Closed(m) /\ UNCHANGED <<layout, clocked>>
        /\ layout[m] = "home" /\ "home" \in Layouts
    BY <1>1 DEF SaveTime, Layouts
  <2>2. /\ sending'[m] = [round |-> rounds + 1, next |-> 0, page |-> "home"]
        /\ \A n \in Monitors : n # m => sending'[n] = sending[n]
    BY <2>1, BeginSyncType, Zenon
  <2>3. SendsAway'
    BY <2>1, <2>2 DEF DoorInv, SendsAway, Sending
  <2>4. DoorCloses'
    BY <2>1 DEF DoorInv, DoorCloses, Closed, TypeOK
  <2> QED
    BY <2>3, <2>4 DEF DoorInv
<1>2. CASE Touch(m) \/ Tick(m)
  <2>1. UNCHANGED <<layout, open, sending, clocked>>
    BY <1>2 DEF Touch, Tick
  <2> QED
    BY <2>1 DEF DoorInv, SendsAway, DoorCloses, Sending
<1> QED
  BY <1>1, <1>2

LEMMA SendKeepsDoor ==
  ASSUME TypeOK, DoorInv, NEW m \in Monitors, Send(m)
  PROVE  DoorInv'
<1>1. PICK to \in SUBSET Others(m) : Receive(sending[m].next, sending[m].round, to)
  BY DEF Send
<1>2. layout' = layout /\ Sending(m) /\ sending' = [sending EXCEPT ![m].next = @ + 1]
  BY DEF Send
<1>3. \A n \in Monitors : n # m => sending'[n] = sending[n]
  BY <1>2 DEF TypeOK
<1>4. sending'[m].page = sending[m].page
  BY <1>2 DEF TypeOK
<1>5. SendsAway'
  BY <1>2, <1>3, <1>4 DEF DoorInv, SendsAway, Sending
<1>6. \A n \in Monitors : (open'[n] => open[n] \/ clocked'[n]) /\ (clocked[n] => clocked'[n])
  BY <1>1 DEF Receive
<1>7. DoorCloses'
  BY <1>2, <1>6 DEF DoorInv, DoorCloses
<1> QED
  BY <1>5, <1>7 DEF DoorInv

LEMMA SentKeepsDoor ==
  ASSUME TypeOK, DoorInv, NEW m \in Monitors, Sent(m)
  PROVE  DoorInv'
<1>1. /\ sending' = [sending EXCEPT ![m] = NotSending]
      /\ layout' = [layout EXCEPT ![m] = sending[m].page]
      /\ clocked' = [clocked EXCEPT ![m] = FALSE]
      /\ Sending(m)
  BY DEF Sent
<1>2. SendsAway'
  BY <1>1 DEF DoorInv, SendsAway, Sending, TypeOK
<1>3. \A n \in Monitors : n # m => open'[n] = open[n]
  BY DEF Sent, Opened, Closed, TypeOK
<1>4. sending[m].page = "door" => ~open'[m]
  BY <1>1 DEF DoorInv, SendsAway, Sent, Closed, TypeOK
<1>5. DoorCloses'
  BY <1>1, <1>3, <1>4 DEF DoorInv, DoorCloses, TypeOK
<1> QED
  BY <1>2, <1>5 DEF DoorInv

LEMMA NextKeepsDoor ==
  ASSUME TypeOK, DoorInv, Next
  PROVE  DoorInv'
<1>1. {"home", "door", "standby"} \subseteq Layouts
  BY DEF Layouts
<1>2. PICK m \in Monitors :
        \/ Wake(m) \/ ShowDoor(m) \/ LeaveDoor(m) \/ SaveTime(m) \/ Touch(m)
        \/ Tick(m) \/ StandbyTimeout(m) \/ Send(m) \/ Sent(m)
  BY DEF Next
<1>3. CASE Wake(m) \/ ShowDoor(m) \/ LeaveDoor(m) \/ StandbyTimeout(m)
  BY <1>1, <1>3, GotoKeepsDoor DEF Wake, ShowDoor, LeaveDoor, StandbyTimeout
<1>4. CASE ~(Wake(m) \/ ShowDoor(m) \/ LeaveDoor(m) \/ StandbyTimeout(m))
  BY <1>2, <1>4, SaveTimeKeepsDoor, SendKeepsDoor, SentKeepsDoor
<1> QED
  BY <1>3, <1>4

\* One step from a door to the screen saver
LEMMA DoorStep ==
  ASSUME TypeOK, DoorInv, Next, NEW n \in Monitors,
         layout[n] = "door", layout'[n] = "standby"
  PROVE  clocked[n]
<1>1. PICK m \in Monitors :
        \/ Wake(m) \/ ShowDoor(m) \/ LeaveDoor(m) \/ SaveTime(m) \/ Touch(m)
        \/ Tick(m) \/ StandbyTimeout(m) \/ Send(m) \/ Sent(m)
  BY DEF Next
<1>2. m = n
  BY <1>1 DEF Wake, ShowDoor, LeaveDoor, StandbyTimeout, Goto, Entered, SaveTime, Touch, Tick,
     Send, Sent, TypeOK
<1>3. CASE StandbyTimeout(m)
  BY <1>2, <1>3 DEF StandbyTimeout, DoorInv, DoorCloses
<1>4. CASE LeaveDoor(m)
  <2>1. layout'[m] = "home"
    BY <1>2, <1>4 DEF LeaveDoor, Goto, Entered, TypeOK
  <2> QED
    BY <1>2, <2>1
<1>5. CASE Sent(m)
  BY <1>2, <1>5 DEF Sent, DoorInv, SendsAway
<1>6. CASE SaveTime(m) \/ Touch(m) \/ Tick(m) \/ Send(m)
  BY <1>2, <1>6 DEF SaveTime, Touch, Tick, Send
<1>7. CASE Wake(m) \/ ShowDoor(m)
  BY <1>2, <1>7 DEF Wake, ShowDoor
<1> QED
  BY <1>1, <1>3, <1>4, <1>5, <1>6, <1>7

-----------------------------------------------------------------------------
(* One time.  Without loss and overlap all receivers are in step with the  *)
(* one sender.                                                             *)

OneSender == \A m, n \in Monitors : Sending(m) /\ Sending(n) => m = n
InStep == \A m \in Monitors : Sending(m) =>
  /\ count[m] = 0
  /\ \A r \in Others(m) :
       /\ count[r] = IF sending[m].next < Parts THEN sending[m].next ELSE 0
       /\ \A i \in Indexes : i < sending[m].next => part[r][i] = sending[m].round
AtRest == (\A m \in Monitors : ~Sending(m)) => \A r \in Monitors : count[r] = 0
Single == \A r \in Monitors : \A x, y \in date[r] : x = y
Steady == OneSender /\ InStep /\ AtRest /\ Single
TimeInv == lost = 0 /\ ~overlap => Steady

LEMMA BeginSyncKeepsTime ==
  ASSUME TypeOK, Steady, NEW m \in Monitors, NEW p \in Layouts, BeginSync(m, p), ~overlap',
         UNCHANGED receiver
  PROVE  Steady'
<1>1. \A n \in Monitors : ~Sending(n)
  BY DEF BeginSync
<1>2. \A r \in Monitors : count[r] = 0
  BY <1>1 DEF Steady, AtRest
<1>3. /\ sending'[m] = [round |-> rounds + 1, next |-> 0, page |-> p]
      /\ \A n \in Monitors : n # m => sending'[n] = sending[n]
  BY BeginSyncType
<1>4. sending'[m].next = 0
  BY <1>3
<1>5. Sending(m)'
  <2>1. sending'[m].round # NotSending.round
    BY <1>3, BoundsAssumption DEF TypeOK, Numbers, NotSending
  <2> QED
    BY <2>1 DEF Sending
<1>6. \A n \in Monitors : n # m => ~Sending(n)'
  BY <1>1, <1>3 DEF Sending
<1>7. count' = count /\ date' = date
  BY DEF receiver
<1>8. InStep'
  BY <1>2, <1>4, <1>6, <1>7, SizesAssumption DEF InStep, Others, Indexes
<1> QED
  BY <1>5, <1>6, <1>7, <1>8 DEF Steady, OneSender, AtRest, Single

\* Steps that neither begin nor end a round nor receive
LEMMA OtherKeepsTime ==
  ASSUME Steady, UNCHANGED <<sending, part, count, date>>
  PROVE  Steady'
BY DEF Steady, OneSender, InStep, AtRest, Single, Sending

LEMMA SendKeepsTime ==
  ASSUME TypeOK, Steady, NEW m \in Monitors, Send(m), lost = 0, lost' = 0
  PROVE  Steady'
<1> DEFINE k == sending[m].next
           s == sending[m].round
<1>1. PICK to \in SUBSET Others(m) :
        lost' = lost + Cardinality(Others(m) \ to) /\ Receive(k, s, to)
  BY DEF Send
<1>2. to = Others(m)
  <2>1. IsFiniteSet(Others(m) \ to)
    BY FirstAssumption, FS_Subset DEF Others
  <2>2. Cardinality(Others(m) \ to) = 0
    BY <1>1, <2>1, FS_CardinalityType
  <2>3. Others(m) \ to = {}
    BY <2>1, <2>2, FS_EmptySet
  <2> QED
    BY <2>3
<1>3. k \in Indexes /\ k \in Nat /\ Parts \in Nat /\ k < Parts /\ Sending(m)
  BY SizesAssumption DEF Send, Indexes, TypeOK
<1>4. /\ sending'[m].next = k + 1 /\ sending'[m].round = s
      /\ \A n \in Monitors : n # m => sending'[n] = sending[n] /\ ~Sending(n)
  BY DEF Send, TypeOK, Steady, OneSender
<1>5. Sending(m)'
  <2>1. sending' = [sending EXCEPT ![m].next = k + 1]
    BY DEF Send
  <2>2. sending'[m].next # NotSending.next
    BY <1>3, <1>4 DEF NotSending
  <2> QED
    BY <2>2 DEF Sending
<1>6. \A n \in Monitors : n # m => ~Sending(n)'
  BY <1>4 DEF Sending
<1>7. \A r \in Others(m) : count[r] = k /\ \A i \in Indexes : i < k => part[r][i] = s
  BY <1>3 DEF Steady, InStep
<1> HIDE DEF k, s
<1>8. /\ count'[m] = count[m] /\ date'[m] = date[m]
      /\ \A r \in Others(m) :
           /\ part'[r] = [part[r] EXCEPT ![k] = s]
           /\ count'[r] = IF count[r] + 1 = Parts THEN 0 ELSE count[r] + 1
           /\ date'[r] = IF count[r] + 1 = Parts THEN {part'[r][j] : j \in Indexes} ELSE date[r]
  <2>1. count'[m] = count[m] /\ date'[m] = date[m]
    BY <1>1, <1>2 DEF Receive, Others
  <2>2. ASSUME NEW r \in Others(m)
        PROVE  /\ part'[r] = [part[r] EXCEPT ![k] = s]
               /\ count'[r] = IF count[r] + 1 = Parts THEN 0 ELSE count[r] + 1
               /\ date'[r] = IF count[r] + 1 = Parts THEN {part'[r][j] : j \in Indexes} ELSE date[r]
    <3>1. r \in Monitors /\ r \in to
      BY <1>2 DEF Others
    <3> QED
      BY <1>1, <3>1 DEF Receive, SetAt
  <2> QED
    BY <2>1, <2>2
<1>9. \A r \in Others(m) : \A i \in Indexes : i < k + 1 => part'[r][i] = s
  <2> SUFFICES ASSUME NEW r \in Others(m), NEW i \in Indexes, i < k + 1
               PROVE  part'[r][i] = s
    OBVIOUS
  <2>1. part[r] \in [Indexes -> Numbers]
    BY DEF Others, TypeOK
  <2>2. i = k \/ i < k
    BY <1>3 DEF Indexes
  <2> QED
    BY <1>3, <1>7, <1>8, <2>1, <2>2
<1>10. InStep'
  <2>1. count'[m] = 0
    BY <1>3, <1>8 DEF Steady, InStep
  <2>2. \A r \in Others(m) : count'[r] = IF k + 1 < Parts THEN k + 1 ELSE 0
    <3> SUFFICES ASSUME NEW r \in Others(m)
                 PROVE  count'[r] = IF k + 1 < Parts THEN k + 1 ELSE 0
      OBVIOUS
    <3>1. count[r] = k
      BY <1>7
    <3>2. count'[r] = IF count[r] + 1 = Parts THEN 0 ELSE count[r] + 1
      BY <1>8
    <3> QED
      BY <1>3, <3>1, <3>2
  <2> QED
    BY <1>4, <1>6, <1>9, <2>1, <2>2 DEF InStep, Others
<1>11. Single'
  <2> SUFFICES ASSUME NEW r \in Monitors, NEW x \in date'[r], NEW y \in date'[r]
               PROVE  x = y
    BY DEF Single
  <2>1. CASE r = m \/ count[r] + 1 # Parts
    <3>1. date'[r] = date[r]
      BY <1>8, <2>1 DEF Others
    <3> QED
      BY <3>1 DEF Steady, Single
  <2>2. CASE r # m /\ count[r] + 1 = Parts
    <3>1. r \in Others(m) /\ k + 1 = Parts
      BY <1>7, <2>2 DEF Others
    <3>2. \A i \in Indexes : part'[r][i] = s
      BY <1>3, <1>9, <3>1 DEF Indexes
    <3>3. date'[r] = {part'[r][j] : j \in Indexes}
      BY <1>8, <2>2, <3>1
    <3> QED
      BY <3>2, <3>3
  <2> QED
    BY <2>1, <2>2
<1> QED
  BY <1>5, <1>6, <1>10, <1>11 DEF Steady, OneSender, AtRest

LEMMA SentKeepsTime ==
  ASSUME TypeOK, Steady, NEW m \in Monitors, Sent(m)
  PROVE  Steady'
<1>1. /\ sending' = [sending EXCEPT ![m] = NotSending] /\ UNCHANGED <<part, count, date>>
      /\ Sending(m) /\ sending[m].next = Parts
  BY DEF Sent, receiver
<1>2. \A n \in Monitors : ~Sending(n)'
  BY <1>1 DEF Steady, OneSender, Sending, TypeOK
<1>3. \A r \in Monitors : count[r] = 0
  BY <1>1, SizesAssumption DEF Steady, InStep, Others
<1> QED
  BY <1>1, <1>2, <1>3 DEF Steady, OneSender, InStep, AtRest, Single

LEMMA GotoKeepsTime ==
  ASSUME TypeOK, Steady, NEW m \in Monitors, NEW p \in Layouts, Goto(m, p), ~overlap'
  PROVE  Steady'
<1>1. CASE layout[m] = "standby" /\ m = First
  BY <1>1, BeginSyncKeepsTime DEF Goto
<1>2. CASE ~(layout[m] = "standby" /\ m = First)
  BY <1>2, OtherKeepsTime DEF Goto, receiver
<1> QED
  BY <1>1, <1>2

\* Losses are counted up, and an overlap is remembered.
LEMMA HistoryGrows ==
  ASSUME TypeOK, Next
  PROVE  (lost' = 0 => lost = 0) /\ (~overlap' => ~overlap)
<1>1. PICK m \in Monitors :
        \/ Wake(m) \/ ShowDoor(m) \/ LeaveDoor(m) \/ SaveTime(m) \/ Touch(m)
        \/ Tick(m) \/ StandbyTimeout(m) \/ Send(m) \/ Sent(m)
  BY DEF Next
<1>2. CASE Send(m)
  <2>1. PICK to \in SUBSET Others(m) : lost' = lost + Cardinality(Others(m) \ to)
    BY <1>2 DEF Send
  <2>2. Cardinality(Others(m) \ to) \in Nat
    <3>1. IsFiniteSet(Others(m) \ to)
      BY FirstAssumption, FS_Subset DEF Others
    <3> QED
      BY <3>1, FS_CardinalityType
  <2>3. lost \in Nat
    BY BoundsAssumption DEF TypeOK
  <2>4. lost' = 0 => lost = 0
    BY <2>1, <2>2, <2>3
  <2>5. overlap' = overlap
    BY <1>2 DEF Send
  <2> QED
    BY <2>4, <2>5
<1>3. CASE Wake(m) \/ ShowDoor(m) \/ LeaveDoor(m) \/ StandbyTimeout(m)
  <2>1. PICK p : Goto(m, p)
    BY <1>3 DEF Wake, ShowDoor, LeaveDoor, StandbyTimeout
  <2>2. lost' = lost
    BY <2>1 DEF Goto
  <2>3. BeginSync(m, p) \/ overlap' = overlap
    BY <2>1 DEF Goto
  <2>4. ~overlap' => ~overlap
    BY <2>3, Zenon DEF BeginSync
  <2> QED
    BY <2>2, <2>4
<1>4. CASE SaveTime(m)
  <2>1. lost' = lost /\ BeginSync(m, "home")
    BY <1>4 DEF SaveTime
  <2>2. ~overlap' => ~overlap
    BY <2>1, Zenon DEF BeginSync
  <2> QED
    BY <2>1, <2>2
<1>5. CASE Touch(m) \/ Tick(m) \/ Sent(m)
  BY <1>5 DEF Touch, Tick, Sent
<1> QED
  BY <1>1, <1>2, <1>3, <1>4, <1>5

LEMMA NextKeepsTime ==
  ASSUME TypeOK, TimeInv, Next
  PROVE  TimeInv'
<1> SUFFICES ASSUME lost' = 0, ~overlap'
             PROVE  Steady'
  BY DEF TimeInv
<1>1. Steady /\ lost = 0
  BY HistoryGrows DEF TimeInv
<1>2. {"home", "door", "standby"} \subseteq Layouts
  BY DEF Layouts
<1>3. PICK m \in Monitors :
        \/ Wake(m) \/ ShowDoor(m) \/ LeaveDoor(m) \/ SaveTime(m) \/ Touch(m)
        \/ Tick(m) \/ StandbyTimeout(m) \/ Send(m) \/ Sent(m)
  BY DEF Next
<1>4. CASE Wake(m) \/ ShowDoor(m) \/ LeaveDoor(m) \/ StandbyTimeout(m)
  <2>1. PICK p \in Layouts : Goto(m, p)
    BY <1>2, <1>4 DEF Wake, ShowDoor, LeaveDoor, StandbyTimeout
  <2> QED
    BY <1>1, <2>1, GotoKeepsTime
<1>5. CASE SaveTime(m)
  BY <1>1, <1>2, <1>5, BeginSyncKeepsTime DEF SaveTime
<1>6. CASE Touch(m) \/ Tick(m)
  BY <1>1, <1>6, OtherKeepsTime DEF Touch, Tick, receiver
<1>7. CASE Send(m)
  BY <1>1, <1>7, SendKeepsTime
<1>8. CASE Sent(m)
  BY <1>1, <1>8, SentKeepsTime
<1> QED
  BY <1>3, <1>4, <1>5, <1>6, <1>7, <1>8

-----------------------------------------------------------------------------
(* The inductive invariant and what follows from it.                       *)

IInv == TypeOK /\ DoorInv /\ TimeInv

LEMMA InitInvariant ==
  ASSUME Init
  PROVE  IInv
<1>1. 0 \in Indexes /\ 0 \in Numbers /\ 0 \in 0 .. Timeout /\ 0 \in 0 .. Parts
      /\ 0 \in 0 .. MaxLost
  BY SizesAssumption, BoundsAssumption DEF Indexes, Numbers
<1>2. "home" \in Layouts
  BY DEF Layouts
<1>3. NotSending \in [round : Numbers, next : 0 .. Parts, page : Layouts]
  BY <1>1, <1>2 DEF NotSending
<1>4. TypeOK
  BY <1>1, <1>2, <1>3 DEF Init, TypeOK
<1>5. \A m \in Monitors : ~Sending(m)
  BY DEF Init, Sending
<1>6. DoorInv
  BY <1>5 DEF Init, DoorInv, SendsAway, DoorCloses
<1>7. Steady
  BY <1>5 DEF Init, Steady, OneSender, InStep, AtRest, Single
<1> QED
  BY <1>4, <1>6, <1>7 DEF IInv, TimeInv

LEMMA Inductive ==
  ASSUME IInv, [Next]_vars
  PROVE  IInv'
<1>1. CASE Next
  BY <1>1, NextType, NextKeepsDoor, NextKeepsTime DEF IInv
<1>2. CASE UNCHANGED vars
  BY <1>2 DEF vars, IInv, TypeOK, DoorInv, SendsAway, DoorCloses, TimeInv, Steady, OneSender,
     InStep, AtRest, Single, Sending
<1> QED
  BY <1>1, <1>2

\* The inductive invariant holds of every reachable state.
THEOREM Invariant == Spec => []IInv
<1>1. Init => IInv
  BY InitInvariant
<1>2. IInv /\ [Next]_vars => IInv'
  BY Inductive
<1> QED
  BY <1>1, <1>2, PTL DEF Spec

\* The variables of os_standby.c and of the time handler keep their types.
THEOREM TypeCorrect == Spec => []TypeOK
<1>1. IInv => TypeOK
  BY DEF IInv
<1> QED
  BY <1>1, Invariant, PTL

\* A clock is set to one time, while nothing is lost and no rounds overlap
\* (net_common_time_lock_func counts six datagrams and asks nothing else).
THEOREM OneTimeOnly == Spec => []OneTime
<1>1. IInv => OneTime
  <2> SUFFICES ASSUME IInv, lost = 0, ~overlap, NEW r \in Monitors
               PROVE  Cardinality(date[r]) <= 1
    BY DEF OneTime
  <2>1. \A x, y \in date[r] : x = y
    BY DEF IInv, TimeInv, Steady, Single
  <2>2. CASE date[r] = {}
    BY <2>2, FS_EmptySet
  <2>3. CASE date[r] # {}
    <3>1. PICK x \in date[r] : date[r] = {x}
      BY <2>1, <2>3
    <3>2. Cardinality({x}) = 1
      BY FS_Singleton
    <3> QED
      BY <3>1, <3>2
  <2> QED
    BY <2>2, <2>3
<1> QED
  BY <1>1, Invariant, PTL

\* The screen saver leaves a door only after a clock was set there
\* (standby_timer_check runs on every page).
THEOREM DoorIsLeftByClock == Spec => DoorStays
<1> DEFINE Stays == \A m \in Monitors :
             layout[m] = "door" /\ layout'[m] = "standby" => clocked[m]
<1>1. IInv /\ [Next]_vars => [Stays]_vars
  <2> SUFFICES ASSUME IInv, [Next]_vars
               PROVE  [Stays]_vars
    OBVIOUS
  <2>1. CASE Next
    BY <2>1, DoorStep DEF IInv
  <2>2. CASE UNCHANGED vars
    BY <2>2
  <2> QED
    BY <2>1, <2>2
<1> QED
  BY <1>1, Invariant, PTL DEF Spec, DoorStays
=============================================================================
