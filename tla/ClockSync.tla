----------------------------- MODULE ClockSync ------------------------------
(***************************************************************************)
(* The clocks and the screen savers of the monitors of a flat.  A monitor  *)
(* sends its time to the others in six datagrams, one for each part of the *)
(* date (rtc_time_sync), and the receiver sets its clock when six have     *)
(* arrived (net_common_time_lock_func).  Around that it closes and opens   *)
(* the timer of the screen saver (os_standby.c), which the pages close and *)
(* open as well.  The first monitor sends its time whenever it wakes.      *)
(*                                                                         *)
(* A time is the number of the round that sent it.                         *)
(***************************************************************************)
EXTENDS Integers, FiniteSets

CONSTANTS Monitors,     \* the monitors of one flat
          First,        \* DEVICE_INDOOR_ID1
          Parts,        \* datagrams of a round (6)
          Timeout,      \* standby_timeout (60 s)
          MaxRounds,    \* bound: rounds sent
          MaxLost       \* bound: datagrams not received by somebody

ASSUME FirstAssumption == First \in Monitors /\ IsFiniteSet(Monitors)
ASSUME SizesAssumption == Parts \in Nat \ {0} /\ Timeout \in Nat \ {0}
ASSUME BoundsAssumption == MaxRounds \in Nat /\ MaxLost \in Nat

VARIABLES layout,     \* cur_layout; "home" is every page not named
          open,       \* standby_open_status
          idle,       \* time since standby_timer_start
          sending,    \* where the LVGL thread is in rtc_time_sync, by monitor
          part,       \* times_year .. times_sec, by monitor
          count,      \* times_falg
          date,       \* rounds that the date set last is made of
          rounds,     \* rounds begun
          lost,       \* history: datagrams lost
          overlap,    \* history: a round began before another was finished
          clocked     \* history: the clock was set on the page that is shown
vars == <<layout, open, idle, sending, part, count, date, rounds, lost, overlap, clocked>>
receiver == <<part, count, date>>

Layouts == {"home", "standby", "door"}
Indexes == 0 .. Parts - 1
NotSending == [round |-> 0, next |-> 0, page |-> "home"]
Sending(m) == sending[m] # NotSending
Others(m) == Monitors \ {m}

Init ==
  /\ layout = [m \in Monitors |-> "home"]
  /\ open = [m \in Monitors |-> TRUE]
  /\ idle = [m \in Monitors |-> 0]
  /\ sending = [m \in Monitors |-> NotSending]
  /\ part = [m \in Monitors |-> [i \in Indexes |-> 0]]
  /\ count = [m \in Monitors |-> 0]
  /\ date = [m \in Monitors |-> {}]
  /\ rounds = 0 /\ lost = 0 /\ overlap = FALSE
  /\ clocked = [m \in Monitors |-> FALSE]

-----------------------------------------------------------------------------
(* The LVGL thread.  goto_layout runs the quit function of the old page    *)
(* and then the enter function of the new one.                             *)

\* standby_timer_open and standby_timer_close
Opened(m) == open' = [open EXCEPT ![m] = TRUE] /\ idle' = [idle EXCEPT ![m] = 0]
Closed(m) == open' = [open EXCEPT ![m] = FALSE] /\ UNCHANGED idle

\* The enter function of page p: the screen saver and the door panel close the
\* timer, and the old page has opened it if it had been closed.
Entered(m, p) ==
  /\ layout' = [layout EXCEPT ![m] = p]
  /\ clocked' = [clocked EXCEPT ![m] = FALSE]
  /\ IF p # "home" THEN Closed(m)
     ELSE IF layout[m] # "home" THEN Opened(m) ELSE UNCHANGED <<open, idle>>

\* rtc_time_sync begins; page p is entered when it returns.
BeginSync(m, p) ==
  /\ rounds < MaxRounds
  /\ rounds' = rounds + 1
  /\ sending' = [sending EXCEPT ![m] = [round |-> rounds + 1, next |-> 0, page |-> p]]
  /\ overlap' = (overlap \/ \E n \in Monitors : Sending(n))

\* The quit function of the screen saver opens its timer and, on the first
\* monitor, sends the time to the others before the next page is entered.
Goto(m, p) ==
  /\ ~Sending(m)
  /\ IF layout[m] = "standby" /\ m = First
     THEN BeginSync(m, p) /\ Opened(m) /\ UNCHANGED <<layout, clocked>>
     ELSE Entered(m, p) /\ UNCHANGED <<sending, rounds, overlap>>
  /\ UNCHANGED <<receiver, lost>>

\* The screen saver is touched, or a call ends it.
Wake(m) == layout[m] = "standby" /\ \E p \in {"home", "door"} : Goto(m, p)

\* (variant of ShowDoor: the timer stays open)
ShowDoorOpen(m) ==
  /\ layout[m] = "home" /\ ~Sending(m)
  /\ layout' = [layout EXCEPT ![m] = "door"]
  /\ clocked' = [clocked EXCEPT ![m] = FALSE]
  /\ UNCHANGED <<open, idle, sending, receiver, rounds, lost, overlap>>

ShowDoor(m) == layout[m] = "home" /\ Goto(m, "door")

LeaveDoor(m) == layout[m] = "door" /\ Goto(m, "home")

\* The settings are left with a new time: the timer is closed, the time is set
\* and sent, and the timer is opened.
SaveTime(m) ==
  /\ layout[m] = "home" /\ ~Sending(m)
  /\ BeginSync(m, "home")
  /\ Closed(m)
  /\ UNCHANGED <<layout, receiver, lost, clocked>>

\* standby_timer_reset, if the timer is open
Touch(m) ==
  /\ layout[m] # "standby" /\ ~Sending(m)
  /\ open[m]
  /\ idle' = [idle EXCEPT ![m] = 0]
  /\ UNCHANGED <<layout, open, sending, receiver, rounds, lost, overlap, clocked>>

\* A second passes (beyond Timeout the time is not counted).
Tick(m) ==
  /\ open[m] /\ idle[m] < Timeout
  /\ idle' = [idle EXCEPT ![m] = @ + 1]
  /\ UNCHANGED <<layout, open, sending, receiver, rounds, lost, overlap, clocked>>

\* standby_timer_check in the event task: whatever page is shown
StandbyTimeout(m) ==
  /\ open[m] /\ idle[m] = Timeout
  /\ Goto(m, "standby")

-----------------------------------------------------------------------------
(* The datagrams.                                                          *)

\* (variant of SetAt: one datagram early)
SetEarly(r) == count[r] + 2 = Parts

\* With which datagram the receiver r has all parts
SetAt(r) == count[r] + 1 = Parts

\* Part i of the round s reaches the monitors `to', each of which counts it.  Who has
\* six sets the date and closes and opens the timer: on every page.  (Setting takes
\* a while; as the last step opens the timer, what the LVGL thread does meanwhile
\* may be taken to happen before.)
Receive(i, s, to) ==
  LET part2 == [r \in Monitors |-> IF r \in to THEN [part[r] EXCEPT ![i] = s] ELSE part[r]]
      set == {r \in to : SetAt(r)}
  IN /\ part' = part2
     /\ count' = [r \in Monitors |-> IF r \in set THEN 0
                                     ELSE IF r \in to THEN count[r] + 1 ELSE count[r]]
     /\ date' = [r \in Monitors |-> IF r \in set THEN {part2[r][j] : j \in Indexes}
                                    ELSE date[r]]
     /\ open' = [r \in Monitors |-> open[r] \/ r \in set]
     /\ idle' = [r \in Monitors |-> IF r \in set THEN 0 ELSE idle[r]]
     /\ clocked' = [r \in Monitors |-> clocked[r] \/ r \in set]

\* One turn of the loop of rtc_time_sync
Send(m) ==
  /\ Sending(m) /\ sending[m].next < Parts
  /\ sending' = [sending EXCEPT ![m].next = @ + 1]
  /\ \E to \in SUBSET Others(m) :
       /\ lost + Cardinality(Others(m) \ to) <= MaxLost
       /\ lost' = lost + Cardinality(Others(m) \ to)
       /\ Receive(sending[m].next, sending[m].round, to)
  /\ UNCHANGED <<layout, rounds, overlap>>

\* (variant of Sent: the settings do not open the timer)
SentClosed(m) ==
  /\ Sending(m) /\ sending[m].next = Parts
  /\ sending' = [sending EXCEPT ![m] = NotSending]
  /\ IF sending[m].page = "home" THEN UNCHANGED <<open, idle>> ELSE Closed(m)
  /\ layout' = [layout EXCEPT ![m] = sending[m].page]
  /\ clocked' = [clocked EXCEPT ![m] = FALSE]
  /\ UNCHANGED <<receiver, rounds, lost, overlap>>

\* rtc_time_sync returns: the next page is entered, the settings open the timer.
Sent(m) ==
  /\ Sending(m) /\ sending[m].next = Parts
  /\ sending' = [sending EXCEPT ![m] = NotSending]
  /\ IF layout[m] = "home" THEN Opened(m)
     ELSE IF sending[m].page = "home" THEN UNCHANGED <<open, idle>> ELSE Closed(m)
  /\ layout' = [layout EXCEPT ![m] = sending[m].page]
  /\ clocked' = [clocked EXCEPT ![m] = FALSE]
  /\ UNCHANGED <<receiver, rounds, lost, overlap>>

-----------------------------------------------------------------------------
Next == \E m \in Monitors :
  \/ Wake(m) \/ ShowDoor(m) \/ LeaveDoor(m) \/ SaveTime(m) \/ Touch(m)
  \/ Tick(m) \/ StandbyTimeout(m) \/ Send(m) \/ Sent(m)

Spec == Init /\ [][Next]_vars

\* Time passes, and the LVGL thread runs its event task and goes on in a loop.
FairSpec ==
  /\ Spec
  /\ \A m \in Monitors : WF_vars(Tick(m)) /\ WF_vars(StandbyTimeout(m))
                         /\ WF_vars(Send(m) \/ Sent(m))

-----------------------------------------------------------------------------
(* Properties.                                                             *)

Numbers == 0 .. MaxRounds

\* Every variable has its type (os_standby.c, the statics of the time handler).
TypeOK ==
  /\ layout \in [Monitors -> Layouts]
  /\ open \in [Monitors -> BOOLEAN]
  /\ idle \in [Monitors -> 0 .. Timeout]
  /\ sending \in [Monitors -> [round : Numbers, next : 0 .. Parts, page : Layouts]]
  /\ part \in [Monitors -> [Indexes -> Numbers]]
  /\ count \in [Monitors -> Indexes]
  /\ date \in [Monitors -> SUBSET Numbers]
  /\ rounds \in Numbers /\ lost \in 0 .. MaxLost /\ overlap \in BOOLEAN
  /\ clocked \in [Monitors -> BOOLEAN]

\* A clock is set to a time that somebody sent, although the parts are told apart
\* by a count alone.  It takes a lost datagram, or two monitors that send at once,
\* to set it to the day of one and the hour of another - and it is out of step from
\* then on.
OneTime == lost = 0 /\ ~overlap => \A m \in Monitors : Cardinality(date[m]) <= 1

\* The screen saver leaves a door (and ends the talk there) in one case only: the
\* page has closed the timer and a clock set in the meantime has opened it.
DoorStays ==
  [][\A m \in Monitors :
       layout[m] = "door" /\ layout'[m] = "standby" => clocked[m]]_vars

\* Wherever the pages, the handler and the timer itself have opened and closed it,
\* the timer runs on the pages that count on it: a home page that nobody touches is
\* left.
SaverComes == \A m \in Monitors :
  []<>(layout[m] # "home" \/ Sending(m) \/ (open[m] /\ idle[m] = 0))
=============================================================================
