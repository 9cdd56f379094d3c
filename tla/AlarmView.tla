------------------------------- MODULE AlarmView -------------------------------
(***************************************************************************)
(* The screen of the Raspberry, SE/main_base/src/alarm_view.cpp: the       *)
(* display thread (AlarmView::run, the clicks and the modal photo viewer)  *)
(* against the thread that handles the lines of the base                   *)
(* (UartThread::processLine).  They share the fields of AlarmView, the     *)
(* visibility of its buttons and updatedData, and no lock.                 *)
(*                                                                         *)
(* A thread has a list of assignments <<field, value>> still to be made;   *)
(* each is one step.  display() is one step too.  One sensor stands for    *)
(* the list of sensors; a code is known only as right or wrong.            *)
(***************************************************************************)
EXTENDS Naturals, Sequences

CONSTANTS
  Status,  \* values of a sensor's status; 0 is the first
  Refresh  \* turns without a refresh before one is forced: 100

ASSUME ViewAssumption == 0 \in Status /\ Status \subseteq Nat /\ Refresh \in Nat

VARIABLES
  s,      \* what the threads share
  uart,   \* assignments left of the line being handled
  todo,   \* assignments left of what the display thread is doing
  at,     \* where the display thread is in its turn
  right,  \* unlockPass is the code
  ref,    \* turns until a refresh is forced
  drawn,  \* what the screen shows
  age     \* history: turns since the screen was last right

vars == <<s, uart, todo, at, right, ref, drawn, age>>

Field == [status : Status, updated : BOOLEAN, refresh : BOOLEAN, alarm : BOOLEAN,
          lock : BOOLEAN, num : BOOLEAN, sensors : BOOLEAN]

(* display(): nothing while the alarm is on; else the password or the
   sensors, and the buttons that are visible. *)
Image ==
  IF s.alarm THEN <<"black">>
  ELSE IF s.lock THEN <<"lock", s.num, s.sensors>>
  ELSE <<"sensors", s.num, s.sensors, s.status>>

(* What each thread may assign.  Only the lines of the base set the alarm and the status, only
   the display thread the lock screen; updatedData is raised by the one and dropped by the
   other. *)
LineAssigns ==
  {<<"updated", TRUE>>, <<"refresh", TRUE>>, <<"num", FALSE>>}
    \cup ({"alarm", "sensors"} \X BOOLEAN) \cup ({"status"} \X Status)
ViewAssigns ==
  {<<"updated", FALSE>>} \cup ({"refresh", "lock", "num", "sensors"} \X BOOLEAN)

(* Types; and neither thread assigns what is the other's (alarm_view.cpp:137-149,245-324,
   uart_com.cpp:117-146). *)
TypeOK ==
  /\ s \in Field
  /\ uart \in Seq(LineAssigns) /\ todo \in Seq(ViewAssigns)
  /\ at \in {"events", "poll", "draw", "viewer"}
  /\ right \in BOOLEAN
  /\ ref \in 0 .. Refresh
  /\ age \in Nat

Init ==
  /\ s = [status |-> 0, updated |-> FALSE, refresh |-> TRUE, alarm |-> FALSE,
          lock |-> FALSE, num |-> FALSE, sensors |-> TRUE]
  /\ uart = <<>> /\ todo = <<>>
  /\ at = "events"
  /\ right = FALSE
  /\ ref = Refresh
  /\ drawn = <<"nothing">>
  /\ age = 0

Assign(a) == s' = [s EXCEPT ![a[1]] = a[2]]

-----------------------------------------------------------------------------
(* Slip: the buttons are forgotten. *)
DisableAlarmOnly == <<<<"alarm", FALSE>>, <<"refresh", TRUE>>>>

(* The UART thread: a line, and then its assignments.  That of the type of a sensor seen for the
   first time is left out: the one sensor there is stands for all, and its type is known. *)
StatusLine(st) == IF st # s.status THEN <<<<"updated", TRUE>>, <<"status", st>>>>
                  ELSE <<<<"status", st>>>>
EnableAlarm    == <<<<"num", FALSE>>, <<"sensors", FALSE>>, <<"alarm", TRUE>>, <<"refresh", TRUE>>>>
DisableAlarm   == <<<<"sensors", TRUE>>, <<"alarm", FALSE>>, <<"refresh", TRUE>>>>

Line ==
  /\ uart = <<>>
  /\ uart' \in {StatusLine(st) : st \in Status} \cup {EnableAlarm, DisableAlarm}
  /\ UNCHANGED <<s, todo, at, right, ref, drawn, age>>

LineStep ==
  /\ uart # <<>>
  /\ Assign(Head(uart)) /\ uart' = Tail(uart)
  /\ UNCHANGED <<todo, at, right, ref, drawn, age>>

-----------------------------------------------------------------------------
(* Slip: the code switches the alarm off as well. *)
UnlockingAll ==
  <<<<"num", FALSE>>, <<"lock", FALSE>>, <<"alarm", FALSE>>,
    <<"sensors", TRUE>>, <<"refresh", TRUE>>>>

(* The display thread.  A click reaches visible buttons only. *)
Unlocking == <<<<"num", FALSE>>, <<"lock", FALSE>>, <<"sensors", TRUE>>, <<"refresh", TRUE>>>>
Hiding    == <<<<"sensors", FALSE>>, <<"num", FALSE>>>>
Locking   == <<<<"num", TRUE>>, <<"lock", TRUE>>>>

ViewStep ==
  /\ todo # <<>>
  /\ Assign(Head(todo)) /\ todo' = Tail(todo)
  /\ UNCHANGED <<uart, at, right, ref, drawn, age>>

Idle(place) == todo = <<>> /\ at = place

(* A figure, or the last one deleted. *)
Digit ==
  /\ Idle("events") /\ s.num
  /\ todo' = <<<<"refresh", TRUE>>>>
  /\ right' \in BOOLEAN
  /\ UNCHANGED <<s, uart, at, ref, drawn, age>>

Unlock ==
  /\ Idle("events") /\ s.num
  /\ todo' = IF right THEN Unlocking ELSE <<<<"refresh", TRUE>>>>
  /\ right' = FALSE
  /\ UNCHANGED <<s, uart, at, ref, drawn, age>>

EnablePhotoViewer ==
  /\ Idle("events") /\ s.sensors
  /\ todo' = Hiding
  /\ at' = "viewer"
  /\ drawn' = <<"photo">> /\ age' = 0
  /\ UNCHANGED <<s, uart, right, ref>>

DisablePhotoViewer ==
  /\ Idle("viewer")
  /\ todo' = Locking
  /\ at' = "events"
  /\ UNCHANGED <<s, uart, right, ref, drawn, age>>

EndEvents ==
  /\ Idle("events")
  /\ at' = "poll"
  /\ UNCHANGED <<s, uart, todo, right, ref, drawn, age>>

(* Unless locked, what updatedData says replaces refreshDisplay. *)
Poll ==
  /\ Idle("poll")
  /\ IF s.lock THEN UNCHANGED <<s, todo>>
     ELSE /\ Assign(<<"refresh", s.updated>>)
          /\ todo' = <<<<"updated", FALSE>>>>
  /\ at' = "draw"
  /\ UNCHANGED <<uart, right, ref, drawn, age>>

(* Slip: only a refresh draws. *)
DueWhenAsked == s.refresh

Due == ref = 0 \/ s.refresh

Draw ==
  /\ Idle("draw")
  /\ IF Due
     THEN ref' = Refresh /\ drawn' = Image /\ todo' = <<<<"refresh", FALSE>>>>
     ELSE ref' = ref - 1 /\ UNCHANGED <<drawn, todo>>
  /\ age' = IF drawn' = Image THEN 0 ELSE age + 1
  /\ at' = "events"
  /\ UNCHANGED <<s, uart, right>>

Click == Digit \/ Unlock \/ EnablePhotoViewer

Next == Line \/ LineStep \/ ViewStep \/ Click \/ DisablePhotoViewer \/ EndEvents \/ Poll \/ Draw

Spec == Init /\ [][Next]_vars

-----------------------------------------------------------------------------
(* Whatever refreshes the races of the two threads lose (alarm_view.cpp:137-149
   drops those of an unlocking, always, and of an alarm switched before it
   looks at updatedData), the screen is never wrong for more than the turns
   after which a refresh is forced. *)
ShownWithinRef == age <= Refresh

(* While the alarm is off and nothing is under way, the user is never left
   with a panel without a way on: the sensors' buttons (one of which leads to
   the lock screen), or the lock screen's figures (alarm_view.cpp:271-324). *)
AlwaysAWayOn ==
  ~s.alarm /\ uart = <<>> /\ Idle("events") => s.sensors \/ (s.lock /\ s.num)
=============================================================================
