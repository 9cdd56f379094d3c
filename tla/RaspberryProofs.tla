----------------------------- MODULE RaspberryProofs ----------------------------
(***************************************************************************)
(* Theorems about the Raspberry.  AlarmView, however its two threads       *)
(* interleave: the screen is wrong for at most the turns after which a     *)
(* refresh is forced, a sum that no turn increases; and the user keeps a   *)
(* way on: with a way in sight goes what either thread has still to        *)
(* assign, since a list left half done may already have taken the old way  *)
(* and not yet given the new.  ServerLink: the connection to the server    *)
(* recovers, if the timers keep the waits for a PONG out of step with the  *)
(* tries; its invariant follows a wait for nothing, and a try that failed  *)
(* on an open socket, to where they do no harm.                            *)
(***************************************************************************)
EXTENDS AlarmView, ServerLink, Integers, TLAPS

(* Turns the screen has been wrong for and turns left until it is redrawn. *)
Countdown == ref \in 0 .. Refresh /\ age \in Nat /\ age + ref <= Refresh

LEMMA CountdownInit == Init => Countdown
  BY ViewAssumption DEF Init, Countdown

LEMMA CountdownKept == Countdown /\ [Next]_vars => Countdown'
<1> SUFFICES ASSUME Countdown, [Next]_vars PROVE Countdown'
  OBVIOUS
<1>1. ASSUME Draw PROVE Countdown'
  <2>1. CASE Due
    <3>1. Image' = Image
      BY <1>1 DEF Draw, Image
    <3>2. age' = 0 /\ ref' = Refresh
      BY <1>1, <2>1, <3>1 DEF Draw
    <3> QED
      BY <3>2, ViewAssumption DEF Countdown
  <2>2. CASE ~Due
    <3>1. ref # 0 /\ ref' = ref - 1
      BY <1>1, <2>2 DEF Draw, Due
    <3>2. age' = 0 \/ age' = age + 1
      BY <1>1 DEF Draw
    <3> QED
      BY <3>1, <3>2, ViewAssumption DEF Countdown
  <2> QED
    BY <2>1, <2>2
<1>2. CASE EnablePhotoViewer
  BY <1>2, ViewAssumption DEF EnablePhotoViewer, Countdown
<1>3. CASE Line \/ LineStep \/ ViewStep \/ Digit \/ Unlock \/ DisablePhotoViewer
           \/ EndEvents \/ Poll \/ UNCHANGED vars
  <2>1. UNCHANGED <<ref, age>>
    BY <1>3 DEF Line, LineStep, ViewStep, Digit, Unlock, DisablePhotoViewer, EndEvents, Poll, vars
  <2> QED
    BY <2>1 DEF Countdown
<1> QED
  BY <1>1, <1>2, <1>3 DEF Next, Click

(* The refreshes the threads lose to one another (alarm_view.cpp:137-149) cost
   at most the Refresh turns after which the screen is redrawn anyway. *)
THEOREM ScreenCatchesUp == Spec => []ShownWithinRef
<1>1. Countdown => ShownWithinRef
  BY ViewAssumption DEF Countdown, ShownWithinRef
<1> QED
  BY <1>1, CountdownInit, CountdownKept, PTL DEF Spec
-----------------------------------------------------------------------------
(* What can be left of the lists of assignments. *)
Refreshing == <<<<"refresh", TRUE>>>>
Status1(st) == <<<<"status", st>>>>
Status2(st) == <<<<"updated", TRUE>>, <<"status", st>>>>
Enable3 == <<<<"sensors", FALSE>>, <<"alarm", TRUE>>, <<"refresh", TRUE>>>>
Enable2 == <<<<"alarm", TRUE>>, <<"refresh", TRUE>>>>
Disable2 == <<<<"alarm", FALSE>>, <<"refresh", TRUE>>>>

Unlocking3 == <<<<"lock", FALSE>>, <<"sensors", TRUE>>, <<"refresh", TRUE>>>>
Unlocking2 == <<<<"sensors", TRUE>>, <<"refresh", TRUE>>>>
Hiding1  == <<<<"num", FALSE>>>>
Locking1 == <<<<"lock", TRUE>>>>
Taken    == <<<<"updated", FALSE>>>>
Drawn    == <<<<"refresh", FALSE>>>>

(* What the display thread has still to do, by where it is in its turn. *)
TodoOK ==
  \/ at = "events" /\ todo \in {<<>>, Refreshing, Unlocking, Unlocking3, Unlocking2,
                                Locking, Locking1, Drawn}
  \/ at = "poll"   /\ todo = <<>>
  \/ at = "draw"   /\ todo \in {<<>>, Taken}
  \/ at = "viewer" /\ todo \in {<<>>, Hiding, Hiding1}

(* The user has a way on, or the display thread is about to give one. *)
WayOn ==
  \/ s.sensors
  \/ s.lock /\ s.num
  \/ at = "viewer"
  \/ todo \in {Unlocking, Unlocking3, Unlocking2, Locking}
  \/ todo = Locking1 /\ s.num

(* A line about to switch the alarm on may take the way away, and one about to
   bring the sensors back need not find one; between them the alarm is on. *)
LineOK ==
  \/ uart \in {EnableAlarm, Enable3, Enable2, DisableAlarm}
  \/ uart = Disable2 /\ WayOn
  \/ /\ \/ uart \in {<<>>, Refreshing}
        \/ \E st \in Status : uart \in {Status1(st), Status2(st)}
     /\ s.alarm \/ WayOn

ViewInv == s \in Field /\ right \in BOOLEAN /\ Countdown /\ TodoOK /\ LineOK

-----------------------------------------------------------------------------
(* The first assignment of a list, and what is left then. *)
LEMMA OneLeft == ASSUME NEW a PROVE Head(<<a>>) = a /\ Tail(<<a>>) = <<>> /\ <<a>> # <<>>
  OBVIOUS

LEMMA TwoLeft ==
  ASSUME NEW a, NEW b PROVE Head(<<a, b>>) = a /\ Tail(<<a, b>>) = <<b>> /\ <<a, b>> # <<>>
  OBVIOUS

LEMMA ThreeLeft ==
  ASSUME NEW a, NEW b, NEW c
  PROVE  Head(<<a, b, c>>) = a /\ Tail(<<a, b, c>>) = <<b, c>> /\ <<a, b, c>> # <<>>
  OBVIOUS

LEMMA FourLeft ==
  ASSUME NEW a, NEW b, NEW c, NEW d
  PROVE  /\ Head(<<a, b, c, d>>) = a /\ Tail(<<a, b, c, d>>) = <<b, c, d>>
         /\ <<a, b, c, d>> # <<>>
  OBVIOUS

LEMMA LongLists ==
  /\ Head(EnableAlarm) = <<"num", FALSE>> /\ Tail(EnableAlarm) = Enable3
  /\ Head(Enable3) = <<"sensors", FALSE>> /\ Tail(Enable3) = Enable2
  /\ Head(DisableAlarm) = <<"sensors", TRUE>> /\ Tail(DisableAlarm) = Disable2
  /\ Head(Unlocking) = <<"num", FALSE>> /\ Tail(Unlocking) = Unlocking3
  /\ Head(Unlocking3) = <<"lock", FALSE>> /\ Tail(Unlocking3) = Unlocking2
<1>1. Head(EnableAlarm) = <<"num", FALSE>> /\ Tail(EnableAlarm) = Enable3
  <2>1. ASSUME NEW a, NEW b, NEW c, NEW d,
               a = <<"num", FALSE>>, b = <<"sensors", FALSE>>,
               c = <<"alarm", TRUE>>, d = <<"refresh", TRUE>>
        PROVE  Head(<<a, b, c, d>>) = a /\ Tail(<<a, b, c, d>>) = <<b, c, d>>
    BY FourLeft
  <2> QED
    BY <2>1, Zenon DEF EnableAlarm, Enable3
<1>2. Head(Enable3) = <<"sensors", FALSE>> /\ Tail(Enable3) = Enable2
  <2>1. ASSUME NEW a, NEW b, NEW c,
               a = <<"sensors", FALSE>>, b = <<"alarm", TRUE>>,
               c = <<"refresh", TRUE>>
        PROVE  Head(<<a, b, c>>) = a /\ Tail(<<a, b, c>>) = <<b, c>>
    BY ThreeLeft
  <2> QED
    BY <2>1, Zenon DEF Enable3, Enable2
<1>3. Head(DisableAlarm) = <<"sensors", TRUE>> /\ Tail(DisableAlarm) = Disable2
  <2>1. ASSUME NEW a, NEW b, NEW c,
               a = <<"sensors", TRUE>>, b = <<"alarm", FALSE>>,
               c = <<"refresh", TRUE>>
        PROVE  Head(<<a, b, c>>) = a /\ Tail(<<a, b, c>>) = <<b, c>>
    BY ThreeLeft
  <2> QED
    BY <2>1, Zenon DEF DisableAlarm, Disable2
<1>4. Head(Unlocking) = <<"num", FALSE>> /\ Tail(Unlocking) = Unlocking3
  <2>1. ASSUME NEW a, NEW b, NEW c, NEW d,
               a = <<"num", FALSE>>, b = <<"lock", FALSE>>,
               c = <<"sensors", TRUE>>, d = <<"refresh", TRUE>>
        PROVE  Head(<<a, b, c, d>>) = a /\ Tail(<<a, b, c, d>>) = <<b, c, d>>
    BY FourLeft
  <2> QED
    BY <2>1, Zenon DEF Unlocking, Unlocking3
<1>5. Head(Unlocking3) = <<"lock", FALSE>> /\ Tail(Unlocking3) = Unlocking2
  <2>1. ASSUME NEW a, NEW b, NEW c,
               a = <<"lock", FALSE>>, b = <<"sensors", TRUE>>,
               c = <<"refresh", TRUE>>
        PROVE  Head(<<a, b, c>>) = a /\ Tail(<<a, b, c>>) = <<b, c>>
    BY ThreeLeft
  <2> QED
    BY <2>1, Zenon DEF Unlocking3, Unlocking2
<1> QED
  BY <1>1, <1>2, <1>3, <1>4, <1>5

(* The fields a way on depends on. *)
Panel == <<s.alarm, s.lock, s.num, s.sensors>>

LEMMA AssignStatus ==
  ASSUME s \in Field, NEW st \in Status, Assign(<<"status", st>>)
  PROVE  s' \in Field /\ UNCHANGED Panel
  BY DEF Assign, Field, Panel

LEMMA AssignUpdated ==
  ASSUME s \in Field, NEW b \in BOOLEAN, Assign(<<"updated", b>>)
  PROVE  s' \in Field /\ UNCHANGED Panel
  BY DEF Assign, Field, Panel

LEMMA AssignRefresh ==
  ASSUME s \in Field, NEW b \in BOOLEAN, Assign(<<"refresh", b>>)
  PROVE  s' \in Field /\ UNCHANGED Panel
  BY DEF Assign, Field, Panel

LEMMA AssignAlarm ==
  ASSUME s \in Field, NEW b \in BOOLEAN, Assign(<<"alarm", b>>)
  PROVE  s' \in Field /\ s'.alarm = b /\ UNCHANGED <<s.lock, s.num, s.sensors>>
  BY DEF Assign, Field

LEMMA AssignLock ==
  ASSUME s \in Field, NEW b \in BOOLEAN, Assign(<<"lock", b>>)
  PROVE  s' \in Field /\ s'.lock = b /\ UNCHANGED <<s.alarm, s.num, s.sensors>>
  BY DEF Assign, Field

LEMMA AssignNum ==
  ASSUME s \in Field, NEW b \in BOOLEAN, Assign(<<"num", b>>)
  PROVE  s' \in Field /\ s'.num = b /\ UNCHANGED <<s.alarm, s.lock, s.sensors>>
  BY DEF Assign, Field

LEMMA AssignSensors ==
  ASSUME s \in Field, NEW b \in BOOLEAN, Assign(<<"sensors", b>>)
  PROVE  s' \in Field /\ s'.sensors = b /\ UNCHANGED <<s.alarm, s.lock, s.num>>
  BY DEF Assign, Field

(* The lists of the display thread differ by the field they begin with. *)
LEMMA TodosDiffer ==
  /\ <<>> \notin {Unlocking, Unlocking3, Unlocking2, Locking, Locking1}
  /\ Refreshing \notin {Unlocking, Unlocking3, Unlocking2, Locking, Locking1}
  /\ Drawn \notin {Unlocking, Unlocking3, Unlocking2, Locking, Locking1}
  /\ Taken \notin {Unlocking, Unlocking3, Unlocking2, Locking, Locking1}
  /\ Locking1 \notin {Unlocking, Unlocking3, Unlocking2, Locking}
  BY OneLeft, TwoLeft, ThreeLeft, FourLeft
  DEF Refreshing, Drawn, Taken, Unlocking, Unlocking3, Unlocking2, Locking, Locking1

-----------------------------------------------------------------------------
LEMMA ViewInit == Init => ViewInv
<1> SUFFICES ASSUME Init PROVE ViewInv
  OBVIOUS
<1>1. s \in Field /\ s.sensors
  BY ViewAssumption DEF Init, Field
<1>2. TodoOK /\ LineOK
  BY <1>1 DEF Init, TodoOK, LineOK, WayOn
<1> QED
  BY <1>1, <1>2, CountdownInit DEF Init, ViewInv

(* A step of the UART thread that leaves the panel as it is. *)
LEMMA WayKept ==
  ASSUME WayOn, UNCHANGED <<todo, at>>, UNCHANGED <<s.lock, s.num, s.sensors>>
  PROVE  WayOn'
  BY DEF WayOn, Unlocking, Unlocking3, Unlocking2, Locking, Locking1

LEMMA LineKeeps == ViewInv /\ Line => ViewInv'
<1> SUFFICES ASSUME ViewInv, Line PROVE ViewInv'
  OBVIOUS
<1>1. s' \in Field /\ right' \in BOOLEAN /\ TodoOK' /\ Countdown'
  BY CountdownKept DEF ViewInv, Line, TodoOK, Next, Unlocking, Unlocking3, Unlocking2, Locking,
    Locking1, Refreshing, Drawn, Taken, Hiding, Hiding1
<1>2. CASE uart' \in {EnableAlarm, DisableAlarm}
  <2>1. LineOK'
    BY <1>2 DEF LineOK, EnableAlarm, Enable3, Enable2, DisableAlarm
  <2> QED
    BY <1>1, <2>1 DEF ViewInv
<1>3. CASE \E st \in Status : uart' = StatusLine(st)
  <2>1. s.alarm \/ WayOn
    BY TwoLeft, ThreeLeft, FourLeft DEF Line, ViewInv, LineOK, EnableAlarm, Enable3, Enable2,
      Disable2, DisableAlarm
  <2>2. s'.alarm \/ WayOn'
    BY <2>1, WayKept DEF Line
  <2>3. \E st \in Status : uart' \in {Status1(st), Status2(st)}
    BY <1>3 DEF StatusLine, Status1, Status2
  <2>4. LineOK'
    BY <2>2, <2>3 DEF LineOK, Status1, Status2
  <2> QED
    BY <1>1, <2>4 DEF ViewInv
<1> QED
  BY <1>2, <1>3 DEF Line

(* Each assignment of a line: those that could take the way away come while
   the alarm is, or is about to be, on. *)
LEMMA LineStepKeeps == ViewInv /\ LineStep => ViewInv'
<1> SUFFICES ASSUME ViewInv, LineStep PROVE ViewInv'
  OBVIOUS
<1> USE DEF LineStep, ViewInv
<1>1. right' \in BOOLEAN /\ TodoOK' /\ Countdown'
  BY CountdownKept DEF TodoOK, Next, Unlocking, Unlocking3, Unlocking2, Locking, Locking1,
    Refreshing, Drawn, Taken, Hiding, Hiding1
<1>2. SUFFICES s' \in Field /\ LineOK'
  BY <1>1
<1>3. CASE uart = EnableAlarm
  <2>1. Assign(<<"num", FALSE>>) /\ uart' = Enable3
    BY <1>3, LongLists
  <2> QED
    BY <2>1, AssignNum DEF LineOK, Enable3
<1>4. CASE uart = Enable3
  <2>1. Assign(<<"sensors", FALSE>>) /\ uart' = Enable2
    BY <1>4, LongLists
  <2> QED
    BY <2>1, AssignSensors DEF LineOK, Enable2
<1>5. CASE uart = Enable2
  <2>1. Assign(<<"alarm", TRUE>>) /\ uart' = Refreshing
    BY <1>5, TwoLeft DEF Enable2, Refreshing
  <2> QED
    BY <2>1, AssignAlarm DEF LineOK, Refreshing
<1>6. CASE uart = DisableAlarm
  <2>1. Assign(<<"sensors", TRUE>>) /\ uart' = Disable2
    BY <1>6, LongLists
  <2>2. s' \in Field /\ WayOn'
    BY <2>1, AssignSensors DEF WayOn
  <2> QED
    BY <2>1, <2>2 DEF LineOK, Disable2
<1>7. CASE uart = Disable2 /\ WayOn
  <2>1. Assign(<<"alarm", FALSE>>) /\ uart' = Refreshing
    BY <1>7, TwoLeft DEF Disable2, Refreshing
  <2>2. s' \in Field /\ WayOn'
    BY <1>7, <2>1, AssignAlarm, WayKept
  <2> QED
    BY <2>1, <2>2 DEF LineOK, Refreshing
<1>8. ASSUME s.alarm \/ WayOn, uart = Refreshing PROVE s' \in Field /\ LineOK'
  <2>1. Assign(<<"refresh", TRUE>>) /\ uart' = <<>>
    BY <1>8, OneLeft DEF Refreshing
  <2>2. s' \in Field /\ UNCHANGED Panel
    BY <2>1, AssignRefresh
  <2>3. s'.alarm \/ WayOn'
    BY <1>8, <2>2, WayKept DEF Panel
  <2> QED
    BY <2>1, <2>2, <2>3 DEF LineOK
<1>9. ASSUME s.alarm \/ WayOn, NEW st \in Status, uart = Status1(st)
      PROVE  s' \in Field /\ LineOK'
  <2>1. Assign(<<"status", st>>) /\ uart' = <<>>
    BY <1>9, OneLeft DEF Status1
  <2>2. s' \in Field /\ UNCHANGED Panel
    BY <2>1, AssignStatus
  <2>3. s'.alarm \/ WayOn'
    BY <1>9, <2>2, WayKept DEF Panel
  <2> QED
    BY <2>1, <2>2, <2>3 DEF LineOK
<1>10. ASSUME s.alarm \/ WayOn, NEW st \in Status, uart = Status2(st)
       PROVE  s' \in Field /\ LineOK'
  <2>1. Assign(<<"updated", TRUE>>) /\ uart' = Status1(st)
    BY <1>10, TwoLeft DEF Status1, Status2
  <2>2. s' \in Field /\ UNCHANGED Panel
    BY <2>1, AssignUpdated
  <2>3. s'.alarm \/ WayOn'
    BY <1>10, <2>2, WayKept DEF Panel
  <2> QED
    BY <2>1, <2>2, <2>3 DEF LineOK, Status1
<1> QED
  BY <1>3, <1>4, <1>5, <1>6, <1>7, <1>8, <1>9, <1>10 DEF LineOK

(* A step of the display thread keeps the line if it keeps the alarm and the
   way on. *)
LEMMA LineUntouched ==
  ASSUME LineOK, UNCHANGED uart, s'.alarm = s.alarm, WayOn => WayOn'
  PROVE  LineOK'
  BY DEF LineOK, EnableAlarm, Enable3, Enable2, DisableAlarm, Disable2, Refreshing,
    Status1, Status2

LEMMA ViewStepKeeps == ViewInv /\ ViewStep => ViewInv'
<1> SUFFICES ASSUME ViewInv, ViewStep PROVE ViewInv'
  OBVIOUS
<1> USE DEF ViewStep, ViewInv
<1>1. right' \in BOOLEAN /\ Countdown'
  BY CountdownKept DEF Next
<1>2. SUFFICES s' \in Field /\ s'.alarm = s.alarm /\ TodoOK' /\ (WayOn => WayOn')
  BY <1>1, LineUntouched
<1>3. CASE at = "events" /\ todo \in {Refreshing, Drawn}
  <2>1. PICK b \in BOOLEAN : Assign(<<"refresh", b>>)
    BY <1>3, OneLeft DEF Refreshing, Drawn
  <2>2. todo' = <<>>
    BY <1>3, OneLeft DEF Refreshing, Drawn
  <2>3. s' \in Field /\ UNCHANGED Panel
    BY <2>1, AssignRefresh
  <2>4. WayOn => WayOn'
    BY <1>3, <2>3, TodosDiffer DEF WayOn, Panel
  <2> QED
    BY <1>3, <2>2, <2>3, <2>4 DEF TodoOK, Panel
<1>4. CASE at = "draw" /\ todo = Taken
  <2>1. Assign(<<"updated", FALSE>>) /\ todo' = <<>>
    BY <1>4, OneLeft DEF Taken
  <2>2. s' \in Field /\ UNCHANGED Panel
    BY <2>1, AssignUpdated
  <2>3. WayOn => WayOn'
    BY <1>4, <2>2, TodosDiffer DEF WayOn, Panel
  <2> QED
    BY <1>4, <2>1, <2>2, <2>3 DEF TodoOK, Panel
<1>5. CASE at = "events" /\ todo = Unlocking
  <2>1. Assign(<<"num", FALSE>>) /\ todo' = Unlocking3
    BY <1>5, LongLists
  <2> QED
    BY <1>5, <2>1, AssignNum DEF TodoOK, WayOn, Unlocking3
<1>6. CASE at = "events" /\ todo = Unlocking3
  <2>1. Assign(<<"lock", FALSE>>) /\ todo' = Unlocking2
    BY <1>6, LongLists
  <2> QED
    BY <1>6, <2>1, AssignLock DEF TodoOK, WayOn, Unlocking2
<1>7. CASE at = "events" /\ todo = Unlocking2
  <2>1. Assign(<<"sensors", TRUE>>) /\ todo' = Refreshing
    BY <1>7, TwoLeft DEF Unlocking2, Refreshing
  <2> QED
    BY <1>7, <2>1, AssignSensors DEF TodoOK, WayOn, Refreshing
<1>8. CASE at = "events" /\ todo = Locking
  <2>1. Assign(<<"num", TRUE>>) /\ todo' = Locking1
    BY <1>8, TwoLeft DEF Locking, Locking1
  <2> QED
    BY <1>8, <2>1, AssignNum DEF TodoOK, WayOn, Locking1
<1>9. CASE at = "events" /\ todo = Locking1
  <2>1. Assign(<<"lock", TRUE>>) /\ todo' = <<>>
    BY <1>9, OneLeft DEF Locking1
  <2>2. s' \in Field /\ s'.lock /\ UNCHANGED <<s.alarm, s.num, s.sensors>>
    BY <2>1, AssignLock
  <2>3. WayOn => WayOn'
    BY <1>9, <2>2, TodosDiffer DEF WayOn
  <2> QED
    BY <1>9, <2>1, <2>2, <2>3 DEF TodoOK
<1>10. CASE at = "viewer" /\ todo \in {Hiding, Hiding1}
  <2>1. /\ Assign(<<"sensors", FALSE>>) \/ Assign(<<"num", FALSE>>)
        /\ todo' \in {Hiding1, <<>>}
    <3>1. CASE todo = Hiding
      BY <3>1, TwoLeft DEF Hiding, Hiding1
    <3>2. CASE todo = Hiding1
      BY <3>2, OneLeft DEF Hiding1
    <3> QED
      BY <1>10, <3>1, <3>2
  <2>2. s' \in Field /\ s'.alarm = s.alarm
    BY <2>1, AssignSensors, AssignNum
  <2> QED
    BY <1>10, <2>1, <2>2 DEF TodoOK, WayOn, Hiding1
<1> QED
  BY <1>3, <1>4, <1>5, <1>6, <1>7, <1>8, <1>9, <1>10 DEF TodoOK

(* The turn of the display thread. *)
LEMMA TurnKeeps ==
  ViewInv /\ (Click \/ DisablePhotoViewer \/ EndEvents \/ Poll \/ Draw) => ViewInv'
<1> SUFFICES ASSUME ViewInv, Click \/ DisablePhotoViewer \/ EndEvents \/ Poll \/ Draw
             PROVE  ViewInv'
  OBVIOUS
<1> USE DEF ViewInv
<1>1. Countdown'
  BY CountdownKept DEF Next
<1>2. ASSUME UNCHANGED <<s, uart>>, right' \in BOOLEAN, TodoOK', WayOn => WayOn'
      PROVE  ViewInv'
  BY <1>1, <1>2, LineUntouched
<1>3. CASE Digit
  <2>1. TodoOK'
    BY <1>3 DEF Digit, Idle, TodoOK, Refreshing
  <2>2. WayOn => WayOn'
    BY <1>3, TodosDiffer DEF Digit, Idle, WayOn
  <2> QED
    BY <1>2, <1>3, <2>1, <2>2 DEF Digit
<1>4. CASE Unlock
  <2>1. TodoOK'
    BY <1>4 DEF Unlock, Idle, TodoOK, Refreshing, Unlocking
  <2>2. WayOn => WayOn'
    BY <1>4, TodosDiffer DEF Unlock, Idle, WayOn
  <2> QED
    BY <1>2, <1>4, <2>1, <2>2 DEF Unlock
<1>5. CASE EnablePhotoViewer
  <2>1. TodoOK' /\ WayOn'
    BY <1>5 DEF EnablePhotoViewer, Idle, TodoOK, WayOn, Hiding
  <2> QED
    BY <1>2, <1>5, <2>1 DEF EnablePhotoViewer
<1>6. CASE DisablePhotoViewer
  <2>1. TodoOK' /\ WayOn'
    BY <1>6 DEF DisablePhotoViewer, Idle, TodoOK, WayOn, Locking
  <2> QED
    BY <1>2, <1>6, <2>1 DEF DisablePhotoViewer
<1>7. CASE EndEvents
  <2>1. TodoOK'
    BY <1>7 DEF EndEvents, Idle, TodoOK
  <2>2. WayOn => WayOn'
    BY <1>7, TodosDiffer DEF EndEvents, Idle, WayOn
  <2> QED
    BY <1>2, <1>7, <2>1, <2>2 DEF EndEvents
<1>8. CASE Poll
  <2>1. TodoOK' /\ UNCHANGED <<uart, right>>
    BY <1>8 DEF Poll, Idle, TodoOK, Taken
  <2>2. s' \in Field /\ UNCHANGED Panel
    <3>1. CASE s.lock
      BY <1>8, <3>1 DEF Poll, Panel
    <3>2. CASE ~s.lock
      <4>1. s.updated \in BOOLEAN /\ Assign(<<"refresh", s.updated>>)
        BY <1>8, <3>2 DEF Poll, Field
      <4> QED
        BY <4>1, AssignRefresh
    <3> QED
      BY <3>1, <3>2
  <2>3. WayOn => WayOn'
    BY <1>8, <2>2, TodosDiffer DEF Poll, Idle, WayOn, Panel
  <2> QED
    BY <1>1, <2>1, <2>2, <2>3, LineUntouched DEF Panel
<1>9. CASE Draw
  <2>1. TodoOK'
    BY <1>9 DEF Draw, Idle, TodoOK, Drawn
  <2>2. WayOn => WayOn'
    BY <1>9, TodosDiffer DEF Draw, Idle, WayOn
  <2> QED
    BY <1>2, <1>9, <2>1, <2>2 DEF Draw
<1> QED
  BY <1>3, <1>4, <1>5, <1>6, <1>7, <1>8, <1>9 DEF Click

LEMMA ViewKept == ViewInv /\ [Next]_vars => ViewInv'
<1>1. ViewInv /\ UNCHANGED vars => ViewInv'
  <2> SUFFICES ASSUME ViewInv, UNCHANGED vars PROVE ViewInv'
    OBVIOUS
  <2>1. Countdown' /\ WayOn' = WayOn /\ TodoOK'
    BY CountdownKept DEF ViewInv, vars, WayOn, TodoOK
  <2> QED
    BY <2>1, LineUntouched DEF ViewInv, vars
<1> QED
  BY <1>1, LineKeeps, LineStepKeeps, ViewStepKeeps, TurnKeeps DEF Next

(* Short lists of what a thread may assign. *)
LEMMA ShortLists ==
  ASSUME NEW S, NEW a \in S, NEW b \in S, NEW c \in S, NEW d \in S
  PROVE  /\ <<>> \in Seq(S) /\ <<a>> \in Seq(S) /\ <<a, b>> \in Seq(S)
         /\ <<a, b, c>> \in Seq(S) /\ <<a, b, c, d>> \in Seq(S)
  OBVIOUS

LEMMA LineLists ==
  /\ <<>> \in Seq(LineAssigns) /\ Refreshing \in Seq(LineAssigns)
  /\ EnableAlarm \in Seq(LineAssigns) /\ Enable3 \in Seq(LineAssigns)
  /\ Enable2 \in Seq(LineAssigns)
  /\ DisableAlarm \in Seq(LineAssigns) /\ Disable2 \in Seq(LineAssigns)
  /\ \A st \in Status : Status1(st) \in Seq(LineAssigns) /\ Status2(st) \in Seq(LineAssigns)
<1>1. /\ <<"updated", TRUE>> \in LineAssigns /\ <<"refresh", TRUE>> \in LineAssigns
      /\ <<"num", FALSE>> \in LineAssigns
      /\ <<"sensors", TRUE>> \in LineAssigns /\ <<"sensors", FALSE>> \in LineAssigns
      /\ <<"alarm", TRUE>> \in LineAssigns /\ <<"alarm", FALSE>> \in LineAssigns
      /\ \A st \in Status : <<"status", st>> \in LineAssigns
  BY DEF LineAssigns
<1> HIDE DEF LineAssigns
<1>2. <<>> \in Seq(LineAssigns) /\ Refreshing \in Seq(LineAssigns)
  BY <1>1, ShortLists DEF Refreshing
<1>3. EnableAlarm \in Seq(LineAssigns)
  BY <1>1, ShortLists, Zenon DEF EnableAlarm
<1>4. Enable3 \in Seq(LineAssigns) /\ DisableAlarm \in Seq(LineAssigns)
  BY <1>1, ShortLists, Zenon DEF Enable3, DisableAlarm
<1>5. Enable2 \in Seq(LineAssigns) /\ Disable2 \in Seq(LineAssigns)
  BY <1>1, ShortLists, Zenon DEF Enable2, Disable2
<1>6. ASSUME NEW st \in Status
      PROVE  Status1(st) \in Seq(LineAssigns) /\ Status2(st) \in Seq(LineAssigns)
  BY <1>1, ShortLists, Zenon DEF Status1, Status2
<1> QED
  BY <1>2, <1>3, <1>4, <1>5, <1>6

LEMMA ViewLists ==
  \A list \in {<<>>, Refreshing, Unlocking, Unlocking3, Unlocking2, Locking, Locking1, Drawn,
               Taken, Hiding, Hiding1} : list \in Seq(ViewAssigns)
<1>1. /\ <<"updated", FALSE>> \in ViewAssigns
      /\ <<"refresh", TRUE>> \in ViewAssigns /\ <<"refresh", FALSE>> \in ViewAssigns
      /\ <<"lock", TRUE>> \in ViewAssigns /\ <<"lock", FALSE>> \in ViewAssigns
      /\ <<"num", TRUE>> \in ViewAssigns /\ <<"num", FALSE>> \in ViewAssigns
      /\ <<"sensors", TRUE>> \in ViewAssigns /\ <<"sensors", FALSE>> \in ViewAssigns
  BY DEF ViewAssigns
<1> HIDE DEF ViewAssigns
<1>2. <<>> \in Seq(ViewAssigns) /\ Refreshing \in Seq(ViewAssigns)
  BY <1>1, ShortLists DEF Refreshing
<1>3. Drawn \in Seq(ViewAssigns) /\ Taken \in Seq(ViewAssigns)
  BY <1>1, ShortLists, Zenon DEF Drawn, Taken
<1>4. Hiding1 \in Seq(ViewAssigns) /\ Locking1 \in Seq(ViewAssigns)
  BY <1>1, ShortLists, Zenon DEF Hiding1, Locking1
<1>5. Hiding \in Seq(ViewAssigns) /\ Locking \in Seq(ViewAssigns)
  BY <1>1, ShortLists, Zenon DEF Hiding, Locking
<1>6. Unlocking2 \in Seq(ViewAssigns)
  BY <1>1, ShortLists, Zenon DEF Unlocking2
<1>7. Unlocking3 \in Seq(ViewAssigns)
  BY <1>1, ShortLists, Zenon DEF Unlocking3
<1>8. Unlocking \in Seq(ViewAssigns)
  BY <1>1, ShortLists, Zenon DEF Unlocking
<1> QED
  BY <1>2, <1>3, <1>4, <1>5, <1>6, <1>7, <1>8

(* The fields are booleans and a status, the display thread is where it may be, and neither
   thread assigns what is the other's, whatever is left of its list (alarm_view.h:31-66). *)
THEOREM TypeCorrect == Spec => []TypeOK
<1>1. ViewInv => TypeOK
  <2> SUFFICES ASSUME ViewInv PROVE TypeOK
    OBVIOUS
  <2>1. uart \in Seq(LineAssigns)
    BY LineLists, Zenon DEF ViewInv, LineOK
  <2>2. todo \in Seq(ViewAssigns)
    BY ViewLists DEF ViewInv, TodoOK
  <2>3. /\ s \in Field /\ at \in {"events", "poll", "draw", "viewer"} /\ right \in BOOLEAN
        /\ ref \in 0 .. Refresh /\ age \in Nat
    BY DEF ViewInv, Countdown, TodoOK
  <2> QED
    BY <2>1, <2>2, <2>3 DEF TypeOK
<1> QED
  BY <1>1, ViewInit, ViewKept, PTL DEF Spec

(* However the lines of the base and the clicks interleave, no lock between
   them (alarm_view.cpp:271-324), the user is left with a way on. *)
THEOREM NeverStuck == Spec => []AlwaysAWayOn
<1>1. ViewInv => AlwaysAWayOn
  <2> SUFFICES ASSUME ViewInv, ~s.alarm, uart = <<>>, Idle("events")
               PROVE  s.sensors \/ (s.lock /\ s.num)
    BY DEF AlwaysAWayOn
  <2>1. WayOn
    BY TwoLeft, ThreeLeft, FourLeft DEF ViewInv, LineOK, EnableAlarm, Enable3, Enable2,
      Disable2, DisableAlarm
  <2> QED
    BY <2>1, TodosDiffer DEF WayOn, Idle
<1> QED
  BY <1>1, ViewInit, ViewKept, PTL DEF Spec
-----------------------------------------------------------------------------
(* A connection that nothing will close: it carries what is sent, and no PONG is missing.  A
   PING that is due at once may share its chunk with the hello. *)
Sound(r, c) ==
  /\ r.up /\ r.alive
  /\ r.done \/ r.pong = "here" \/ (r.pong = "coming" /\ r.pinged = 0)
  /\ r.unread = "hello" => r.tried = 0 /\ (r.pinged = PingEvery => c <= PingEvery)

(* The PING timer, or the wait of now with the PING timer before it, has run for the c calm
   seconds. *)
Owed(r, c) ==
  IF r.done THEN c <= r.pinged ELSE c <= PingEvery + r.pinged /\ c <= PingEvery + PongWithin

(* No try was made in the c calm seconds; a connection that is not sound will be closed, by a
   PING and the wait for its PONG, before RetryEvery of them are over. *)
Waiting(r, c) ==
  /\ c <= r.tried
  /\ r.pong \in {"none", "lost"}
  /\ r.up => r.unread # "hello"
  /\ r.open => Owed(r, c)

(* A try failed in the calm, the socket being open; the next one meets it closed. *)
Failed(r, c) ==
  /\ ~r.up
  /\ c <= r.tried + PingEvery + PongWithin
  /\ \/ r.open /\ Owed(r, c) /\ r.tried <= c
     \/ ~r.open /\ r.done /\ r.pinged <= r.tried /\ c <= r.pinged + PingEvery + PongWithin
     \/ ~r.open /\ ~r.done /\ r.pinged <= PongWithin /\ r.pinged + PingEvery <= r.tried
        /\ c <= r.pinged + 2 * PingEvery + PongWithin

(* The last try was n seconds ago, or up to PongWithin more. *)
After(r, n) == n <= r.tried /\ r.tried <= n + PongWithin

(* A good connection was made in the calm, but a wait for a PONG that will not come closes it:
   one of before, or that of the PING behind the hello.  The next PING, with no connection to
   go to, is waited for in vain as well before the next try is due: this one inherits no wait. *)
Clean(r, c) ==
  /\ c < r.tried + 2 * (PingEvery + PongWithin)
  /\ \/ /\ r.up /\ r.alive /\ ~r.done /\ r.pong \in {"none", "lost"}
        /\ r.tried <= r.pinged /\ r.tried <= PongWithin
     \/ ~r.up /\ ~r.open /\ r.done /\ After(r, r.pinged)
     \/ ~r.up /\ ~r.open /\ ~r.done /\ r.pinged <= PongWithin /\ After(r, r.pinged + PingEvery)
     \/ ~r.up /\ ~r.open /\ r.done /\ r.pinged + PingEvery + PongWithin <= r.tried

Good(r, c) == Sound(r, c) \/ Waiting(r, c) \/ Failed(r, c) \/ Clean(r, c)

(* A PONG is waited for on the connection that was asked, whose socket is open; and what a turn
   leaves behind: no timer that ran out, no PONG unread. *)
Asked(r) ==
  /\ r.pong # "none" => r.up /\ ~r.done
  /\ r.pong = "coming" => r.alive
  /\ r.up => r.open
Pinged(r) == r.pinged < IF r.done THEN PingEvery ELSE PongWithin
Seen(r)   == r.pong # "here"
Fresh(r)  == Pinged(r) /\ Seen(r) /\ (~r.up => r.tried < RetryEvery)

LinkOK == LinkTypeOK /\ Asked(l) /\ (half => calm = 0) /\ (ran => Seen(l))
UpInv == net /\ calm > 0 => Good(l, calm) /\ (ran => Fresh(l))

LEMMA TimersAre ==
  /\ PingEvery \in Nat /\ PongWithin \in Nat /\ RetryEvery \in Nat /\ UpWithin \in Nat
  /\ 0 < PongWithin /\ PongWithin <= PingEvery
  /\ 0 \in 0 .. RetryEvery /\ RetryEvery \in 0 .. RetryEvery /\ 0 \in 0 .. PingEvery
  BY LinkAssumption

LEMMA LaterIs ==
  ASSUME NEW m \in Nat, NEW t \in 0 .. m, NEW n \in Nat
  PROVE  /\ Later(t, n, m) \in 0 .. m
         /\ Later(t, n, m) = t + n \/ (Later(t, n, m) = m /\ t + n > m)
         /\ t + n <= m => Later(t, n, m) = t + n
  BY DEF Later

(* The fields of a link that has been tried. *)
LEMMA ConnectedIs ==
  ASSUME NEW r \in Link
  PROVE  /\ Connected(r) \in Link
         /\ Connected(r).up /\ Connected(r).alive /\ Connected(r).open
         /\ Connected(r).tried = 0 /\ Connected(r).pinged = r.pinged
         /\ Connected(r).done = r.done /\ Connected(r).pong = "none"
         /\ Connected(r).unread = "hello"
<1>1. 0 \in 0 .. RetryEvery
  BY TimersAre
<1>2. Connected(r) \in Link
  BY <1>1 DEF Connected, Link
<1> QED
  BY <1>2 DEF Connected, Link

LEMMA UnconnectedIs ==
  ASSUME NEW r \in Link, NEW n \in {0, RetryEvery}
  PROVE  /\ Unconnected(r, n) \in Link
         /\ ~Unconnected(r, n).up /\ Unconnected(r, n).open = r.open
         /\ Unconnected(r, n).tried = n /\ Unconnected(r, n).done = r.done
         /\ Unconnected(r, n).pong = r.pong
         /\ n = 0 => Unconnected(r, n).pinged = r.pinged
<1>1. n \in 0 .. RetryEvery /\ n \in Nat
  BY TimersAre
<1>2. /\ Later(r.pinged, n, PingEvery) \in 0 .. PingEvery
      /\ n = 0 => Later(r.pinged, n, PingEvery) = r.pinged
  <2>1. r.pinged \in 0 .. PingEvery /\ PingEvery \in Nat
    BY TimersAre DEF Link
  <2>2. Later(r.pinged, n, PingEvery) \in 0 .. PingEvery
    BY <1>1, <2>1, LaterIs
  <2>3. Later(r.pinged, 0, PingEvery) = r.pinged
    BY <2>1 DEF Later
  <2> QED
    BY <2>2, <2>3
<1>3. Unconnected(r, n) \in Link
  BY <1>1, <1>2 DEF Unconnected, Link
<1> QED
  BY <1>2, <1>3 DEF Unconnected, Link

(* Types and Asked *)
LEMMA TryKeeps ==
  ASSUME NEW r \in Link, ~r.up, r.pong = "none", NEW x \in TryConnect(r)
  PROVE  x \in Link /\ Asked(x) /\ Seen(x) /\ x.done = r.done
<1>1. CASE x = Connected(r)
  BY <1>1, ConnectedIs DEF Asked, Seen
<1>2. ASSUME NEW n \in {0, RetryEvery}, x = Unconnected(r, n)
      PROVE  x \in Link /\ Asked(x) /\ Seen(x) /\ x.done = r.done
  BY <1>2, UnconnectedIs DEF Asked, Seen
<1>3. x = Connected(r) \/ \E n \in {0, RetryEvery} : x = Unconnected(r, n)
  BY DEF TryConnect
<1> QED
  BY <1>1, <1>2, <1>3

LEMMA ConnectKeeps ==
  ASSUME NEW r \in Link, ~r.up, r.pong = "none", NEW x \in SocketConnect(r)
  PROVE  x \in Link /\ Asked(x) /\ Seen(x) /\ x.done = r.done
  BY TryKeeps DEF SocketConnect, Asked, Seen

(* A link whose connection was found broken. *)
Found(r) == [r EXCEPT !.up = FALSE, !.pong = "none"]

LEMMA FoundIs ==
  ASSUME NEW r \in Link
  PROVE  /\ Found(r) \in Link /\ ~Found(r).up /\ Found(r).pong = "none"
         /\ Found(r).tried = r.tried /\ Found(r).pinged = r.pinged
         /\ Found(r).done = r.done /\ Found(r).open = r.open
  BY DEF Found, Link

LEMMA BrokenKeeps ==
  ASSUME NEW r \in Link, Asked(r), NEW x \in Broken(r)
  PROVE  x \in Link /\ Asked(x) /\ (Seen(r) => Seen(x)) /\ x.done = r.done
<1>1. CASE x = r
  BY <1>1
<1>2. CASE x \in SocketConnect(Found(r))
  BY <1>2, FoundIs, ConnectKeeps
<1> QED
  BY <1>1, <1>2 DEF Broken, Found

LEMMA PongIs ==
  ASSUME NEW r \in Link
  PROVE  /\ Pong(r) \in Link /\ Pong(r).done /\ Pong(r).pong = "none"
         /\ Pong(r).up = r.up /\ Pong(r).alive = r.alive
         /\ Pong(r).open = r.open /\ Pong(r).unread = r.unread
         /\ Pong(r).tried = r.tried
         /\ Pong(r).pinged = IF r.done THEN r.pinged ELSE 0
<1>1. 0 \in 0 .. PingEvery
  BY TimersAre
<1>2. CASE r.done
  <2>1. Pong(r) = [r EXCEPT !.pong = "none"]
    BY <1>2 DEF Pong
  <2> QED
    BY <1>2, <2>1 DEF Link
<1>3. CASE ~r.done
  <2>1. Pong(r) = [r EXCEPT !.pong = "none", !.done = TRUE, !.pinged = 0]
    BY <1>3 DEF Pong
  <2>2. Pong(r) \in Link
    BY <1>1, <2>1 DEF Link
  <2> QED
    BY <1>3, <2>1, <2>2 DEF Link
<1> QED
  BY <1>2, <1>3

LEMMA GetKeeps ==
  ASSUME NEW r \in Link, Asked(r), NEW x \in SocketGet(r)
  PROVE  x \in Link /\ Asked(x) /\ Seen(x) /\ (r.pong = "lost" => ~x.done)
<1>1. CASE x = r /\ Seen(r)
  BY <1>1 DEF Asked
<1>2. CASE x = Pong(r) /\ r.pong # "lost"
  BY <1>2, PongIs DEF Asked, Seen
<1>3. CASE x \in Broken(r) /\ Seen(r)
  BY <1>3, BrokenKeeps DEF Asked
<1> QED
  BY <1>1, <1>2, <1>3 DEF SocketGet, Asked, Seen

(* A line on its way. *)
WithLine(r) == [r EXCEPT !.unread = "line"]

LEMMA WithLineIs ==
  ASSUME NEW r \in Link
  PROVE  /\ WithLine(r) \in Link /\ WithLine(r).up = r.up /\ WithLine(r).alive = r.alive
         /\ WithLine(r).tried = r.tried /\ WithLine(r).pinged = r.pinged
         /\ WithLine(r).done = r.done /\ WithLine(r).pong = r.pong
         /\ WithLine(r).open = r.open /\ WithLine(r).unread = "line"
  BY DEF WithLine, Link

LEMMA SendKeeps ==
  ASSUME NEW r \in Link, Asked(r), Seen(r), NEW x \in SendLine(r)
  PROVE  x \in Link /\ Asked(x) /\ Seen(x) /\ x.done = r.done
<1>1. CASE x = r
  BY <1>1
<1>2. CASE x = WithLine(r)
  BY <1>2, WithLineIs DEF Asked, Seen
<1>3. CASE x \in Broken(r)
  BY <1>3, BrokenKeeps
<1> QED
  BY <1>1, <1>2, <1>3 DEF SendLine, SocketSend, WithLine

(* What Ping() makes of a connection: a PING is sent, or the wait given up. *)
WithPing(r)  == [r EXCEPT !.pinged = 0, !.done = FALSE]
Asking(r, p) == [WithPing(r) EXCEPT !.pong = p]

LEMMA PingIs ==
  ASSUME NEW r \in Link, NEW x \in Ping(r)
  PROVE  \/ /\ r.done /\ r.pinged = PingEvery
            /\ x \in SocketSend(WithPing(r), {Asking(r, p) : p \in Answers(r)})
         \/ x = r /\ Pinged(r)
         \/ ~r.done /\ r.pinged >= PongWithin /\ x = GivenUp(r)
<1>1. r.pinged \in 0 .. PingEvery
  BY DEF Link
<1>2. CASE r.done
  <2>1. CASE r.pinged = PingEvery
    <3>1. r.pinged >= PingEvery
      BY <2>1, TimersAre
    <3>2. x \in SocketSend(WithPing(r), {Asking(r, p) : p \in Answers(r)})
      BY <1>2, <3>1, Zenon DEF Ping, WithPing, Asking
    <3> QED
      BY <1>2, <2>1, <3>2
  <2>2. CASE r.pinged < PingEvery
    <3>1. ~(r.pinged >= PingEvery)
      BY <1>1, <2>2, TimersAre
    <3>2. x = r
      BY <1>2, <3>1, Zenon DEF Ping
    <3> QED
      BY <1>2, <2>2, <3>2 DEF Pinged
  <2> QED
    BY <1>1, <2>1, <2>2, TimersAre
<1>3. CASE ~r.done
  <2>1. CASE r.pinged >= PongWithin
    BY <1>3, <2>1 DEF Ping
  <2>2. CASE r.pinged < PongWithin
    BY <1>1, <1>3, <2>2, TimersAre DEF Ping, Pinged
  <2> QED
    BY <1>1, <2>1, <2>2, TimersAre
<1> QED
  BY <1>2, <1>3

LEMMA AnswersAre ==
  ASSUME NEW r \in Link, NEW p \in Answers(r)
  PROVE  p = "coming" \/ p = "lost" \/ (p = "none" /\ r.unread = "hello")
<1>1. r.unread \in {"nothing", "hello", "line"}
  BY DEF Link
<1> QED
  BY <1>1 DEF Answers

(* Their fields. *)
LEMMA WithPingIs ==
  ASSUME NEW r \in Link
  PROVE  /\ WithPing(r) \in Link /\ WithPing(r).up = r.up /\ WithPing(r).alive = r.alive
         /\ WithPing(r).tried = r.tried /\ WithPing(r).pinged = 0 /\ ~WithPing(r).done
         /\ WithPing(r).pong = r.pong /\ WithPing(r).open = r.open
         /\ WithPing(r).unread = r.unread
<1>1. 0 \in 0 .. PingEvery
  BY TimersAre
<1> QED
  BY <1>1 DEF WithPing, Link

LEMMA AskingIs ==
  ASSUME NEW r \in Link, NEW p \in {"none", "coming", "lost"}
  PROVE  /\ Asking(r, p) \in Link /\ Asking(r, p).up = r.up /\ Asking(r, p).alive = r.alive
         /\ Asking(r, p).tried = r.tried /\ Asking(r, p).pinged = 0 /\ ~Asking(r, p).done
         /\ Asking(r, p).pong = p /\ Asking(r, p).open = r.open
         /\ Asking(r, p).unread = r.unread
<1> HIDE DEF WithPing
<1> QED
  BY WithPingIs DEF Asking, Link

LEMMA GivenUpIs ==
  ASSUME NEW r \in Link
  PROVE  /\ GivenUp(r) \in Link /\ ~GivenUp(r).up /\ ~GivenUp(r).open /\ GivenUp(r).done
         /\ GivenUp(r).pinged = 0 /\ GivenUp(r).tried = r.tried /\ GivenUp(r).pong = "none"
<1>1. 0 \in 0 .. PingEvery
  BY TimersAre
<1>2. GivenUp(r) \in Link
  BY <1>1 DEF GivenUp, Link
<1> QED
  BY <1>2 DEF GivenUp, Link

LEMMA PingKeeps ==
  ASSUME NEW r \in Link, Asked(r), Seen(r), NEW x \in Ping(r)
  PROVE  x \in Link /\ Asked(x) /\ Seen(x) /\ (r.done \/ x.pong \in {"none", r.pong})
<1>1. CASE r.done /\ x \in SocketSend(WithPing(r), {Asking(r, p) : p \in Answers(r)})
  <2>1. /\ WithPing(r) \in Link /\ Asked(WithPing(r)) /\ Seen(WithPing(r))
        /\ WithPing(r).up = r.up /\ WithPing(r).alive = r.alive
    BY <1>1, WithPingIs DEF Asked, Seen
  <2>2. CASE x = WithPing(r)
    BY <1>1, <2>1, <2>2
  <2>3. CASE x \in Broken(WithPing(r))
    BY <1>1, <2>1, <2>3, BrokenKeeps
  <2>4. CASE r.up /\ r.alive /\ x \in {Asking(r, p) : p \in Answers(r)}
    <3>1. PICK p \in Answers(r) : x = Asking(r, p)
      BY <2>4
    <3>2. p \in {"none", "coming", "lost"}
      BY AnswersAre
    <3> QED
      BY <1>1, <2>4, <3>1, <3>2, AskingIs DEF Asked, Seen
  <2> QED
    BY <1>1, <2>1, <2>2, <2>3, <2>4 DEF SocketSend
<1>2. CASE x = r
  BY <1>2
<1>3. CASE x = GivenUp(r)
  BY <1>3, GivenUpIs DEF Asked, Seen
<1> QED
  BY <1>1, <1>2, <1>3, PingIs

-----------------------------------------------------------------------------
LEMMA ConnectIs ==
  ASSUME net, NEW r \in Link, NEW x \in SocketConnect(r)
  PROVE  /\ r.tried \in 0 .. RetryEvery
         /\ IF r.tried = RetryEvery THEN x = Connected(r) \/ (r.open /\ x = Unconnected(r, 0))
            ELSE x = r
<1>1. r.tried \in 0 .. RetryEvery
  BY DEF Link
<1>2. CASE r.tried = RetryEvery
  <2>1. x \in TryConnect(r)
    BY <1>1, <1>2, TimersAre DEF SocketConnect
  <2>2. x = Connected(r) \/ (r.open /\ x = Unconnected(r, 0))
    BY <2>1 DEF TryConnect
  <2> QED
    BY <1>1, <1>2, <2>2
<1>3. CASE r.tried < RetryEvery
  BY <1>1, <1>3, TimersAre DEF SocketConnect
<1> QED
  BY <1>1, <1>2, <1>3, TimersAre

(* What the lemmas use of the timers. *)
LEMMA StepsAre ==
  ASSUME OutOfStep, NEW r \in Link
  PROVE  /\ PingEvery \in Nat /\ PongWithin \in Nat /\ RetryEvery \in Nat /\ UpWithin \in Nat
         /\ 0 < PongWithin /\ PongWithin <= PingEvery
         /\ PingEvery + 2 * PongWithin <= RetryEvery
         /\ RetryEvery < 2 * PingEvery + PongWithin
         /\ r.tried \in 0 .. RetryEvery /\ r.pinged \in 0 .. PingEvery
  BY TimersAre DEF OutOfStep, Link

(* In the calm: what a turn does to a connection, function by function. *)
LEMMA WaitingTries ==
  ASSUME OutOfStep, net,
         NEW r \in Link, NEW c \in Nat, ~r.up, r.pong = "none", Waiting(r, c),
         r.done /\ r.pinged = PingEvery => c <= PingEvery,
         NEW x \in SocketConnect(r)
  PROVE  Good(x, c) /\ x.done = r.done /\ x.pinged = r.pinged
<1>1. /\ PingEvery \in Nat /\ PongWithin \in Nat /\ RetryEvery \in Nat
      /\ 0 < PongWithin /\ RetryEvery < 2 * PingEvery + PongWithin
      /\ r.tried \in 0 .. RetryEvery /\ r.pinged \in 0 .. PingEvery
  BY StepsAre
<1>2. CASE x = r
  BY <1>2 DEF Good
<1>3. CASE r.tried = RetryEvery /\ x = Connected(r)
  <2>1. /\ x.up /\ x.alive /\ x.tried = 0 /\ x.pinged = r.pinged /\ x.done = r.done
        /\ x.pong = "none" /\ x.unread = "hello"
    BY <1>3, ConnectedIs
  <2>2. CASE r.done
    BY <2>1, <2>2 DEF Good, Sound
  <2>3. CASE ~r.done
    <3>1. c <= RetryEvery
      BY <1>3 DEF Waiting
    <3>2. c < x.tried + 2 * (PingEvery + PongWithin) /\ x.tried <= x.pinged /\ x.tried <= PongWithin
      BY <1>1, <2>1, <3>1
    <3> QED
      BY <2>1, <2>3, <3>2 DEF Good, Clean
  <2> QED
    BY <2>1, <2>2, <2>3
<1>4. CASE r.open /\ x = Unconnected(r, 0)
  <2>1. /\ ~x.up /\ x.tried = 0 /\ x.pinged = r.pinged /\ x.done = r.done
        /\ x.pong = r.pong /\ x.open
    BY <1>4, UnconnectedIs
  <2>2. Owed(r, c)
    BY <1>4 DEF Waiting
  <2>3. c <= PingEvery + PongWithin
    BY <1>1, <2>2 DEF Owed
  <2>4. Owed(x, c)
    BY <2>1, <2>2 DEF Owed
  <2>5. Failed(x, c)
    BY <1>1, <2>1, <2>3, <2>4 DEF Failed
  <2> QED
    BY <2>1, <2>5 DEF Good
<1> QED
  BY <1>2, <1>3, <1>4, ConnectIs

LEMMA BrokenGood ==
  ASSUME OutOfStep, net,
         NEW r \in Link, NEW c \in Nat, r.up, Asked(r), Waiting(r, c),
         NEW x \in Broken(r)
  PROVE  Good(x, c) /\ x.done = r.done /\ x.pinged = r.pinged
<1> DEFINE d == Found(r)
<1>1. /\ d \in Link /\ ~d.up /\ d.tried = r.tried /\ d.done = r.done /\ d.pinged = r.pinged
      /\ d.pong = "none" /\ d.open = r.open
  BY FoundIs
<1>2. x = r \/ x \in SocketConnect(d)
  BY DEF Broken, Found
<1> HIDE DEF d
<1>3. Owed(r, c) /\ c <= r.tried
  BY DEF Asked, Waiting
<1>4. Waiting(d, c)
  BY <1>1, <1>3 DEF Waiting, Owed
<1>5. d.done /\ d.pinged = PingEvery => c <= PingEvery
  BY <1>1, <1>3 DEF Owed
<1>6. CASE x = r
  BY <1>6 DEF Good
<1>7. CASE x \in SocketConnect(d)
  BY <1>1, <1>4, <1>5, <1>7, WaitingTries
<1> QED
  BY <1>2, <1>6, <1>7

LEMMA DeadWaits ==
  ASSUME NEW r, NEW c, Good(r, c), r.up, ~r.alive
  PROVE  Waiting(r, c)
  BY DEF Good, Sound, Failed, Clean

LEMMA GetGood ==
  ASSUME OutOfStep, net,
         NEW r \in Link, Asked(r), NEW c \in Nat, Good(r, c),
         NEW x \in SocketGet(r)
  PROVE  Good(x, c)
<1>1. CASE x = r
  BY <1>1
<1>2. CASE r.up /\ r.pong \in {"here", "coming"} /\ x = Pong(r)
  <2>1. /\ x.up /\ x.done /\ x.pong = "none" /\ x.alive = r.alive /\ x.tried = r.tried
        /\ x.unread = r.unread /\ x.pinged = 0 /\ ~r.done
    BY <1>2, PongIs DEF Asked
  <2>2. CASE r.alive
    <3>1. r.unread = "hello" => r.tried = 0
      BY <1>2, <2>2 DEF Good, Sound, Waiting, Failed, Clean
    <3>2. PingEvery # 0
      BY TimersAre
    <3> QED
      BY <2>1, <2>2, <3>1, <3>2 DEF Good, Sound
  <2>3. CASE ~r.alive
    BY <1>2, <2>3, DeadWaits DEF Waiting, Asked
  <2> QED
    BY <2>2, <2>3
<1>3. CASE r.up /\ ~r.alive /\ x \in Broken(r)
  BY <1>3, DeadWaits, BrokenGood
<1> QED
  BY <1>1, <1>2, <1>3 DEF SocketGet

LEMMA SendGood ==
  ASSUME OutOfStep, net,
         NEW r \in Link, Asked(r), NEW c \in Nat, Good(r, c),
         NEW x \in SendLine(r)
  PROVE  Good(x, c)
<1>1. CASE x = r
  BY <1>1
<1>2. CASE r.up /\ x = WithLine(r)
  <2>1. /\ x.up = r.up /\ x.alive = r.alive /\ x.tried = r.tried /\ x.pinged = r.pinged
        /\ x.done = r.done /\ x.pong = r.pong /\ x.open = r.open /\ x.unread = "line"
    BY <1>2, WithLineIs
  <2>2. Sound(r, c) => Sound(x, c)
    BY <2>1 DEF Sound
  <2>3. Waiting(r, c) => Waiting(x, c)
    BY <2>1 DEF Waiting, Owed
  <2>4. Clean(r, c) => Clean(x, c)
    BY <1>2, <2>1 DEF Clean
  <2> QED
    BY <1>2, <2>2, <2>3, <2>4 DEF Good, Failed
<1>3. CASE r.up /\ ~r.alive /\ x \in Broken(r)
  BY <1>3, DeadWaits, BrokenGood
<1> QED
  BY <1>1, <1>2, <1>3 DEF SendLine, SocketSend, WithLine

(* A PING is due. *)
LEMMA AskGood ==
  ASSUME OutOfStep, net,
         NEW r \in Link, Asked(r), NEW c \in Nat, Good(r, c), r.done, r.pinged = PingEvery,
         NEW x \in SocketSend(WithPing(r), {Asking(r, p) : p \in Answers(r)})
  PROVE  (Good(x, c) \/ x.pong = "lost") /\ Pinged(x)
<1> DEFINE w == WithPing(r)
<1>1. /\ PingEvery \in Nat /\ PongWithin \in Nat /\ RetryEvery \in Nat
      /\ 0 < PongWithin /\ PongWithin <= PingEvery
      /\ PingEvery + 2 * PongWithin <= RetryEvery
      /\ RetryEvery < 2 * PingEvery + PongWithin
      /\ r.tried \in 0 .. RetryEvery
  BY StepsAre
<1>2. /\ w \in Link /\ w.up = r.up /\ w.alive = r.alive /\ w.tried = r.tried
      /\ w.pinged = 0 /\ ~w.done /\ w.pong = "none" /\ w.open = r.open /\ w.unread = r.unread
  BY WithPingIs DEF Asked
<1>3. \/ ~r.up /\ x = w
      \/ r.up /\ r.alive /\ x \in {Asking(r, p) : p \in Answers(r)}
      \/ r.up /\ ~r.alive /\ x \in Broken(w)
  BY <1>2 DEF SocketSend
<1> HIDE DEF w
<1>4. Owed(r, c) => Owed(w, c)
  BY <1>1, <1>2 DEF Owed
<1>5. Waiting(r, c) => Waiting(w, c)
  BY <1>2, <1>4 DEF Waiting
<1>6. CASE ~r.up /\ x = w
  <2>1. Failed(r, c) => Failed(w, c)
    <3>1. CASE r.open
      BY <1>2, <1>4, <1>6, <3>1 DEF Failed
    <3>2. CASE ~r.open
      <4>1. ASSUME r.pinged <= r.tried, c <= r.pinged + PingEvery + PongWithin
            PROVE  /\ w.pinged <= PongWithin /\ w.pinged + PingEvery <= w.tried
                   /\ c <= w.pinged + 2 * PingEvery + PongWithin
        BY <1>1, <1>2, <4>1
      <4> QED
        BY <1>2, <1>6, <3>2, <4>1 DEF Failed
    <3> QED
      BY <3>1, <3>2
  <2>2. Clean(r, c) => Clean(w, c)
    <3>1. ~(r.pinged + PingEvery + PongWithin <= r.tried)
      BY <1>1
    <3>2. After(r, r.pinged) => After(w, w.pinged + PingEvery)
      BY <1>1, <1>2 DEF After
    <3>3. w.pinged <= PongWithin
      BY <1>1, <1>2
    <3> QED
      BY <1>2, <1>6, <3>1, <3>2, <3>3 DEF Clean
  <2> QED
    BY <1>1, <1>2, <1>5, <1>6, <2>1, <2>2 DEF Good, Sound, Pinged
<1>7. CASE r.up /\ r.alive /\ x \in {Asking(r, p) : p \in Answers(r)}
  <2>1. PICK p \in Answers(r) : x = Asking(r, p)
    BY <1>7
  <2>2. p = "coming" \/ p = "lost" \/ (p = "none" /\ r.unread = "hello")
    BY AnswersAre
  <2>3. /\ x.up /\ x.alive /\ x.tried = r.tried /\ x.pinged = 0 /\ ~x.done /\ x.pong = p
        /\ x.unread = r.unread
    BY <1>7, <2>1, <2>2, AskingIs
  <2>4. r.unread = "hello" => r.tried = 0 /\ c <= PingEvery
    BY <1>7 DEF Good, Sound, Waiting, Failed, Clean
  <2>5. p = "coming" => Sound(x, c)
    BY <1>1, <2>3, <2>4 DEF Sound
  <2>6. p = "none" => Clean(x, c)
    <3>1. r.unread = "hello" =>
            /\ c < x.tried + 2 * (PingEvery + PongWithin)
            /\ x.tried <= x.pinged /\ x.tried <= PongWithin
      BY <1>1, <2>3, <2>4
    <3> QED
      BY <2>2, <2>3, <3>1 DEF Clean
  <2> QED
    BY <1>1, <2>2, <2>3, <2>5, <2>6 DEF Good, Pinged
<1>8. CASE r.up /\ ~r.alive /\ x \in Broken(w)
  <2>1. Waiting(w, c) /\ Asked(w)
    BY <1>2, <1>5, <1>8, DeadWaits DEF Asked
  <2>2. Good(x, c) /\ x.done = w.done /\ x.pinged = w.pinged
    BY <1>2, <1>8, <2>1, BrokenGood
  <2> QED
    BY <1>1, <1>2, <2>2 DEF Pinged
<1> QED
  BY <1>3, <1>6, <1>7, <1>8

(* A wait is over. *)
LEMMA GivenUpGood ==
  ASSUME OutOfStep,
         NEW r \in Link, Asked(r), Seen(r), NEW c \in Nat, Good(r, c),
         ~r.done, r.pinged >= PongWithin
  PROVE  Good(GivenUp(r), c) /\ Pinged(GivenUp(r))
<1> DEFINE d == GivenUp(r)
<1>1. /\ PingEvery \in Nat /\ PongWithin \in Nat /\ RetryEvery \in Nat
      /\ 0 < PongWithin /\ PongWithin <= PingEvery
      /\ r.tried \in 0 .. RetryEvery /\ r.pinged \in 0 .. PingEvery
  BY StepsAre
<1>2. ~d.up /\ ~d.open /\ d.done /\ d.pinged = 0 /\ d.tried = r.tried /\ d.pong = "none"
  BY GivenUpIs
<1> HIDE DEF d
<1>3. ~Sound(r, c)
  BY <1>1 DEF Sound, Seen
<1>4. Waiting(r, c) => Waiting(d, c)
  BY <1>2 DEF Waiting
<1>5. ASSUME Failed(r, c) PROVE Failed(d, c) \/ Clean(d, c)
  <2>1. CASE r.open
    <3>1. c <= d.pinged + PingEvery + PongWithin /\ d.pinged <= d.tried
      BY <1>1, <1>2, <1>5, <2>1 DEF Failed, Owed
    <3>2. c <= d.tried + PingEvery + PongWithin
      BY <1>2, <1>5 DEF Failed
    <3> QED
      BY <1>2, <3>1, <3>2 DEF Failed
  <2>2. CASE ~r.open
    <3>1. /\ r.pinged + PingEvery <= r.tried /\ c <= r.tried + PingEvery + PongWithin
      BY <1>5, <2>2 DEF Failed
    <3>2. /\ d.pinged + PingEvery + PongWithin <= d.tried
          /\ c < d.tried + 2 * (PingEvery + PongWithin)
      BY <1>1, <1>2, <3>1
    <3> QED
      BY <1>2, <3>2 DEF Clean
  <2> QED
    BY <2>1, <2>2
<1>6. ASSUME Clean(r, c) PROVE Clean(d, c)
  <2>1. c < d.tried + 2 * (PingEvery + PongWithin)
    BY <1>2, <1>6 DEF Clean
  <2>2. CASE r.up
    <3>1. r.tried <= PongWithin
      BY <1>6, <2>2 DEF Clean
    <3>2. After(d, d.pinged)
      BY <1>1, <1>2, <3>1 DEF After
    <3> QED
      BY <1>2, <2>1, <3>2 DEF Clean
  <2>3. CASE ~r.up
    <3>1. r.pinged <= PongWithin /\ After(r, r.pinged + PingEvery)
      BY <1>6, <2>3 DEF Clean
    <3>2. d.pinged + PingEvery + PongWithin <= d.tried
      BY <1>1, <1>2, <3>1 DEF After
    <3> QED
      BY <1>2, <2>1, <3>2 DEF Clean
  <2> QED
    BY <2>2, <2>3
<1>7. Good(d, c) /\ Pinged(d)
  BY <1>1, <1>2, <1>3, <1>4, <1>5, <1>6 DEF Good, Pinged
<1> QED
  BY <1>7 DEF d

LEMMA PingGood ==
  ASSUME OutOfStep, net,
         NEW r \in Link, Asked(r), Seen(r), NEW c \in Nat, Good(r, c),
         NEW x \in Ping(r)
  PROVE  (Good(x, c) \/ (r.done /\ x.pong = "lost")) /\ Pinged(x)
  BY AskGood, GivenUpGood, PingIs

LEMMA RetryGood ==
  ASSUME OutOfStep, net,
         NEW r \in Link, NEW c \in Nat, Good(r, c), Pinged(r), ~r.up, r.pong = "none",
         NEW x \in SocketConnect(r)
  PROVE  Good(x, c) /\ Pinged(x) /\ (~x.up => x.tried < RetryEvery)
<1>1. /\ PingEvery \in Nat /\ PongWithin \in Nat /\ RetryEvery \in Nat
      /\ 0 < PongWithin /\ PongWithin <= PingEvery
      /\ PingEvery + 2 * PongWithin <= RetryEvery
      /\ RetryEvery < 2 * PingEvery + PongWithin
      /\ r.tried \in 0 .. RetryEvery /\ r.pinged \in 0 .. PingEvery
  BY StepsAre
<1>2. CASE r.tried # RetryEvery
  <2>1. x = r /\ r.tried < RetryEvery
    BY <1>1, <1>2, ConnectIs
  <2> QED
    BY <2>1
<1>3. CASE r.tried = RetryEvery
  <2>1. x = Connected(r) \/ (r.open /\ x = Unconnected(r, 0))
    BY <1>3, ConnectIs
  <2>2. /\ x.pinged = r.pinged /\ x.done = r.done /\ x.tried = 0
        /\ x = Connected(r) => x.up /\ x.alive /\ x.pong = "none" /\ x.unread = "hello"
    BY <2>1, ConnectedIs, UnconnectedIs
  <2>3. Pinged(x) /\ x.tried < RetryEvery
    BY <1>1, <2>2 DEF Pinged
  <2>4. r.done => r.pinged < PingEvery
    BY DEF Pinged
  <2>5. CASE Waiting(r, c)
    <3>1. r.done /\ r.pinged = PingEvery => c <= PingEvery
      BY <1>1, <2>4
    <3> QED
      BY <2>3, <2>5, <3>1, WaitingTries
  <2>6. CASE r.done /\ ~r.open
    <3>1. x.pinged # PingEvery
      BY <1>1, <2>2, <2>4, <2>6
    <3> QED
      BY <2>1, <2>2, <2>3, <2>6, <3>1 DEF Good, Sound
  <2>7. CASE Failed(r, c) /\ ~(r.done /\ ~r.open)
    <3>1. ~r.open
      <4>1. SUFFICES ASSUME r.open PROVE FALSE
        OBVIOUS
      <4>2. Owed(r, c) /\ r.tried <= c
        BY <2>7, <4>1 DEF Failed
      <4>3. c <= PingEvery + PongWithin
        BY <1>1, <4>2 DEF Owed
      <4> QED
        BY <1>1, <1>3, <4>2, <4>3
    <3>2. ~r.done /\ c <= r.pinged + 2 * PingEvery + PongWithin
      BY <2>7, <3>1 DEF Failed
    <3>3. r.pinged < PongWithin
      BY <3>2 DEF Pinged
    <3>4. /\ c < x.tried + 2 * (PingEvery + PongWithin)
          /\ x.tried <= x.pinged /\ x.tried <= PongWithin
      BY <1>1, <2>2, <3>2, <3>3
    <3> QED
      BY <2>1, <2>2, <2>3, <3>1, <3>2, <3>4 DEF Good, Clean
  <2>8. CASE Clean(r, c) /\ ~(r.done /\ ~r.open)
    <3>1. ~r.done /\ After(r, r.pinged + PingEvery)
      BY <2>8 DEF Clean
    <3>2. r.pinged < PongWithin
      BY <3>1 DEF Pinged
    <3> QED
      BY <1>1, <1>3, <3>1, <3>2 DEF After
  <2> QED
    BY <2>5, <2>6, <2>7, <2>8 DEF Good, Sound
<1> QED
  BY <1>2, <1>3

-----------------------------------------------------------------------------
(* The types and Asked, action by action. *)
LEMMA LinkOKInit ==
  LinkInit => LinkOK
<1> SUFFICES ASSUME LinkInit PROVE LinkOK
  OBVIOUS
<1> DEFINE new == [up |-> FALSE, alive |-> FALSE, tried |-> 0, pinged |-> 0,
                   done |-> TRUE, pong |-> "none", open |-> FALSE, unread |-> "nothing"]
<1>1. new \in Link /\ ~new.up /\ new.pong = "none"
  BY TimersAre DEF Link
<1>2. l \in TryConnect(new)
  BY DEF LinkInit
<1> HIDE DEF new
<1>3. l \in Link /\ Asked(l) /\ Seen(l)
  BY <1>1, <1>2, TryKeeps
<1>4. net \in BOOLEAN /\ half = FALSE /\ ran = FALSE /\ calm = 0
  BY DEF LinkInit
<1>5. calm \in 0 .. UpWithin
  BY <1>4, TimersAre
<1> QED
  BY <1>3, <1>4, <1>5 DEF LinkOK, LinkTypeOK, Asked

LEMMA TurnKeepsLink ==
  ASSUME LinkOK, Turn
  PROVE  l' \in Link /\ Asked(l') /\ Seen(l')
<1>1. l \in Link /\ Asked(l)
  BY DEF LinkOK, LinkTypeOK
<1>2. PICK got \in SocketGet(l) :
        \E sent \in {got} \cup SendLine(got) : \E r \in Ping(sent) :
          l' \in IF r.up THEN {r} ELSE SocketConnect(r)
  BY DEF Turn
<1>3. PICK sent \in {got} \cup SendLine(got) : \E r \in Ping(sent) :
        l' \in IF r.up THEN {r} ELSE SocketConnect(r)
  BY <1>2
<1>4. PICK r \in Ping(sent) : l' \in IF r.up THEN {r} ELSE SocketConnect(r)
  BY <1>3
<1>5. got \in Link /\ Asked(got) /\ Seen(got)
  BY <1>1, GetKeeps
<1>6. sent \in Link /\ Asked(sent) /\ Seen(sent)
  BY <1>5, SendKeeps
<1>7. r \in Link /\ Asked(r) /\ Seen(r)
  BY <1>6, PingKeeps
<1>8. CASE ~r.up
  <2>1. r.pong = "none"
    BY <1>7, <1>8 DEF Asked
  <2> QED
    BY <1>4, <1>7, <1>8, <2>1, ConnectKeeps
<1> QED
  BY <1>4, <1>7, <1>8

LEMMA SecondIs ==
  ASSUME l \in Link, NEW late \in BOOLEAN, Second(late)
  PROVE  /\ l' \in Link
         /\ l'.up = l.up /\ l'.alive = l.alive /\ l'.done = l.done /\ l'.open = l.open
         /\ l'.tried = Later(l.tried, 1, RetryEvery)
         /\ l'.pinged = Later(l.pinged, 1, PingEvery)
         /\ l'.pong = IF l.pong = "coming" /\ ~late THEN "here" ELSE l.pong
         /\ l'.unread = IF late THEN l.unread ELSE "nothing"
<1>1. /\ Later(l.tried, 1, RetryEvery) \in 0 .. RetryEvery
      /\ Later(l.pinged, 1, PingEvery) \in 0 .. PingEvery
  BY TimersAre, LaterIs DEF Link
<1>2. /\ (IF l.pong = "coming" /\ ~late THEN "here" ELSE l.pong)
           \in {"none", "coming", "here", "lost"}
      /\ (IF late THEN l.unread ELSE "nothing") \in {"nothing", "hello", "line"}
  BY DEF Link
<1> QED
  BY <1>1, <1>2 DEF Second, Link

LEMMA BreakIs ==
  ASSUME l \in Link, Asked(l), NEW n \in BOOLEAN, Break(n)
  PROVE  l' \in Link /\ Asked(l') /\ (Seen(l) => Seen(l'))
  BY DEF Break, Link, Asked, Seen

LEMMA LinkOKKept ==
  LinkOK /\ [LinkNext]_linkVars => LinkOK'
<1> SUFFICES ASSUME LinkOK, [LinkNext]_linkVars PROVE LinkOK'
  OBVIOUS
<1>1. /\ net \in BOOLEAN /\ half \in BOOLEAN /\ ran \in BOOLEAN /\ l \in Link
      /\ calm \in 0 .. UpWithin /\ Asked(l) /\ (half => calm = 0) /\ (ran => Seen(l))
  BY DEF LinkOK, LinkTypeOK
<1>2. 0 \in 0 .. UpWithin
  BY TimersAre
<1>3. SUFFICES /\ net' \in BOOLEAN /\ half' \in BOOLEAN /\ ran' \in BOOLEAN /\ l' \in Link
               /\ calm' \in 0 .. UpWithin /\ Asked(l') /\ (half' => calm' = 0)
               /\ (ran' => Seen(l'))
  BY DEF LinkOK, LinkTypeOK, Asked, Seen
<1>4. CASE Turn
  <2>1. l' \in Link /\ Asked(l') /\ Seen(l')
    BY <1>4, TurnKeepsLink
  <2>2. calm' \in {0, calm} /\ half' = half /\ net' = net /\ ran'
    BY <1>4 DEF Turn
  <2> QED
    BY <1>1, <1>2, <2>1, <2>2, <1>4 DEF Turn
<1>5. ASSUME NEW late \in BOOLEAN, Second(late) PROVE LinkOK'
  <2>1. l' \in Link /\ Asked(l')
    <3>1. l' \in Link
      BY <1>1, <1>5, SecondIs
    <3>2. Asked(l')
      BY <1>1, <1>5, SecondIs DEF Asked
    <3> QED
      BY <3>1, <3>2
  <2>2. Later(calm, 1, UpWithin) \in 0 .. UpWithin
    BY <1>1, TimersAre, LaterIs
  <2>3. calm' \in 0 .. UpWithin /\ (half' => calm' = 0)
    BY <1>1, <1>2, <1>5, <2>2 DEF Second
  <2>4. net' = net /\ half' = half /\ ran' = FALSE
    BY <1>5 DEF Second
  <2> QED
    BY <1>1, <2>1, <2>3, <2>4 DEF LinkOK, LinkTypeOK, Asked
<1>6. CASE HalfLine
  BY <1>1, <1>2, <1>6 DEF HalfLine
<1>7. CASE NetworkBack
  BY <1>1, <1>2, <1>7 DEF NetworkBack
<1>8. ASSUME NEW n \in BOOLEAN, Break(n /\ net) PROVE LinkOK'
  <2>1. l' \in Link /\ Asked(l') /\ (Seen(l) => Seen(l'))
    BY <1>1, <1>8, BreakIs
  <2>2. net' \in BOOLEAN /\ calm' = 0 /\ half' = half /\ ran' = ran
    BY <1>1, <1>8 DEF Break
  <2> QED
    BY <1>1, <1>2, <2>1, <2>2 DEF LinkOK, LinkTypeOK, Asked, Seen
<1>9. CASE UNCHANGED linkVars
  BY <1>1, <1>9 DEF linkVars
<1> QED
  BY <1>3, <1>4, <1>5, <1>6, <1>7, <1>8, <1>9 DEF LinkNext, LinkOK, LinkTypeOK

-----------------------------------------------------------------------------
(* The invariant, action by action: a turn keeps the calm it is in, or ends it with a PING that
   no one answers; a second adds to it. *)
LEMMA TurnGood ==
  ASSUME OutOfStep, LinkOK, net, calm > 0, calm' > 0, Good(l, calm), Turn
  PROVE  Good(l', calm) /\ Fresh(l')
<1>1. l \in Link /\ Asked(l) /\ calm \in Nat
  BY TimersAre DEF LinkOK, LinkTypeOK
<1>2. PICK got \in SocketGet(l) :
        \E sent \in {got} \cup SendLine(got) : \E r \in Ping(sent) :
          l' \in IF r.up THEN {r} ELSE SocketConnect(r)
  BY DEF Turn
<1>3. PICK sent \in {got} \cup SendLine(got) : \E r \in Ping(sent) :
        l' \in IF r.up THEN {r} ELSE SocketConnect(r)
  BY <1>2
<1>4. PICK r \in Ping(sent) : l' \in IF r.up THEN {r} ELSE SocketConnect(r)
  BY <1>3
<1>5. /\ got \in Link /\ Asked(got) /\ Seen(got) /\ Good(got, calm)
      /\ l.pong = "lost" => ~got.done
  BY <1>1, GetKeeps, GetGood
<1>6. /\ sent \in Link /\ Asked(sent) /\ Seen(sent) /\ Good(sent, calm)
      /\ l.pong = "lost" => ~sent.done
  BY <1>1, <1>5, SendKeeps, SendGood
<1>7. r \in Link /\ Asked(r) /\ Seen(r) /\ Pinged(r)
  BY <1>1, <1>6, PingKeeps, PingGood
<1>8. Good(r, calm) \/ (sent.done /\ r.pong = "lost")
  BY <1>1, <1>6, PingGood
<1>9. ~(sent.done /\ r.pong = "lost")
  <2>1. SUFFICES ASSUME sent.done, r.pong = "lost" PROVE FALSE
    OBVIOUS
  <2>2. l.pong # "lost" /\ r.up
    BY <1>6, <1>7, <2>1 DEF Asked
  <2>3. l'.pong = "lost"
    BY <1>4, <2>1, <2>2
  <2>4. calm' = 0
    BY <2>2, <2>3 DEF Turn
  <2> QED
    BY <2>4
<1>10. CASE r.up
  BY <1>4, <1>7, <1>8, <1>9, <1>10 DEF Fresh
<1>11. CASE ~r.up
  <2>1. r.pong = "none" /\ Good(r, calm)
    BY <1>7, <1>8, <1>9, <1>11 DEF Asked
  <2>2. l' \in SocketConnect(r)
    BY <1>4, <1>11
  <2>3. Seen(l')
    BY <1>7, <1>11, <2>1, <2>2, ConnectKeeps
  <2> QED
    BY <1>1, <1>7, <1>11, <2>1, <2>2, <2>3, RetryGood DEF Fresh
<1> QED
  BY <1>10, <1>11

LEMMA SecondGood ==
  ASSUME OutOfStep, LinkOK, UpInv, net, Second(FALSE), ~half
  PROVE  Good(l', calm')
<1>1. /\ PingEvery \in Nat /\ PongWithin \in Nat /\ RetryEvery \in Nat /\ UpWithin \in Nat
      /\ 0 < PongWithin /\ PongWithin <= PingEvery
      /\ PingEvery + 2 * PongWithin <= RetryEvery
      /\ RetryEvery < 2 * PingEvery + PongWithin
      /\ UpWithin >= RetryEvery + 2 * (PingEvery + PongWithin)
  BY TimersAre DEF OutOfStep
<1>2. /\ l \in Link /\ Asked(l) /\ calm \in 0 .. UpWithin /\ (ran => Seen(l))
      /\ l.tried \in 0 .. RetryEvery /\ l.pinged \in 0 .. PingEvery
      /\ l.pong \in {"none", "coming", "here", "lost"}
  BY DEF LinkOK, LinkTypeOK, Link
<1>3. /\ l'.up = l.up /\ l'.alive = l.alive /\ l'.done = l.done /\ l'.open = l.open
      /\ l'.pong = IF l.pong = "coming" THEN "here" ELSE l.pong
      /\ l'.unread = "nothing"
      /\ l'.tried = Later(l.tried, 1, RetryEvery)
      /\ l'.pinged = Later(l.pinged, 1, PingEvery)
  BY <1>2, SecondIs
<1>4. /\ l'.tried = IF l.tried = RetryEvery THEN RetryEvery ELSE l.tried + 1
      /\ l'.pinged = IF l.pinged = PingEvery THEN PingEvery ELSE l.pinged + 1
  BY <1>1, <1>2, <1>3 DEF Later
<1>5. calm' = IF calm = UpWithin THEN UpWithin ELSE calm + 1
  BY <1>1, <1>2 DEF Second, Later
<1>6. ran /\ Seen(l)
  BY <1>2 DEF Second
<1>7. CASE Sound(l, calm)
  BY <1>3, <1>7 DEF Good, Sound
<1>8. CASE calm = 0 /\ l.pong = "coming"
  <2>1. l'.up /\ l'.alive /\ l'.pong = "here"
    BY <1>2, <1>3, <1>8 DEF Asked
  <2> QED
    BY <1>3, <2>1 DEF Good, Sound
<1>9. CASE calm = 0 /\ l.pong # "coming"
  <2>1. calm' = 1 /\ l'.tried >= 1 /\ l'.pinged >= 1
    BY <1>1, <1>2, <1>4, <1>5, <1>9
  <2>2. Owed(l', 1)
    BY <1>1, <1>2, <1>4, <2>1 DEF Owed
  <2>3. l'.pong \in {"none", "lost"}
    BY <1>2, <1>3, <1>6, <1>9 DEF Seen
  <2> QED
    BY <1>3, <2>1, <2>2, <2>3 DEF Good, Waiting
<1>10. CASE calm > 0 /\ ~Sound(l, calm)
  <2>1. Good(l, calm) /\ Pinged(l) /\ (~l.up => l.tried < RetryEvery)
    BY <1>6, <1>10 DEF UpInv, Fresh
  <2>2. l.pinged < PingEvery /\ (~l.done => l.pinged < PongWithin) /\ l'.pinged = l.pinged + 1
    BY <1>1, <1>2, <1>4, <2>1 DEF Pinged
  <2>3. ASSUME Owed(l, calm), calm < UpWithin PROVE Owed(l', calm')
    <3>1. calm' = calm + 1
      BY <1>1, <1>2, <1>5, <2>3
    <3> QED
      BY <1>1, <1>2, <1>3, <2>2, <2>3, <3>1 DEF Owed
  <2>4. CASE Waiting(l, calm)
    <3>1. l.up \/ l.open => calm <= PingEvery + PongWithin
      BY <1>1, <1>2, <2>4 DEF Waiting, Owed, Asked
    <3>2. calm < RetryEvery
      <4>1. CASE ~l.up
        BY <1>1, <1>2, <2>1, <2>4, <4>1 DEF Waiting
      <4>2. CASE l.up
        BY <1>1, <1>2, <3>1, <4>2
      <4> QED
        BY <4>1, <4>2
    <3>3. calm' <= l'.tried /\ calm < UpWithin
      <4>1. calm <= l.tried
        BY <2>4 DEF Waiting
      <4> QED
        BY <1>1, <1>2, <1>4, <1>5, <3>2, <4>1
    <3>4. l'.pong \in {"none", "lost"} /\ l'.unread = "nothing"
      BY <1>3, <2>4 DEF Waiting
    <3> QED
      BY <1>3, <2>3, <2>4, <3>3, <3>4 DEF Good, Waiting
  <2>5. CASE Failed(l, calm)
    <3>1. l.tried < RetryEvery /\ calm <= l.tried + PingEvery + PongWithin
      BY <2>1, <2>5 DEF Failed
    <3>2. l'.tried = l.tried + 1 /\ calm' = calm + 1 /\ calm < UpWithin
      BY <1>1, <1>2, <1>4, <1>5, <3>1
    <3>3. ~l'.up /\ calm' <= l'.tried + PingEvery + PongWithin
      BY <1>1, <1>2, <1>3, <2>5, <3>1, <3>2 DEF Failed
    <3>4. CASE l.open
      <4>1. Owed(l', calm') /\ l'.tried <= calm'
        BY <1>1, <1>2, <2>3, <2>5, <3>2, <3>4 DEF Failed
      <4> QED
        BY <1>3, <3>3, <3>4, <4>1 DEF Good, Failed
    <3>5. CASE ~l.open /\ l.done
      <4>1. l.pinged <= l.tried /\ calm <= l.pinged + PingEvery + PongWithin
        BY <2>5, <3>5 DEF Failed
      <4>2. l'.pinged <= l'.tried /\ calm' <= l'.pinged + PingEvery + PongWithin
        BY <1>1, <1>2, <2>2, <3>2, <4>1
      <4> QED
        BY <1>3, <3>3, <3>5, <4>2 DEF Good, Failed
    <3>6. CASE ~l.open /\ ~l.done
      <4>1. l.pinged + PingEvery <= l.tried /\ calm <= l.pinged + 2 * PingEvery + PongWithin
        BY <2>5, <3>6 DEF Failed
      <4>2. /\ l'.pinged <= PongWithin /\ l'.pinged + PingEvery <= l'.tried
            /\ calm' <= l'.pinged + 2 * PingEvery + PongWithin
        BY <1>1, <1>2, <2>2, <3>2, <3>6, <4>1
      <4> QED
        BY <1>3, <3>3, <3>6, <4>2 DEF Good, Failed
    <3> QED
      BY <3>4, <3>5, <3>6
  <2>6. CASE Clean(l, calm)
    <3>1. l.tried < RetryEvery
      <4>1. CASE l.up
        BY <1>1, <1>2, <2>6, <4>1 DEF Clean
      <4> QED
        BY <2>1, <4>1
    <3>2. l'.tried = l.tried + 1
      BY <1>1, <1>2, <1>4, <3>1
    <3>3. calm < l.tried + 2 * (PingEvery + PongWithin)
      BY <2>6 DEF Clean
    <3>4. calm' < l'.tried + 2 * (PingEvery + PongWithin)
      BY <1>1, <1>2, <1>5, <3>1, <3>2, <3>3
    <3>5. CASE l.up
      <4>1. /\ l.alive /\ ~l.done /\ l.pong \in {"none", "lost"}
            /\ l.tried <= l.pinged /\ l.tried <= PongWithin
        BY <2>6, <3>5 DEF Clean
      <4>2. l'.tried <= l'.pinged /\ l'.tried <= PongWithin
        BY <1>1, <1>2, <2>2, <3>2, <4>1
      <4>3. l'.pong \in {"none", "lost"}
        BY <1>3, <4>1
      <4> QED
        BY <1>3, <3>4, <3>5, <4>1, <4>2, <4>3 DEF Good, Clean
    <3>6. CASE ~l.up
      <4>1. /\ After(l, l.pinged) => After(l', l'.pinged)
            /\ After(l, l.pinged + PingEvery) => After(l', l'.pinged + PingEvery)
        BY <1>1, <1>2, <2>2, <3>2 DEF After
      <4>2. l.pinged + PingEvery + PongWithin <= l.tried
              => l'.pinged + PingEvery + PongWithin <= l'.tried
        BY <1>1, <1>2, <2>2, <3>2
      <4>3. ~l.done => l'.pinged <= PongWithin
        BY <1>1, <1>2, <2>2
      <4> QED
        BY <1>3, <2>6, <3>4, <3>6, <4>1, <4>2, <4>3 DEF Good, Clean
    <3> QED
      BY <3>5, <3>6
  <2> QED
    BY <1>10, <2>1, <2>4, <2>5, <2>6 DEF Good
<1> QED
  BY <1>1, <1>2, <1>7, <1>8, <1>9, <1>10

LEMMA UpKept ==
  ASSUME OutOfStep
  PROVE  LinkOK /\ UpInv /\ [LinkNext]_linkVars => UpInv'
<1> SUFFICES ASSUME LinkOK, UpInv, [LinkNext]_linkVars PROVE UpInv'
  OBVIOUS
<1>1. SUFFICES ASSUME net', calm' > 0 PROVE Good(l', calm') /\ (ran' => Fresh(l'))
  BY DEF UpInv, Good, Sound, Waiting, Owed, Failed, Clean, After, Fresh, Pinged, Seen
<1>2. calm' # 0
  BY <1>1
<1>3. CASE Turn
  <2>1. net' = net /\ calm' = calm
    BY <1>2, <1>3 DEF Turn
  <2>2. Good(l, calm)
    BY <1>1, <2>1 DEF UpInv
  <2> QED
    BY <1>1, <1>3, <2>1, <2>2, TurnGood
<1>4. ASSUME NEW late \in BOOLEAN, Second(late)
      PROVE  Good(l', calm') /\ (ran' => Fresh(l'))
  <2>1. ~half /\ net /\ ~ran' /\ late = FALSE
    BY <1>1, <1>2, <1>4 DEF Second
  <2> QED
    BY <1>4, <2>1, SecondGood
<1>5. CASE HalfLine \/ NetworkBack \/ \E n \in BOOLEAN : Break(n /\ net)
  <2>1. calm' = 0
    BY <1>5 DEF HalfLine, NetworkBack, Break
  <2> QED
    BY <1>2, <2>1
<1>6. CASE UNCHANGED linkVars
  BY <1>1, <1>6 DEF UpInv, linkVars
<1> QED
  BY <1>3, <1>4, <1>5, <1>6 DEF LinkNext

(* Only Sound lasts so long. *)
LEMMA UpEnough ==
  ASSUME OutOfStep
  PROVE  LinkOK /\ UpInv => UpInTime
<1> SUFFICES ASSUME LinkOK, UpInv, calm = UpWithin, net PROVE l.up /\ l.alive
  BY DEF UpInTime
<1>1. l \in Link
  BY DEF LinkOK, LinkTypeOK
<1>2. /\ PingEvery \in Nat /\ PongWithin \in Nat /\ RetryEvery \in Nat /\ UpWithin \in Nat
      /\ 0 < PongWithin /\ l.tried \in 0 .. RetryEvery
  BY <1>1, StepsAre
<1>3. UpWithin >= RetryEvery + 2 * (PingEvery + PongWithin)
  BY DEF OutOfStep
<1>4. Good(l, calm)
  BY <1>2, <1>3 DEF UpInv
<1>5. ~Waiting(l, calm) /\ ~Failed(l, calm) /\ ~Clean(l, calm)
  BY <1>2, <1>3 DEF Waiting, Failed, Clean
<1> QED
  BY <1>4, <1>5 DEF Good, Sound

(* The connection's fields keep their types and the timers their limits, and a PONG is awaited
   only on the connection that was asked (uart_com.cpp:62-76,188-192), for every choice of PING,
   PONG and retry times. *)
THEOREM LinkTypeCorrect ==
  LinkSpec => []LinkTypeOK
<1>1. LinkOK => LinkTypeOK
  BY DEF LinkOK
<1> QED
  BY <1>1, LinkOKInit, LinkOKKept, PTL DEF LinkSpec

(* The connection recovers: UpWithin seconds after the last disturbance it is up, though
   pingDone outlives the connection it was for (uart_com.cpp:62-80,202-219), the first PING may
   share its chunk with the hello (bridge.js:34-40), and a try on a socket that was not closed
   may fail. *)
THEOREM ServerUpInTime ==
  ASSUME OutOfStep
  PROVE  LinkSpec => []UpInTime
<1>1. LinkInit => UpInv
  BY DEF LinkInit, UpInv
<1>2. LinkOK /\ UpInv => UpInTime
  BY UpEnough
<1>3. LinkOK /\ UpInv /\ [LinkNext]_linkVars => UpInv'
  BY UpKept
<1>4. LinkOK /\ [LinkNext]_linkVars => LinkOK'
  BY LinkOKKept
<1> QED
  BY <1>1, <1>2, <1>3, <1>4, LinkOKInit, PTL DEF LinkSpec
=============================================================================
