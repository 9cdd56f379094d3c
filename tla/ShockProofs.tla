----------------------------- MODULE ShockProofs -----------------------------
(***************************************************************************)
(* Theorems about ShockSensor, for any two periods: a tap is told in time  *)
(* unless it fell into the one window that loses it, and reports are true. *)
(* The receive interrupt may come at any statement, so the invariant says  *)
(* for each of them what a tap found there leaves behind.                  *)
(***************************************************************************)
EXTENDS ShockSensor, Integers, TLAPS

Pending == unreported /\ ~inWindow

(* While the process runs, its timer has just been started anew. *)
JustArmed == pc # "wait" => timer = SendInterval

(* A pending tap is young enough that the timer fires before it is one period
   old. *)
FiresInTime == pc = "wait" /\ Pending => sinceIntrusion + timer <= SendInterval

(* Only a tap found at the expiry test can tear timeIntrusion. *)
TornAtTest == torn => pc = "test" /\ inWindow /\ sinceIntrusion = 0

TestsEmergency == pc = "test" => waitEmergency /\ status = STATUS_EMERGENCY

(* The emergency that is being ended leaves no pending tap. *)
EndsReported == pc \in {"expired", "end"} => waitEmergency /\ ~Pending

(* After waitEmergency=0 only a new tap can have set it again. *)
SetAnew == pc = "clear" => (waitEmergency => unreported /\ sinceIntrusion = 0)

(* The status is not left at EMERGENCY, whichever of flag and status is
   cleared first. *)
NotLeft ==
  /\ pc = "wait" /\ status = STATUS_EMERGENCY => waitEmergency
  /\ pc = "end" => status = STATUS_OK

IInv ==
  /\ TypeOK
  /\ JustArmed /\ FiresInTime /\ TornAtTest /\ TestsEmergency
  /\ EndsReported /\ SetAnew /\ NotLeft
  /\ TapLostInWindowOnly /\ ReportIsTrue

USE DEF JustArmed, FiresInTime, TornAtTest, TestsEmergency, EndsReported, SetAnew,
        NotLeft, TapLostInWindowOnly, ReportIsTrue, Pending,
        ReportedStatus, STATUS_OK, STATUS_EMERGENCY

-----------------------------------------------------------------------------
(* Where the process starts: Init, and a jump to the reset vector. *)
LEMMA Initially == Init => IInv
<1> SUFFICES ASSUME Init PROVE IInv
  OBVIOUS
<1>1. TypeOK
  <2>1. waitEmergency \in BOOLEAN /\ torn \in BOOLEAN /\ unreported \in BOOLEAN
        /\ inWindow \in BOOLEAN
    BY DEF Init
  <2>2. /\ status \in ReportedStatus
        /\ sinceIntrusion \in 0 .. EmergencyTime
        /\ timer \in 0 .. SendInterval
        /\ led \in {0, 1}
        /\ pc \in {"wait", "test", "expired", "end", "clear", "send"}
        /\ sent = {}
    BY ShockAssumption DEF Init
  <2> QED
    BY <2>1, <2>2 DEF TypeOK
<1>2. JustArmed /\ FiresInTime /\ TornAtTest /\ TestsEmergency
  BY DEF Init
<1>3. EndsReported /\ SetAnew /\ NotLeft
  BY DEF Init
<1>4. TapLostInWindowOnly /\ ReportIsTrue
  BY DEF Init
<1> QED
  BY <1>1, <1>2, <1>3, <1>4 DEF IInv

(* The interrupt, wherever the process is. *)
LEMMA TapKeepsIInv == IInv /\ Tap => IInv'
<1> SUFFICES ASSUME IInv, Tap PROVE IInv'
  OBVIOUS
<1>1. /\ waitEmergency' = TRUE /\ unreported' = TRUE /\ sinceIntrusion' = 0
      /\ torn' <=> pc = "test"
      /\ inWindow' <=> pc \in {"test", "expired", "end"}
      /\ status' = status /\ timer' = timer /\ led' = led /\ pc' = pc /\ sent' = {}
  BY DEF Tap
<1>2. TypeOK'
  <2>1. waitEmergency' \in BOOLEAN /\ torn' \in BOOLEAN /\ unreported' \in BOOLEAN
        /\ inWindow' \in BOOLEAN
    BY DEF Tap
  <2>2. status' \in ReportedStatus /\ sinceIntrusion' \in 0 .. EmergencyTime
        /\ timer' \in 0 .. SendInterval /\ led' \in {0, 1}
        /\ pc' \in {"wait", "test", "expired", "end", "clear", "send"}
    BY <1>1, ShockAssumption DEF IInv, TypeOK
  <2> QED
    BY <1>1, <2>1, <2>2 DEF TypeOK
<1>3. JustArmed' /\ FiresInTime' /\ TornAtTest' /\ TestsEmergency'
  BY <1>1, ShockAssumption DEF IInv, TypeOK
<1>4. EndsReported' /\ SetAnew' /\ NotLeft'
  BY <1>1, ShockAssumption DEF IInv, TypeOK
<1>5. TapLostInWindowOnly' /\ ReportIsTrue'
  BY <1>1, ShockAssumption DEF IInv, TypeOK
<1> QED
  BY <1>2, <1>3, <1>4, <1>5 DEF IInv

(* The statements of the process. *)
LEMMA ProcessKeepsIInv == IInv /\ Process => IInv'
<1> SUFFICES ASSUME IInv, Process PROVE IInv'
  OBVIOUS
<1>1. CASE Wake
  <2>1. TypeOK'
    <3>1. waitEmergency' \in BOOLEAN /\ torn' \in BOOLEAN /\ unreported' \in BOOLEAN
          /\ inWindow' \in BOOLEAN
      BY <1>1 DEF Wake, IInv, TypeOK
    <3>2. status' \in ReportedStatus /\ sinceIntrusion' \in 0 .. EmergencyTime
          /\ timer' \in 0 .. SendInterval /\ led' \in {0, 1}
          /\ pc' \in {"wait", "test", "expired", "end", "clear", "send"} /\ sent' = {}
      BY <1>1, ShockAssumption DEF Wake, IInv, TypeOK
    <3> QED
      BY <3>1, <3>2 DEF TypeOK
  <2>2. JustArmed' /\ FiresInTime' /\ TornAtTest' /\ TestsEmergency'
    BY <1>1, ShockAssumption DEF Wake, IInv, TypeOK
  <2>3. EndsReported' /\ SetAnew' /\ NotLeft'
    BY <1>1, ShockAssumption DEF Wake, IInv, TypeOK
  <2>4. TapLostInWindowOnly' /\ ReportIsTrue'
    BY <1>1, ShockAssumption DEF Wake, IInv, TypeOK
  <2> QED
    BY <2>1, <2>2, <2>3, <2>4 DEF IInv
<1>2. CASE TestExpiry
  <2>0. torn \/ pc' = "send" \/ sinceIntrusion >= EmergencyTime
    BY <1>2 DEF TestExpiry, HasExpired
  <2>01. torn \/ pc' = "expired" \/ ~(sinceIntrusion >= EmergencyTime)
    BY <1>2 DEF TestExpiry, HasExpired
  <2>02. /\ pc = "test" /\ pc' \in {"expired", "send"} /\ torn' = FALSE /\ sent' = {}
         /\ waitEmergency' = waitEmergency /\ status' = status /\ timer' = timer
         /\ sinceIntrusion' = sinceIntrusion /\ led' = led
         /\ unreported' = unreported /\ inWindow' = inWindow
    BY <1>2 DEF TestExpiry
  <2>1. TypeOK'
    BY <2>02, ShockAssumption DEF IInv, TypeOK
  <2>2. JustArmed' /\ FiresInTime' /\ TornAtTest' /\ TestsEmergency'
    BY <2>02, ShockAssumption DEF IInv, TypeOK
  <2>3. EndsReported' /\ SetAnew' /\ NotLeft'
    BY <2>0, <2>02, ShockAssumption DEF IInv, TypeOK
  <2>4. TapLostInWindowOnly' /\ ReportIsTrue'
    BY <2>01, <2>02, ShockAssumption DEF IInv, TypeOK
  <2> QED
    BY <2>1, <2>2, <2>3, <2>4 DEF IInv
<1>3. CASE EndEmergency
  <2>1. TypeOK'
    BY <1>3, ShockAssumption DEF EndEmergency, IInv, TypeOK
  <2>2. JustArmed' /\ FiresInTime' /\ TornAtTest' /\ TestsEmergency'
    BY <1>3, ShockAssumption DEF EndEmergency, IInv, TypeOK
  <2>3. EndsReported' /\ SetAnew' /\ NotLeft'
    BY <1>3, ShockAssumption DEF EndEmergency, IInv, TypeOK
  <2>4. TapLostInWindowOnly' /\ ReportIsTrue'
    BY <1>3, ShockAssumption DEF EndEmergency, IInv, TypeOK
  <2> QED
    BY <2>1, <2>2, <2>3, <2>4 DEF IInv
<1>4. CASE ClearStatus
  <2>1. TypeOK'
    BY <1>4, ShockAssumption DEF ClearStatus, IInv, TypeOK
  <2>2. JustArmed' /\ FiresInTime' /\ TornAtTest' /\ TestsEmergency'
    BY <1>4, ShockAssumption DEF ClearStatus, IInv, TypeOK
  <2>3. EndsReported' /\ SetAnew' /\ NotLeft'
    BY <1>4, ShockAssumption DEF ClearStatus, IInv, TypeOK
  <2>4. TapLostInWindowOnly' /\ ReportIsTrue'
    BY <1>4, ShockAssumption DEF ClearStatus, IInv, TypeOK
  <2> QED
    BY <2>1, <2>2, <2>3, <2>4 DEF IInv
<1>5. CASE Report
  <2>1. TypeOK'
    BY <1>5, ShockAssumption DEF Report, IInv, TypeOK
  <2>2. JustArmed' /\ FiresInTime' /\ TornAtTest' /\ TestsEmergency'
    <3>1. Pending' => Pending /\ status # STATUS_EMERGENCY
      BY <1>5 DEF Report
    <3>2. Pending' => sinceIntrusion = 0
      BY <1>5, <3>1 DEF Report, IInv
    <3>3. sinceIntrusion' = sinceIntrusion /\ timer' = timer /\ timer = SendInterval
          /\ pc' = "wait" /\ ~torn'
      BY <1>5 DEF Report, IInv
    <3> QED
      BY <3>2, <3>3, ShockAssumption
  <2>3. EndsReported' /\ SetAnew' /\ NotLeft'
    BY <1>5, ShockAssumption DEF Report, IInv, TypeOK
  <2>4. TapLostInWindowOnly' /\ ReportIsTrue'
    BY <1>5, ShockAssumption DEF Report, IInv, TypeOK
  <2> QED
    BY <2>1, <2>2, <2>3, <2>4 DEF IInv
<1> QED
  BY <1>1, <1>2, <1>3, <1>4, <1>5 DEF Process

-----------------------------------------------------------------------------
(* Everything else that can happen. *)
LEMMA Preserved == IInv /\ [Next]_vars => IInv'
<1> SUFFICES ASSUME IInv, [Next]_vars PROVE IInv'
  OBVIOUS
<1>1. CASE Tap
  BY <1>1, TapKeepsIInv
<1>2. CASE Process
  BY <1>2, ProcessKeepsIInv
<1>3. CASE Second
  <2>1. TypeOK'
    BY <1>3, ShockAssumption DEF Second, IInv, TypeOK
  <2>2. JustArmed' /\ FiresInTime' /\ TornAtTest' /\ TestsEmergency'
    BY <1>3, ShockAssumption DEF Second, IInv, TypeOK
  <2>3. EndsReported' /\ SetAnew' /\ NotLeft'
    BY <1>3, ShockAssumption DEF Second, IInv, TypeOK
  <2>4. TapLostInWindowOnly' /\ ReportIsTrue'
    BY <1>3, ShockAssumption DEF Second, IInv, TypeOK
  <2> QED
    BY <2>1, <2>2, <2>3, <2>4 DEF IInv
<1>4. ASSUME NEW m \in {PollMsg(MY_ID), LockMsg, UnlockMsg}, Receive(m) PROVE IInv'
  <2>1. TypeOK'
    BY <1>4, ShockAssumption DEF Receive, IInv, TypeOK
  <2>2. IInv'
    BY <1>4, <2>1 DEF Receive, IInv
  <2> QED
    BY <2>2
<1>5. CASE Restart
  <2>1. TypeOK'
    <3>1. waitEmergency' \in BOOLEAN /\ torn' \in BOOLEAN /\ unreported' \in BOOLEAN
          /\ inWindow' \in BOOLEAN
      BY <1>5 DEF Restart
    <3>2. /\ status' \in ReportedStatus
          /\ sinceIntrusion' \in 0 .. EmergencyTime
          /\ timer' \in 0 .. SendInterval
          /\ led' \in {0, 1}
          /\ pc' \in {"wait", "test", "expired", "end", "clear", "send"}
          /\ sent' = {}
      BY <1>5, ShockAssumption DEF Restart
    <3> QED
      BY <3>1, <3>2 DEF TypeOK
  <2>2. IInv'
    BY <1>5, <2>1 DEF Restart, IInv
  <2> QED
    BY <2>2
<1>6. CASE UNCHANGED vars
  BY <1>6 DEF vars, IInv, TypeOK
<1> QED
  BY <1>1, <1>2, <1>3, <1>4, <1>5, <1>6 DEF Next

LEMMA Invariant == Spec => []IInv
  BY Initially, Preserved, PTL DEF Spec

-----------------------------------------------------------------------------
(* The sensor's variables keep their ranges, in particular its two ages and
   what it sends (e-protect-sensor-1.c:86-131). *)
THEOREM TypeCorrect == Spec => []TypeOK
<1>1. IInv => TypeOK
  BY DEF IInv
<1> QED
  BY <1>1, Invariant, PTL

(* A tap outside the window between expiry test and waitEmergency=0 is told
   within one period, for any period (e-protect-sensor-1.c:53-62,110-123). *)
THEOREM OnlyTheWindowLoses == Spec => []TapLostInWindowOnly
<1>1. IInv => TapLostInWindowOnly
  BY DEF IInv
<1> QED
  BY <1>1, Invariant, PTL

(* No periodic report is stale, whatever statement the interrupt came at and
   in whichever order the compiler stores flag and status
   (e-protect-sensor-1.c:110-126). *)
THEOREM ReportsAreTrue == Spec => []ReportIsTrue
<1>1. IInv => ReportIsTrue
  BY DEF IInv
<1> QED
  BY <1>1, Invariant, PTL
=============================================================================
