------------------------------ MODULE PirProofs ------------------------------
(***************************************************************************)
(* Theorems about PirSensor: whatever the edge limit and the two periods,  *)
(* an intrusion is reported within one period and reports are true.  The   *)
(* argument is one inductive invariant that says, for each point at which  *)
(* the process can be interrupted, what an intrusion found there leaves.   *)
(*                                                                         *)
(* And about IntrusionLink: whatever the patience of the base too, how many *)
(* messages must be lost before it is deceived.  There the invariant is an *)
(* account: the reports and answers due so far, against those lost and those *)
(* on the air.                                                             *)
(***************************************************************************)
EXTENDS IntrusionLink, Integers, TLAPS

(* While the process runs, its timer has just been started anew. *)
JustArmed == pc # "wait" => timer = SendInterval

(* An intrusion waiting for its report is young enough that the timer fires
   before it is one period old. *)
FiresInTime == pc = "wait" /\ unreported => sinceIntrusion + timer <= SendInterval

(* The emergency that is being ended has been reported. *)
EndsReported == pc \in {"expired", "end"} => waitEmergency /\ ~unreported

(* After waitEmergency=0 only a new intrusion can have set it again. *)
SetAnew == pc = "clear" => (waitEmergency => unreported /\ sinceIntrusion = 0)

(* The status is not left at EMERGENCY, whichever of flag and status is
   cleared first. *)
NotLeft ==
  /\ pc = "wait" /\ status = STATUS_EMERGENCY => waitEmergency
  /\ pc = "end" => status = STATUS_OK

IInv ==
  /\ TypeOK
  /\ JustArmed /\ FiresInTime /\ EndsReported /\ SetAnew /\ NotLeft
  /\ ReportedInTime /\ ReportIsTrue

USE DEF JustArmed, FiresInTime, EndsReported, SetAnew, NotLeft, ReportedInTime,
        ReportIsTrue, ReportedStatus, STATUS_OK, STATUS_EMERGENCY

-----------------------------------------------------------------------------
LEMMA Initially == Init => IInv
<1> SUFFICES ASSUME Init PROVE IInv
  OBVIOUS
<1>1. TypeOK
  <2>1. waitEmergency \in BOOLEAN /\ unreported \in BOOLEAN
    BY DEF Init
  <2>2. /\ counter \in 0 .. EdgeLimit
        /\ status \in ReportedStatus
        /\ sinceIntrusion \in 0 .. EmergencyTime
        /\ timer \in 0 .. SendInterval
        /\ pc \in {"wait", "expired", "end", "clear", "send"}
        /\ sent = {}
    BY PirAssumption DEF Init
  <2> QED
    BY <2>1, <2>2 DEF TypeOK
<1>2. JustArmed /\ FiresInTime
  BY DEF Init
<1>3. EndsReported /\ SetAnew /\ NotLeft
  BY DEF Init
<1>4. ReportedInTime /\ ReportIsTrue
  BY DEF Init
<1> QED
  BY <1>1, <1>2, <1>3, <1>4 DEF IInv

(* The interrupt, wherever the process is. *)
LEMMA EdgeKeepsIInv == IInv /\ Edge => IInv'
<1> SUFFICES ASSUME IInv, Edge PROVE IInv'
  OBVIOUS
<1>1. CASE EdgeCounted
  BY <1>1, PirAssumption, SMT DEF Edge, EdgeCounted, IInv, TypeOK
<1>2. CASE EdgeIsIntrusion
  BY <1>2, PirAssumption, SMT DEF Edge, EdgeIsIntrusion, IInv, TypeOK
<1>3. CASE EdgeIgnored
  BY <1>3, PirAssumption, SMT DEF Edge, EdgeIgnored, IInv, TypeOK
<1> QED
  BY <1>1, <1>2, <1>3 DEF Edge

(* The statements of the process. *)
LEMMA ProcessKeepsIInv == IInv /\ Process => IInv'
<1> SUFFICES ASSUME IInv, Process PROVE IInv'
  OBVIOUS
<1>1. CASE Wake
  BY <1>1, PirAssumption, SMT DEF Wake, IInv, TypeOK
<1>2. CASE EndEmergency
  <2>1. TypeOK'
    BY <1>2, PirAssumption DEF EndEmergency, IInv, TypeOK
  <2>2. JustArmed' /\ FiresInTime'
    BY <1>2, PirAssumption DEF EndEmergency, IInv, TypeOK
  <2>3. EndsReported' /\ SetAnew' /\ NotLeft'
    BY <1>2, PirAssumption DEF EndEmergency, IInv, TypeOK
  <2>4. ReportedInTime' /\ ReportIsTrue'
    BY <1>2, PirAssumption DEF EndEmergency, IInv, TypeOK
  <2> QED
    BY <2>1, <2>2, <2>3, <2>4 DEF IInv
<1>3. CASE ClearStatus
  BY <1>3, PirAssumption, SMT DEF ClearStatus, IInv, TypeOK
<1>4. CASE Report
  <2>1. TypeOK'
    BY <1>4, PirAssumption DEF Report, IInv, TypeOK
  <2>2. JustArmed' /\ FiresInTime'
    <3>1. unreported' => unreported /\ status # STATUS_EMERGENCY
      BY <1>4 DEF Report
    <3>2. unreported' => sinceIntrusion = 0
      BY <1>4, <3>1 DEF Report, IInv
    <3>3. sinceIntrusion' = sinceIntrusion /\ timer' = timer /\ timer = SendInterval /\ pc' = "wait"
      BY <1>4 DEF Report, IInv
    <3> QED
      BY <3>2, <3>3, PirAssumption
  <2>3. EndsReported' /\ SetAnew' /\ NotLeft'
    BY <1>4, PirAssumption DEF Report, IInv, TypeOK
  <2>4. ReportedInTime' /\ ReportIsTrue'
    BY <1>4, PirAssumption DEF Report, IInv, TypeOK
  <2> QED
    BY <2>1, <2>2, <2>3, <2>4 DEF IInv
<1> QED
  BY <1>1, <1>2, <1>3, <1>4 DEF Process

(* Everything else that can happen. *)
LEMMA Preserved == IInv /\ [Next]_vars => IInv'
<1> SUFFICES ASSUME IInv, [Next]_vars PROVE IInv'
  OBVIOUS
<1>1. CASE Edge
  BY <1>1, EdgeKeepsIInv
<1>2. CASE Process
  BY <1>2, ProcessKeepsIInv
<1>3. CASE Second
  BY <1>3, PirAssumption, SMT DEF Second, IInv, TypeOK
<1>4. CASE Answer(PollMsg(MY_ID))
  BY <1>4, PirAssumption, SMT DEF Answer, IInv, TypeOK
<1>5. CASE Restart
  <2>1. TypeOK'
    <3>1. waitEmergency' \in BOOLEAN /\ unreported' \in BOOLEAN
      BY <1>5 DEF Restart
    <3>2. /\ counter' \in 0 .. EdgeLimit
          /\ status' \in ReportedStatus
          /\ sinceIntrusion' \in 0 .. EmergencyTime
          /\ timer' \in 0 .. SendInterval
          /\ pc' \in {"wait", "expired", "end", "clear", "send"}
          /\ sent' = {}
      BY <1>5, PirAssumption DEF Restart
    <3> QED
      BY <3>1, <3>2 DEF TypeOK
  <2>2. JustArmed' /\ FiresInTime'
    BY <1>5, PirAssumption DEF Restart, IInv, TypeOK
  <2>3. EndsReported' /\ SetAnew' /\ NotLeft'
    BY <1>5, PirAssumption DEF Restart, IInv, TypeOK
  <2>4. ReportedInTime' /\ ReportIsTrue'
    BY <1>5, PirAssumption DEF Restart, IInv, TypeOK
  <2> QED
    BY <2>1, <2>2, <2>3, <2>4 DEF IInv
<1>6. CASE UNCHANGED vars
  BY <1>6, SMT DEF vars, IInv, TypeOK
<1> QED
  BY <1>1, <1>2, <1>3, <1>4, <1>5, <1>6 DEF Next

LEMMA Invariant == Spec => []IInv
  BY Initially, Preserved, PTL DEF Spec

-----------------------------------------------------------------------------
(* The variables of the firmware keep their types, for every choice of its
   constants. *)
THEOREM TypeCorrect == Spec => []TypeOK
<1>1. IInv => TypeOK
  BY DEF IInv
<1> QED
  BY <1>1, Invariant, PTL

(* The interrupt may find an intrusion between any two statements of the
   process (e-protect-sensor-0.c:33-48 against 112-127): it is reported within
   one SendInterval. *)
THEOREM IntrusionReported == Spec => []ReportedInTime
<1>1. IInv => ReportedInTime
  BY DEF IInv
<1> QED
  BY <1>1, Invariant, PTL

(* No periodic report claims an emergency that is over, or denies one that
   the process could know of. *)
THEOREM ReportsAreTrue == Spec => []ReportIsTrue
<1>1. IInv => ReportIsTrue
  BY DEF IInv
<1> QED
  BY <1>1, Invariant, PTL
-----------------------------------------------------------------------------
(* The sensor and the base together.  How long before the sensor's next report
   is due, whether a poll and whether an EMERGENCY report are on the air. *)
DueIn    == IF pc = "wait" THEN timer ELSE 0
Polling  == IF down = {} THEN 0 ELSE 1
Alarming == IF \E i \in DOMAIN up : up[i].st = STATUS_EMERGENCY THEN 1 ELSE 0

Reports == {StatusMsg(MY_ID, st, SENSOR_NONE) : st \in ReportedStatus}

AirTypes ==
  /\ Base!TypeOK
  /\ up \in Seq(Reports) /\ down \subseteq {PollMsg(MY_ID)}
  /\ half \in {0, 1} /\ on \in BOOLEAN
  /\ losses \in 0 .. LossBound /\ alarmsLost \in 0 .. LossBound

(* A report due leaves no room for a second answer to a poll. *)
AtMostTwo == Len(up) + Polling + (IF DueIn = 0 THEN 1 ELSE 0) <= 2

(* An EMERGENCY report is alone, and gone when the next one is due. *)
OneAlarm ==
  /\ \A i, j \in DOMAIN up :
        up[i].st = STATUS_EMERGENCY /\ up[j].st = STATUS_EMERGENCY => i = j
  /\ DueIn = 0 => Alarming = 0

Awake    == ~wasOff => on
EndsLate == pc = "expired" => sinceIntrusion = EmergencyTime

(* What the base has not heard of a sensor that works is lost or on the air: an
   answer for each poll counted against it, and to Spare a report for each
   Period of the checks that are Quiet. *)
Period == 2 * SendInterval
Quiet  == failedTimeouts[MY_ID] * PollAfter + lastTime[MY_ID]
Spare  == losses + Len(up) + Polling - failedTimeouts[MY_ID]
SilenceCosts ==
  ~wasOff /\ shown[MY_ID] # STATUS_TIMEOUT /\ losses < LossBound =>
    Spare >= 0 /\ Quiet + 2 * DueIn <= (Spare + 1) * Period + half

(* And so is an EMERGENCY report for each SendInterval of an intrusion it does
   not know of. *)
Told == alarmsLost + Alarming
UnseenCosts ==
  waitEmergency /\ ~seen /\ alarmsLost < LossBound =>
    sinceIntrusion + DueIn <= (Told + 1) * SendInterval

LinkInv ==
  /\ IInv /\ AirTypes /\ AtMostTwo /\ OneAlarm /\ Awake /\ EndsLate
  /\ SilenceCosts /\ UnseenCosts /\ FalseTimeoutTakesLosses

-----------------------------------------------------------------------------
(* Multiplication by the unknown period is what the SMT solver cannot do
   unaided. *)
LEMMA ProductStep ==
  ASSUME NEW a \in Nat, NEW p \in Nat
  PROVE  a * p \in Nat /\ (a + 1) * p = a * p + p
  OBVIOUS

LEMMA ProductMonotone ==
  ASSUME NEW a \in Nat, NEW b \in Nat, NEW p \in Nat, a <= b
  PROVE  a * p <= b * p
<1>1. PICK d \in Nat : b = a + d
  BY b - a \in Nat, b = a + (b - a)
<1>2. b * p = a * p + d * p /\ d * p \in Nat /\ a * p \in Nat
  BY <1>1
<1> QED
  BY <1>2, b * p \in Nat

LEMMA QuotientBound ==
  ASSUME NEW a \in Int, NEW p \in Nat \ {0}, NEW q \in Nat, a < (q + 1) * p
  PROVE  a \div p \in Int /\ a \div p <= q
<1> DEFINE d == a \div p
<1>1. d \in Int /\ a % p \in 0 .. p - 1 /\ a = p * d + (a % p)
  OBVIOUS
<1> HIDE DEF d
<1>2. p * d = d * p
  BY <1>1
<1>3. ASSUME d > q PROVE FALSE
  <2>1. d \in Nat /\ q + 1 \in Nat /\ q + 1 <= d
    BY <1>1, <1>3
  <2>2. (q + 1) * p <= d * p
    BY <2>1, ProductMonotone
  <2>3. d * p \in Int /\ (q + 1) * p \in Int
    BY <1>1
  <2> QED
    BY <1>1, <1>2, <2>2, <2>3
<1>4. d \in Int /\ d <= q
  BY <1>1, <1>3
<1> QED
  BY <1>4 DEF d

LEMMA Periods == Period \in Nat \ {0} /\ Period = 2 * SendInterval
  BY PirAssumption DEF Period

-----------------------------------------------------------------------------
(* What is on the air, one message more or less. *)
LEMMA EmitOf ==
  ASSUME Emit
  PROVE  /\ sent' = {} => up' = up
         /\ \A m : sent' = {m} => up' = Append(up, m)
  BY DEF Emit

LEMMA Kinds == \A m \in Reports : m.st \in ReportedStatus /\ m.ty = SENSOR_NONE
  BY DEF Reports, StatusMsg

LEMMA MoreOnAir ==
  ASSUME up \in Seq(Reports), NEW m \in Reports, up' = Append(up, m)
  PROVE  /\ up' \in Seq(Reports) /\ Len(up') = Len(up) + 1
         /\ Alarming' = IF m.st = STATUS_EMERGENCY THEN 1 ELSE Alarming
         /\ OneAlarm /\ (m.st = STATUS_EMERGENCY => Alarming = 0) =>
              \A i, j \in DOMAIN up' :
                 up'[i].st = STATUS_EMERGENCY /\ up'[j].st = STATUS_EMERGENCY => i = j
<1>1. /\ up' \in Seq(Reports) /\ Len(up') = Len(up) + 1 /\ Len(up) \in Nat
      /\ DOMAIN up' = DOMAIN up \cup {Len(up) + 1}
      /\ \A i \in DOMAIN up : up'[i] = up[i] /\ i # Len(up) + 1
      /\ up'[Len(up) + 1] = m
  OBVIOUS
<1> QED
  BY <1>1 DEF Alarming, OneAlarm

LEMMA LessOnAir ==
  ASSUME up \in Seq(Reports), up # <<>>, up' = Tail(up), OneAlarm
  PROVE  /\ up' \in Seq(Reports) /\ Len(up') = Len(up) - 1 /\ Head(up) \in Reports
         /\ IF Head(up).st = STATUS_EMERGENCY THEN Alarming = 1 /\ Alarming' = 0
            ELSE Alarming' = Alarming
         /\ \A i, j \in DOMAIN up' :
              up'[i].st = STATUS_EMERGENCY /\ up'[j].st = STATUS_EMERGENCY => i = j
<1>1. /\ up' \in Seq(Reports) /\ Len(up') = Len(up) - 1 /\ Head(up) \in Reports
      /\ 1 \in DOMAIN up /\ Head(up) = up[1]
      /\ \A i \in DOMAIN up' : i \in Nat \ {0} /\ i + 1 \in DOMAIN up /\ up'[i] = up[i + 1]
      /\ \A i \in DOMAIN up : i \in Nat /\ (i # 1 => i - 1 \in DOMAIN up' /\ up'[i - 1] = up[i])
  OBVIOUS
<1>2. \A i, j \in DOMAIN up' :
         up'[i].st = STATUS_EMERGENCY /\ up'[j].st = STATUS_EMERGENCY => i = j
  <2> SUFFICES ASSUME NEW i \in DOMAIN up', NEW j \in DOMAIN up',
                      up'[i].st = STATUS_EMERGENCY, up'[j].st = STATUS_EMERGENCY
               PROVE  i = j
    OBVIOUS
  <2>1. i + 1 = j + 1
    BY <1>1 DEF OneAlarm
  <2> QED
    BY <1>1, <2>1
<1>3. CASE Head(up).st = STATUS_EMERGENCY
  <2>1. \A i \in DOMAIN up' : up'[i].st # STATUS_EMERGENCY
    <3> SUFFICES ASSUME NEW i \in DOMAIN up', up'[i].st = STATUS_EMERGENCY PROVE FALSE
      OBVIOUS
    <3>1. i + 1 = 1 /\ i \in Nat \ {0}
      BY <1>1, <1>3 DEF OneAlarm
    <3> QED
      BY <3>1
  <2> QED
    BY <1>1, <1>2, <1>3, <2>1 DEF Alarming
<1>4. CASE Head(up).st # STATUS_EMERGENCY
  <2>1. ASSUME NEW i \in DOMAIN up, up[i].st = STATUS_EMERGENCY
        PROVE  \E j \in DOMAIN up' : up'[j].st = STATUS_EMERGENCY
    <3>1. i # 1
      BY <1>1, <1>4, <2>1
    <3>2. i - 1 \in DOMAIN up' /\ up'[i - 1] = up[i]
      BY <1>1, <3>1
    <3> QED
      BY <2>1, <3>2
  <2>2. ASSUME NEW i \in DOMAIN up', up'[i].st = STATUS_EMERGENCY
        PROVE  \E j \in DOMAIN up : up[j].st = STATUS_EMERGENCY
    BY <1>1, <2>2
  <2>3. Alarming' = Alarming /\ Alarming \in {0, 1}
    BY <2>1, <2>2 DEF Alarming
  <2> QED
    BY <1>1, <1>2, <1>4, <2>3
<1> QED
  BY <1>3, <1>4

-----------------------------------------------------------------------------
(* What the base does to the fields the invariant is about. *)
LEMMA CheckEffect ==
  ASSUME Base!TypeOK, Base!Check
  PROVE  /\ Base!TypeOK'
         /\ \/ /\ radio' = {} /\ shown' = shown /\ failedTimeouts' = failedTimeouts
               /\ lastTime'[MY_ID] \in {lastTime[MY_ID], lastTime[MY_ID] + 1}
            \/ /\ radio' = {PollMsg(MY_ID)} /\ lastTime[MY_ID] + 1 = PollAfter
               /\ \/ /\ failedTimeouts[MY_ID] + 1 = TimeoutAfter
                     /\ shown'[MY_ID] = STATUS_TIMEOUT
                  \/ /\ failedTimeouts'[MY_ID] = failedTimeouts[MY_ID] + 1
                     /\ lastTime'[MY_ID] = 0 /\ shown' = shown
<1> USE LinkAssumption DEF Slot, Base!TypeOK
<1> DEFINE due == MY_ID \in Base!Due
           failing == MY_ID \in Base!Failing
<1>1. /\ due => lastTime[MY_ID] + 1 = PollAfter
      /\ MY_ID \in Base!Monitored /\ ~due => lastTime[MY_ID] + 1 # PollAfter
  BY DEF Base!Due, Base!Monitored
<1>2. failing <=> due /\ failedTimeouts[MY_ID] + 1 = TimeoutAfter
  BY DEF Base!Failing, Base!Due
<1>3. /\ Base!Due = IF due THEN {MY_ID} ELSE {}
      /\ Base!Failing = IF failing THEN {MY_ID} ELSE {}
  BY DEF Base!Due, Base!Failing, Base!Monitored
<1>4. /\ radio' = {PollMsg(i) : i \in Base!Due}
      /\ lastTime' = [i \in Slot |->
            IF i \in Base!Due THEN 0
            ELSE IF i \in Base!Monitored THEN lastTime[i] + 1 ELSE lastTime[i]]
      /\ failedTimeouts' = [i \in Slot |->
            IF i \in Base!Failing THEN 0
            ELSE IF i \in Base!Due THEN failedTimeouts[i] + 1 ELSE failedTimeouts[i]]
      /\ shown' = [i \in Slot |-> IF i \in Base!Failing THEN STATUS_TIMEOUT ELSE shown[i]]
  BY DEF Base!Check, Base!PollMsg, PollMsg, Base!STATUS_TIMEOUT, STATUS_TIMEOUT
<1>5. /\ type' \in [Slot -> Base!SensorType] /\ isAlarmEnabled' \in BOOLEAN
      /\ portB' \in {0, 1} /\ sigfoxAge' \in 0 .. 0
      /\ silence' \in [Slot -> 0 .. Base!SilenceLimit]
  <2>1. Base!SilenceLimit \in Nat
    BY ProductStep DEF Base!SilenceLimit
  <2>2. silence' \in [Slot -> 0 .. Base!SilenceLimit]
    BY <2>1 DEF Base!Check, Base!UpTo
  <2>3. sigfoxAge' \in 0 .. 0
    BY DEF Base!Check, Base!UpTo
  <2> QED
    BY <2>2, <2>3 DEF Base!Check
<1> HIDE DEF due, failing
<1>6. lastTime' \in [Slot -> 0 .. PollAfter - 1]
  <2>1. lastTime'[MY_ID] \in 0 .. PollAfter - 1
    BY <1>1, <1>3, <1>4
  <2> QED
    BY <1>4, <2>1
<1>7. failedTimeouts' \in [Slot -> 0 .. TimeoutAfter - 1]
  <2>1. failedTimeouts'[MY_ID] \in 0 .. TimeoutAfter - 1
    BY <1>2, <1>3, <1>4
  <2> QED
    BY <1>4, <2>1
<1>8. shown' \in [Slot -> Base!Status]
  BY <1>4 DEF Base!Status, Base!STATUS_OK, Base!STATUS_TIMEOUT, STATUS_TIMEOUT
<1>9. Base!TypeOK'
  BY <1>5, <1>6, <1>7, <1>8
<1>10. CASE ~due
  <2>1. radio' = {} /\ shown' = shown /\ failedTimeouts' = failedTimeouts
    BY <1>2, <1>3, <1>4, <1>10
  <2>2. lastTime'[MY_ID] \in {lastTime[MY_ID], lastTime[MY_ID] + 1}
    BY <1>3, <1>4, <1>10
  <2> QED
    BY <1>9, <2>1, <2>2
<1>11. CASE due /\ failing
  <2>1. radio' = {PollMsg(MY_ID)} /\ shown'[MY_ID] = STATUS_TIMEOUT
    BY <1>3, <1>4, <1>11
  <2> QED
    BY <1>1, <1>2, <1>9, <1>11, <2>1
<1>12. CASE due /\ ~failing
  <2>1. radio' = {PollMsg(MY_ID)} /\ shown' = shown
    BY <1>3, <1>4, <1>12
  <2>2. lastTime'[MY_ID] = 0 /\ failedTimeouts'[MY_ID] = failedTimeouts[MY_ID] + 1
    BY <1>3, <1>4, <1>12
  <2> QED
    BY <1>1, <1>9, <1>12, <2>1, <2>2
<1> QED
  BY <1>10, <1>11, <1>12

LEMMA HeardEffect ==
  ASSUME Base!TypeOK, NEW m \in Reports, Base!ReceiveStatus(MY_ID, m.st, m.ty)
  PROVE  /\ Base!TypeOK' /\ shown'[MY_ID] # STATUS_TIMEOUT
         /\ failedTimeouts'[MY_ID] = 0 /\ lastTime'[MY_ID] = 0
<1> USE LinkAssumption DEF Slot, Base!TypeOK
<1>1. m.st \in ReportedStatus /\ m.ty = SENSOR_NONE
  BY Kinds
<1>2. /\ shown' = [shown EXCEPT ![MY_ID] = m.st]
      /\ lastTime' = [lastTime EXCEPT ![MY_ID] = 0]
      /\ failedTimeouts' = [failedTimeouts EXCEPT ![MY_ID] = 0]
      /\ silence' = [silence EXCEPT ![MY_ID] = 0]
  BY DEF Base!ReceiveStatus, Base!Heard
<1>3. shown' \in [Slot -> Base!Status] /\ shown'[MY_ID] # STATUS_TIMEOUT
  BY <1>1, <1>2 DEF Base!Status, Base!STATUS_OK, Base!STATUS_TIMEOUT, STATUS_TIMEOUT
<1>4. /\ lastTime' \in [Slot -> 0 .. PollAfter - 1] /\ lastTime'[MY_ID] = 0
      /\ failedTimeouts' \in [Slot -> 0 .. TimeoutAfter - 1] /\ failedTimeouts'[MY_ID] = 0
  BY <1>2
<1>5. silence' \in [Slot -> 0 .. Base!SilenceLimit]
  <2>1. Base!SilenceLimit \in Nat
    BY ProductStep DEF Base!SilenceLimit
  <2> QED
    BY <1>2, <2>1
<1>6. type' \in [Slot -> Base!SensorType]
  BY <1>1 DEF Base!ReceiveStatus, Base!SensorType, Base!SENSOR_NONE, Base!SENSOR_RFID, SENSOR_NONE
<1>7. isAlarmEnabled' \in BOOLEAN /\ portB' \in {0, 1} /\ sigfoxAge' \in 0 .. 0
  BY DEF Base!ReceiveStatus, Base!UpdateDataToServer
<1> QED
  BY <1>3, <1>4, <1>5, <1>6, <1>7

LEMMA IdleBase ==
  BaseIdle => /\ shown' = shown /\ lastTime' = lastTime /\ failedTimeouts' = failedTimeouts
              /\ Base!TypeOK => Base!TypeOK'
  BY DEF BaseIdle, baseVars, Base!TypeOK
-----------------------------------------------------------------------------
(* Each action keeps the invariant.  Most leave a part of it alone. *)
LEMMA IdleSensor == IInv /\ PirIdle => IInv'
  BY DEF PirIdle, pirVars, IInv, TypeOK

LEMMA Numbers ==
  ASSUME LinkInv
  PROVE  /\ failedTimeouts[MY_ID] \in 0 .. TimeoutAfter - 1 /\ failedTimeouts[MY_ID] \in Nat
         /\ lastTime[MY_ID] \in 0 .. PollAfter - 1 /\ lastTime[MY_ID] \in Nat
         /\ losses \in Nat /\ alarmsLost \in Nat /\ half \in {0, 1}
         /\ Len(up) \in Nat /\ Polling \in {0, 1} /\ Alarming \in {0, 1}
         /\ timer \in 0 .. SendInterval /\ DueIn \in 0 .. SendInterval /\ DueIn \in Nat
         /\ sinceIntrusion \in 0 .. EmergencyTime /\ sinceIntrusion \in Nat
         /\ Quiet \in Nat /\ Spare \in Int /\ Told \in Nat
<1> USE PirAssumption, LinkAssumption
<1>1. /\ failedTimeouts[MY_ID] \in 0 .. TimeoutAfter - 1
      /\ lastTime[MY_ID] \in 0 .. PollAfter - 1
  BY DEF LinkInv, AirTypes, Base!TypeOK, Slot
<1>2. failedTimeouts[MY_ID] \in Nat /\ lastTime[MY_ID] \in Nat
  BY <1>1
<1>3. /\ losses \in Nat /\ alarmsLost \in Nat /\ half \in {0, 1} /\ Len(up) \in Nat
  BY DEF LinkInv, AirTypes
<1>4. Polling \in {0, 1} /\ Alarming \in {0, 1}
  BY DEF Polling, Alarming
<1>5. /\ timer \in 0 .. SendInterval /\ DueIn \in 0 .. SendInterval /\ DueIn \in Nat
      /\ sinceIntrusion \in 0 .. EmergencyTime /\ sinceIntrusion \in Nat
  BY DEF LinkInv, IInv, TypeOK, DueIn
<1>6. Quiet \in Nat
  BY <1>2, ProductStep DEF Quiet
<1>7. Spare \in Int /\ Told \in Nat
  BY <1>2, <1>3, <1>4 DEF Spare, Told
<1> QED
  BY <1>1, <1>2, <1>3, <1>4, <1>5, <1>6, <1>7

LEMMA Products ==
  ASSUME LinkInv
  PROVE  /\ failedTimeouts[MY_ID] * PollAfter \in Nat
         /\ (failedTimeouts[MY_ID] + 1) * PollAfter = failedTimeouts[MY_ID] * PollAfter + PollAfter
         /\ Told * SendInterval \in Nat
         /\ (Told + 1) * SendInterval = Told * SendInterval + SendInterval
<1>1. failedTimeouts[MY_ID] \in Nat /\ Told \in Nat
  BY Numbers
<1>2. PollAfter \in Nat /\ SendInterval \in Nat
  BY LinkAssumption, PirAssumption
<1> QED
  BY <1>1, <1>2, ProductStep

(* The interrupt: an intrusion found starts a new account of reports. *)
LEMMA EdgeKeepsLinkInv == LinkInv /\ PirEdge => LinkInv'
<1> SUFFICES ASSUME LinkInv, PirEdge PROVE LinkInv'
  OBVIOUS
<1> USE DEF LinkInv
<1>1. IInv'
  BY Preserved DEF PirEdge, Next
<1>2. /\ up' = up /\ down' = down /\ half' = half /\ on' = on /\ losses' = losses
      /\ wasOff' = wasOff /\ shown' = shown /\ lastTime' = lastTime
      /\ failedTimeouts' = failedTimeouts /\ Base!TypeOK'
      /\ pc' = pc /\ timer' = timer
  BY EmitOf, IdleBase DEF PirEdge, Edge, EdgeCounted, EdgeIsIntrusion, EdgeIgnored, AirTypes
<1>3. DueIn' = DueIn /\ Polling' = Polling /\ Alarming' = Alarming
  BY <1>2 DEF DueIn, Polling, Alarming
<1>4. AtMostTwo' /\ OneAlarm' /\ Awake'
  BY <1>2, <1>3 DEF AtMostTwo, OneAlarm, Awake
<1>5. SilenceCosts' /\ FalseTimeoutTakesLosses'
  BY <1>2, <1>3 DEF SilenceCosts, FalseTimeoutTakesLosses, Spare, Quiet
<1>6. CASE EdgeIsIntrusion
  <2>1. ~waitEmergency /\ ~unreported /\ unreported' /\ sinceIntrusion' = 0 /\ pc # "expired"
    BY <1>6 DEF EdgeIsIntrusion, IInv
  <2>2. alarmsLost' = 0
    BY <2>1 DEF PirEdge
  <2>3. AirTypes'
    BY <1>2, <2>2, LinkAssumption DEF AirTypes
  <2>4. UnseenCosts'
    <3>1. (Told' + 1) * SendInterval \in Nat /\ (Told' + 1) * SendInterval >= SendInterval
      <4>1. Told' = 0 \/ Told' = 1
        BY <1>3, <2>2, Numbers, SMTT(30) DEF Told
      <4> QED
        BY <4>1, PirAssumption
    <3>2. DueIn \in Nat /\ DueIn <= SendInterval /\ SendInterval \in Nat
      BY Numbers, SMTT(30), PirAssumption
    <3>3. sinceIntrusion' + DueIn' = DueIn
      BY <1>3, <2>1, <3>2
    <3> QED
      BY <3>1, <3>2, <3>3 DEF UnseenCosts
  <2>5. EndsLate'
    BY <1>2, <2>1 DEF EndsLate
  <2> QED
    BY <1>1, <1>4, <1>5, <2>3, <2>4, <2>5
<1>7. CASE EdgeCounted \/ EdgeIgnored
  <2>1. /\ waitEmergency' = waitEmergency /\ sinceIntrusion' = sinceIntrusion
        /\ unreported' = unreported
    BY <1>7 DEF EdgeCounted, EdgeIgnored
  <2>2. seen' = seen /\ alarmsLost' = alarmsLost
    BY <2>1 DEF PirEdge
  <2>3. AirTypes'
    BY <1>2, <2>2 DEF AirTypes
  <2>4. UnseenCosts' /\ EndsLate'
    BY <1>2, <1>3, <2>1, <2>2 DEF UnseenCosts, EndsLate, Told
  <2> QED
    BY <1>1, <1>4, <1>5, <2>3, <2>4
<1> QED
  BY <1>6, <1>7 DEF PirEdge, Edge

(* The statements of the process: the accounts rest until it reports. *)
LEMMA ProcessKeepsLinkInv == LinkInv /\ PirProcess => LinkInv'
<1> SUFFICES ASSUME LinkInv, PirProcess PROVE LinkInv'
  OBVIOUS
<1> USE DEF LinkInv
<1>1. IInv'
  BY Preserved DEF PirProcess, Next
<1>2. /\ down' = down /\ half' = half /\ on' = on /\ losses' = losses
      /\ wasOff' = wasOff /\ seen' = seen /\ alarmsLost' = alarmsLost
      /\ shown' = shown /\ lastTime' = lastTime
      /\ failedTimeouts' = failedTimeouts /\ Base!TypeOK'
      /\ Polling' = Polling /\ sinceIntrusion' = sinceIntrusion
  BY IdleBase
  DEF PirProcess, history, AirTypes, Polling, Process, Wake, EndEmergency, ClearStatus, Report
<1>3. Awake' /\ FalseTimeoutTakesLosses'
  BY <1>2 DEF Awake, FalseTimeoutTakesLosses
<1>4. CASE Wake \/ EndEmergency \/ ClearStatus
  <2>1. /\ up' = up /\ DueIn = 0 /\ DueIn' = 0 /\ (waitEmergency' => waitEmergency)
        /\ pc' = "expired" => waitEmergency /\ sinceIntrusion = EmergencyTime
    <3>1. sent' = {} /\ DueIn = 0 /\ DueIn' = 0 /\ (waitEmergency' => waitEmergency)
      BY <1>4 DEF Wake, EndEmergency, ClearStatus, DueIn
    <3>2. pc' = "expired" => waitEmergency /\ sinceIntrusion >= EmergencyTime
      BY <1>4 DEF Wake, EndEmergency, ClearStatus
    <3> QED
      BY <3>1, <3>2, EmitOf, Numbers, SMTT(30), PirAssumption DEF PirProcess
  <2>2. Alarming' = Alarming
    BY <2>1 DEF Alarming
  <2>3. AirTypes' /\ AtMostTwo' /\ OneAlarm' /\ EndsLate'
    BY <1>2, <2>1, <2>2 DEF AirTypes, AtMostTwo, OneAlarm, EndsLate
  <2>4. SilenceCosts'
    BY <1>2, <2>1 DEF SilenceCosts, Spare, Quiet
  <2>5. UnseenCosts'
    BY <1>2, <2>1, <2>2 DEF UnseenCosts, Told
  <2> QED
    BY <1>1, <1>3, <2>3, <2>4, <2>5
<1>5. CASE Report
  <2> DEFINE m == StatusMsg(MY_ID, status, SENSOR_NONE)
  <2>1. /\ pc = "send" /\ pc' = "wait" /\ timer' = SendInterval /\ DueIn = 0
        /\ DueIn' = SendInterval /\ waitEmergency' = waitEmergency
        /\ status = STATUS_EMERGENCY \/ (waitEmergency => sinceIntrusion = 0)
    BY <1>5 DEF Report, IInv, DueIn
  <2>2. m \in Reports /\ m.st = status /\ up' = Append(up, m)
    BY <1>5, EmitOf DEF Report, PirProcess, Reports, StatusMsg, IInv, TypeOK
  <2> HIDE DEF m
  <2>3. /\ up' \in Seq(Reports) /\ Len(up') = Len(up) + 1 /\ Alarming = 0
        /\ Alarming' = IF status = STATUS_EMERGENCY THEN 1 ELSE 0
        /\ \A i, j \in DOMAIN up' :
              up'[i].st = STATUS_EMERGENCY /\ up'[j].st = STATUS_EMERGENCY => i = j
    BY <2>1, <2>2, MoreOnAir DEF AirTypes, OneAlarm
  <2>4. DueIn' # 0
    BY <2>1, PirAssumption
  <2>5. AirTypes' /\ OneAlarm' /\ EndsLate'
    BY <1>2, <2>1, <2>3, <2>4 DEF AirTypes, OneAlarm, EndsLate
  <2>6. AtMostTwo'
    BY <1>2, <2>1, <2>3, <2>4, Numbers, SMTT(30) DEF AtMostTwo
  <2>7. SilenceCosts'
    <3> SUFFICES ASSUME ~wasOff', shown'[MY_ID] # STATUS_TIMEOUT, losses' < LossBound
                 PROVE  Spare' >= 0 /\ Quiet' + 2 * DueIn' <= (Spare' + 1) * Period' + half'
      BY DEF SilenceCosts
    <3>1. Spare >= 0 /\ Quiet + 2 * DueIn <= (Spare + 1) * Period + half
      BY <1>2 DEF SilenceCosts
    <3>2. Spare' = Spare + 1 /\ Quiet' = Quiet /\ Period' = Period
      <4>1. Quiet' = Quiet /\ Period' = Period
        BY <1>2 DEF Quiet, Period
      <4>2. Spare' = losses + (Len(up) + 1) + Polling - failedTimeouts[MY_ID]
        BY <1>2, <2>3 DEF Spare
      <4>3. Spare = losses + Len(up) + Polling - failedTimeouts[MY_ID]
        BY DEF Spare
      <4>4. /\ losses \in Nat /\ Len(up) \in Nat /\ Polling \in Nat
            /\ failedTimeouts[MY_ID] \in Nat
        BY Numbers, SMTT(30)
      <4>5. Spare' = Spare + 1
        BY <4>2, <4>3, <4>4
      <4> QED
        BY <4>1, <4>5
    <3> HIDE DEF LinkInv
    <3>3. (Spare + 2) * Period = (Spare + 1) * Period + Period /\ (Spare + 1) * Period \in Nat
      <4>1. Spare + 1 \in Nat /\ (Spare + 1) + 1 = Spare + 2
        <5>1. Spare \in Int
          BY Numbers, SMTT(30)
        <5> QED
          BY <3>1, <5>1
      <4> QED
        BY <4>1, Periods, ProductStep
    <3>4. Spare' >= 0 /\ (Spare' + 1) * Period' = (Spare + 1) * Period + Period
      BY <3>1, <3>2, <3>3, Numbers, SMTT(30), (Spare + 1) + 1 = Spare + 2
    <3>5. Quiet <= (Spare + 1) * Period + half
      BY <2>1, <3>1, Numbers, SMTT(30)
    <3>6. Quiet' + 2 * DueIn' = Quiet + Period
      BY <2>1, <3>2, Numbers, SMTT(30), Periods
    <3>7. (Spare' + 1) * Period' + half' = (Spare + 1) * Period + Period + half
      BY <1>2, <3>4
    <3>8. /\ Quiet \in Nat /\ Period \in Nat /\ half \in {0, 1}
          /\ (Spare + 1) * Period \in Nat
      <4>1. Quiet \in Nat /\ half \in {0, 1}
        BY Numbers, SMTT(30)
      <4>2. Period \in Nat
        BY Periods
      <4> QED
        BY <3>3, <4>1, <4>2
    <3>9. Quiet + Period <= (Spare + 1) * Period + Period + half
      BY <3>5, <3>8
    <3> QED
      BY <3>4, <3>6, <3>7, <3>9
  <2>8. UnseenCosts'
    <3>1. Told' = Told + Alarming' /\ Told' \in Nat
      BY <1>2, <2>3, Numbers, SMTT(30) DEF Told
    <3>2. /\ (Told + 1) * SendInterval \in Nat
          /\ (Told + 2) * SendInterval = (Told + 1) * SendInterval + SendInterval
          /\ (Told + 1) * SendInterval >= SendInterval
      <4>1. Told * SendInterval \in Nat /\ (Told + 1) * SendInterval = Told * SendInterval + SendInterval
        BY Products
      <4>2. (Told + 2) * SendInterval = (Told + 1) * SendInterval + SendInterval
        <5>1. Told + 1 \in Nat /\ (Told + 1) + 1 = Told + 2
          BY Numbers, SMTT(30)
        <5> QED
          BY <5>1, PirAssumption, ProductStep
      <4> QED
        BY <4>1, <4>2, PirAssumption
    <3> HIDE DEF LinkInv
    <3>3. CASE status = STATUS_EMERGENCY
      <4>1. Told' = Told + 1 /\ Told' + 1 = Told + 2
        BY <2>3, <3>1, <3>3, Numbers, SMTT(30)
      <4>2. (Told' + 1) * SendInterval = (Told + 1) * SendInterval + SendInterval
        BY <3>2, <4>1
      <4>3. waitEmergency' /\ ~seen' /\ alarmsLost' < LossBound =>
               sinceIntrusion <= (Told + 1) * SendInterval
        <5>1. waitEmergency' /\ ~seen' /\ alarmsLost' < LossBound =>
                 sinceIntrusion + DueIn <= (Told + 1) * SendInterval
          BY <1>2, <2>1 DEF LinkInv, UnseenCosts
        <5> QED
          BY <2>1, <5>1, Numbers, SMTT(30)
      <4>4. sinceIntrusion' = sinceIntrusion /\ sinceIntrusion \in Nat /\ SendInterval \in Nat
        BY <1>2, Numbers, SMTT(30), PirAssumption
      <4> QED
        BY <2>1, <3>2, <4>2, <4>3, <4>4 DEF UnseenCosts
    <3>4. CASE status # STATUS_EMERGENCY
      <4>1. Told' = Told
        BY <2>3, <3>1, <3>4, Numbers, SMTT(30)
      <4>2. sinceIntrusion' = 0 \/ ~waitEmergency'
        BY <1>2, <2>1, <3>4 DEF LinkInv
      <4>3. SendInterval <= (Told' + 1) * SendInterval
        BY <3>2, <4>1, PirAssumption
      <4> QED
        BY <2>1, <4>2, <4>3, PirAssumption DEF UnseenCosts
    <3> QED
      BY <3>3, <3>4
  <2> QED
    BY <1>1, <1>3, <2>5, <2>6, <2>7, <2>8
<1> QED
  BY <1>4, <1>5 DEF PirProcess, Process

(* The base hears the sensor: its accounts start anew. *)
LEMMA DeliverKeepsLinkInv == LinkInv /\ Deliver => LinkInv'
<1> SUFFICES ASSUME LinkInv, Deliver PROVE LinkInv'
  OBVIOUS
<1> USE DEF LinkInv
<1>1. IInv'
  BY IdleSensor DEF Deliver
<1>2. /\ up # <<>> /\ up' = Tail(up) /\ down' = down /\ half' = half /\ on' = on
      /\ losses' = 0 /\ wasOff' = ~on /\ seen' = (seen \/ Head(up).st = STATUS_EMERGENCY)
      /\ alarmsLost' = alarmsLost
      /\ pc' = pc /\ timer' = timer /\ waitEmergency' = waitEmergency
      /\ sinceIntrusion' = sinceIntrusion
  BY DEF Deliver, PirIdle, pirVars
<1>3. /\ up' \in Seq(Reports) /\ Len(up') = Len(up) - 1 /\ Head(up) \in Reports
      /\ IF Head(up).st = STATUS_EMERGENCY THEN Alarming = 1 /\ Alarming' = 0
         ELSE Alarming' = Alarming
      /\ \A i, j \in DOMAIN up' :
            up'[i].st = STATUS_EMERGENCY /\ up'[j].st = STATUS_EMERGENCY => i = j
  BY <1>2, LessOnAir DEF AirTypes
<1>4. /\ Base!TypeOK' /\ shown'[MY_ID] # STATUS_TIMEOUT
      /\ failedTimeouts'[MY_ID] = 0 /\ lastTime'[MY_ID] = 0
  BY <1>3, HeardEffect DEF Deliver, AirTypes
<1>5. DueIn' = DueIn /\ Polling' = Polling /\ Alarming' \in {0, 1} /\ Len(up') \in Nat
  BY <1>2, <1>3 DEF DueIn, Polling, Alarming
<1>6. AirTypes'
  BY <1>2, <1>3, <1>4, LinkAssumption DEF AirTypes
<1>7. AtMostTwo' /\ Awake' /\ EndsLate' /\ FalseTimeoutTakesLosses'
  <2>1. AtMostTwo'
    BY <1>3, <1>5, Numbers, SMTT(30) DEF AtMostTwo
  <2>2. Awake' /\ EndsLate'
    BY <1>2 DEF Awake, EndsLate, AirTypes
  <2> QED
    BY <1>4, <2>1, <2>2 DEF FalseTimeoutTakesLosses
<1>8. OneAlarm'
  <2>1. Alarming = 0 => Alarming' = 0
    BY <1>3, <1>5, Numbers, SMTT(30)
  <2> QED
    BY <1>3, <1>5, <2>1 DEF OneAlarm
<1>9. SilenceCosts'
  <2>1. Spare' \in Nat /\ Spare' = Len(up') + Polling
    BY <1>2, <1>4, <1>5, Numbers, SMTT(30) DEF Spare
  <2>2. Quiet' = 0
    BY <1>4, LinkAssumption DEF Quiet
  <2>3. Spare' * Period \in Nat /\ (Spare' + 1) * Period = Spare' * Period + Period
    BY <2>1, Periods, ProductStep
  <2>4. Period' = Period
    BY DEF Period
  <2>5. Period \in Nat /\ 2 * DueIn <= Period /\ DueIn \in Nat
    <3>1. DueIn <= SendInterval /\ DueIn \in Nat /\ SendInterval \in Nat
      BY Numbers, SMTT(30), PirAssumption
    <3> QED
      BY <3>1, Periods
  <2>6. half' \in Nat
    BY <1>2, Numbers, SMTT(30)
  <2>7. Spare' >= 0
    BY <2>1
  <2>8. Quiet' + 2 * DueIn' = 2 * DueIn
    BY <1>5, <2>2, <2>5
  <2>9. (Spare' + 1) * Period' + half' = Spare' * Period + Period + half'
    BY <2>3, <2>4
  <2>10. 2 * DueIn <= Spare' * Period + Period + half'
    BY <2>3, <2>5, <2>6
  <2>11. Spare' >= 0 /\ Quiet' + 2 * DueIn' <= (Spare' + 1) * Period' + half'
    BY <2>7, <2>8, <2>9, <2>10
  <2> QED
    BY <2>11 DEF SilenceCosts
<1>10. UnseenCosts'
  <2>1. CASE Head(up).st = STATUS_EMERGENCY
    BY <1>2, <2>1 DEF UnseenCosts
  <2>2. CASE Head(up).st # STATUS_EMERGENCY
    <3>1. Told' = Told
      BY <1>2, <1>3, <1>5, <2>2, Numbers, SMTT(30) DEF Told
    <3> QED
      BY <1>2, <1>5, <3>1 DEF UnseenCosts
  <2> QED
    BY <2>1, <2>2
<1> QED
  BY <1>1, <1>6, <1>7, <1>8, <1>9, <1>10

(* A loss saturates its count, or takes as much from the air as it adds. *)
LEMMA OneMoreOf ==
  ASSUME NEW n \in 0 .. LossBound
  PROVE  /\ OneMore(n) \in 0 .. LossBound /\ OneMore(n) >= n
         /\ OneMore(n) < LossBound => n < LossBound /\ OneMore(n) = n + 1
  BY LinkAssumption DEF OneMore

LEMMA TimeoutBound == LossesToTimeout \in Int /\ LossesToMiss \in Int
<1>1. TimeoutAfter * PollAfter - 2 \in Int /\ 2 * SendInterval \in Nat \ {0}
  BY LinkAssumption, PirAssumption, ProductStep
<1>2. (TimeoutAfter * PollAfter - 2) \div (2 * SendInterval) \in Int
  BY <1>1
<1>3. (EmergencyTime - 1) \div SendInterval \in Int
  BY PirAssumption
<1> QED
  BY <1>2, <1>3, LinkAssumption DEF LossesToTimeout, LossesToMiss

(* Nobody hears it. *)
LEMMA LoseKeepsLinkInv == LinkInv /\ Lose => LinkInv'
<1> SUFFICES ASSUME LinkInv, Lose PROVE LinkInv'
  OBVIOUS
<1> USE DEF LinkInv
<1>1. IInv'
  BY IdleSensor DEF Lose
<1>2. /\ up # <<>> /\ up' = Tail(up) /\ down' = down /\ half' = half /\ on' = on
      /\ losses' = OneMore(losses) /\ wasOff' = wasOff /\ seen' = seen
      /\ alarmsLost' = IF Head(up).st = STATUS_EMERGENCY THEN OneMore(alarmsLost) ELSE alarmsLost
      /\ pc' = pc /\ timer' = timer /\ waitEmergency' = waitEmergency
      /\ sinceIntrusion' = sinceIntrusion
      /\ shown' = shown /\ lastTime' = lastTime
      /\ failedTimeouts' = failedTimeouts /\ Base!TypeOK'
  BY IdleBase DEF Lose, PirIdle, pirVars, AirTypes
<1>3. /\ up' \in Seq(Reports) /\ Len(up') = Len(up) - 1 /\ Head(up) \in Reports
      /\ IF Head(up).st = STATUS_EMERGENCY THEN Alarming = 1 /\ Alarming' = 0
         ELSE Alarming' = Alarming
      /\ \A i, j \in DOMAIN up' :
            up'[i].st = STATUS_EMERGENCY /\ up'[j].st = STATUS_EMERGENCY => i = j
  BY <1>2, LessOnAir DEF AirTypes
<1>4. /\ OneMore(losses) \in 0 .. LossBound /\ OneMore(losses) >= losses
      /\ OneMore(losses) < LossBound => losses < LossBound /\ OneMore(losses) = losses + 1
      /\ OneMore(alarmsLost) \in 0 .. LossBound
      /\ OneMore(alarmsLost) < LossBound
           => alarmsLost < LossBound /\ OneMore(alarmsLost) = alarmsLost + 1
  BY OneMoreOf DEF AirTypes
<1>5. DueIn' = DueIn /\ Polling' = Polling /\ Alarming' \in {0, 1} /\ Len(up') \in Nat
  BY <1>2, <1>3 DEF DueIn, Polling, Alarming
<1>6. AirTypes'
  BY <1>2, <1>3, <1>4 DEF AirTypes
<1>7. AtMostTwo' /\ Awake' /\ EndsLate'
  BY <1>2, <1>3, <1>5, Numbers, SMTT(30) DEF AtMostTwo, Awake, EndsLate
<1>8. OneAlarm'
  <2>1. Alarming = 0 => Alarming' = 0
    BY <1>3, <1>5, Numbers, SMTT(30)
  <2> QED
    BY <1>3, <1>5, <2>1 DEF OneAlarm
<1>9. FalseTimeoutTakesLosses'
  <2>1. losses' \in Int /\ losses \in Int /\ losses' >= losses
    BY <1>2, <1>4 DEF AirTypes
  <2> QED
    BY <1>2, <2>1, TimeoutBound DEF FalseTimeoutTakesLosses
<1>10. SilenceCosts'
  <2>1. losses' < LossBound => losses < LossBound /\ Spare' = Spare
    BY <1>2, <1>3, <1>4, <1>5, Numbers, SMTT(30) DEF Spare
  <2>2. Quiet' = Quiet /\ Period' = Period
    BY <1>2 DEF Quiet, Period
  <2> QED
    BY <1>2, <1>5, <2>1, <2>2 DEF SilenceCosts
<1>11. UnseenCosts'
  <2>1. alarmsLost' < LossBound => alarmsLost < LossBound /\ Told' = Told
    BY <1>2, <1>3, <1>4, <1>5, Numbers, SMTT(30) DEF Told
  <2> QED
    BY <1>2, <1>5, <2>1 DEF UnseenCosts
<1> QED
  BY <1>1, <1>6, <1>7, <1>8, <1>9, <1>10, <1>11

(* The sensor answers a poll: the answer takes the poll's place on the air. *)
LEMMA AnswerKeepsLinkInv == LinkInv /\ DeliverPoll => LinkInv'
<1> SUFFICES ASSUME LinkInv, DeliverPoll PROVE LinkInv'
  OBVIOUS
<1> USE DEF LinkInv
<1>1. down = {PollMsg(MY_ID)} /\ down' = {} /\ Answer(PollMsg(MY_ID))
  BY DEF DeliverPoll, AirTypes
<1>2. IInv'
  BY <1>1, Preserved DEF Next
<1>3. /\ half' = half /\ on' = on /\ losses' = losses
      /\ wasOff' = wasOff /\ seen' = seen /\ alarmsLost' = alarmsLost
      /\ pc' = pc /\ timer' = timer /\ waitEmergency' = waitEmergency
      /\ sinceIntrusion' = sinceIntrusion
      /\ shown' = shown /\ lastTime' = lastTime
      /\ failedTimeouts' = failedTimeouts /\ Base!TypeOK'
  BY <1>1, IdleBase DEF DeliverPoll, history, Answer, AirTypes
<1> DEFINE m == StatusMsg(MY_ID, STATUS_OK, SENSOR_NONE)
<1>4. m \in Reports /\ m.st # STATUS_EMERGENCY /\ up' = Append(up, m)
  <2>1. up' = Append(up, m)
    BY <1>1, EmitOf DEF DeliverPoll, Answer
  <2> HIDE DEF LinkInv
  <2>2. STATUS_OK \in ReportedStatus /\ STATUS_OK # STATUS_EMERGENCY
    BY DEF ReportedStatus, STATUS_OK, STATUS_EMERGENCY
  <2>3. m \in Reports
    BY <2>2 DEF Reports
  <2>4. m.st = STATUS_OK
    BY DEF StatusMsg
  <2> QED
    BY <2>1, <2>2, <2>3, <2>4
<1> HIDE DEF m
<1>5. /\ up' \in Seq(Reports) /\ Len(up') = Len(up) + 1 /\ Alarming' = Alarming
      /\ \A i, j \in DOMAIN up' :
            up'[i].st = STATUS_EMERGENCY /\ up'[j].st = STATUS_EMERGENCY => i = j
  BY <1>4, MoreOnAir DEF AirTypes
<1>6. DueIn' = DueIn /\ Polling = 1 /\ Polling' = 0
  BY <1>1, <1>3 DEF DueIn, Polling
<1>7. AirTypes' /\ OneAlarm' /\ Awake' /\ EndsLate' /\ FalseTimeoutTakesLosses'
  BY <1>1, <1>3, <1>5, <1>6
  DEF AirTypes, OneAlarm, Awake, EndsLate, FalseTimeoutTakesLosses
<1>8. AtMostTwo'
  BY <1>5, <1>6, Numbers, SMTT(30) DEF AtMostTwo
<1>9. SilenceCosts'
  <2>1. Spare' = Spare /\ Quiet' = Quiet /\ Period' = Period
    <3>1. Quiet' = Quiet /\ Period' = Period
      BY <1>3 DEF Quiet, Period
    <3>2. Spare' = losses + (Len(up) + 1) + 0 - failedTimeouts[MY_ID]
      BY <1>3, <1>5, <1>6 DEF Spare
    <3>3. Spare = losses + Len(up) + 1 - failedTimeouts[MY_ID]
      BY <1>6 DEF Spare
    <3> QED
      BY <3>1, <3>2, <3>3, Numbers, SMTT(30)
  <2> QED
    BY <1>3, <1>6, <2>1 DEF SilenceCosts
<1>10. UnseenCosts'
  BY <1>3, <1>5, <1>6 DEF UnseenCosts, Told
<1> QED
  BY <1>2, <1>7, <1>8, <1>9, <1>10

LEMMA LosePollKeepsLinkInv == LinkInv /\ LosePoll => LinkInv'
<1> SUFFICES ASSUME LinkInv, LosePoll PROVE LinkInv'
  OBVIOUS
<1> USE DEF LinkInv
<1>1. IInv'
  BY IdleSensor DEF LosePoll
<1>2. /\ down # {} /\ down' = {} /\ up' = up /\ half' = half /\ on' = on
      /\ losses' = OneMore(losses)
      /\ wasOff' = wasOff /\ seen' = seen /\ alarmsLost' = alarmsLost
      /\ pc' = pc /\ timer' = timer /\ waitEmergency' = waitEmergency
      /\ sinceIntrusion' = sinceIntrusion
      /\ shown' = shown /\ lastTime' = lastTime
      /\ failedTimeouts' = failedTimeouts /\ Base!TypeOK'
  BY IdleBase DEF LosePoll, PirIdle, pirVars, AirTypes
<1>3. /\ losses' \in 0 .. LossBound /\ losses' >= losses
      /\ losses' < LossBound => losses < LossBound /\ losses' = losses + 1
  BY <1>2, OneMoreOf DEF AirTypes
<1>4. DueIn' = DueIn /\ Alarming' = Alarming /\ Polling = 1 /\ Polling' = 0
  BY <1>2 DEF DueIn, Alarming, Polling
<1>5. AirTypes' /\ OneAlarm' /\ Awake' /\ EndsLate'
  BY <1>2, <1>3, <1>4 DEF AirTypes, OneAlarm, Awake, EndsLate
<1>6. AtMostTwo'
  BY <1>2, <1>4, Numbers, SMTT(30) DEF AtMostTwo
<1>7. FalseTimeoutTakesLosses'
  <2>1. losses' \in Int /\ losses \in Int /\ losses' >= losses
    BY <1>3, Numbers, SMTT(30)
  <2> QED
    BY <1>2, <2>1, TimeoutBound DEF FalseTimeoutTakesLosses
<1>8. SilenceCosts'
  <2>1. losses' < LossBound => losses < LossBound /\ Spare' = Spare
    BY <1>2, <1>3, <1>4, Numbers, SMTT(30) DEF Spare
  <2>2. Quiet' = Quiet /\ Period' = Period
    BY <1>2 DEF Quiet, Period
  <2> QED
    BY <1>2, <1>4, <2>1, <2>2 DEF SilenceCosts
<1>9. UnseenCosts'
  BY <1>2, <1>4 DEF UnseenCosts, Told
<1> QED
  BY <1>1, <1>5, <1>6, <1>7, <1>8, <1>9

-----------------------------------------------------------------------------
(* The last check of the base's patience: as many messages are lost as it
   takes. *)
LEMMA PatienceCosts ==
  ASSUME LinkInv, up = <<>>, down = {}, ~wasOff, shown[MY_ID] # STATUS_TIMEOUT,
         half = 1 => DueIn > 0,
         failedTimeouts[MY_ID] + 1 = TimeoutAfter, lastTime[MY_ID] + 1 = PollAfter
  PROVE  losses >= LossesToTimeout
<1>1. CASE losses = LossBound
  BY <1>1, LinkAssumption
<1>2. CASE losses # LossBound
  <2>1. losses < LossBound
    BY <1>2, LinkAssumption DEF LinkInv, AirTypes
  <2>2. Spare \in Nat /\ Quiet + 2 * DueIn <= (Spare + 1) * Period + half
    BY <2>1, Numbers, SMTT(30) DEF LinkInv, SilenceCosts
  <2>3. Quiet + 1 = TimeoutAfter * PollAfter
    <3>1. (failedTimeouts[MY_ID] + 1) * PollAfter = failedTimeouts[MY_ID] * PollAfter + PollAfter
          /\ failedTimeouts[MY_ID] * PollAfter \in Nat
      BY Products, Numbers
    <3>2. TimeoutAfter * PollAfter = failedTimeouts[MY_ID] * PollAfter + PollAfter
      BY <3>1
    <3>3. Quiet = failedTimeouts[MY_ID] * PollAfter + lastTime[MY_ID]
      BY DEF Quiet
    <3>4. PollAfter \in Nat /\ lastTime[MY_ID] \in Nat
      BY Numbers, SMTT(30), LinkAssumption
    <3> QED
      BY <3>1, <3>2, <3>3, <3>4
  <2>4. 2 * DueIn - half >= 0
    BY Numbers, SMTT(30)
  <2>5. (Spare + 1) * Period \in Nat /\ Quiet \in Nat /\ Quiet <= (Spare + 1) * Period
    <3>1. (Spare + 1) * Period \in Nat
      BY <2>2, Periods, ProductStep, Spare + 1 \in Nat
    <3> QED
      BY <2>2, <2>4, <3>1, Numbers, SMTT(30)
  <2>6. Quiet - 1 < (Spare + 1) * Period
    BY <2>5
  <2>7. (Quiet - 1) \div Period \in Int /\ (Quiet - 1) \div Period <= Spare
    BY <2>2, <2>5, <2>6, Periods, QuotientBound, Quiet - 1 \in Int
  <2>8. Quiet - 1 = TimeoutAfter * PollAfter - 2
    BY <2>3, <2>5
  <2>9. LossesToTimeout = TimeoutAfter - 1 + (Quiet - 1) \div Period
    BY <2>8, Periods DEF LossesToTimeout
  <2>10. Len(up) = 0 /\ Polling = 0
    BY DEF Polling
  <2>11. Spare = losses - (TimeoutAfter - 1)
    <3>1. failedTimeouts[MY_ID] \in Nat /\ losses \in Nat
      BY Numbers, SMTT(30)
    <3>2. Spare = losses - failedTimeouts[MY_ID]
      BY <2>10, <3>1 DEF Spare
    <3>3. failedTimeouts[MY_ID] = TimeoutAfter - 1
      BY <3>1, LinkAssumption
    <3> QED
      BY <3>2, <3>3
  <2> QED
    BY <2>7, <2>9, <2>11, Numbers, SMTT(30), LinkAssumption
<1> QED
  BY <1>1, <1>2

(* Time passes, on both sides: a check more is Quiet and the next report half a
   second closer. *)
LEMMA TimeKeepsLinkInv == LinkInv /\ HalfSecond => LinkInv'
<1> SUFFICES ASSUME LinkInv, HalfSecond PROVE LinkInv'
  OBVIOUS
<1> USE DEF LinkInv
<1>1. /\ up = <<>> /\ down = {} /\ up' = up /\ down' = radio' /\ half' = 1 - half
      /\ on' = on /\ losses' = losses
      /\ wasOff' = wasOff /\ seen' = seen /\ alarmsLost' = alarmsLost
  BY DEF HalfSecond, history
<1>2. /\ Base!TypeOK'
      /\ \/ /\ radio' = {} /\ shown' = shown /\ failedTimeouts' = failedTimeouts
            /\ lastTime'[MY_ID] \in {lastTime[MY_ID], lastTime[MY_ID] + 1}
         \/ /\ radio' = {PollMsg(MY_ID)} /\ lastTime[MY_ID] + 1 = PollAfter
            /\ \/ /\ failedTimeouts[MY_ID] + 1 = TimeoutAfter
                  /\ shown'[MY_ID] = STATUS_TIMEOUT
               \/ /\ failedTimeouts'[MY_ID] = failedTimeouts[MY_ID] + 1
                  /\ lastTime'[MY_ID] = 0 /\ shown' = shown
  BY CheckEffect DEF HalfSecond, AirTypes
<1>3. IInv'
  <2>1. CASE on /\ half = 1
    BY <2>1, Preserved DEF HalfSecond, Next
  <2>2. CASE ~(on /\ half = 1)
    BY <2>2, IdleSensor DEF HalfSecond
  <2> QED
    BY <2>1, <2>2
<1>4. /\ waitEmergency' = waitEmergency
      /\ \/ ~(on /\ half = 1) /\ DueIn' = DueIn /\ sinceIntrusion' = sinceIntrusion /\ pc' = pc
         \/ /\ on /\ half = 1 /\ pc' = "wait" /\ DueIn > 0 /\ DueIn' = DueIn - 1
            /\ sinceIntrusion' \in {sinceIntrusion, sinceIntrusion + 1}
  <2>1. CASE on /\ half = 1
    <3>1. /\ waitEmergency' = waitEmergency /\ pc = "wait" /\ pc' = "wait"
          /\ timer > 0 /\ timer' = timer - 1
          /\ sinceIntrusion' = IF sinceIntrusion < EmergencyTime
                               THEN sinceIntrusion + 1 ELSE EmergencyTime
      BY <2>1 DEF HalfSecond, Second
    <3>2. sinceIntrusion' \in {sinceIntrusion, sinceIntrusion + 1}
      BY <3>1, PirAssumption DEF IInv, TypeOK
    <3> QED
      BY <2>1, <3>1, <3>2 DEF DueIn
  <2>2. CASE ~(on /\ half = 1)
    BY <2>2 DEF HalfSecond, PirIdle, pirVars, DueIn
  <2> QED
    BY <2>1, <2>2
<1>5. /\ Len(up) = 0 /\ Len(up') = 0 /\ Polling = 0 /\ Polling' \in {0, 1}
      /\ Alarming = 0 /\ Alarming' = 0
      /\ \A i, j \in DOMAIN up' : FALSE
  BY <1>1 DEF Polling, Alarming
<1>6. AirTypes' /\ AtMostTwo' /\ OneAlarm' /\ Awake' /\ EndsLate'
  <2>1. down' \subseteq {PollMsg(MY_ID)} /\ half' \in {0, 1}
    BY <1>1, <1>2, Numbers, SMTT(30)
  <2>2. AirTypes'
    BY <1>1, <1>2, <2>1 DEF AirTypes
  <2>3. AtMostTwo' /\ OneAlarm'
    <3>1. Polling' = 0 \/ Polling' = 1
      BY <1>5
    <3>2. Len(up') = 0
      BY <1>5
    <3>3. AtMostTwo'
      BY <3>1, <3>2 DEF AtMostTwo
    <3>4. OneAlarm'
      BY <1>5 DEF OneAlarm
    <3> QED
      BY <3>3, <3>4
  <2>4. Awake' /\ EndsLate'
    BY <1>1, <1>4 DEF Awake, EndsLate
  <2> QED
    BY <2>2, <2>3, <2>4
<1>7. UnseenCosts'
  <2>1. Told' = Told /\ Told \in Nat
    BY <1>1, <1>5, Numbers, SMTT(30) DEF Told
  <2>2. (Told + 1) * SendInterval \in Nat
    BY <2>1, PirAssumption, ProductStep, Told + 1 \in Nat
  <2>3. /\ sinceIntrusion \in Nat /\ DueIn \in Nat
        /\ sinceIntrusion' + DueIn' \in {sinceIntrusion + DueIn, sinceIntrusion + DueIn - 1}
    <3>1. sinceIntrusion \in Nat /\ DueIn \in Nat
      BY Numbers, SMTT(30)
    <3>2. CASE sinceIntrusion' = sinceIntrusion /\ DueIn' = DueIn
      BY <3>1, <3>2
    <3>3. CASE sinceIntrusion' = sinceIntrusion /\ DueIn' = DueIn - 1
      BY <3>1, <3>3
    <3>4. CASE sinceIntrusion' = sinceIntrusion + 1 /\ DueIn' = DueIn - 1
      BY <3>1, <3>4
    <3> QED
      BY <1>4, <3>1, <3>2, <3>3, <3>4
  <2>4. sinceIntrusion + DueIn <= (Told + 1) * SendInterval
          => sinceIntrusion' + DueIn' <= (Told + 1) * SendInterval
    BY <2>2, <2>3
  <2> QED
    BY <1>1, <1>4, <2>1, <2>4 DEF UnseenCosts
<1>8. on /\ half = 1 => DueIn > 0
  BY <1>4
<1>9. FalseTimeoutTakesLosses'
  <2> SUFFICES ASSUME ~wasOff, shown'[MY_ID] = STATUS_TIMEOUT PROVE losses >= LossesToTimeout
    BY <1>1 DEF FalseTimeoutTakesLosses
  <2>1. CASE shown[MY_ID] = STATUS_TIMEOUT
    BY <2>1 DEF FalseTimeoutTakesLosses
  <2>2. CASE shown[MY_ID] # STATUS_TIMEOUT
    <3>1. failedTimeouts[MY_ID] + 1 = TimeoutAfter /\ lastTime[MY_ID] + 1 = PollAfter
      BY <1>2, <2>2
    <3>2. half = 1 => DueIn > 0
      BY <1>8 DEF Awake
    <3> QED
      BY <1>1, <2>2, <3>1, <3>2, PatienceCosts
  <2> QED
    BY <2>1, <2>2
<1>10. SilenceCosts'
  <2> SUFFICES ASSUME ~wasOff, shown'[MY_ID] # STATUS_TIMEOUT, losses < LossBound
               PROVE  Spare' >= 0 /\ Quiet' + 2 * DueIn' <= (Spare' + 1) * Period' + half'
    BY <1>1 DEF SilenceCosts
  <2>1. shown' = shown
    BY <1>2
  <2>2. Spare >= 0 /\ Quiet + 2 * DueIn <= (Spare + 1) * Period + half
    BY <2>1 DEF SilenceCosts
  <2>3. Quiet' <= Quiet + 1 /\ Quiet' \in Nat
    <3>1. CASE failedTimeouts' = failedTimeouts
               /\ lastTime'[MY_ID] \in {lastTime[MY_ID], lastTime[MY_ID] + 1}
      <4>1. failedTimeouts[MY_ID] * PollAfter \in Nat /\ lastTime[MY_ID] \in Nat
        BY Products, Numbers
      <4>2. /\ Quiet = failedTimeouts[MY_ID] * PollAfter + lastTime[MY_ID]
            /\ Quiet' = failedTimeouts[MY_ID] * PollAfter + lastTime'[MY_ID]
        BY <3>1 DEF Quiet
      <4> QED
        BY <3>1, <4>1, <4>2
    <3>2. CASE /\ lastTime[MY_ID] + 1 = PollAfter /\ lastTime'[MY_ID] = 0
               /\ failedTimeouts'[MY_ID] = failedTimeouts[MY_ID] + 1
      <4>1. /\ failedTimeouts[MY_ID] * PollAfter \in Nat
            /\ (failedTimeouts[MY_ID] + 1) * PollAfter
                 = failedTimeouts[MY_ID] * PollAfter + PollAfter
        BY Products, Numbers
      <4>2. Quiet = failedTimeouts[MY_ID] * PollAfter + lastTime[MY_ID]
        BY DEF Quiet
      <4>3. Quiet' = (failedTimeouts[MY_ID] + 1) * PollAfter
        <5>1. (failedTimeouts[MY_ID] + 1) * PollAfter \in Nat
          BY <4>1, LinkAssumption
        <5> QED
          BY <3>2, <5>1 DEF Quiet
      <4>4. lastTime[MY_ID] \in Nat /\ PollAfter \in Nat
        BY Numbers, SMTT(30), LinkAssumption
      <4> QED
        BY <3>2, <4>1, <4>2, <4>3, <4>4
    <3> QED
      BY <1>2, <2>1, <3>1, <3>2
  <2>4. Spare' = Spare
    <3>1. CASE radio' = {} /\ failedTimeouts' = failedTimeouts
      <4>1. Polling' = 0
        BY <1>1, <3>1 DEF Polling
      <4> QED
        BY <1>1, <1>5, <3>1, <4>1, Numbers, SMTT(30) DEF Spare
    <3>2. CASE radio' = {PollMsg(MY_ID)} /\ failedTimeouts'[MY_ID] = failedTimeouts[MY_ID] + 1
      <4>1. Polling' = 1
        BY <1>1, <3>2 DEF Polling
      <4> QED
        BY <1>1, <1>5, <3>2, <4>1, Numbers, SMTT(30) DEF Spare
    <3> QED
      BY <1>2, <2>1, <3>1, <3>2
  <2>5. \/ half = 0 /\ half' = 1 /\ DueIn' = DueIn
        \/ half = 1 /\ half' = 0 /\ DueIn' = DueIn - 1
    BY <1>1, <1>4, Numbers, SMTT(30) DEF Awake
  <2>6. (Spare + 1) * Period \in Nat
    <3>1. Spare + 1 \in Nat
      BY <2>2, Numbers, SMTT(30)
    <3> QED
      BY <3>1, Periods, ProductStep
  <2>7. Period' = Period /\ half' \in {0, 1}
    BY <1>1, Numbers, SMTT(30) DEF Period
  <2>8. Quiet' + 2 * DueIn' <= (Spare + 1) * Period + half'
    <3>1. Quiet \in Nat /\ DueIn \in Nat
      BY Numbers, SMTT(30)
    <3>2. CASE half = 0 /\ half' = 1 /\ DueIn' = DueIn
      BY <2>2, <2>3, <2>6, <3>1, <3>2
    <3>3. CASE half = 1 /\ half' = 0 /\ DueIn' = DueIn - 1
      BY <2>2, <2>3, <2>6, <3>1, <3>3
    <3> QED
      BY <2>5, <3>2, <3>3
  <2> QED
    BY <2>2, <2>4, <2>7, <2>8
<1> QED
  BY <1>3, <1>6, <1>7, <1>9, <1>10

(* Without power there is nothing to account for. *)
LEMMA PowerKeepsLinkInv == LinkInv /\ (PowerOff \/ PowerOn) => LinkInv'
<1> SUFFICES ASSUME LinkInv, PowerOff \/ PowerOn PROVE LinkInv'
  OBVIOUS
<1> USE DEF LinkInv
<1>1. /\ up' = up /\ down' = down /\ losses' = losses
      /\ shown' = shown /\ lastTime' = lastTime
      /\ failedTimeouts' = failedTimeouts /\ Base!TypeOK'
      /\ Alarming' = Alarming /\ Polling' = Polling
  BY IdleBase DEF PowerOff, PowerOn, history, AirTypes, Alarming, Polling
<1>2. FalseTimeoutTakesLosses'
  BY <1>1 DEF PowerOff, PowerOn, history, FalseTimeoutTakesLosses
<1>3. CASE PowerOff
  <2>1. /\ pc' = "wait" /\ timer' = SendInterval /\ ~waitEmergency' /\ wasOff'
        /\ alarmsLost' = 0 /\ half' = half /\ on' = FALSE
    BY <1>3 DEF PowerOff, Restart
  <2>2. IInv'
    BY <1>3, Preserved DEF PowerOff, Next
  <2>3. DueIn' = SendInterval /\ DueIn' # 0
    BY <2>1, PirAssumption DEF DueIn
  <2>4. AirTypes' /\ OneAlarm' /\ Awake' /\ EndsLate'
    <3>1. on' \in BOOLEAN
      BY <2>1
    <3>2. alarmsLost' \in 0 .. LossBound
      BY <2>1, LinkAssumption
    <3>3. AirTypes'
      BY <1>1, <2>1, <3>1, <3>2 DEF AirTypes
    <3>4. OneAlarm'
      BY <1>1, <2>3 DEF OneAlarm
    <3> QED
      BY <2>1, <3>3, <3>4 DEF Awake, EndsLate
  <2>5. AtMostTwo'
    BY <1>1, <2>3, Numbers, SMTT(30) DEF AtMostTwo
  <2>6. SilenceCosts' /\ UnseenCosts'
    BY <2>1 DEF SilenceCosts, UnseenCosts
  <2> QED
    BY <1>2, <2>2, <2>4, <2>5, <2>6
<1>4. CASE PowerOn
  <2>1. /\ pc' = pc /\ timer' = timer /\ waitEmergency' = waitEmergency
        /\ sinceIntrusion' = sinceIntrusion /\ seen' = seen /\ alarmsLost' = alarmsLost
        /\ half' = 0 /\ on' = TRUE /\ wasOff' = wasOff /\ ~on
    BY <1>4 DEF PowerOn, PirIdle, pirVars, history
  <2>2. IInv'
    BY <1>4, IdleSensor DEF PowerOn
  <2>3. DueIn' = DueIn
    BY <2>1 DEF DueIn
  <2>4. AirTypes' /\ OneAlarm' /\ Awake' /\ EndsLate' /\ AtMostTwo'
    BY <1>1, <2>1, <2>3 DEF AirTypes, OneAlarm, Awake, EndsLate, AtMostTwo
  <2>5. SilenceCosts' /\ UnseenCosts'
    BY <1>1, <2>1, <2>3 DEF SilenceCosts, UnseenCosts, Told, Awake
  <2> QED
    BY <1>2, <2>2, <2>4, <2>5
<1> QED
  BY <1>3, <1>4

-----------------------------------------------------------------------------
LEMMA LinkInitially == LinkInit => LinkInv
<1> SUFFICES ASSUME LinkInit PROVE LinkInv
  OBVIOUS
<1> USE PirAssumption, LinkAssumption
<1>1. IInv
  BY Initially DEF LinkInit
<1>2. /\ up = <<>> /\ down = {} /\ half = 0 /\ on \in BOOLEAN /\ losses = 0
      /\ wasOff = ~on /\ alarmsLost = 0 /\ pc = "wait" /\ timer = SendInterval
      /\ waitEmergency = FALSE
      /\ shown = [i \in Slot |-> STATUS_OK] /\ lastTime = [i \in Slot |-> 0]
      /\ failedTimeouts = [i \in Slot |-> 0]
  BY DEF LinkInit, Init, Base!Init, Base!STATUS_OK
<1>3. Base!TypeOK
  <2>1. Base!SilenceLimit \in Nat
    BY ProductStep DEF Base!SilenceLimit
  <2>2. type \in [Slot -> Base!SensorType] /\ shown \in [Slot -> Base!Status]
    BY DEF LinkInit, Base!Init, Base!SensorType, Base!SENSOR_NONE, Base!SENSOR_RFID, SENSOR_PIR,
           Base!Status, Base!STATUS_OK, Base!STATUS_TIMEOUT
  <2>3. /\ lastTime \in [Slot -> 0 .. PollAfter - 1]
        /\ failedTimeouts \in [Slot -> 0 .. TimeoutAfter - 1]
    BY <1>2
  <2>4. silence \in [Slot -> 0 .. Base!SilenceLimit]
    BY <2>1 DEF LinkInit, Base!Init
  <2>5. isAlarmEnabled \in BOOLEAN
    BY DEF LinkInit, Base!Init
  <2>6. portB \in {0, 1} /\ sigfoxAge \in 0 .. 0
    BY DEF LinkInit, Base!Init
  <2> QED
    BY <2>2, <2>3, <2>4, <2>5, <2>6 DEF Base!TypeOK
<1>4. AirTypes
  BY <1>2, <1>3 DEF AirTypes
<1>5. /\ Alarming = 0 /\ Polling = 0 /\ DueIn = SendInterval /\ Len(up) = 0
      /\ \A i \in DOMAIN up : FALSE
  BY <1>2 DEF Alarming, Polling, DueIn
<1>6. AtMostTwo /\ OneAlarm /\ Awake /\ EndsLate
  <2>1. AtMostTwo /\ OneAlarm
    BY <1>5 DEF AtMostTwo, OneAlarm
  <2> QED
    BY <1>2, <2>1 DEF Awake, EndsLate
<1>7. SilenceCosts
  <2>1. failedTimeouts[MY_ID] = 0 /\ lastTime[MY_ID] = 0
    BY <1>2 DEF Slot
  <2>2. Quiet = 0 /\ Spare = 0
    BY <1>2, <1>5, <2>1 DEF Quiet, Spare
  <2> QED
    BY <1>2, <1>5, <2>2 DEF SilenceCosts, Period
<1>8. UnseenCosts /\ FalseTimeoutTakesLosses
  BY <1>2 DEF UnseenCosts, FalseTimeoutTakesLosses, Slot, STATUS_TIMEOUT
<1> QED
  BY <1>1, <1>4, <1>6, <1>7, <1>8 DEF LinkInv

LEMMA LinkPreserved == LinkInv /\ [LinkNext]_linkVars => LinkInv'
<1> SUFFICES ASSUME LinkInv, [LinkNext]_linkVars PROVE LinkInv'
  OBVIOUS
<1>1. CASE PirEdge
  BY <1>1, EdgeKeepsLinkInv
<1>2. CASE PirProcess
  BY <1>2, ProcessKeepsLinkInv
<1>3. CASE Deliver
  BY <1>3, DeliverKeepsLinkInv
<1>4. CASE Lose
  BY <1>4, LoseKeepsLinkInv
<1>5. CASE DeliverPoll
  BY <1>5, AnswerKeepsLinkInv
<1>6. CASE LosePoll
  BY <1>6, LosePollKeepsLinkInv
<1>7. CASE HalfSecond
  BY <1>7, TimeKeepsLinkInv
<1>8. CASE PowerOff \/ PowerOn
  BY <1>8, PowerKeepsLinkInv
<1>9. CASE UNCHANGED linkVars
  <2>1. /\ UNCHANGED pirVars /\ sent' = sent
        /\ shown' = shown /\ lastTime' = lastTime /\ failedTimeouts' = failedTimeouts
        /\ up' = up /\ down' = down /\ half' = half /\ on' = on
        /\ losses' = losses /\ wasOff' = wasOff /\ seen' = seen /\ alarmsLost' = alarmsLost
    BY <1>9 DEF linkVars, baseVars, history
  <2>2. /\ pc' = pc /\ timer' = timer /\ waitEmergency' = waitEmergency
        /\ sinceIntrusion' = sinceIntrusion
    BY <2>1 DEF pirVars
  <2>3. IInv'
    BY <2>1 DEF LinkInv, pirVars, IInv, TypeOK
  <2>4. Base!TypeOK'
    BY <1>9 DEF LinkInv, AirTypes, linkVars, baseVars, Base!TypeOK
  <2>5. DueIn' = DueIn /\ Polling' = Polling /\ Alarming' = Alarming
    BY <2>1, <2>2 DEF DueIn, Polling, Alarming
  <2>6. AirTypes' /\ AtMostTwo' /\ OneAlarm' /\ Awake' /\ EndsLate'
    BY <2>1, <2>2, <2>4, <2>5 DEF LinkInv, AirTypes, AtMostTwo, OneAlarm, Awake, EndsLate
  <2>7. SilenceCosts' /\ UnseenCosts' /\ FalseTimeoutTakesLosses'
    BY <2>1, <2>2, <2>5
    DEF LinkInv, SilenceCosts, UnseenCosts, FalseTimeoutTakesLosses, Spare, Quiet, Period, Told
  <2> QED
    BY <2>3, <2>6, <2>7 DEF LinkInv
<1> QED
  BY <1>1, <1>2, <1>3, <1>4, <1>5, <1>6, <1>7, <1>8, <1>9 DEF LinkNext

LEMMA LinkInvariant == LinkSpec => []LinkInv
  BY LinkInitially, LinkPreserved, PTL DEF LinkSpec

-----------------------------------------------------------------------------
(* The base's counters stay below their limits and at most two messages of the
   sensor are on the air, for every choice of periods and patience. *)
THEOREM LinkTypeCorrect == LinkSpec => []LinkTypeOK
<1>1. LinkInv => LinkTypeOK
  <2> SUFFICES ASSUME LinkInv PROVE LinkTypeOK
    OBVIOUS
  <2>1. Len(up) <= 2
    BY Numbers, SMTT(30) DEF LinkInv, AtMostTwo
  <2> QED
    BY <2>1 DEF LinkInv, AirTypes, IInv, LinkTypeOK, Reports
<1> QED
  BY <1>1, LinkInvariant, PTL

(* What was proved of the sensor alone holds of the sensor on the link, where
   the run checks it: the base's polls are among those it may get. *)
THEOREM SensorOnTheLink == LinkSpec => [](ReportedInTime /\ ReportIsTrue)
<1>1. LinkInv => ReportedInTime /\ ReportIsTrue
  BY DEF LinkInv, IInv
<1> QED
  BY <1>1, LinkInvariant, PTL

(* A sensor that works is only declared in TIMEOUT if all polls but the last,
   or their answers, and every report that was due were lost: for any periods
   and any patience of the base (e-protect-base.c:169-188). *)
THEOREM SensorTimesOutByLoss == LinkSpec => []FalseTimeoutTakesLosses
<1>1. LinkInv => FalseTimeoutTakesLosses
  BY DEF LinkInv
<1> QED
  BY <1>1, LinkInvariant, PTL

(* An intrusion ends unseen by the base only if all its reports were lost: for
   any periods (e-protect-sensor-0.c:112-127). *)
THEOREM IntrusionMissedByLoss == LinkSpec => []MissedIntrusionTakesLosses
<1>1. LinkInv => MissedIntrusionTakesLosses
  <2> SUFFICES ASSUME LinkInv, pc = "expired", ~seen PROVE alarmsLost >= LossesToMiss
    BY DEF MissedIntrusionTakesLosses
  <2>1. CASE alarmsLost = LossBound
    BY <2>1, LinkAssumption
  <2>2. CASE alarmsLost # LossBound
    <3>1. waitEmergency /\ sinceIntrusion = EmergencyTime /\ DueIn = 0 /\ Alarming = 0
      BY DEF LinkInv, IInv, EndsLate, OneAlarm, DueIn
    <3>2. alarmsLost \in Nat /\ alarmsLost < LossBound
      BY <2>2, LinkAssumption DEF LinkInv, AirTypes
    <3>3. sinceIntrusion + DueIn <= (Told + 1) * SendInterval /\ Told = alarmsLost
      BY <3>1, <3>2 DEF LinkInv, UnseenCosts, Told
    <3>4. EmergencyTime <= (alarmsLost + 1) * SendInterval
      BY <3>1, <3>3, PirAssumption
    <3>5. (alarmsLost + 1) * SendInterval \in Nat
      BY <3>2, PirAssumption, ProductStep, alarmsLost + 1 \in Nat
    <3>6. EmergencyTime - 1 < (alarmsLost + 1) * SendInterval /\ EmergencyTime - 1 \in Int
      BY <3>4, <3>5, PirAssumption
    <3>7. /\ (EmergencyTime - 1) \div SendInterval \in Int
          /\ (EmergencyTime - 1) \div SendInterval <= alarmsLost
      BY <3>2, <3>6, PirAssumption, QuotientBound
    <3> QED
      BY <3>2, <3>7 DEF LossesToMiss
  <2> QED
    BY <2>1, <2>2
<1> QED
  BY <1>1, LinkInvariant, PTL
-----------------------------------------------------------------------------
(* The base of the link is the base of which BaseProofs proves its theorems. *)
Proven == INSTANCE BaseProofs WITH
  status <- shown, PresetType <- [i \in Slot |-> SENSOR_PIR], ReportedType <- {SENSOR_NONE},
  Key <- {}, AllowedKey <- {}, SigfoxAfter <- 0

LEMMA SameNames ==
  /\ Base!Status = Proven!Status /\ Base!ReportedStatus = Proven!ReportedStatus
  /\ Base!SensorType = Proven!SensorType /\ Base!SENSOR_NONE = Proven!SENSOR_NONE
  /\ Base!STATUS_OK = Proven!STATUS_OK /\ Base!STATUS_TIMEOUT = Proven!STATUS_TIMEOUT
  /\ Base!SilenceLimit = Proven!SilenceLimit /\ Base!Monitored = Proven!Monitored
  BY DEF Base!Status, Base!ReportedStatus, Base!SensorType, Base!SENSOR_NONE, Base!SENSOR_RFID,
         Base!STATUS_OK, Base!STATUS_EMERGENCY, Base!STATUS_TIMEOUT,
         Base!SilenceLimit, Base!Monitored,
         Proven!Status, Proven!ReportedStatus, Proven!SensorType, Proven!SENSOR_NONE,
         Proven!SENSOR_RFID, Proven!STATUS_OK, Proven!STATUS_EMERGENCY, Proven!STATUS_TIMEOUT,
         Proven!SilenceLimit, Proven!Monitored

LEMMA SameCheck == Base!Check => Proven!Check
<1>1. Base!Due = Proven!Due /\ Base!Failing = Proven!Failing
  BY SameNames DEF Base!Due, Proven!Due, Base!Failing, Proven!Failing
<1> QED
  BY SameNames, <1>1
  DEF Base!Check, Base!UpTo, Base!PollMsg, Base!StatusMsg,
      Proven!Check, Proven!UpTo, Proven!PollMsg, Proven!StatusMsg

LEMMA SameReceive ==
  ASSUME NEW i \in Slot, NEW st, NEW ty, Base!ReceiveStatus(i, st, ty)
  PROVE  Proven!ReceiveStatus(i, st, ty)
  BY SameNames
  DEF Base!ReceiveStatus, Base!Heard, Base!UpdateDataToServer, Base!StatusMsg,
      Proven!ReceiveStatus, Proven!Heard, Proven!UpdateDataToServer, Proven!StatusMsg

LEMMA SameSteps == Base!Next => Proven!Next
  BY SameNames, SameCheck, SameReceive DEF Base!Next, Base!Receive, Proven!Next, Proven!Receive

LEMMA SameAssumption == Proven!BaseAssumption
  BY LinkAssumption
  DEF Proven!BaseAssumption, Proven!SensorType, Proven!SENSOR_NONE, Proven!SENSOR_RFID,
      SENSOR_NONE, SENSOR_PIR

(* Its inductive invariant is one of the steps the base makes on the link. *)
LEMMA ProvenInitially == Base!Init => Proven!IInv
<1>1. Base!Init => Proven!Init
  BY SameNames DEF Base!Init, Proven!Init
<1> QED
  BY <1>1, SameAssumption, Proven!IInvInitially

LEMMA ProvenPreserved == Proven!IInv /\ [Base!Next]_baseVars => Proven!IInv'
<1>1. Proven!IInv /\ Base!Next => Proven!IInv'
  <2>1. Proven!TypeOK /\ [Proven!Next]_(Proven!vars) => Proven!TypeOK'
    BY SameAssumption, Proven!TypePreserved
  <2>2. Proven!IInv /\ Proven!TypeOK' /\ [Proven!Next]_(Proven!vars) => Proven!IInv'
    BY SameAssumption, Proven!IInvPreserved
  <2> QED
    BY <2>1, <2>2, SameSteps DEF Proven!IInv
<1>2. Proven!IInv /\ UNCHANGED baseVars => Proven!IInv'
  BY SameAssumption, Proven!IInvOfTable DEF baseVars, Proven!table
<1> QED
  BY <1>1, <1>2

LEMMA BaseSteps == LinkInv /\ [LinkNext]_linkVars => [Base!Next]_baseVars
<1> SUFFICES ASSUME LinkInv, [LinkNext]_linkVars PROVE [Base!Next]_baseVars
  OBVIOUS
<1>1. CASE Deliver
  <2>1. Head(up) \in Reports
    BY <1>1 DEF Deliver, LinkInv, AirTypes
  <2>2. Head(up).st \in Base!ReportedStatus /\ Head(up).ty \in {SENSOR_NONE}
    BY <2>1, Kinds DEF ReportedStatus, STATUS_OK, STATUS_EMERGENCY,
                       Base!ReportedStatus, Base!STATUS_OK, Base!STATUS_EMERGENCY
  <2>3. Base!ReceiveStatus(MY_ID, Head(up).st, Head(up).ty)
    BY <1>1 DEF Deliver
  <2> QED
    BY <2>2, <2>3 DEF Base!Next, Base!Receive, Slot
<1>2. CASE HalfSecond
  BY <1>2 DEF HalfSecond, Base!Next
<1>3. CASE PirEdge \/ PirProcess \/ Lose \/ DeliverPoll \/ LosePoll \/ PowerOff \/ PowerOn
  BY <1>3 DEF PirEdge, PirProcess, Lose, DeliverPoll, LosePoll, PowerOff, PowerOn, BaseIdle
<1>4. CASE UNCHANGED linkVars
  BY <1>4 DEF linkVars
<1> QED
  BY <1>1, <1>2, <1>3, <1>4 DEF LinkNext

(* Base assumes what sensors may send; what the PIR sensor does send, at any
   moment and with whatever losses, is of that kind, so that the base's half
   of the link implements Base (e-protect-base.c:76-101,169-188). *)
THEOREM BaseOfTheLink == LinkSpec => BaseOnTheLink
<1>1. LinkInit => Base!Init
  BY DEF LinkInit
<1> QED
  BY <1>1, BaseSteps, LinkInvariant, PTL DEF LinkSpec, BaseOnTheLink

(* On the link too TIMEOUT is shown exactly for as many silent checks as the
   base has patience for (e-protect-base.c:169-188). *)
THEOREM TimeoutExactOnTheLink == LinkSpec => []Base!TimeoutIffSilent
<1>1. Proven!IInv => Base!TimeoutIffSilent
  BY SameNames DEF Proven!IInv, Proven!TimeoutIffSilent, Base!TimeoutIffSilent
<1>2. LinkInit => Base!Init
  BY DEF LinkInit
<1> QED
  BY <1>1, <1>2, ProvenInitially, ProvenPreserved, BaseSteps, LinkInvariant, PTL DEF LinkSpec
=============================================================================
