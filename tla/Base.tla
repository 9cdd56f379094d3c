-------------------------------- MODULE Base --------------------------------
(***************************************************************************)
(* The firmware of the base station,                                       *)
(* SE/ContikiOS/contiki/examples/e-protect/e-protect-base.c: the table of  *)
(* sensors, the handler of the messages the sensors multicast (receiver),  *)
(* and the process that every half second counts the silence of each       *)
(* sensor, polls it and finally declares it in TIMEOUT.                    *)
(*                                                                         *)
(* Contiki schedules the handler and the process cooperatively: neither    *)
(* can interrupt the other, so each is one atomic action here.             *)
(***************************************************************************)
EXTENDS Naturals, EProtect

CONSTANTS
  Slot,          \* indices of sensorsList (0..19 in the code)
  PresetType,    \* [Slot -> SensorType]: the types written at boot
  PollAfter,     \* checks without news before a poll (11)
  TimeoutAfter,  \* polls without news before TIMEOUT (3)
  Key,           \* the contents an RFID card can have
  AllowedKey,    \* the keys isAllowed() accepts
  ReportedType,  \* the "ty" a status report can carry, SENSOR_NONE for none
  SigfoxAfter    \* checks between two SigFox frames (60 s and over: 122)

ASSUME BaseAssumption ==
  /\ PresetType \in [Slot -> SensorType]
  /\ PollAfter \in Nat \ {0}
  /\ TimeoutAfter \in Nat \ {0}
  /\ SigfoxAfter \in Nat
  /\ ReportedType \subseteq SensorType
  /\ AllowedKey \subseteq Key

VARIABLES
  type, status, lastTime, failedTimeouts,  \* the fields of sensorsList[i]
  isAlarmEnabled,
  portB,      \* bit 0 of the output latch PORTB, read as "Raspberry is OK"
  sigfoxAge,  \* checks since prevTimeSIGFOX, counted up to SigfoxAfter
  radio,      \* the messages multicast by the last step
  uart,       \* the lines printed to the Raspberry by the last step
  silence     \* history: checks since sensor i was heard, up to SilenceLimit

table == <<type, status, lastTime, failedTimeouts>>
vars  == <<table, isAlarmEnabled, portB, sigfoxAge, radio, uart, silence>>

SilenceLimit == TimeoutAfter * PollAfter

(* Slip: sensors in emergency are not watched. *)
MonitoredUnlessEmergency ==
  {i \in Slot : type[i] # SENSOR_NONE /\ status[i] # STATUS_EMERGENCY}

Monitored == {i \in Slot : type[i] # SENSOR_NONE}

UpTo(n, bound) == IF n < bound THEN n ELSE bound

TypeOK ==
  /\ type \in [Slot -> SensorType]
  /\ status \in [Slot -> Status]
  /\ lastTime \in [Slot -> 0 .. PollAfter - 1]
  /\ failedTimeouts \in [Slot -> 0 .. TimeoutAfter - 1]
  /\ isAlarmEnabled \in BOOLEAN
  /\ portB \in {0, 1}
  /\ sigfoxAge \in 0 .. SigfoxAfter
  /\ silence \in [Slot -> 0 .. SilenceLimit]

Init ==
  /\ type = PresetType
  /\ status = [i \in Slot |-> STATUS_OK]
  /\ lastTime = [i \in Slot |-> 0]
  /\ failedTimeouts = [i \in Slot |-> 0]
  /\ isAlarmEnabled = FALSE
  /\ portB = 0
  /\ sigfoxAge = 0
  /\ radio = {}
  /\ uart = {}
  /\ silence = [i \in Slot |-> 0]

-----------------------------------------------------------------------------
(* updateDataToServer(): lines go to the UART when bit 0 of PORTB is set.
   Otherwise sendDataSIGFOX(0) restarts its period if it is over; the frame
   it fills is a local array that is never handed to the modem. *)
UpdateDataToServer(lines) ==
  IF portB = 1
  THEN uart' = lines /\ UNCHANGED sigfoxAge
  ELSE /\ uart' = {}
       /\ sigfoxAge' = IF sigfoxAge = SigfoxAfter THEN 0 ELSE sigfoxAge

(* Slips: a counter is not reset when the sensor is heard. *)
HeardKeepingTimeouts(i, st) ==
  /\ status' = [status EXCEPT ![i] = st]
  /\ lastTime' = [lastTime EXCEPT ![i] = 0]
  /\ silence' = [silence EXCEPT ![i] = 0]
  /\ UNCHANGED failedTimeouts

HeardKeepingTime(i, st) ==
  /\ status' = [status EXCEPT ![i] = st]
  /\ failedTimeouts' = [failedTimeouts EXCEPT ![i] = 0]
  /\ silence' = [silence EXCEPT ![i] = 0]
  /\ UNCHANGED lastTime

(* What both branches of receiver() do first with a message of sensor i. *)
Heard(i, st) ==
  /\ status' = [status EXCEPT ![i] = st]
  /\ lastTime' = [lastTime EXCEPT ![i] = 0]
  /\ failedTimeouts' = [failedTimeouts EXCEPT ![i] = 0]
  /\ silence' = [silence EXCEPT ![i] = 0]

(* receiver(), "g": the report also registers a sensor of a free slot. *)
ReceiveStatus(i, st, ty) ==
  /\ Heard(i, st)
  /\ type' = IF type[i] = SENSOR_NONE THEN [type EXCEPT ![i] = ty] ELSE type
  /\ UpdateDataToServer({StatusMsg(i, st, ty)})
  /\ radio' = {}
  /\ UNCHANGED <<isAlarmEnabled, portB>>

(* Slips: the alarm is switched on, not over; every card is allowed; the
   verdict is read after the switch. *)
CodeSwitchesOn(i, st, key) ==
  /\ key \in AllowedKey
  /\ Heard(i, st)
  /\ isAlarmEnabled' = TRUE
  /\ radio' = {LockMsg}
  /\ UpdateDataToServer({CodeMsg(i, st, key), LockMsg})
  /\ UNCHANGED <<type, portB>>

AnyCodeAccepted(i, st, key) ==
  LET verdict == IF isAlarmEnabled THEN UnlockMsg ELSE LockMsg IN
  /\ Heard(i, st)
  /\ isAlarmEnabled' = ~isAlarmEnabled
  /\ radio' = {verdict}
  /\ UpdateDataToServer({CodeMsg(i, st, key), verdict})
  /\ UNCHANGED <<type, portB>>

CodeAcceptedLateVerdict(i, st, key) ==
  LET verdict == IF isAlarmEnabled THEN LockMsg ELSE UnlockMsg IN
  /\ key \in AllowedKey
  /\ Heard(i, st)
  /\ isAlarmEnabled' = ~isAlarmEnabled
  /\ radio' = {verdict}
  /\ UpdateDataToServer({CodeMsg(i, st, key), verdict})
  /\ UNCHANGED <<type, portB>>

(* receiver(), "c" with a card isAllowed() knows: switch the alarm over and
   tell all nodes. *)
CodeAccepted(i, st, key) ==
  LET verdict == IF isAlarmEnabled THEN UnlockMsg ELSE LockMsg IN
  /\ key \in AllowedKey
  /\ Heard(i, st)
  /\ isAlarmEnabled' = ~isAlarmEnabled
  /\ radio' = {verdict}
  /\ UpdateDataToServer({CodeMsg(i, st, key), verdict})
  /\ UNCHANGED <<type, portB>>

(* receiver(), "c" with any other card: the sensor was heard, and that is all. *)
CodeRefused(i, st, key) ==
  /\ key \notin AllowedKey
  /\ Heard(i, st)
  /\ radio' = {}
  /\ uart' = {}
  /\ UNCHANGED <<type, isAlarmEnabled, portB, sigfoxAge>>

ReceiveCode(i, st, key) == CodeAccepted(i, st, key) \/ CodeRefused(i, st, key)

(* Slip: the counter is compared before it is incremented. *)
DueLate == {i \in Monitored : lastTime[i] = PollAfter}

(* The sensors polled, and those declared in TIMEOUT, by a check. *)
Due     == {i \in Monitored : lastTime[i] + 1 = PollAfter}
Failing == {i \in Due : failedTimeouts[i] + 1 = TimeoutAfter}

(* One turn of the loop of check_sensor_status.  TIMEOUT lines are printed
   whatever PORTB says. *)
Check ==
  /\ lastTime' = [i \in Slot |->
                    IF i \in Due THEN 0
                    ELSE IF i \in Monitored THEN lastTime[i] + 1 ELSE lastTime[i]]
  /\ failedTimeouts' = [i \in Slot |->
                          IF i \in Failing THEN 0
                          ELSE IF i \in Due THEN failedTimeouts[i] + 1
                          ELSE failedTimeouts[i]]
  /\ status' = [i \in Slot |-> IF i \in Failing THEN STATUS_TIMEOUT ELSE status[i]]
  /\ radio' = {PollMsg(i) : i \in Due}
  /\ uart' = {StatusMsg(i, STATUS_TIMEOUT, type[i]) : i \in Failing}
  /\ sigfoxAge' = UpTo(sigfoxAge + 1, SigfoxAfter)
  /\ silence' = [i \in Slot |-> UpTo(silence[i] + 1, SilenceLimit)]
  /\ UNCHANGED <<type, isAlarmEnabled, portB>>

(* A message some sensor can send: the base does not fix the firmware behind
   a slot, so a report of any type may come for it. *)
Receive(i) ==
  \/ \E st \in ReportedStatus, ty \in ReportedType : ReceiveStatus(i, st, ty)
  \/ \E key \in Key : ReceiveCode(i, STATUS_OK, key)

Next == Check \/ \E i \in Slot : Receive(i)

(* The etimer makes the process check for ever; messages may stop coming. *)
Spec == Init /\ [][Next]_vars /\ WF_vars(Check)

-----------------------------------------------------------------------------
(* The verdict TIMEOUT is exact: a monitored sensor is shown in TIMEOUT if
   and only if none of its messages arrived for SilenceLimit consecutive
   checks (e-protect-base.c:169-188), although the code keeps no such count
   and restarts both of its counters on every verdict. *)
TimeoutIffSilent ==
  \A i \in Monitored : status[i] = STATUS_TIMEOUT <=> silence[i] = SilenceLimit

(* How the two counters stand for the silence: the strengthening that makes
   TimeoutIffSilent inductive. *)
CountersMeasureSilence ==
  \A i \in Monitored :
     status[i] # STATUS_TIMEOUT =>
       silence[i] = failedTimeouts[i] * PollAfter + lastTime[i]

(* The base keeps the promise of SilenceMonitor: its two nested counters
   behave as one count of silent checks. *)
Monitor == INSTANCE SilenceMonitor WITH
  Sensor    <- Slot,
  Limit     <- SilenceLimit,
  watched   <- Monitored,
  silent    <- [i \in Slot |-> failedTimeouts[i] * PollAfter + lastTime[i]],
  down      <- {i \in Slot : status[i] = STATUS_TIMEOUT},
  polled    <- {i \in Slot : PollMsg(i) \in radio},
  announced <- {i \in Slot : \E ty \in SensorType :
                                StatusMsg(i, STATUS_TIMEOUT, ty) \in uart}

MonitorSpec == Monitor!Spec

(* A sensor the base was told of at boot cannot fall silent unnoticed: its
   messages keep coming, or it is some day shown in TIMEOUT. *)
SilenceDetected ==
  \A i \in Slot : PresetType[i] # SENSOR_NONE =>
     []<><<Receive(i)>>_vars \/ <>(status[i] = STATUS_TIMEOUT)

(* A sensor's change of status, heard by the base, is handed to the Raspberry
   (e-protect-base.c:93, "SEND DATA TO RASPBERRY PI"): not so, since the bit
   that says the Raspberry is there is read from the output latch. *)
StatusTold ==
  [][\A i \in Slot, st \in Status, ty \in SensorType :
       ReceiveStatus(i, st, ty) /\ st # status[i] => StatusMsg(i, st, ty) \in uart']_vars
=============================================================================
