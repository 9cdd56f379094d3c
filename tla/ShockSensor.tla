----------------------------- MODULE ShockSensor -----------------------------
(***************************************************************************)
(* The firmware of the shock sensor, e-protect-sensor-1.c.  A tap detector *)
(* on UART 0 sends lines; lineReadyUART0 runs in the receive interrupt and *)
(* shares waitEmergency and timeIntrusion with the Contiki process.  Other *)
(* than the interrupt of the PIR sensor it writes both at any time, also   *)
(* while an emergency is pending or just being ended.                      *)
(***************************************************************************)
EXTENDS Naturals, EProtect

CONSTANTS
  MY_ID,          \* the sensor's index in the base's table (1)
  EmergencyTime,  \* seconds a shock is reported for after the last tap (20)
  SendInterval    \* seconds between two periodic reports (3)

ASSUME ShockAssumption ==
  /\ EmergencyTime \in Nat \ {0}
  /\ SendInterval \in Nat \ {0}
  /\ SendInterval < EmergencyTime

VARIABLES
  waitEmergency, status,
  sinceIntrusion,  \* clock_seconds() - timeIntrusion, counted up to EmergencyTime
  timer,           \* seconds before periodic_timer expires
  led,             \* PORTF: 1 when locked
  pc,              \* "wait", or the statement the process executes next
  torn,            \* timeIntrusion was written while the process reads its 4 bytes
  sent,            \* the messages multicast by the last step
  unreported,      \* history: a tap was heard and no report told of it since
  inWindow         \* history: that tap fell between expiry test and waitEmergency=0

vars == <<waitEmergency, status, sinceIntrusion, timer, led, pc, torn, sent,
          unreported, inWindow>>

TypeOK ==
  /\ waitEmergency \in BOOLEAN
  /\ status \in ReportedStatus
  /\ sinceIntrusion \in 0 .. EmergencyTime
  /\ timer \in 0 .. SendInterval
  /\ led \in {0, 1}
  /\ pc \in {"wait", "test", "expired", "end", "clear", "send"}
  /\ torn \in BOOLEAN
  /\ sent \subseteq {StatusMsg(MY_ID, st, SENSOR_CHOCK) : st \in ReportedStatus}
  /\ unreported \in BOOLEAN
  /\ inWindow \in BOOLEAN

Init ==
  /\ waitEmergency = FALSE
  /\ status = STATUS_OK
  /\ sinceIntrusion = EmergencyTime
  /\ timer = SendInterval
  /\ led = 0
  /\ pc = "wait"
  /\ torn = FALSE
  /\ sent = {}
  /\ unreported = FALSE
  /\ inWindow = FALSE

-----------------------------------------------------------------------------
(* lineReadyUART0 with "single" or "double" (any other line changes nothing). *)
Tap ==
  /\ waitEmergency' = TRUE
  /\ sinceIntrusion' = 0
  /\ torn' = (pc = "test")
  /\ unreported' = TRUE
  /\ inWindow' = (pc \in {"test", "expired", "end"})
  /\ sent' = {}
  /\ UNCHANGED <<status, timer, led, pc>>

(* The process is woken by its timer, re-arms it and tests waitEmergency. *)
Wake ==
  /\ pc = "wait" /\ timer = 0
  /\ timer' = SendInterval
  /\ status' = IF waitEmergency THEN STATUS_EMERGENCY ELSE status
  /\ pc' = IF waitEmergency THEN "test" ELSE "send"
  /\ torn' = FALSE
  /\ sent' = {}
  /\ UNCHANGED <<waitEmergency, sinceIntrusion, led, unreported, inWindow>>

(* timeIntrusion+20 > clock_seconds().  timeIntrusion is four bytes read one
   by one: if a tap writes it meanwhile, the value read mixes both times and
   the comparison can come out either way. *)
HasExpired ==
  IF torn THEN BOOLEAN ELSE {sinceIntrusion >= EmergencyTime}

TestExpiry ==
  /\ pc = "test"
  /\ \E expired \in HasExpired : pc' = IF expired THEN "expired" ELSE "send"
  /\ torn' = FALSE
  /\ sent' = {}
  /\ UNCHANGED <<waitEmergency, status, sinceIntrusion, timer, led, unreported, inWindow>>

(* Slip: the flag stays set. *)
EmergencyNotEnded ==
  /\ pc \in {"expired", "end"}
  /\ pc' = IF pc = "expired" THEN "clear" ELSE "send"
  /\ sent' = {}
  /\ UNCHANGED <<waitEmergency, status, sinceIntrusion, timer, led, torn, unreported, inWindow>>

(* waitEmergency=0, whatever happened since the test.  The compiler may emit
   this store and the next, status=STATUS_OK, in either order. *)
EndEmergency ==
  /\ pc \in {"expired", "end"}
  /\ waitEmergency' = FALSE
  /\ pc' = IF pc = "expired" THEN "clear" ELSE "send"
  /\ sent' = {}
  /\ UNCHANGED <<status, sinceIntrusion, timer, led, torn, unreported, inWindow>>

(* Slips: the status stays what it was; the flag is cleared once more. *)
StatusNotCleared ==
  /\ pc \in {"expired", "clear"}
  /\ pc' = IF pc = "expired" THEN "end" ELSE "send"
  /\ sent' = {}
  /\ UNCHANGED <<waitEmergency, status, sinceIntrusion, timer, led, torn, unreported, inWindow>>

FlagClearedLast ==
  /\ pc \in {"expired", "clear"}
  /\ status' = STATUS_OK
  /\ waitEmergency' = FALSE
  /\ pc' = IF pc = "expired" THEN "end" ELSE "send"
  /\ sent' = {}
  /\ UNCHANGED <<sinceIntrusion, timer, led, torn, unreported, inWindow>>

(* status=STATUS_OK *)
ClearStatus ==
  /\ pc \in {"expired", "clear"}
  /\ status' = STATUS_OK
  /\ pc' = IF pc = "expired" THEN "end" ELSE "send"
  /\ sent' = {}
  /\ UNCHANGED <<waitEmergency, sinceIntrusion, timer, led, torn, unreported, inWindow>>

(* sendSensorStatus(status) *)
Report ==
  /\ pc = "send"
  /\ sent' = {StatusMsg(MY_ID, status, SENSOR_CHOCK)}
  /\ unreported' = (unreported /\ status # STATUS_EMERGENCY)
  /\ inWindow' = (inWindow /\ unreported')
  /\ pc' = "wait"
  /\ UNCHANGED <<waitEmergency, status, sinceIntrusion, timer, led, torn>>

Process == Wake \/ TestExpiry \/ EndEmergency \/ ClearStatus \/ Report

(* Slip: the LED values are those of the RFID reader. *)
ReceiveReaderLed(m) ==
  /\ pc = "wait"
  /\ sent' = IF m = PollMsg(MY_ID) THEN {StatusMsg(MY_ID, STATUS_OK, SENSOR_CHOCK)} ELSE {}
  /\ led' = IF m = LockMsg THEN 2 ELSE IF m = UnlockMsg THEN 1 ELSE led
  /\ UNCHANGED <<waitEmergency, status, sinceIntrusion, timer, pc, torn,
                 unreported, inWindow>>

(* receiver(), which runs in the same context as the process: a poll of this
   sensor is answered STATUS_OK, "u" and "l" switch the LED. *)
Receive(m) ==
  /\ pc = "wait"
  /\ sent' = IF m = PollMsg(MY_ID) THEN {StatusMsg(MY_ID, STATUS_OK, SENSOR_CHOCK)} ELSE {}
  /\ led' = IF m = LockMsg THEN 1 ELSE IF m = UnlockMsg THEN 0 ELSE led
  /\ UNCHANGED <<waitEmergency, status, sinceIntrusion, timer, pc, torn,
                 unreported, inWindow>>

(* A second passes, never while the process runs or is due. *)
Second ==
  /\ pc = "wait" /\ timer > 0
  /\ timer' = timer - 1
  /\ sinceIntrusion' = IF sinceIntrusion < EmergencyTime
                       THEN sinceIntrusion + 1 ELSE EmergencyTime
  /\ sent' = {}
  /\ UNCHANGED <<waitEmergency, status, led, pc, torn, unreported, inWindow>>

(* PCINT0 is enabled with no handler: a change of PORTB.0 jumps to the reset
   vector and the program starts afresh, at whatever statement it was. *)
Restart ==
  /\ waitEmergency' = FALSE
  /\ status' = STATUS_OK
  /\ sinceIntrusion' = EmergencyTime
  /\ timer' = SendInterval
  /\ led' = 0
  /\ pc' = "wait"
  /\ torn' = FALSE
  /\ sent' = {}
  /\ unreported' = FALSE
  /\ inWindow' = FALSE

Next ==
  \/ Tap \/ Process \/ Second \/ Restart
  \/ \E m \in {PollMsg(MY_ID), LockMsg, UnlockMsg} : Receive(m)

Spec == Init /\ [][Next]_vars /\ WF_vars(Process) /\ WF_vars(Second)

-----------------------------------------------------------------------------
(* "Envoie des donnees si modification d'etat" (AFAIRE.TXT:56): a tap is told
   to the base within one SendInterval.  The code loses a tap that comes
   between the test of the expiry and waitEmergency=0
   (e-protect-sensor-1.c:114-122). *)
TapReported == unreported => sinceIntrusion <= SendInterval

(* That window is the only one: a tap at any other moment, however taps,
   polls and restarts are interleaved, is told in time. *)
TapLostInWindowOnly ==
  unreported /\ ~inWindow => sinceIntrusion <= SendInterval /\ waitEmergency

(* A periodic report says EMERGENCY only while the last tap is less than
   EmergencyTime old, and OK only when no tap is pending, but for a tap that
   came during this very run of the process. *)
ReportIsTrue ==
  pc = "send" =>
    IF status = STATUS_EMERGENCY
    THEN waitEmergency /\ sinceIntrusion < EmergencyTime
    ELSE waitEmergency => unreported /\ sinceIntrusion = 0

(* Once the taps stop, the emergency ends. *)
EmergencyEnds == <>[][~Tap]_vars => <>[]~waitEmergency
=============================================================================
