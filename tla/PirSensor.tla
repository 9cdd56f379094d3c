------------------------------ MODULE PirSensor ------------------------------
(***************************************************************************)
(* The firmware of a PIR motion sensor, e-protect-sensor-0.c (and          *)
(* e-protect-sensor-2.c, the same program with another MY_ID).             *)
(*                                                                         *)
(* Two threads of control share counter, waitEmergency and timeIntrusion:  *)
(* the pin-change interrupt and the Contiki process.  The interrupt is     *)
(* atomic for the process and may come between any two of its statements;  *)
(* pc says where the process stands.  The handler of radio messages runs   *)
(* in the same context as the process, only while it waits.                *)
(***************************************************************************)
EXTENDS Naturals, EProtect

CONSTANTS
  MY_ID,          \* the sensor's index in the base's table
  EdgeLimit,      \* an edge past this many is an intrusion (2)
  EmergencyTime,  \* seconds an intrusion is reported for (20)
  SendInterval    \* seconds between two periodic reports (3)

ASSUME PirAssumption ==
  /\ EdgeLimit \in Nat
  /\ EmergencyTime \in Nat \ {0}
  /\ SendInterval \in Nat \ {0}
  /\ SendInterval < EmergencyTime

VARIABLES
  counter, waitEmergency, status,
  sinceIntrusion,  \* clock_seconds() - timeIntrusion, counted up to EmergencyTime
  timer,           \* seconds before periodic_timer expires
  pc,              \* "wait", or the statement the process executes next
  sent,            \* the messages multicast by the last step
  unreported       \* history: an intrusion was found and no report told of it

vars == <<counter, waitEmergency, status, sinceIntrusion, timer, pc, sent, unreported>>

TypeOK ==
  /\ counter \in 0 .. EdgeLimit
  /\ waitEmergency \in BOOLEAN
  /\ status \in ReportedStatus
  /\ sinceIntrusion \in 0 .. EmergencyTime
  /\ timer \in 0 .. SendInterval
  /\ pc \in {"wait", "expired", "end", "clear", "send"}
  /\ sent \subseteq {StatusMsg(MY_ID, st, SENSOR_NONE) : st \in ReportedStatus}
  /\ unreported \in BOOLEAN

Init ==
  /\ counter = 0
  /\ waitEmergency = FALSE
  /\ status = STATUS_OK
  /\ sinceIntrusion = EmergencyTime
  /\ timer = SendInterval
  /\ pc = "wait"
  /\ sent = {}
  /\ unreported = FALSE

-----------------------------------------------------------------------------
(* ISR(PCINT0_vect): an edge that does not complete an intrusion, one that
   does, and one while an intrusion is being reported. *)
EdgeCounted ==
  /\ ~waitEmergency
  /\ counter < EdgeLimit
  /\ counter' = counter + 1
  /\ UNCHANGED <<waitEmergency, status, sinceIntrusion, timer, pc, unreported>>

EdgeIsIntrusion ==
  /\ ~waitEmergency
  /\ counter = EdgeLimit
  /\ waitEmergency' = TRUE
  /\ sinceIntrusion' = 0
  /\ counter' = 0
  /\ unreported' = TRUE
  /\ UNCHANGED <<status, timer, pc>>

(* Slip: every edge renews the emergency. *)
EdgeRenews ==
  /\ waitEmergency
  /\ sinceIntrusion' = 0
  /\ UNCHANGED <<counter, waitEmergency, status, timer, pc, unreported>>

EdgeIgnored == waitEmergency /\ UNCHANGED <<counter, waitEmergency, status,
                                            sinceIntrusion, timer, pc, unreported>>

(* Slip: edges are counted during an emergency too. *)
EdgeUnguarded ==
  /\ sent' = {}
  /\ counter' = IF counter < EdgeLimit THEN counter + 1 ELSE 0
  /\ IF counter < EdgeLimit
     THEN UNCHANGED <<waitEmergency, sinceIntrusion, unreported>>
     ELSE waitEmergency' = TRUE /\ sinceIntrusion' = 0 /\ unreported' = TRUE
  /\ UNCHANGED <<status, timer, pc>>

Edge == (EdgeCounted \/ EdgeIsIntrusion \/ EdgeIgnored) /\ sent' = {}

-----------------------------------------------------------------------------
(* Slip: an emergency is over after the first report. *)
WakeImpatient ==
  /\ pc = "wait" /\ timer = 0
  /\ timer' = SendInterval
  /\ status' = IF waitEmergency THEN STATUS_EMERGENCY ELSE status
  /\ pc' = IF waitEmergency /\ sinceIntrusion > SendInterval THEN "expired" ELSE "send"
  /\ sent' = {}
  /\ UNCHANGED <<counter, waitEmergency, sinceIntrusion, unreported>>

(* The process is woken by its timer and re-arms it.  While waitEmergency is
   set the interrupt writes nothing, so the test of the flag and the reading
   of timeIntrusion are one step. *)
Wake ==
  /\ pc = "wait" /\ timer = 0
  /\ timer' = SendInterval
  /\ status' = IF waitEmergency THEN STATUS_EMERGENCY ELSE status
  /\ pc' = IF waitEmergency /\ sinceIntrusion >= EmergencyTime THEN "expired" ELSE "send"
  /\ sent' = {}
  /\ UNCHANGED <<counter, waitEmergency, sinceIntrusion, unreported>>

(* waitEmergency=0: from here on the interrupt may find the next intrusion.
   No call separates this store from the next one, status=STATUS_OK, and
   neither variable is volatile: the compiler may emit them in either order. *)
EndEmergency ==
  /\ pc \in {"expired", "end"}
  /\ waitEmergency' = FALSE
  /\ pc' = IF pc = "expired" THEN "clear" ELSE "send"
  /\ sent' = {}
  /\ UNCHANGED <<counter, status, sinceIntrusion, timer, unreported>>

(* Slip: the status stays what it was. *)
StatusNotCleared ==
  /\ pc \in {"expired", "clear"}
  /\ pc' = IF pc = "expired" THEN "end" ELSE "send"
  /\ sent' = {}
  /\ UNCHANGED <<counter, waitEmergency, status, sinceIntrusion, timer, unreported>>

(* status=STATUS_OK *)
ClearStatus ==
  /\ pc \in {"expired", "clear"}
  /\ status' = STATUS_OK
  /\ pc' = IF pc = "expired" THEN "end" ELSE "send"
  /\ sent' = {}
  /\ UNCHANGED <<counter, waitEmergency, sinceIntrusion, timer, unreported>>

(* sendSensorStatus(status) *)
Report ==
  /\ pc = "send"
  /\ sent' = {StatusMsg(MY_ID, status, SENSOR_NONE)}
  /\ unreported' = (unreported /\ status # STATUS_EMERGENCY)
  /\ pc' = "wait"
  /\ UNCHANGED <<counter, waitEmergency, status, sinceIntrusion, timer>>

Process == Wake \/ EndEmergency \/ ClearStatus \/ Report

(* receiver(): the answer to a poll is STATUS_OK, whatever the status is.
   Polls of other sensors and all other messages are ignored. *)
Answer(m) ==
  /\ pc = "wait"
  /\ sent' = IF m = PollMsg(MY_ID) THEN {StatusMsg(MY_ID, STATUS_OK, SENSOR_NONE)} ELSE {}
  /\ UNCHANGED <<counter, waitEmergency, status, sinceIntrusion, timer, pc, unreported>>

(* A second passes.  The process takes milliseconds: no second passes while
   it runs or is due. *)
Second ==
  /\ pc = "wait" /\ timer > 0
  /\ timer' = timer - 1
  /\ sinceIntrusion' = IF sinceIntrusion < EmergencyTime
                       THEN sinceIntrusion + 1 ELSE EmergencyTime
  /\ sent' = {}
  /\ UNCHANGED <<counter, waitEmergency, status, pc, unreported>>

(* The power fails and comes back, at whatever statement the process is. *)
Restart ==
  /\ counter' = 0
  /\ waitEmergency' = FALSE
  /\ status' = STATUS_OK
  /\ sinceIntrusion' = EmergencyTime
  /\ timer' = SendInterval
  /\ pc' = "wait"
  /\ sent' = {}
  /\ unreported' = FALSE

Next == Edge \/ Process \/ Second \/ Answer(PollMsg(MY_ID)) \/ Restart

(* The processor runs and time passes; edges and polls come if they come. *)
Spec == Init /\ [][Next]_vars /\ WF_vars(Process) /\ WF_vars(Second)

-----------------------------------------------------------------------------
(* An intrusion is told to the base by the next periodic report, within one
   SendInterval, even when the interrupt strikes while the process is busy
   ending the previous emergency (e-protect-sensor-0.c:33-48 against
   112-127). *)
ReportedInTime == unreported => sinceIntrusion <= SendInterval /\ waitEmergency

(* A periodic report tells the truth: EMERGENCY while an intrusion is less
   than EmergencyTime old and only then; the one exception is an intrusion
   found after this very run of the process looked at the flag. *)
ReportIsTrue ==
  pc = "send" =>
    IF status = STATUS_EMERGENCY
    THEN waitEmergency /\ sinceIntrusion < EmergencyTime
    ELSE waitEmergency => unreported /\ sinceIntrusion = 0

(* An emergency ends by itself and the sensor can find the next intrusion. *)
EmergencyEnds == waitEmergency ~> ~waitEmergency
=============================================================================
