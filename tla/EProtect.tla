------------------------------ MODULE EProtect ------------------------------
(***************************************************************************)
(* The vocabulary shared by the base and the sensors of E-protect: the     *)
(* status and sensor-type codes of                                         *)
(* SE/ContikiOS/contiki/examples/e-protect/defines.h and the JSON messages *)
(* the nodes multicast on UDP port 1234.  A message is a record; the text  *)
(* it is printed as, and the parsing of that text, are abstracted.         *)
(***************************************************************************)
LOCAL INSTANCE Naturals

STATUS_OK        == 0
STATUS_WARNING   == 1
STATUS_LOW_BAT   == 2
STATUS_ERROR     == 3
STATUS_EMERGENCY == 4
STATUS_TIMEOUT   == 5

Status == STATUS_OK .. STATUS_TIMEOUT

SENSOR_NONE  == 0
SENSOR_PIR   == 1
SENSOR_CHOCK == 2
SENSOR_RFID  == 3

SensorType == SENSOR_NONE .. SENSOR_RFID

(* What a sensor says of itself.  Only a firmware that keeps an intrusion
   flag (PIR, shock) ever says EMERGENCY; TIMEOUT is the base's own verdict
   and no sensor sends it. *)
ReportedStatus == {STATUS_OK, STATUS_EMERGENCY}

(* {"cmd":"g","id":..,"st":..,"ty":..}: a status report.  The PIR firmware
   sends no "ty", which the base's atoi() reads as 0 = SENSOR_NONE. *)
StatusMsg(id, st, ty) == [cmd |-> "g", id |-> id, st |-> st, ty |-> ty]

(* {"cmd":"c",..,"key":..}: the code of the card held to the RFID reader. *)
CodeMsg(id, st, key) == [cmd |-> "c", id |-> id, st |-> st, key |-> key]

(* {"cmd":"s","id":..}: the base asks sensor id for its status. *)
PollMsg(id) == [cmd |-> "s", id |-> id]

(* {"cmd":"l"} and {"cmd":"u"}: the alarm has been switched on, or off. *)
LockMsg   == [cmd |-> "l"]
UnlockMsg == [cmd |-> "u"]
=============================================================================
