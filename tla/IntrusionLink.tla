---------------------------- MODULE IntrusionLink ----------------------------
(***************************************************************************)
(* A PIR sensor and the base, over the radio.  The nodes multicast UDP     *)
(* datagrams that nobody acknowledges and nobody repeats (nullmac and      *)
(* simple_udp): a message is delivered at once or lost.  The sensor may    *)
(* lose its power and get it back at any moment, which restarts it.        *)
(*                                                                         *)
(* The base's clock beats every half second, the sensor's every second;    *)
(* when the sensor was switched on fixes how the two are aligned.          *)
(***************************************************************************)
EXTENDS PirSensor, Sequences

CONSTANTS
  PollAfter, TimeoutAfter,  \* of Base
  LossBound                 \* losses are counted up to this

(* The messages that must be lost for a working sensor to look dead: all polls
   but the last, or their answers, and the reports that are due between two
   checks within the base's patience, a check being half a second.  And for an
   intrusion to pass unseen: the reports of its EmergencyTime. *)
LossesToTimeout ==
  TimeoutAfter - 1 + (TimeoutAfter * PollAfter - 2) \div (2 * SendInterval)
LossesToMiss == (EmergencyTime - 1) \div SendInterval

ASSUME LinkAssumption ==
  /\ PollAfter \in Nat \ {0} /\ TimeoutAfter \in Nat \ {0}
  /\ LossBound \in Nat
  /\ LossBound >= LossesToTimeout /\ LossBound >= LossesToMiss

VARIABLES
  (* the base; shown is the status it keeps of the sensor *)
  type, shown, lastTime, failedTimeouts, isAlarmEnabled, portB, sigfoxAge,
  radio, uart, silence,
  (* the air between them *)
  up,     \* messages of the sensor on their way to the base
  down,   \* polls of the base on their way to the sensor
  half,   \* half seconds since the sensor's clock last beat: 0 or 1
  on,     \* the sensor has power
  (* history *)
  losses,       \* messages lost since the base last heard the sensor
  wasOff,       \* the sensor was without power since the base last heard it
  seen,         \* the base showed EMERGENCY since the last intrusion was found
  alarmsLost    \* EMERGENCY reports lost since the last intrusion was found

Slot == {MY_ID}

Base == INSTANCE Base WITH
  status <- shown, PresetType <- [i \in Slot |-> SENSOR_PIR], ReportedType <- {SENSOR_NONE},
  Key <- {}, AllowedKey <- {}, SigfoxAfter <- 0

pirVars == <<counter, waitEmergency, status, sinceIntrusion, timer, pc, unreported>>
baseVars == <<type, shown, lastTime, failedTimeouts, isAlarmEnabled, portB,
              sigfoxAge, silence>>
history == <<losses, wasOff, seen, alarmsLost>>
linkVars == <<pirVars, sent, baseVars, radio, uart, up, down, half, on, history>>

LinkInit ==
  /\ Base!Init
  /\ Init
  /\ up = <<>>
  /\ down = {}
  /\ half = 0
  /\ on \in BOOLEAN
  /\ losses = 0
  /\ wasOff = ~on
  /\ seen = FALSE
  /\ alarmsLost = 0

-----------------------------------------------------------------------------
PirIdle  == UNCHANGED pirVars /\ sent' = {}
BaseIdle == UNCHANGED baseVars /\ radio' = {} /\ uart' = {}

OneMore(n) == IF n < LossBound THEN n + 1 ELSE n

(* What the sensor's step multicast goes on the air behind what is there. *)
Emit == up' = IF sent' = {} THEN up ELSE Append(up, CHOOSE m \in sent' : TRUE)

(* The interrupt or the process of the sensor. *)
PirEdge ==
  /\ on
  /\ Edge
  /\ Emit
  /\ BaseIdle
  /\ IF unreported' /\ ~unreported
     THEN seen' = FALSE /\ alarmsLost' = 0
     ELSE UNCHANGED <<seen, alarmsLost>>
  /\ UNCHANGED <<down, half, on, losses, wasOff>>

PirProcess ==
  /\ on
  /\ Process
  /\ Emit
  /\ BaseIdle
  /\ UNCHANGED <<down, half, on, history>>

(* The base receives the sensor's message. *)
Deliver ==
  /\ up # <<>>
  /\ Base!ReceiveStatus(MY_ID, Head(up).st, Head(up).ty)
  /\ up' = Tail(up)
  /\ losses' = 0
  /\ wasOff' = ~on
  /\ seen' = (seen \/ Head(up).st = STATUS_EMERGENCY)
  /\ PirIdle
  /\ UNCHANGED <<down, half, on, alarmsLost>>

(* Nobody receives it. *)
Lose ==
  /\ up # <<>>
  /\ up' = Tail(up)
  /\ losses' = OneMore(losses)
  /\ alarmsLost' = IF Head(up).st = STATUS_EMERGENCY THEN OneMore(alarmsLost) ELSE alarmsLost
  /\ PirIdle /\ BaseIdle
  /\ UNCHANGED <<down, half, on, wasOff, seen>>

DeliverPoll ==
  /\ on
  /\ down # {}
  /\ \E m \in down : Answer(m) /\ down' = down \ {m}
  /\ Emit
  /\ BaseIdle
  /\ UNCHANGED <<half, on, history>>

LosePoll ==
  /\ down # {}
  /\ down' = {}
  /\ losses' = OneMore(losses)
  /\ PirIdle /\ BaseIdle
  /\ UNCHANGED <<up, half, on, wasOff, seen, alarmsLost>>

(* Half a second passes, and with every second half a second of the sensor.
   Messages do not stay on the air that long. *)
HalfSecond ==
  /\ up = <<>> /\ down = {}
  /\ Base!Check
  /\ down' = radio'
  /\ half' = 1 - half
  /\ IF on /\ half = 1 THEN Second ELSE PirIdle
  /\ UNCHANGED <<up, on, history>>

(* The sensor's battery is empty; a new one is put in. *)
PowerOff ==
  /\ on
  /\ on' = FALSE
  /\ wasOff' = TRUE
  /\ seen' = FALSE /\ alarmsLost' = 0
  /\ Restart
  /\ BaseIdle
  /\ UNCHANGED <<up, down, half, losses>>

PowerOn ==
  /\ ~on
  /\ on' = TRUE
  /\ half' = 0
  /\ PirIdle /\ BaseIdle
  /\ UNCHANGED <<up, down, history>>

LinkNext ==
  \/ PirEdge \/ PirProcess \/ Deliver \/ Lose \/ DeliverPoll \/ LosePoll
  \/ HalfSecond \/ PowerOff \/ PowerOn

Fairness ==
  /\ WF_linkVars(HalfSecond)
  /\ WF_linkVars(PirProcess)
  /\ WF_linkVars(Deliver \/ Lose)
  /\ WF_linkVars(DeliverPoll \/ LosePoll)

LinkSpec == LinkInit /\ [][LinkNext]_linkVars /\ Fairness

-----------------------------------------------------------------------------
LinkTypeOK ==
  /\ Base!TypeOK
  /\ TypeOK
  /\ up \in Seq({StatusMsg(MY_ID, st, SENSOR_NONE) : st \in ReportedStatus})
  /\ Len(up) <= 2
  /\ down \subseteq {PollMsg(MY_ID)}
  /\ half \in {0, 1}
  /\ on \in BOOLEAN

(* The base's half of the link implements Base: nothing the PIR sensor sends
   takes the base outside what Base allows
   (e-protect-base.c:76-101,169-188).  What a step last multicast or printed
   is cleared by the other steps of the link and left aside. *)
BaseOnTheLink == Base!Init /\ [][Base!Next]_baseVars

(* A working sensor is not declared in TIMEOUT for a few bad moments of the
   radio: it takes the loss of every one of its reports, and of each poll or
   its answer, for the whole of the base's patience; with the numbers of the
   code, seven losses (e-protect-base.c:169-188). *)
FalseTimeoutTakesLosses ==
  shown[MY_ID] = STATUS_TIMEOUT /\ ~wasOff => losses >= LossesToTimeout

(* An intrusion is told again and again while it lasts: it escapes the base
   only if all EMERGENCY reports are lost, six in a row with the numbers of
   the code (e-protect-sensor-0.c:112-127). *)
MissedIntrusionTakesLosses ==
  pc = "expired" /\ ~seen => alarmsLost >= LossesToMiss

(* While an intrusion is being reported, and has been shown, the base does
   not go back to showing OK ("communique au client l'etat du systeme",
   documents/rapport_final/solution_detaillee.tex:59). *)
ShownEmergencyStays ==
  on /\ waitEmergency /\ seen => shown[MY_ID] # STATUS_OK

(* A sensor that stays without power is shown in TIMEOUT. *)
DeadSensorShown ==
  <>[]~on => <>[](shown[MY_ID] = STATUS_TIMEOUT)
=============================================================================
