------------------------------ MODULE LockLink ------------------------------
(***************************************************************************)
(* The RFID reader and the base, over the radio: cards switch the alarm on *)
(* and off, the base announces the change to all nodes and the reader      *)
(* shows it on its LED.  As in IntrusionLink a message is delivered at     *)
(* once or lost, and nobody notices the loss.                              *)
(***************************************************************************)
EXTENDS RfidSensor, Sequences

CONSTANTS
  PollAfter, TimeoutAfter,  \* of Base
  Member,                   \* the card isAllowed() knows
  LossBound                 \* losses are counted up to this

ASSUME LockAssumption ==
  /\ Member \in Card
  /\ PollAfter \in Nat /\ PollAfter > 1
  /\ TimeoutAfter \in Nat \ {0}
  /\ LossBound \in Nat /\ LossBound >= TimeoutAfter - 1

VARIABLES
  (* the base *)
  type, status, lastTime, failedTimeouts, isAlarmEnabled, portB, sigfoxAge,
  radio, uart, silence,
  (* the air between them *)
  up,     \* messages of the reader on their way to the base
  down,   \* messages of the base on their way to the reader, in order
  half,   \* half seconds since the reader's clock last beat: 0 or 1
  (* history *)
  card,        \* the card accepted last, NoKey if none since the boot
  before,      \* isAlarmEnabled when it was accepted
  codeLost,    \* a code sent for it was lost
  ledStale,    \* an announcement was lost, or the reader restarted, since
               \* the reader last heard one, and left the LED wrong
  losses,      \* messages lost since the base last heard the reader
  restarted    \* the reader restarted since the base last heard it

Slot == {MY_ID}

Base == INSTANCE Base WITH
  PresetType <- [i \in Slot |-> SENSOR_RFID], ReportedType <- {SENSOR_RFID},
  Key <- Card \cup {NoKey}, AllowedKey <- {Member}, SigfoxAfter <- 0

rfidVars == <<node, timer, pc, led, quiet, codes, raced>>
baseVars == <<type, status, lastTime, failedTimeouts, isAlarmEnabled, portB,
              sigfoxAge, silence>>
cardHistory == <<card, before, codeLost>>
linkHistory == <<ledStale, losses, restarted>>
linkVars == <<rfidVars, sent, baseVars, radio, uart, up, down, half,
          cardHistory, linkHistory>>

LinkInit ==
  /\ Base!Init
  /\ Init
  /\ up = <<>>
  /\ down = <<>>
  /\ half \in {0, 1}
  /\ card = NoKey
  /\ before = FALSE
  /\ codeLost = FALSE
  /\ ledStale = FALSE
  /\ losses = 0
  /\ restarted = FALSE

-----------------------------------------------------------------------------
RfidIdle == UNCHANGED rfidVars /\ sent' = {}
BaseIdle == UNCHANGED baseVars /\ radio' = {} /\ uart' = {}

OneMore(n) == IF n < LossBound THEN n + 1 ELSE n

(* What a step multicast goes on the air behind what is there already. *)
Behind(air, ms) == IF ms = {} THEN air ELSE Append(air, CHOOSE m \in ms : TRUE)

ReaderProcess ==
  /\ Wake \/ SendStatus
  /\ up' = Behind(up, sent')
  /\ BaseIdle
  /\ UNCHANGED <<down, half, cardHistory, linkHistory>>

CardRead(key) ==
  /\ Swipe(key)
  /\ up' = Behind(up, sent')
  /\ BaseIdle
  /\ IF sent' = {}
     THEN UNCHANGED cardHistory
     ELSE card' = key /\ before' = isAlarmEnabled /\ codeLost' = FALSE
  /\ UNCHANGED <<down, half, linkHistory>>

(* The base receives a message of the reader; the verdict on a code goes on
   the air. *)
Deliver ==
  /\ up # <<>>
  /\ LET m == Head(up) IN
       \/ m.cmd = "g" /\ Base!ReceiveStatus(MY_ID, m.st, m.ty)
       \/ m.cmd = "c" /\ Base!ReceiveCode(MY_ID, m.st, m.key)
  /\ up' = Tail(up)
  /\ down' = Behind(down, radio')
  /\ losses' = 0
  /\ restarted' = FALSE
  /\ RfidIdle
  /\ UNCHANGED <<half, cardHistory, ledStale>>

Lose ==
  /\ up # <<>>
  /\ up' = Tail(up)
  /\ losses' = OneMore(losses)
  /\ codeLost' = (codeLost \/ IsCode(Head(up)))
  /\ RfidIdle /\ BaseIdle
  /\ UNCHANGED <<down, half, card, before, ledStale, restarted>>

(* The reader receives a poll or an announcement. *)
Hear ==
  /\ down # <<>>
  /\ IF Head(down) = PollMsg(MY_ID)
     THEN Poll /\ UNCHANGED ledStale
     ELSE Show(Head(down)) /\ ledStale' = FALSE
  /\ down' = Tail(down)
  /\ BaseIdle
  /\ UNCHANGED <<up, half, cardHistory, losses, restarted>>

Miss ==
  /\ down # <<>>
  /\ down' = Tail(down)
  /\ IF Head(down) = PollMsg(MY_ID)
     THEN losses' = OneMore(losses) /\ UNCHANGED ledStale
     ELSE ledStale' = TRUE /\ UNCHANGED losses
  /\ RfidIdle /\ BaseIdle
  /\ UNCHANGED <<up, half, cardHistory, restarted>>

(* Half a second passes, and with every second half a second of the reader.
   Messages do not stay on the air that long. *)
HalfSecond ==
  /\ up = <<>> /\ down = <<>>
  /\ Base!Check
  /\ down' = Behind(down, radio')
  /\ half' = 1 - half
  /\ IF half = 1 THEN Second ELSE RfidIdle
  /\ UNCHANGED <<up, cardHistory, linkHistory>>

(* The reader restarts; by the time it runs again the air is empty. *)
ReaderRestart ==
  /\ up = <<>> /\ down = <<>>
  /\ Restart
  /\ BaseIdle
  /\ card' = NoKey /\ before' = FALSE /\ codeLost' = FALSE
  /\ ledStale' = TRUE
  /\ restarted' = TRUE
  /\ UNCHANGED <<up, down, half, losses>>

LinkNext ==
  \/ ReaderProcess \/ Deliver \/ Lose \/ Hear \/ Miss \/ HalfSecond \/ ReaderRestart
  \/ \E key \in Card : CardRead(key)

LinkSpec == LinkInit /\ [][LinkNext]_linkVars

-----------------------------------------------------------------------------
LinkTypeOK ==
  /\ Base!TypeOK
  /\ TypeOK
  /\ up \in Seq(Message)
  /\ down \in Seq({PollMsg(MY_ID), LockMsg, UnlockMsg})
  /\ Len(up) + Len(down) <= 3
  /\ half \in {0, 1}
  /\ card \in Card \cup {NoKey}

(* The base's half of the link implements Base: nothing the reader sends, its
   codes that were cut off included, takes the base outside what Base allows
   (e-protect-base.c:76-140,169-188).  What a step last multicast or printed
   is cleared by the other steps of the link and left aside. *)
BaseOnTheLink == Base!Init /\ [][Base!Next]_baseVars

Settled == up = <<>> /\ down = <<>> /\ pc = "wait"

(* A member's card switches the alarm over, once, unless its code was lost or
   it was read while the reader was sending a status. *)
MemberSwitches ==
  Settled /\ card = Member /\ ~codeLost /\ ~raced => isAlarmEnabled # before

(* No other card ever does, in whatever way its message was garbled. *)
StrangerNeverSwitches == card # Member => \/ isAlarmEnabled = before
                                          \/ card = NoKey

(* The LED of the reader shows the alarm, as long as the last announcement
   reached it and it did not restart since: announcements are obeyed in the
   order in which the base made them. *)
LedShowsAlarm == Settled /\ ~ledStale => (led = 2 <=> isAlarmEnabled)

(* The reader falls silent for longer than the other sensors: a card makes it
   skip its reports, and one read while it answers a poll makes it skip the
   answer (the two share a buffer, e-protect-sensor-3.c:143-184).  Cards alone
   still do not get it declared in TIMEOUT: each poll but the last, or what
   answers it, must be lost, with the right cards two messages. *)
FalseTimeoutTakesLosses ==
  status[MY_ID] = STATUS_TIMEOUT /\ ~restarted => losses >= TimeoutAfter - 1
=============================================================================
