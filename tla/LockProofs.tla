------------------------------ MODULE LockProofs ------------------------------
(***************************************************************************)
(* Theorems about RfidSensor, for any period, hold time and set of cards:  *)
(* a card is sent once unless it raced a report, and cards cannot keep the *)
(* reader quiet.  Then about LockLink, the reader and the base together:   *)
(* whose cards switch the alarm, what the LED shows, and what it takes to  *)
(* declare a running reader dead.                                          *)
(***************************************************************************)
EXTENDS LockLink, Integers, TLAPS

(* While a card is held, the code sent for it is the last multicast at the
   earliest; once it has been held for long enough, the turn that releases it
   is near. *)
HeldQuiet == sending =>
  IF sinceSending <= HoldTime
  THEN quiet <= sinceSending
  ELSE quiet + timer <= HoldTime + SendInterval

(* While no card is held, the next turn, or the report being sent, comes
   within the limit. *)
FreeQuiet == ~sending =>
  /\ quiet <= QuietLimit
  /\ pc = "wait" => quiet + timer <= QuietLimit

(* There is something to hand over and to transmit; only a card just sent can
   have emptied the stack's buffer. *)
NotEmpty ==
  /\ pc = "formatted" => string6LOWPAN # Nothing
  /\ pc = "handed" /\ uipBuf = Nothing => sending /\ quiet = 0

(* Unless the last card raced it, what is being sent is a status report. *)
NotCode == ~raced =>
  /\ ~cut /\ codes <= 1
  /\ pc = "formatted" => string6LOWPAN = StatusReport
  /\ pc = "handed" => uipBuf = StatusReport

IInv == TypeOK /\ HeldQuiet /\ FreeQuiet /\ NotEmpty /\ NotCode

USE DEF HeldQuiet, FreeQuiet, NotEmpty, NotCode, QuietLimit

(* TypeOK in three parts, for the provers. *)
Flags  == sending \in BOOLEAN /\ cut \in BOOLEAN /\ raced \in BOOLEAN
Counts ==
  /\ sinceSending \in 0 .. HoldTime + 1
  /\ timer \in 0 .. SendInterval
  /\ led \in {1, 2}
  /\ quiet \in 0 .. QuietLimit + 1
  /\ codes \in 0 .. 2
Texts ==
  /\ pc \in {"wait", "format", "formatted", "handed"}
  /\ string6LOWPAN \in Message \cup {Nothing}
  /\ uipBuf \in Message \cup {Nothing}
  /\ sent \subseteq Message

USE DEF Flags, Counts, Texts

-----------------------------------------------------------------------------
(* The messages: a status report is no code, and none of them is Nothing. *)
LEMMA Messages ==
  /\ StatusReport \in Message /\ ~IsCode(StatusReport)
  /\ \A key \in Card \cup {NoKey} : Code(key) \in Message
  /\ Nothing \notin Message
<1>1. StatusReport \in Message /\ ~IsCode(StatusReport)
  BY DEF StatusReport, Message, IsCode, StatusMsg
<1>2. \A key \in Card \cup {NoKey} : Code(key) \in Message
  BY DEF Message
<1>3. Nothing.cmd = "none"
  BY DEF Nothing
<1>4. \A m \in Message : m.cmd \in {"g", "c"}
  BY DEF Message, StatusReport, Code, StatusMsg, CodeMsg
<1> QED
  BY <1>1, <1>2, <1>3, <1>4

(* Where the program starts: Init, and a jump to the reset vector. *)
LEMMA Initially == Init => IInv
<1> SUFFICES ASSUME Init PROVE IInv
  OBVIOUS
<1>1. Flags
  BY DEF Init
<1>2. Counts
  BY RfidAssumption DEF Init
<1>3. Texts
  BY DEF Init
<1>4. HeldQuiet /\ FreeQuiet /\ NotEmpty /\ NotCode
  BY RfidAssumption DEF Init
<1> QED
  BY <1>1, <1>2, <1>3, <1>4 DEF IInv, TypeOK

-----------------------------------------------------------------------------
(* The process: its turns, and the three steps that send a report. *)
LEMMA ProcessKeepsIInv == IInv /\ (Wake \/ SendStatus) => IInv'
<1> SUFFICES ASSUME IInv, Wake \/ SendStatus PROVE IInv'
  OBVIOUS
<1>1. CASE Wake
  <2>1. Flags'
    BY <1>1 DEF Wake, Multicast, IInv, TypeOK
  <2>2. Counts'
    BY <1>1, RfidAssumption DEF Wake, Multicast, IInv, TypeOK
  <2>3. Texts'
    BY <1>1, Messages DEF Wake, Multicast, IInv, TypeOK
  <2>4. HeldQuiet' /\ FreeQuiet'
    <3>1. /\ timer = 0 /\ timer' = SendInterval
          /\ quiet' = quiet /\ sinceSending' = sinceSending
      BY <1>1 DEF Wake, Multicast
    <3>2. CASE sending /\ sinceSending <= HoldTime
      <4>1. sending'
        BY <1>1, <3>2 DEF Wake
      <4> QED
        BY <3>1, <3>2, <4>1 DEF IInv
    <3>3. CASE sending /\ ~(sinceSending <= HoldTime)
      <4>1. ~sending'
        BY <1>1, <3>3 DEF Wake
      <4>2. quiet' + timer' <= QuietLimit
        BY <3>1, <3>3, RfidAssumption DEF IInv, TypeOK
      <4> QED
        BY <3>1, <4>1, <4>2, RfidAssumption DEF IInv, TypeOK
    <3>4. CASE ~sending
      <4>1. ~sending' /\ pc' = "format"
        BY <1>1, <3>4 DEF Wake
      <4> QED
        BY <3>1, <3>4, <4>1 DEF IInv
    <3> QED
      BY <3>2, <3>3, <3>4 DEF IInv, TypeOK
  <2>5. NotEmpty'
    BY <1>1, Messages DEF Wake, Multicast, IInv, TypeOK
  <2>6. NotCode'
    BY <1>1, Messages DEF Wake, Multicast, IInv, TypeOK
  <2> QED
    BY <2>1, <2>2, <2>3, <2>4, <2>5, <2>6 DEF IInv, TypeOK
<1>2. CASE Format
  <2>1. Flags'
    BY <1>2 DEF Format, Multicast, IInv, TypeOK
  <2>2. Counts'
    BY <1>2, RfidAssumption DEF Format, Multicast, IInv, TypeOK
  <2>3. Texts'
    BY <1>2, Messages DEF Format, Multicast, IInv, TypeOK
  <2>4. HeldQuiet' /\ FreeQuiet'
    BY <1>2, RfidAssumption DEF Format, Multicast, IInv, TypeOK
  <2>5. NotEmpty'
    BY <1>2, Messages DEF Format, Multicast, IInv, TypeOK
  <2>6. NotCode'
    BY <1>2, Messages DEF Format, Multicast, IInv, TypeOK
  <2> QED
    BY <2>1, <2>2, <2>3, <2>4, <2>5, <2>6 DEF IInv, TypeOK
<1>3. CASE Hand
  <2>1. Flags'
    BY <1>3 DEF Hand, Multicast, IInv, TypeOK
  <2>2. Counts'
    BY <1>3, RfidAssumption DEF Hand, Multicast, IInv, TypeOK
  <2>3. Texts'
    BY <1>3, Messages DEF Hand, Multicast, IInv, TypeOK
  <2>4. HeldQuiet' /\ FreeQuiet'
    BY <1>3, RfidAssumption DEF Hand, Multicast, IInv, TypeOK
  <2>5. NotEmpty'
    BY <1>3, Messages DEF Hand, Multicast, IInv, TypeOK
  <2>6. NotCode'
    BY <1>3, Messages DEF Hand, Multicast, IInv, TypeOK
  <2> QED
    BY <2>1, <2>2, <2>3, <2>4, <2>5, <2>6 DEF IInv, TypeOK
<1>4. CASE Transmit
  <2>1. Flags'
    BY <1>4 DEF Transmit, Multicast, IInv, TypeOK
  <2>2. Counts'
    BY <1>4, RfidAssumption DEF Transmit, Multicast, IInv, TypeOK
  <2>3. Texts'
    BY <1>4, Messages DEF Transmit, Multicast, IInv, TypeOK
  <2>4. HeldQuiet' /\ FreeQuiet'
    BY <1>4, RfidAssumption DEF Transmit, Multicast, IInv, TypeOK
  <2>5. NotEmpty'
    BY <1>4, Messages DEF Transmit, Multicast, IInv, TypeOK
  <2>6. NotCode'
    BY <1>4, Messages DEF Transmit, Multicast, IInv, TypeOK
  <2> QED
    BY <2>1, <2>2, <2>3, <2>4, <2>5, <2>6 DEF IInv, TypeOK
<1> QED
  BY <1>1, <1>2, <1>3, <1>4 DEF SendStatus

(* The interrupt, wherever the process is. *)
LEMMA SwipeKeepsIInv == ASSUME NEW key \in Card, IInv, Swipe(key) PROVE IInv'
<1>1. CASE SwipeAccepted(key)
  <2>1. Flags'
    BY <1>1 DEF SwipeAccepted, IInv, TypeOK
  <2>2. Counts'
    BY <1>1, RfidAssumption DEF SwipeAccepted, IInv, TypeOK
  <2>3. Texts'
    BY <1>1, Messages DEF SwipeAccepted, IInv, TypeOK
  <2>4. HeldQuiet' /\ FreeQuiet'
    BY <1>1, RfidAssumption DEF SwipeAccepted, IInv, TypeOK
  <2>5. NotEmpty'
    BY <1>1, Messages DEF SwipeAccepted, IInv, TypeOK
  <2>6. NotCode'
    <3>1. raced' <=> pc # "wait"
      BY <1>1 DEF SwipeAccepted
    <3>2. pc' = pc /\ codes' = 1
      BY <1>1 DEF SwipeAccepted
    <3>3. pc = "wait" => ~cut'
      BY <1>1 DEF SwipeAccepted
    <3> QED
      BY <3>1, <3>2, <3>3
  <2> QED
    BY <2>1, <2>2, <2>3, <2>4, <2>5, <2>6 DEF IInv, TypeOK
<1>2. CASE SwipeIgnored
  <2>1. Flags'
    BY <1>2 DEF SwipeIgnored, Multicast, node, IInv, TypeOK
  <2>2. Counts'
    BY <1>2, RfidAssumption DEF SwipeIgnored, Multicast, node, IInv, TypeOK
  <2>3. Texts'
    BY <1>2, Messages DEF SwipeIgnored, Multicast, node, IInv, TypeOK
  <2>4. HeldQuiet' /\ FreeQuiet'
    BY <1>2, RfidAssumption DEF SwipeIgnored, Multicast, node, IInv, TypeOK
  <2>5. NotEmpty'
    BY <1>2, Messages DEF SwipeIgnored, Multicast, node, IInv, TypeOK
  <2>6. NotCode'
    BY <1>2, Messages DEF SwipeIgnored, Multicast, node, IInv, TypeOK
  <2> QED
    BY <2>1, <2>2, <2>3, <2>4, <2>5, <2>6 DEF IInv, TypeOK
<1> QED
  BY <1>1, <1>2 DEF Swipe

-----------------------------------------------------------------------------
(* Everything that can happen. *)
LEMMA Preserved == IInv /\ [Next]_vars => IInv'
<1> SUFFICES ASSUME IInv, [Next]_vars PROVE IInv'
  OBVIOUS
<1>1. CASE Wake \/ SendStatus
  BY <1>1, ProcessKeepsIInv
<1>2. ASSUME NEW key \in Card, Swipe(key) PROVE IInv'
  BY <1>2, SwipeKeepsIInv
<1>3. CASE Poll
  <2>1. Flags'
    BY <1>3 DEF Poll, Multicast, node, IInv, TypeOK
  <2>2. Counts'
    BY <1>3, RfidAssumption DEF Poll, Multicast, node, IInv, TypeOK
  <2>3. Texts'
    BY <1>3, Messages DEF Poll, Multicast, node, IInv, TypeOK
  <2>4. HeldQuiet' /\ FreeQuiet'
    BY <1>3, RfidAssumption DEF Poll, Multicast, node, IInv, TypeOK
  <2>5. NotEmpty'
    BY <1>3, Messages DEF Poll, Multicast, node, IInv, TypeOK
  <2>6. NotCode'
    BY <1>3, Messages DEF Poll, Multicast, node, IInv, TypeOK
  <2> QED
    BY <2>1, <2>2, <2>3, <2>4, <2>5, <2>6 DEF IInv, TypeOK
<1>4. CASE Second
  <2>1. Flags'
    BY <1>4 DEF Second, IInv, TypeOK
  <2>2. Counts'
    BY <1>4, RfidAssumption DEF Second, IInv, TypeOK
  <2>3. Texts'
    BY <1>4, Messages DEF Second, IInv, TypeOK
  <2>4. HeldQuiet' /\ FreeQuiet'
    BY <1>4, RfidAssumption DEF Second, IInv, TypeOK
  <2>5. NotEmpty'
    BY <1>4, Messages DEF Second, IInv, TypeOK
  <2>6. NotCode'
    BY <1>4, Messages DEF Second, IInv, TypeOK
  <2> QED
    BY <2>1, <2>2, <2>3, <2>4, <2>5, <2>6 DEF IInv, TypeOK
<1>5. CASE Restart
  <2>1. Flags'
    BY <1>5 DEF Restart, IInv, TypeOK
  <2>2. Counts'
    BY <1>5, RfidAssumption DEF Restart, IInv, TypeOK
  <2>3. Texts'
    BY <1>5, Messages DEF Restart, IInv, TypeOK
  <2>4. HeldQuiet' /\ FreeQuiet'
    BY <1>5, RfidAssumption DEF Restart, IInv, TypeOK
  <2>5. NotEmpty'
    BY <1>5, Messages DEF Restart, IInv, TypeOK
  <2>6. NotCode'
    BY <1>5, Messages DEF Restart, IInv, TypeOK
  <2> QED
    BY <2>1, <2>2, <2>3, <2>4, <2>5, <2>6 DEF IInv, TypeOK
<1>6. ASSUME NEW m \in {LockMsg, UnlockMsg}, Show(m) PROVE IInv'
  <2>1. Flags'
    BY <1>6 DEF Show, Multicast, node, IInv, TypeOK
  <2>2. Counts'
    BY <1>6, RfidAssumption DEF Show, Multicast, node, IInv, TypeOK
  <2>3. Texts'
    BY <1>6, Messages DEF Show, Multicast, node, IInv, TypeOK
  <2>4. HeldQuiet' /\ FreeQuiet'
    BY <1>6, RfidAssumption DEF Show, Multicast, node, IInv, TypeOK
  <2>5. NotEmpty'
    BY <1>6, Messages DEF Show, Multicast, node, IInv, TypeOK
  <2>6. NotCode'
    BY <1>6, Messages DEF Show, Multicast, node, IInv, TypeOK
  <2> QED
    BY <2>1, <2>2, <2>3, <2>4, <2>5, <2>6 DEF IInv, TypeOK
<1>7. CASE UNCHANGED vars
  BY <1>7 DEF vars, node, IInv, TypeOK
<1> QED
  BY <1>1, <1>2, <1>3, <1>4, <1>5, <1>6, <1>7 DEF Next

LEMMA Invariant == Spec => []IInv
  BY Initially, Preserved, PTL DEF Spec

-----------------------------------------------------------------------------
(* The reader's variables keep their ranges, in particular what is in the
   buffers that interrupt and process share (e-protect-sensor-3.c:34,152-183). *)
THEOREM TypeCorrect == Spec => []TypeOK
<1>1. IInv => TypeOK
  BY DEF IInv
<1> QED
  BY <1>1, Invariant, PTL

(* A card's code is multicast once, and at most twice when the card was read
   while a status was being sent (e-protect-sensor-3.c:152-154,181-183). *)
THEOREM CodeSentOnce == Spec => []OneCodePerCard
<1>1. IInv => OneCodePerCard
  BY DEF IInv, TypeOK, OneCodePerCard
<1> QED
  BY <1>1, Invariant, PTL

(* However often cards are held to it, the reader multicasts within the hold
   time and two periods, for any period and hold time
   (e-protect-sensor-3.c:113-125,157-164). *)
THEOREM CardsDoNotSilence == Spec => []NeverQuietForLong
<1>1. IInv => NeverQuietForLong
  BY RfidAssumption DEF IInv, TypeOK, NeverQuietForLong
<1> QED
  BY <1>1, Invariant, PTL

-----------------------------------------------------------------------------
(* The reader and the base together.  First what the messages on their way and
   in the reader's buffers can be. *)

(* A message the reader is about to send, or that is on the air. *)
Held(m) ==
  \/ pc = "formatted" /\ m = string6LOWPAN
  \/ pc = "handed" /\ m = uipBuf
  \/ \E i \in DOMAIN up : m = up[i]

AirTypes ==
  /\ up \in Seq(Message)
  /\ down \in Seq({PollMsg(MY_ID), LockMsg, UnlockMsg})
  /\ half \in {0, 1}
  /\ card \in Card \cup {NoKey}
  /\ isAlarmEnabled \in BOOLEAN /\ before \in BOOLEAN
  /\ status \in [Slot -> Status]
  /\ lastTime \in [Slot -> Nat] /\ failedTimeouts \in [Slot -> 0 .. TimeoutAfter - 1]
  /\ losses \in 0 .. LossBound

(* A second after a card was accepted, and until the next is, its code has
   left the reader, and the air. *)
CutAtOnce   == cut => pc \in {"format", "formatted"} /\ sending /\ sinceSending = 0
CodesGone   == \/ sending /\ sinceSending = 0
               \/ ~cut /\ \A m \in Message : Held(m) => ~IsCode(m)
CodesOfCard == \A m \in Message : Held(m) /\ IsCode(m) => m = Code(card)

(* The code of a member's card is on the air once, or has done its work. *)
CodePending ==
  \E i \in DOMAIN up : /\ IsCode(up[i])
                       /\ \A j \in DOMAIN up : IsCode(up[j]) => j = i
MemberInTransit ==
  card = Member /\ ~codeLost /\ ~raced =>
    IF isAlarmEnabled = before THEN CodePending ELSE \A i \in DOMAIN up : ~IsCode(up[i])

(* The last announcement on the air is the state of the alarm; when none is,
   so is the LED. *)
Verdict == IF isAlarmEnabled THEN LockMsg ELSE UnlockMsg
IsLast(i) == down[i] # PollMsg(MY_ID) /\ \A j \in DOMAIN down : j > i => down[j] = PollMsg(MY_ID)
LastIsVerdict == \A i \in DOMAIN down : IsLast(i) => down[i] = Verdict
LedIsVerdict ==
  (\A i \in DOMAIN down : down[i] = PollMsg(MY_ID)) /\ ~ledStale => (led = 2 <=> isAlarmEnabled)

(* Every poll counted against the reader has cost a message, but perhaps the
   one it is still answering, and that takes less than two checks. *)
Answering ==
  \/ \E i \in DOMAIN down : down[i] = PollMsg(MY_ID)
  \/ up # <<>>
  \/ pc # "wait" /\ ~(pc = "handed" /\ uipBuf = Nothing)
JustPolled == lastTime[MY_ID] = 0 \/ (lastTime[MY_ID] = 1 /\ half = 1)
PollsCost == ~restarted =>
  \/ losses >= failedTimeouts[MY_ID]
  \/ losses + 1 >= failedTimeouts[MY_ID] /\ Answering /\ JustPolled

CodeInv == CutAtOnce /\ CodesGone /\ CodesOfCard
CardInv == StrangerNeverSwitches /\ MemberInTransit
LedInv  == LastIsVerdict /\ LedIsVerdict
PollInv == PollsCost /\ FalseTimeoutTakesLosses

LinkInv == IInv /\ AirTypes /\ CodeInv /\ CardInv /\ LedInv /\ PollInv

-----------------------------------------------------------------------------
(* Messages, and sequences of them. *)
LEMMA Kinds ==
  /\ \A m \in Message : /\ m.st = STATUS_OK /\ m.cmd \in {"g", "c"}
                        /\ IsCode(m) => m.key \in Card /\ m = Code(m.key)
                        /\ m.cmd = "c" /\ ~IsCode(m) => m.key = NoKey
                        /\ m.cmd = "g" => ~IsCode(m)
  /\ \A key \in Card : IsCode(Code(key)) /\ Code(key).key = key
  /\ ~IsCode(StatusReport) /\ ~IsCode(Code(NoKey)) /\ ~IsCode(Nothing)
  /\ NoKey \notin Card /\ Member \in Card
<1>1. \A m \in Message : /\ m.st = STATUS_OK /\ m.cmd \in {"g", "c"}
                         /\ IsCode(m) => m.key \in Card /\ m = Code(m.key)
                         /\ m.cmd = "c" /\ ~IsCode(m) => m.key = NoKey
                         /\ m.cmd = "g" => ~IsCode(m)
  BY RfidAssumption DEF Message, StatusReport, Code, IsCode, StatusMsg, CodeMsg
<1>2. \A key \in Card \cup {NoKey} : Code(key).key = key /\ Code(key).cmd = "c"
  BY DEF Code, CodeMsg
<1>3. StatusReport.cmd = "g" /\ Nothing.cmd = "none"
  BY DEF StatusReport, StatusMsg, Nothing
<1> QED
  BY <1>1, <1>2, <1>3, RfidAssumption, LockAssumption DEF IsCode

LEMMA Announcements ==
  LockMsg # UnlockMsg /\ PollMsg(MY_ID) \notin {LockMsg, UnlockMsg}
  BY DEF LockMsg, UnlockMsg, PollMsg

LEMMA TailOf ==
  ASSUME NEW S, NEW s \in Seq(S), s # <<>>
  PROVE  /\ Tail(s) \in Seq(S) /\ Head(s) \in S
         /\ 1 \in DOMAIN s /\ Head(s) = s[1]
         /\ \A i \in DOMAIN Tail(s) : i \in Nat \ {0} /\ i + 1 \in DOMAIN s /\ Tail(s)[i] = s[i + 1]
         /\ \A i \in DOMAIN s : i # 1 => i - 1 \in DOMAIN Tail(s) /\ Tail(s)[i - 1] = s[i]
  OBVIOUS

LEMMA AppendOf ==
  ASSUME NEW S, NEW s \in Seq(S), NEW x \in S
  PROVE  /\ Append(s, x) \in Seq(S) /\ Append(s, x) # <<>>
         /\ DOMAIN Append(s, x) = DOMAIN s \cup {Len(s) + 1}
         /\ \A i \in DOMAIN s : i \in Nat /\ i < Len(s) + 1 /\ Append(s, x)[i] = s[i]
         /\ Append(s, x)[Len(s) + 1] = x /\ Len(s) + 1 \in Nat
  OBVIOUS

LEMMA BehindOf ==
  /\ \A air : Behind(air, {}) = air
  /\ \A air, m : Behind(air, {m}) = Append(air, m)
  BY DEF Behind

-----------------------------------------------------------------------------
(* What the base does to the fields the invariant is about. *)
LEMMA CheckEffect ==
  ASSUME AirTypes, Base!Check
  PROVE  /\ isAlarmEnabled' = isAlarmEnabled
         /\ status' \in [Slot -> Status] /\ lastTime' \in [Slot -> Nat]
         /\ failedTimeouts' \in [Slot -> 0 .. TimeoutAfter - 1]
         /\ \/ /\ radio' = {} /\ status' = status /\ failedTimeouts' = failedTimeouts
               /\ lastTime'[MY_ID] \in {lastTime[MY_ID], lastTime[MY_ID] + 1}
            \/ /\ radio' = {PollMsg(MY_ID)} /\ lastTime'[MY_ID] = 0
               /\ lastTime[MY_ID] + 1 = PollAfter
               /\ \/ /\ failedTimeouts[MY_ID] + 1 = TimeoutAfter
                     /\ failedTimeouts'[MY_ID] = 0
                  \/ /\ failedTimeouts'[MY_ID] = failedTimeouts[MY_ID] + 1
                     /\ status' = status
<1> USE DEF AirTypes, Slot
<1> DEFINE due == MY_ID \in Base!Due
           failing == MY_ID \in Base!Failing
<1>1. due => lastTime[MY_ID] + 1 = PollAfter
  BY DEF Base!Due, Base!Monitored
<1>2. failing <=> due /\ failedTimeouts[MY_ID] + 1 = TimeoutAfter
  BY DEF Base!Failing, Base!Due
<1>3. /\ Base!Due = IF due THEN {MY_ID} ELSE {}
      /\ Base!Failing = IF failing THEN {MY_ID} ELSE {}
  BY DEF Base!Due, Base!Failing, Base!Monitored
<1>4. /\ isAlarmEnabled' = isAlarmEnabled
      /\ radio' = {PollMsg(i) : i \in Base!Due}
      /\ lastTime' = [i \in Slot |->
            IF i \in Base!Due THEN 0
            ELSE IF i \in Base!Monitored THEN lastTime[i] + 1 ELSE lastTime[i]]
      /\ failedTimeouts' = [i \in Slot |->
            IF i \in Base!Failing THEN 0
            ELSE IF i \in Base!Due THEN failedTimeouts[i] + 1 ELSE failedTimeouts[i]]
      /\ status' = [i \in Slot |-> IF i \in Base!Failing THEN STATUS_TIMEOUT ELSE status[i]]
  BY DEF Base!Check, Base!PollMsg, PollMsg, Base!STATUS_TIMEOUT, STATUS_TIMEOUT
<1> HIDE DEF due, failing
<1>5. CASE ~due
  <2>1. radio' = {} /\ status' = status /\ failedTimeouts' = failedTimeouts
    BY <1>2, <1>3, <1>4, <1>5
  <2>2. lastTime' \in [Slot -> Nat] /\ lastTime'[MY_ID] \in {lastTime[MY_ID], lastTime[MY_ID] + 1}
    BY <1>3, <1>4, <1>5
  <2> QED
    BY <1>4, <2>1, <2>2
<1>6. CASE due
  <2>1. radio' = {PollMsg(MY_ID)} /\ lastTime'[MY_ID] = 0 /\ lastTime' \in [Slot -> Nat]
    BY <1>3, <1>4, <1>6
  <2>2. isAlarmEnabled' = isAlarmEnabled /\ lastTime[MY_ID] + 1 = PollAfter
    BY <1>1, <1>4, <1>6
  <2>3. /\ failedTimeouts \in [Slot -> 0 .. TimeoutAfter - 1]
        /\ failedTimeouts[MY_ID] \in 0 .. TimeoutAfter - 1 /\ status \in [Slot -> Status]
    OBVIOUS
  <2> HIDE DEF AirTypes
  <2>4. CASE failing
    <3>1. failedTimeouts' = [i \in Slot |-> 0] /\ status' = [i \in Slot |-> STATUS_TIMEOUT]
      BY <1>3, <1>4, <2>4
    <3>2. STATUS_TIMEOUT \in Status /\ 0 \in 0 .. TimeoutAfter - 1
      BY LockAssumption DEF Status, STATUS_OK, STATUS_TIMEOUT
    <3>3. status' \in [Slot -> Status] /\ failedTimeouts' \in [Slot -> 0 .. TimeoutAfter - 1]
      BY <3>1, <3>2
    <3>4. failedTimeouts'[MY_ID] = 0 /\ status'[MY_ID] = STATUS_TIMEOUT
      BY <1>1, <3>1
    <3> QED
      BY <1>2, <2>1, <2>2, <2>4, <3>3, <3>4
  <2>5. CASE ~failing
    <3>1. failedTimeouts' = [i \in Slot |-> failedTimeouts[i] + 1] /\ status' = status
      <4>1. Base!Due = Slot /\ Base!Failing = {}
        BY <1>3, <1>6, <2>5
      <4>2. failedTimeouts' = [i \in Slot |-> failedTimeouts[i] + 1]
        BY <1>4, <4>1
      <4>3. status' = [i \in Slot |-> status[i]]
        BY <1>4, <4>1
      <4> QED
        BY <2>3, <4>2, <4>3
    <3>2. failedTimeouts[MY_ID] + 1 \in 0 .. TimeoutAfter - 1
      BY <1>2, <1>6, <2>3, <2>5, LockAssumption
    <3>3. failedTimeouts' \in [Slot -> 0 .. TimeoutAfter - 1]
      BY <3>1, <3>2
    <3>4. failedTimeouts'[MY_ID] = failedTimeouts[MY_ID] + 1
      BY <3>1
    <3>5. status' \in [Slot -> Status]
      BY <2>3, <3>1
    <3> QED
      BY <2>1, <2>2, <3>1, <3>3, <3>4, <3>5
  <2> QED
    BY <2>4, <2>5
<1> QED
  BY <1>5, <1>6

(* A message of the reader heard: its counters start anew, and the alarm is
   switched over by a member's card, and no other. *)
LEMMA HeardEffect ==
  ASSUME AirTypes, NEW m \in Message,
         \/ m.cmd = "g" /\ Base!ReceiveStatus(MY_ID, m.st, m.ty)
         \/ m.cmd = "c" /\ Base!ReceiveCode(MY_ID, m.st, m.key)
  PROVE  /\ status' \in [Slot -> Status] /\ lastTime' \in [Slot -> Nat]
         /\ failedTimeouts' \in [Slot -> 0 .. TimeoutAfter - 1]
         /\ status'[MY_ID] # STATUS_TIMEOUT /\ failedTimeouts'[MY_ID] = 0
         /\ \/ /\ m = Code(Member) /\ isAlarmEnabled' = ~isAlarmEnabled /\ radio' = {Verdict'}
            \/ m # Code(Member) /\ isAlarmEnabled' = isAlarmEnabled /\ radio' = {}
<1>1. Base!Heard(MY_ID, STATUS_OK)
  BY Kinds DEF Base!ReceiveStatus, Base!ReceiveCode, Base!CodeAccepted, Base!CodeRefused
<1>2. /\ status' \in [Slot -> Status] /\ lastTime' \in [Slot -> Nat]
      /\ failedTimeouts' \in [Slot -> 0 .. TimeoutAfter - 1]
      /\ status'[MY_ID] # STATUS_TIMEOUT /\ failedTimeouts'[MY_ID] = 0
  BY <1>1, LockAssumption
  DEF Base!Heard, AirTypes, Slot, Status, STATUS_OK, STATUS_TIMEOUT
<1>3. CASE m.cmd = "g" /\ Base!ReceiveStatus(MY_ID, m.st, m.ty)
  <2>1. m # Code(Member)
    BY <1>3, Kinds
  <2> QED
    BY <1>2, <1>3, <2>1 DEF Base!ReceiveStatus
<1>4. CASE m.cmd = "c" /\ Base!ReceiveCode(MY_ID, m.st, m.key)
  <2>1. m.key = Member <=> m = Code(Member)
    BY <1>4, Kinds
  <2>2. CASE Base!CodeAccepted(MY_ID, m.st, m.key)
    <3>1. m.key = Member /\ isAlarmEnabled' = ~isAlarmEnabled
          /\ radio' = {IF isAlarmEnabled THEN UnlockMsg ELSE LockMsg}
      BY <2>2 DEF Base!CodeAccepted, Base!LockMsg, Base!UnlockMsg, LockMsg, UnlockMsg
    <3>2. Verdict' = IF isAlarmEnabled THEN UnlockMsg ELSE LockMsg
      BY <3>1 DEF Verdict, AirTypes
    <3> QED
      BY <1>2, <2>1, <3>1, <3>2
  <2>3. CASE Base!CodeRefused(MY_ID, m.st, m.key)
    <3>1. m.key # Member /\ isAlarmEnabled' = isAlarmEnabled /\ radio' = {}
      BY <2>3 DEF Base!CodeRefused
    <3> QED
      BY <1>2, <2>1, <3>1
  <2> QED
    BY <1>4, <2>2, <2>3 DEF Base!ReceiveCode
<1> QED
  BY <1>3, <1>4
-----------------------------------------------------------------------------
(* Each action keeps the invariant.  Most leave a part of it alone. *)
LEMMA IdleReader == IInv /\ RfidIdle => IInv'
  BY DEF RfidIdle, rfidVars, node, IInv, TypeOK

LEMMA IdleBase ==
  BaseIdle => /\ status' = status /\ lastTime' = lastTime
              /\ failedTimeouts' = failedTimeouts /\ isAlarmEnabled' = isAlarmEnabled
  BY DEF BaseIdle, baseVars

(* No code comes up from nowhere. *)
LEMMA CodesStay ==
  ASSUME CodeInv, card' = card, CutAtOnce', ~cut => ~cut',
         \A m \in Message : Held(m)' /\ IsCode(m) => Held(m),
         sending /\ sinceSending = 0 => sending' /\ sinceSending' = 0
  PROVE  CodeInv'
  BY DEF CodeInv, CodesGone, CodesOfCard

(* A turn of the reader's process, or a step of what it sends. *)
LEMMA ProcessKeepsLinkInv == LinkInv /\ ReaderProcess => LinkInv'
<1> SUFFICES ASSUME LinkInv, ReaderProcess PROVE LinkInv'
  OBVIOUS
<1> USE DEF LinkInv
<1>1. IInv'
  BY Preserved DEF ReaderProcess, Next
<1>2. /\ status' = status /\ lastTime' = lastTime
      /\ failedTimeouts' = failedTimeouts /\ isAlarmEnabled' = isAlarmEnabled
      /\ down' = down /\ half' = half /\ card' = card /\ before' = before
      /\ codeLost' = codeLost /\ ledStale' = ledStale /\ losses' = losses
      /\ restarted' = restarted
  BY IdleBase DEF ReaderProcess, cardHistory, linkHistory
<1>3. led' = led /\ raced' = raced
  BY DEF ReaderProcess, Wake, SendStatus, Format, Hand, Transmit
<1>4. LedInv'
  BY <1>2, <1>3 DEF LedInv, LastIsVerdict, LedIsVerdict, IsLast, Verdict
<1>5. CASE Wake
  <2>1. up' = up
    BY <1>5, BehindOf DEF ReaderProcess, Wake, Multicast
  <2>2. /\ pc = "wait" /\ pc' \in {"wait", "format"} /\ cut' = cut
        /\ sinceSending' = sinceSending
        /\ sending /\ sinceSending = 0 => sending'
    BY <1>5, RfidAssumption DEF Wake, IInv, TypeOK
  <2>3. CodeInv'
    <3>1. ~cut
      BY <2>2 DEF CodeInv, CutAtOnce
    <3>2. \A m \in Message : Held(m)' => Held(m)
      BY <2>1, <2>2 DEF Held
    <3> QED
      BY <1>2, <2>2, <3>1, <3>2, CodesStay DEF CutAtOnce
  <2>4. CardInv'
    BY <1>2, <1>3, <2>1 DEF CardInv, StrangerNeverSwitches, MemberInTransit, CodePending
  <2>5. PollInv'
    BY <1>2, <2>1, <2>2
    DEF PollInv, PollsCost, FalseTimeoutTakesLosses, Answering, JustPolled
  <2> QED
    BY <1>1, <1>2, <1>4, <2>1, <2>3, <2>4, <2>5 DEF AirTypes
<1>6. CASE Format
  <2>1. up' = up
    BY <1>6, BehindOf DEF ReaderProcess, Format, Multicast
  <2>2. /\ pc = "format" /\ pc' = "formatted" /\ ~cut'
        /\ string6LOWPAN' \in {StatusReport, Code(NoKey)}
        /\ sinceSending' = sinceSending /\ sending' = sending
    BY <1>6 DEF Format
  <2>3. CodeInv'
    <3>1. \A m \in Message : Held(m)' /\ IsCode(m) => Held(m)
      BY <2>1, <2>2, Kinds DEF Held
    <3> QED
      BY <1>2, <2>2, <3>1, CodesStay DEF CutAtOnce
  <2>4. CardInv'
    BY <1>2, <1>3, <2>1 DEF CardInv, StrangerNeverSwitches, MemberInTransit, CodePending
  <2>5. PollInv'
    BY <1>2, <2>1, <2>2
    DEF PollInv, PollsCost, FalseTimeoutTakesLosses, Answering, JustPolled
  <2> QED
    BY <1>1, <1>2, <1>4, <2>1, <2>3, <2>4, <2>5 DEF AirTypes
<1>7. CASE Hand
  <2>1. up' = up
    BY <1>7, BehindOf DEF ReaderProcess, Hand, Multicast
  <2>2. /\ pc = "formatted" /\ pc' = "handed" /\ ~cut'
        /\ uipBuf' \in {string6LOWPAN, Code(NoKey)}
        /\ sinceSending' = sinceSending /\ sending' = sending
    BY <1>7 DEF Hand
  <2>3. CodeInv'
    <3>1. \A m \in Message : Held(m)' /\ IsCode(m) => Held(m)
      BY <2>1, <2>2, Kinds DEF Held
    <3> QED
      BY <1>2, <2>2, <3>1, CodesStay DEF CutAtOnce
  <2>4. CardInv'
    BY <1>2, <1>3, <2>1 DEF CardInv, StrangerNeverSwitches, MemberInTransit, CodePending
  <2>5. uipBuf' # Nothing
    BY <2>2, Messages DEF IInv
  <2>6. PollInv'
    BY <1>2, <2>1, <2>2, <2>5
    DEF PollInv, PollsCost, FalseTimeoutTakesLosses, Answering, JustPolled
  <2> QED
    BY <1>1, <1>2, <1>4, <2>1, <2>3, <2>4, <2>6 DEF AirTypes
<1>8. CASE Transmit
  <2>1. /\ pc = "handed" /\ pc' = "wait" /\ cut' = cut
        /\ sinceSending' = sinceSending /\ sending' = sending
        /\ sent' = {uipBuf} \ {Nothing} /\ up' = Behind(up, sent')
    BY <1>8 DEF Transmit, Multicast, ReaderProcess
  <2>2. IF uipBuf = Nothing THEN up' = up ELSE up' = Append(up, uipBuf) /\ uipBuf \in Message
    <3>1. CASE uipBuf = Nothing
      <4>1. sent' = {}
        BY <2>1, <3>1
      <4> QED
        BY <2>1, <3>1, <4>1, BehindOf
    <3>2. CASE uipBuf # Nothing
      <4>1. sent' = {uipBuf} /\ uipBuf \in Message
        BY <2>1, <3>2 DEF IInv, TypeOK
      <4> QED
        BY <2>1, <3>2, <4>1, BehindOf
    <3> QED
      BY <3>1, <3>2
  <2>3. AirTypes'
    <3>1. up \in Seq(Message)
      BY DEF AirTypes
    <3>2. CASE up' = Append(up, uipBuf) /\ uipBuf \in Message
      BY <1>2, <3>1, <3>2, AppendOf DEF AirTypes
    <3>3. CASE up' = up
      BY <1>2, <3>3 DEF AirTypes
    <3> QED
      BY <2>2, <3>2, <3>3
  <2>4. CodeInv'
    <3>1. \A i \in DOMAIN up' : up'[i] = uipBuf \/ \E j \in DOMAIN up : up'[i] = up[j]
      <4>1. CASE up' = up
        BY <4>1
      <4>2. CASE up' = Append(up, uipBuf) /\ uipBuf \in Message
        BY <4>2, AppendOf DEF AirTypes
      <4> QED
        BY <2>2, <4>1, <4>2
    <3>2. \A m \in Message : Held(m)' => Held(m)
      BY <2>1, <3>1 DEF Held
    <3> QED
      BY <1>2, <2>1, <3>2, CodesStay DEF CodeInv, CutAtOnce
  <2>5. CardInv'
    <3>1. CASE up' = up
      BY <1>2, <1>3, <3>1 DEF CardInv, StrangerNeverSwitches, MemberInTransit, CodePending
    <3>2. CASE raced
      BY <1>2, <1>3, <3>2 DEF CardInv, StrangerNeverSwitches, MemberInTransit
    <3>3. CASE ~raced /\ up' = Append(up, uipBuf)
      <4>1. up' = Append(up, StatusReport) /\ StatusReport \in Message
        BY <2>1, <3>3, Messages DEF IInv
      <4>2. /\ DOMAIN up' = DOMAIN up \cup {Len(up) + 1}
            /\ \A i \in DOMAIN up : up'[i] = up[i]
            /\ ~IsCode(up'[Len(up) + 1])
        BY <4>1, AppendOf, Kinds DEF AirTypes
      <4> QED
        BY <1>2, <1>3, <4>2 DEF CardInv, StrangerNeverSwitches, MemberInTransit, CodePending
    <3> QED
      BY <2>2, <3>1, <3>2, <3>3
  <2>6. PollInv'
    <3>1. Answering => Answering'
      BY <1>2, <2>1, <2>2, AppendOf DEF Answering, AirTypes
    <3> QED
      BY <1>2, <3>1 DEF PollInv, PollsCost, FalseTimeoutTakesLosses, JustPolled
  <2> QED
    BY <1>1, <1>4, <2>3, <2>4, <2>5, <2>6
<1> QED
  BY <1>5, <1>6, <1>7, <1>8 DEF ReaderProcess, SendStatus

(* A card read: its code is alone on the air, or nothing happens. *)
LEMMA CardKeepsLinkInv == ASSUME NEW key \in Card, LinkInv, CardRead(key) PROVE LinkInv'
<1> USE DEF LinkInv
<1>1. IInv'
  BY Preserved DEF CardRead, Next
<1>2. /\ status' = status /\ lastTime' = lastTime
      /\ failedTimeouts' = failedTimeouts /\ isAlarmEnabled' = isAlarmEnabled
      /\ down' = down /\ half' = half /\ ledStale' = ledStale /\ losses' = losses
      /\ restarted' = restarted /\ pc' = pc /\ led' = led
  BY IdleBase DEF CardRead, linkHistory, Swipe, SwipeAccepted, SwipeIgnored
<1>3. LedInv'
  BY <1>2 DEF LedInv, LastIsVerdict, LedIsVerdict, IsLast, Verdict
<1>4. CASE SwipeAccepted(key)
  <2>1. /\ ~sending /\ sending' /\ sinceSending' = 0 /\ string6LOWPAN' = Code(key)
        /\ cut' => pc \in {"format", "formatted"}
        /\ pc = "handed" => uipBuf' \in {Nothing, Code(key)}
        /\ card' = key /\ before' = isAlarmEnabled /\ codeLost' = FALSE
    BY <1>4 DEF SwipeAccepted, CardRead
  <2>2. up' = Append(up, Code(key)) /\ Code(key) \in Message
    BY <1>4, BehindOf, Messages DEF SwipeAccepted, CardRead
  <2>3. /\ DOMAIN up' = DOMAIN up \cup {Len(up) + 1} /\ up' # <<>>
        /\ \A i \in DOMAIN up : i # Len(up) + 1 /\ up'[i] = up[i] /\ ~IsCode(up[i])
        /\ up'[Len(up) + 1] = Code(key) /\ IsCode(Code(key))
    <3>1. \A i \in DOMAIN up : up[i] \in Message /\ ~IsCode(up[i])
      BY <2>1 DEF AirTypes, CodeInv, CodesGone, Held
    <3> QED
      BY <2>2, <3>1, AppendOf, Kinds DEF AirTypes
  <2>4. AirTypes'
    BY <1>2, <2>1, <2>2, AppendOf DEF AirTypes
  <2>5. CodeInv'
    <3>1. \A m \in Message : Held(m)' /\ IsCode(m) => m = Code(key)
      BY <1>2, <2>1, <2>3, Kinds DEF Held
    <3> QED
      BY <1>2, <2>1, <3>1 DEF CodeInv, CutAtOnce, CodesGone, CodesOfCard
  <2>6. CardInv'
    <3>1. CodePending'
      BY <2>3 DEF CodePending
    <3> QED
      BY <1>2, <2>1, <3>1 DEF CardInv, StrangerNeverSwitches, MemberInTransit
  <2>7. PollInv'
    BY <1>2, <2>3 DEF PollInv, PollsCost, FalseTimeoutTakesLosses, Answering, JustPolled
  <2> QED
    BY <1>1, <1>3, <2>4, <2>5, <2>6, <2>7
<1>5. CASE SwipeIgnored
  <2>1. /\ up' = up /\ card' = card /\ before' = before /\ codeLost' = codeLost
        /\ sending' = sending /\ sinceSending' = sinceSending /\ cut' = cut
        /\ string6LOWPAN' = string6LOWPAN /\ uipBuf' = uipBuf /\ raced' = raced
    BY <1>5, BehindOf DEF SwipeIgnored, CardRead, Multicast, node, cardHistory
  <2>2. CodeInv'
    BY <1>2, <2>1 DEF CodeInv, CutAtOnce, CodesGone, CodesOfCard, Held
  <2>3. CardInv'
    BY <1>2, <2>1 DEF CardInv, StrangerNeverSwitches, MemberInTransit, CodePending
  <2>4. PollInv'
    BY <1>2, <2>1 DEF PollInv, PollsCost, FalseTimeoutTakesLosses, Answering, JustPolled
  <2> QED
    BY <1>1, <1>2, <1>3, <2>1, <2>2, <2>3, <2>4 DEF AirTypes
<1> QED
  BY <1>4, <1>5 DEF CardRead, Swipe

(* What a tail of the air still holds was held before. *)
LEMMA UpTakenCodes ==
  ASSUME AirTypes, CodeInv, RfidIdle, card' = card, up # <<>>, up' = Tail(up)
  PROVE  CodeInv'
<1>1. \A m : Held(m)' => Held(m)
  <2>1. \A i \in DOMAIN up' : \E j \in DOMAIN up : up'[i] = up[j]
    BY TailOf DEF AirTypes
  <2> QED
    BY <2>1 DEF Held, RfidIdle, rfidVars, node
<1> QED
  BY <1>1, CodesStay DEF CodeInv, CutAtOnce, RfidIdle, rfidVars, node

(* The base hears the reader. *)
LEMMA DeliverKeepsLinkInv == LinkInv /\ Deliver => LinkInv'
<1> SUFFICES ASSUME LinkInv, Deliver PROVE LinkInv'
  OBVIOUS
<1> USE DEF LinkInv
<1> DEFINE m == Head(up)
<1>1. IInv'
  BY IdleReader DEF Deliver
<1>2. /\ up # <<>> /\ up' = Tail(up) /\ up \in Seq(Message)
      /\ half' = half /\ card' = card /\ before' = before
      /\ codeLost' = codeLost /\ ledStale' = ledStale /\ losses' = 0
      /\ restarted' = FALSE /\ led' = led /\ raced' = raced
      /\ down' = Behind(down, radio')
  BY DEF Deliver, cardHistory, RfidIdle, rfidVars, AirTypes
<1>3. /\ m \in Message /\ 1 \in DOMAIN up /\ m = up[1]
      /\ \A i \in DOMAIN up' : i \in Nat \ {0} /\ i + 1 \in DOMAIN up /\ up'[i] = up[i + 1]
      /\ \A i \in DOMAIN up : i # 1 => i - 1 \in DOMAIN up' /\ up'[i - 1] = up[i]
  BY <1>2, TailOf
<1>4. /\ status' \in [Slot -> Status] /\ lastTime' \in [Slot -> Nat]
      /\ failedTimeouts' \in [Slot -> 0 .. TimeoutAfter - 1]
      /\ status'[MY_ID] # STATUS_TIMEOUT /\ failedTimeouts'[MY_ID] = 0
      /\ \/ /\ m = Code(Member) /\ isAlarmEnabled' = ~isAlarmEnabled /\ radio' = {Verdict'}
         \/ m # Code(Member) /\ isAlarmEnabled' = isAlarmEnabled /\ radio' = {}
  BY <1>3, HeardEffect DEF Deliver
<1> HIDE DEF m
<1>5. CodeInv'
  BY <1>2, UpTakenCodes DEF Deliver
<1>6. IsCode(m) => m = Code(card)
  BY <1>3 DEF CodeInv, CodesOfCard, Held
<1>7. PollInv'
  BY <1>2, <1>4 DEF PollInv, PollsCost, FalseTimeoutTakesLosses
<1>8. CASE m = Code(Member) /\ isAlarmEnabled' = ~isAlarmEnabled /\ radio' = {Verdict'}
  <2>1. IsCode(m) /\ card = Member
    BY <1>6, <1>8, Kinds DEF AirTypes, Code, CodeMsg
  <2>2. Verdict' \in {LockMsg, UnlockMsg} /\ down' = Append(down, Verdict')
    BY <1>2, <1>8, BehindOf DEF Verdict
  <2>3. AirTypes'
    <3>1. Verdict' \in {PollMsg(MY_ID), LockMsg, UnlockMsg}
          /\ down \in Seq({PollMsg(MY_ID), LockMsg, UnlockMsg})
      BY <2>2 DEF AirTypes
    <3>2. down' \in Seq({PollMsg(MY_ID), LockMsg, UnlockMsg})
      BY <2>2, <3>1, AppendOf
    <3>3. up' \in Seq(Message)
      BY <1>2, TailOf
    <3>4. isAlarmEnabled' \in BOOLEAN /\ losses' \in 0 .. LossBound
      BY <1>2, <1>8, LockAssumption DEF AirTypes
    <3> QED
      BY <1>2, <1>4, <3>2, <3>3, <3>4 DEF AirTypes
  <2>4. CardInv'
    <3>1. ASSUME ~codeLost, ~raced
          PROVE isAlarmEnabled' # before /\ \A i \in DOMAIN up' : ~IsCode(up'[i])
      <4>1. CASE isAlarmEnabled = before
        <5>1. \A j \in DOMAIN up : IsCode(up[j]) => j = 1
          BY <1>3, <2>1, <3>1, <4>1 DEF CardInv, MemberInTransit, CodePending
        <5> QED
          BY <1>3, <1>8, <4>1, <5>1 DEF AirTypes
      <4>2. CASE isAlarmEnabled # before
        BY <1>3, <2>1, <3>1, <4>2 DEF CardInv, MemberInTransit
      <4> QED
        BY <4>1, <4>2
    <3> QED
      BY <1>2, <2>1, <3>1 DEF CardInv, StrangerNeverSwitches, MemberInTransit
  <2>5. LedInv'
    <3>1. /\ DOMAIN down' = DOMAIN down \cup {Len(down) + 1}
          /\ \A i \in DOMAIN down : i < Len(down) + 1
          /\ down'[Len(down) + 1] = Verdict' /\ Verdict' # PollMsg(MY_ID)
      BY <2>2, Announcements, AppendOf DEF AirTypes
    <3>2. \A i \in DOMAIN down' : IsLast(i)' => i = Len(down) + 1
      BY <3>1 DEF IsLast
    <3> QED
      BY <3>1, <3>2 DEF LedInv, LastIsVerdict, LedIsVerdict
  <2> QED
    BY <1>1, <1>5, <1>7, <2>3, <2>4, <2>5
<1>9. CASE m # Code(Member) /\ isAlarmEnabled' = isAlarmEnabled /\ radio' = {}
  <2>1. down' = down
    BY <1>2, <1>9, BehindOf
  <2>2. AirTypes'
    <3>1. up' \in Seq(Message)
      BY <1>2, TailOf
    <3> QED
      BY <1>2, <1>4, <1>9, <2>1, <3>1, LockAssumption DEF AirTypes
  <2>3. CardInv'
    <3>1. card = Member => ~IsCode(m)
      BY <1>6, <1>9
    <3>2. card = Member /\ CodePending => CodePending'
      BY <1>3, <3>1 DEF CodePending
    <3> QED
      BY <1>2, <1>3, <1>9, <3>2 DEF CardInv, StrangerNeverSwitches, MemberInTransit
  <2>4. LedInv'
    BY <1>2, <1>9, <2>1 DEF LedInv, LastIsVerdict, LedIsVerdict, IsLast, Verdict
  <2> QED
    BY <1>1, <1>5, <1>7, <2>2, <2>3, <2>4
<1> QED
  BY <1>4, <1>8, <1>9

(* The base does not. *)
LEMMA LoseKeepsLinkInv == LinkInv /\ Lose => LinkInv'
<1> SUFFICES ASSUME LinkInv, Lose PROVE LinkInv'
  OBVIOUS
<1> USE DEF LinkInv
<1>1. IInv'
  BY IdleReader DEF Lose
<1>2. /\ up # <<>> /\ up' = Tail(up) /\ up \in Seq(Message) /\ down' = down
      /\ half' = half /\ card' = card /\ before' = before
      /\ codeLost' = (codeLost \/ IsCode(Head(up))) /\ ledStale' = ledStale
      /\ losses' = OneMore(losses)
      /\ restarted' = restarted /\ led' = led /\ raced' = raced
      /\ status' = status /\ lastTime' = lastTime
      /\ failedTimeouts' = failedTimeouts /\ isAlarmEnabled' = isAlarmEnabled
  BY IdleBase DEF Lose, RfidIdle, rfidVars, AirTypes
<1>3. /\ Head(up) \in Message /\ Head(up) = up[1] /\ up' \in Seq(Message)
      /\ \A i \in DOMAIN up' : i \in Nat \ {0} /\ i + 1 \in DOMAIN up /\ up'[i] = up[i + 1]
      /\ \A i \in DOMAIN up : i # 1 => i - 1 \in DOMAIN up' /\ up'[i - 1] = up[i]
  BY <1>2, TailOf
<1>4. AirTypes'
  BY <1>2, <1>3, LockAssumption DEF AirTypes, OneMore
<1>5. CodeInv'
  BY <1>2, UpTakenCodes DEF Lose
<1>6. CardInv'
  <2>1. ASSUME ~codeLost', CodePending PROVE CodePending'
    <3>1. ~IsCode(up[1])
      BY <1>2, <1>3, <2>1
    <3> QED
      BY <1>3, <2>1, <3>1 DEF CodePending
  <2>2. (\A i \in DOMAIN up : ~IsCode(up[i])) => \A i \in DOMAIN up' : ~IsCode(up'[i])
    BY <1>3
  <2> QED
    BY <1>2, <2>1, <2>2 DEF CardInv, StrangerNeverSwitches, MemberInTransit
<1>7. LedInv'
  BY <1>2 DEF LedInv, LastIsVerdict, LedIsVerdict, IsLast, Verdict
<1>8. PollInv'
  <2>1. /\ losses' >= losses /\ (losses' > losses \/ losses' >= TimeoutAfter - 1)
        /\ failedTimeouts[MY_ID] <= TimeoutAfter - 1
        /\ failedTimeouts[MY_ID] \in Nat /\ losses \in Nat /\ losses' \in Nat
    BY <1>2, LockAssumption DEF AirTypes, OneMore, Slot
  <2> QED
    BY <1>2, <2>1, LockAssumption DEF PollInv, PollsCost, FalseTimeoutTakesLosses
<1> QED
  BY <1>1, <1>4, <1>5, <1>6, <1>7, <1>8

-----------------------------------------------------------------------------
(* What is left on the way to the reader when its first message is taken. *)
LEMMA DownTaken ==
  ASSUME AirTypes, down # <<>>, down' = Tail(down), isAlarmEnabled' = isAlarmEnabled
  PROVE  /\ down' \in Seq({PollMsg(MY_ID), LockMsg, UnlockMsg})
         /\ Head(down) \in {PollMsg(MY_ID), LockMsg, UnlockMsg}
         /\ LastIsVerdict => LastIsVerdict'
         /\ Head(down) = PollMsg(MY_ID) /\ (\A i \in DOMAIN down' : down'[i] = PollMsg(MY_ID))
              => \A i \in DOMAIN down : down[i] = PollMsg(MY_ID)
         /\ LastIsVerdict /\ (\A i \in DOMAIN down' : down'[i] = PollMsg(MY_ID))
              => Head(down) \in {PollMsg(MY_ID), Verdict}
         /\ Head(down) # PollMsg(MY_ID) /\ (\E i \in DOMAIN down : down[i] = PollMsg(MY_ID))
              => \E i \in DOMAIN down' : down'[i] = PollMsg(MY_ID)
<1>1. down \in Seq({PollMsg(MY_ID), LockMsg, UnlockMsg})
  BY DEF AirTypes
<1>2. /\ down' \in Seq({PollMsg(MY_ID), LockMsg, UnlockMsg})
      /\ Head(down) \in {PollMsg(MY_ID), LockMsg, UnlockMsg}
      /\ 1 \in DOMAIN down /\ Head(down) = down[1]
      /\ \A i \in DOMAIN down' : /\ i \in Nat \ {0} /\ i + 1 \in DOMAIN down
                                 /\ down'[i] = down[i + 1]
      /\ \A i \in DOMAIN down : i # 1 => i - 1 \in DOMAIN down' /\ down'[i - 1] = down[i]
      /\ \A i \in DOMAIN down : i \in Nat \ {0}
  BY <1>1, TailOf
<1>3. LastIsVerdict => LastIsVerdict'
  <2> SUFFICES ASSUME LastIsVerdict, NEW i \in DOMAIN down', IsLast(i)' PROVE down'[i] = Verdict'
    BY DEF LastIsVerdict
  <2>1. i + 1 \in DOMAIN down /\ down'[i] = down[i + 1] /\ i \in Nat
    BY <1>2
  <2>2. ASSUME NEW j \in DOMAIN down, j > i + 1 PROVE down[j] = PollMsg(MY_ID)
    <3>1. j - 1 \in DOMAIN down' /\ down'[j - 1] = down[j] /\ j - 1 > i
      BY <1>2, <2>1, <2>2
    <3> QED
      BY <3>1 DEF IsLast
  <2>3. IsLast(i + 1)
    BY <2>1, <2>2 DEF IsLast
  <2> QED
    BY <2>1, <2>3 DEF LastIsVerdict, Verdict
<1>4. ASSUME \A i \in DOMAIN down' : down'[i] = PollMsg(MY_ID)
      PROVE  \A i \in DOMAIN down : i # 1 => down[i] = PollMsg(MY_ID)
  BY <1>2, <1>4
<1>5. ASSUME LastIsVerdict, Head(down) # PollMsg(MY_ID),
             \A i \in DOMAIN down' : down'[i] = PollMsg(MY_ID)
      PROVE  Head(down) = Verdict
  <2>1. IsLast(1)
    BY <1>2, <1>4, <1>5 DEF IsLast
  <2> QED
    BY <1>2, <1>5, <2>1 DEF LastIsVerdict
<1>6. ASSUME Head(down) # PollMsg(MY_ID), NEW i \in DOMAIN down, down[i] = PollMsg(MY_ID)
      PROVE  \E j \in DOMAIN down' : down'[j] = PollMsg(MY_ID)
  BY <1>2, <1>6
<1>7. Head(down) = PollMsg(MY_ID) /\ (\A i \in DOMAIN down' : down'[i] = PollMsg(MY_ID))
        => \A i \in DOMAIN down : down[i] = PollMsg(MY_ID)
  BY <1>2, <1>4
<1>8. LastIsVerdict /\ (\A i \in DOMAIN down' : down'[i] = PollMsg(MY_ID))
        => Head(down) \in {PollMsg(MY_ID), Verdict}
  BY <1>5
<1>9. Head(down) # PollMsg(MY_ID) /\ (\E i \in DOMAIN down : down[i] = PollMsg(MY_ID))
        => \E i \in DOMAIN down' : down'[i] = PollMsg(MY_ID)
  BY <1>6
<1> QED
  BY <1>2, <1>3, <1>7, <1>8, <1>9

(* The reader hears the base, and obeys or begins to answer. *)
LEMMA HearKeepsLinkInv == LinkInv /\ Hear => LinkInv'
<1> SUFFICES ASSUME LinkInv, Hear PROVE LinkInv'
  OBVIOUS
<1> USE DEF LinkInv
<1>1. /\ down # <<>> /\ down' = Tail(down) /\ up' = up
      /\ half' = half /\ card' = card /\ before' = before /\ codeLost' = codeLost
      /\ losses' = losses /\ restarted' = restarted
      /\ status' = status /\ lastTime' = lastTime
      /\ failedTimeouts' = failedTimeouts /\ isAlarmEnabled' = isAlarmEnabled
  BY IdleBase DEF Hear, cardHistory
<1>2. /\ pc = "wait" /\ pc' \in {"wait", "format"} /\ raced' = raced
      /\ sending' = sending /\ sinceSending' = sinceSending /\ cut' = cut
  BY DEF Hear, Poll, Show, node
<1>3. Head(down) \in {PollMsg(MY_ID), LockMsg, UnlockMsg}
  BY <1>1, DownTaken
<1>4. \/ Head(down) = PollMsg(MY_ID) /\ Poll /\ ledStale' = ledStale
      \/ Head(down) \in {LockMsg, UnlockMsg} /\ Show(Head(down)) /\ ledStale' = FALSE
  BY <1>3 DEF Hear
<1>5. IInv'
  <2>1. Next
    BY <1>4 DEF Next
  <2> QED
    BY <2>1, Preserved
<1>6. AirTypes'
  BY <1>1, DownTaken DEF AirTypes
<1>7. CodeInv'
  <2>1. \A m : Held(m)' => Held(m)
    BY <1>1, <1>2 DEF Held
  <2> QED
    BY <1>1, <1>2, <2>1, CodesStay DEF CodeInv, CutAtOnce
<1>8. CardInv'
  BY <1>1, <1>2 DEF CardInv, StrangerNeverSwitches, MemberInTransit, CodePending
<1>9. CASE Head(down) = PollMsg(MY_ID) /\ Poll /\ ledStale' = ledStale
  <2>1. led' = led /\ pc' = "format"
    BY <1>9 DEF Poll
  <2>2. LedInv'
    BY <1>1, <1>9, <2>1, DownTaken DEF LedInv, LedIsVerdict
  <2>3. PollInv'
    BY <1>1, <2>1 DEF PollInv, PollsCost, FalseTimeoutTakesLosses, Answering, JustPolled
  <2> QED
    BY <1>5, <1>6, <1>7, <1>8, <2>2, <2>3
<1>10. CASE Head(down) \in {LockMsg, UnlockMsg} /\ Show(Head(down)) /\ ledStale' = FALSE
  <2>1. led' = IF Head(down) = LockMsg THEN 2 ELSE 1
    BY <1>10 DEF Show
  <2>2. Head(down) # PollMsg(MY_ID)
    BY <1>10, Announcements
  <2>3. LedInv'
    <3>1. (\A i \in DOMAIN down' : down'[i] = PollMsg(MY_ID)) => Head(down) = Verdict
      BY <1>1, <2>2, DownTaken DEF LedInv
    <3>2. Head(down) = Verdict => (led' = 2 <=> isAlarmEnabled)
      BY <2>1, Announcements DEF Verdict
    <3> QED
      BY <1>1, <3>1, <3>2, DownTaken DEF LedInv, LedIsVerdict
  <2>4. Answering => Answering'
    BY <1>1, <1>2, <2>2, DownTaken DEF Answering
  <2>5. PollInv'
    BY <1>1, <2>4 DEF PollInv, PollsCost, FalseTimeoutTakesLosses, JustPolled
  <2> QED
    BY <1>5, <1>6, <1>7, <1>8, <2>3, <2>5
<1> QED
  BY <1>4, <1>9, <1>10

(* The reader does not. *)
LEMMA MissKeepsLinkInv == LinkInv /\ Miss => LinkInv'
<1> SUFFICES ASSUME LinkInv, Miss PROVE LinkInv'
  OBVIOUS
<1> USE DEF LinkInv
<1>1. /\ down # <<>> /\ down' = Tail(down) /\ up' = up
      /\ half' = half /\ card' = card /\ before' = before /\ codeLost' = codeLost
      /\ restarted' = restarted
      /\ status' = status /\ lastTime' = lastTime
      /\ failedTimeouts' = failedTimeouts /\ isAlarmEnabled' = isAlarmEnabled
  BY IdleBase DEF Miss, cardHistory
<1>2. /\ pc' = pc /\ raced' = raced /\ led' = led
      /\ sending' = sending /\ sinceSending' = sinceSending /\ cut' = cut
      /\ string6LOWPAN' = string6LOWPAN /\ uipBuf' = uipBuf
  BY DEF Miss, RfidIdle, rfidVars, node
<1>3. IInv'
  BY IdleReader DEF Miss
<1>4. \/ Head(down) = PollMsg(MY_ID) /\ losses' = OneMore(losses) /\ ledStale' = ledStale
      \/ Head(down) # PollMsg(MY_ID) /\ losses' = losses /\ ledStale' = TRUE
  BY DEF Miss
<1>5. losses' \in 0 .. LossBound /\ losses' >= losses
  BY <1>4, LockAssumption DEF AirTypes, OneMore
<1>6. AirTypes'
  BY <1>1, <1>5, DownTaken DEF AirTypes
<1>7. CodeInv'
  <2>1. \A m : Held(m)' => Held(m)
    BY <1>1, <1>2 DEF Held
  <2> QED
    BY <1>1, <1>2, <2>1, CodesStay DEF CodeInv, CutAtOnce
<1>8. CardInv'
  BY <1>1, <1>2 DEF CardInv, StrangerNeverSwitches, MemberInTransit, CodePending
<1>9. LedInv'
  BY <1>1, <1>2, <1>4, DownTaken DEF LedInv, LedIsVerdict
<1>10. PollInv'
  <2>1. CASE Head(down) = PollMsg(MY_ID)
    <3>1. /\ losses' > losses \/ losses' >= TimeoutAfter - 1
          /\ failedTimeouts[MY_ID] <= TimeoutAfter - 1
          /\ failedTimeouts[MY_ID] \in Nat /\ losses \in Nat /\ losses' \in Nat
      BY <1>4, <1>5, <2>1, LockAssumption DEF AirTypes, OneMore, Slot
    <3> QED
      BY <1>1, <1>5, <3>1, LockAssumption DEF PollInv, PollsCost, FalseTimeoutTakesLosses
  <2>2. CASE Head(down) # PollMsg(MY_ID)
    <3>1. Answering => Answering'
      BY <1>1, <1>2, <2>2, DownTaken DEF Answering
    <3> QED
      BY <1>1, <1>4, <2>2, <3>1 DEF PollInv, PollsCost, FalseTimeoutTakesLosses, JustPolled
  <2> QED
    BY <2>1, <2>2
<1> QED
  BY <1>3, <1>6, <1>7, <1>8, <1>9, <1>10

-----------------------------------------------------------------------------
(* Time passes: the base counts, and polls. *)
LEMMA TimeKeepsLinkInv == LinkInv /\ HalfSecond => LinkInv'
<1> SUFFICES ASSUME LinkInv, HalfSecond PROVE LinkInv'
  OBVIOUS
<1> USE DEF LinkInv
<1>1. /\ up = <<>> /\ down = <<>> /\ up' = <<>>
      /\ half' = 1 - half /\ card' = card /\ before' = before /\ codeLost' = codeLost
      /\ ledStale' = ledStale /\ losses' = losses /\ restarted' = restarted
      /\ down' = Behind(<<>>, radio')
  BY DEF HalfSecond, cardHistory, linkHistory
<1>2. /\ isAlarmEnabled' = isAlarmEnabled
      /\ status' \in [Slot -> Status] /\ lastTime' \in [Slot -> Nat]
      /\ failedTimeouts' \in [Slot -> 0 .. TimeoutAfter - 1]
      /\ \/ /\ radio' = {} /\ status' = status /\ failedTimeouts' = failedTimeouts
            /\ lastTime'[MY_ID] \in {lastTime[MY_ID], lastTime[MY_ID] + 1}
         \/ /\ radio' = {PollMsg(MY_ID)} /\ lastTime'[MY_ID] = 0
            /\ lastTime[MY_ID] + 1 = PollAfter
            /\ \/ /\ failedTimeouts[MY_ID] + 1 = TimeoutAfter
                  /\ failedTimeouts'[MY_ID] = 0
               \/ /\ failedTimeouts'[MY_ID] = failedTimeouts[MY_ID] + 1
                  /\ status' = status
  BY CheckEffect DEF HalfSecond
<1>3. /\ pc' = pc /\ raced' = raced /\ led' = led /\ cut' = cut
      /\ string6LOWPAN' = string6LOWPAN /\ uipBuf' = uipBuf /\ sending' = sending
      /\ half = 1 => pc = "wait"
      /\ half = 0 => sinceSending' = sinceSending
  BY DEF HalfSecond, Second, RfidIdle, rfidVars, node
<1>4. IInv'
  <2>1. CASE half = 1
    BY <2>1, Preserved DEF HalfSecond, Next
  <2>2. CASE half # 1
    BY <2>2, IdleReader DEF HalfSecond
  <2> QED
    BY <2>1, <2>2
<1>5. \/ down' = <<>> /\ radio' = {}
      \/ down' = <<PollMsg(MY_ID)>> /\ radio' = {PollMsg(MY_ID)}
  <2>1. Append(<<>>, PollMsg(MY_ID)) = <<PollMsg(MY_ID)>>
    OBVIOUS
  <2>2. Behind(<<>>, {}) = <<>> /\ Behind(<<>>, {PollMsg(MY_ID)}) = <<PollMsg(MY_ID)>>
    BY <2>1, BehindOf
  <2>3. radio' = {} \/ radio' = {PollMsg(MY_ID)}
    BY <1>2
  <2> QED
    BY <1>1, <2>2, <2>3
<1>6. \A i \in DOMAIN down' : down'[i] = PollMsg(MY_ID)
  BY <1>5
<1>7. AirTypes'
  <2>1. down' \in Seq({PollMsg(MY_ID), LockMsg, UnlockMsg})
    <3>1. <<>> \in Seq({PollMsg(MY_ID), LockMsg, UnlockMsg})
      OBVIOUS
    <3>2. <<PollMsg(MY_ID)>> \in Seq({PollMsg(MY_ID), LockMsg, UnlockMsg})
      OBVIOUS
    <3> QED
      BY <1>5, <3>1, <3>2
  <2>2. half' \in {0, 1} /\ up' \in Seq(Message)
    BY <1>1 DEF AirTypes
  <2> QED
    BY <1>1, <1>2, <2>1, <2>2 DEF AirTypes
<1>8. CodeInv'
  <2>1. CASE half = 1
    <3>1. pc' = "wait" /\ ~cut' /\ \A m : ~Held(m)'
      BY <1>1, <1>3, <2>1 DEF CodeInv, CutAtOnce, Held
    <3> QED
      BY <3>1 DEF CodeInv, CutAtOnce, CodesGone, CodesOfCard
  <2>2. CASE half = 0
    BY <1>1, <1>3, <2>2 DEF CodeInv, CutAtOnce, CodesGone, CodesOfCard, Held
  <2> QED
    BY <2>1, <2>2 DEF AirTypes
<1>9. CardInv'
  BY <1>1, <1>2, <1>3 DEF CardInv, StrangerNeverSwitches, MemberInTransit, CodePending
<1>10. LedInv'
  <2>1. LastIsVerdict'
    BY <1>6 DEF LastIsVerdict, IsLast
  <2> QED
    BY <1>1, <1>2, <1>3, <2>1 DEF LedInv, LedIsVerdict
<1>11. PollInv'
  <2>1. /\ failedTimeouts[MY_ID] \in Nat /\ losses \in Nat
        /\ lastTime[MY_ID] \in Nat /\ half \in {0, 1}
    BY LockAssumption DEF AirTypes, Slot
  <2>2. CASE radio' = {}
    <3>1. /\ status' = status /\ failedTimeouts' = failedTimeouts
          /\ lastTime'[MY_ID] \in {lastTime[MY_ID], lastTime[MY_ID] + 1}
      BY <1>2, <2>2
    <3>2. Answering /\ JustPolled => Answering' /\ JustPolled'
      <4> SUFFICES ASSUME Answering, JustPolled PROVE Answering' /\ JustPolled'
        OBVIOUS
      <4>1. pc # "wait" /\ ~(pc = "handed" /\ uipBuf = Nothing)
        BY <1>1 DEF Answering
      <4>2. half = 0 /\ lastTime[MY_ID] = 0
        BY <1>3, <2>1, <4>1 DEF JustPolled
      <4> QED
        BY <1>1, <1>3, <3>1, <4>1, <4>2 DEF Answering, JustPolled
    <3> QED
      BY <1>1, <3>1, <3>2 DEF PollInv, PollsCost, FalseTimeoutTakesLosses
  <2>3. CASE radio' = {PollMsg(MY_ID)}
    <3>1. lastTime'[MY_ID] = 0 /\ lastTime[MY_ID] # 0
      BY <1>2, <2>1, <2>3, LockAssumption
    <3>2. ~restarted => losses >= failedTimeouts[MY_ID]
      <4>1. ~(Answering /\ JustPolled)
        BY <1>1, <1>3, <2>1, <3>1 DEF Answering, JustPolled
      <4> QED
        BY <4>1 DEF PollInv, PollsCost
    <3>3. Answering' /\ JustPolled'
      BY <1>5, <2>3, <3>1 DEF Answering, JustPolled
    <3>4. CASE failedTimeouts[MY_ID] + 1 = TimeoutAfter /\ failedTimeouts'[MY_ID] = 0
      BY <1>1, <2>1, <3>2, <3>4 DEF PollInv, PollsCost, FalseTimeoutTakesLosses
    <3>5. CASE failedTimeouts'[MY_ID] = failedTimeouts[MY_ID] + 1 /\ status' = status
      BY <1>1, <2>1, <3>2, <3>3, <3>5 DEF PollInv, PollsCost, FalseTimeoutTakesLosses
    <3> QED
      BY <1>2, <2>3, <3>4, <3>5
  <2> QED
    BY <1>2, <2>2, <2>3
<1> QED
  BY <1>4, <1>7, <1>8, <1>9, <1>10, <1>11

LEMMA RestartKeepsLinkInv == LinkInv /\ ReaderRestart => LinkInv'
<1> SUFFICES ASSUME LinkInv, ReaderRestart PROVE LinkInv'
  OBVIOUS
<1> USE DEF LinkInv
<1>1. /\ up = <<>> /\ down = <<>> /\ up' = <<>> /\ down' = <<>>
      /\ half' = half /\ card' = NoKey /\ before' = FALSE /\ ledStale' /\ restarted'
      /\ losses' = losses /\ status' = status /\ lastTime' = lastTime
      /\ failedTimeouts' = failedTimeouts /\ isAlarmEnabled' = isAlarmEnabled
      /\ pc' = "wait" /\ ~cut'
  BY IdleBase DEF ReaderRestart, Restart
<1>2. IInv'
  BY Preserved DEF ReaderRestart, Next
<1>3. AirTypes'
  BY <1>1 DEF AirTypes
<1>4. CodeInv'
  BY <1>1 DEF CodeInv, CutAtOnce, CodesGone, CodesOfCard, Held
<1>5. CardInv'
  BY <1>1, Kinds DEF CardInv, StrangerNeverSwitches, MemberInTransit
<1>6. LedInv'
  BY <1>1 DEF LedInv, LastIsVerdict, LedIsVerdict
<1>7. PollInv'
  BY <1>1 DEF PollInv, PollsCost, FalseTimeoutTakesLosses
<1> QED
  BY <1>2, <1>3, <1>4, <1>5, <1>6, <1>7

-----------------------------------------------------------------------------
LEMMA LinkInitially == LinkInit => LinkInv
<1> SUFFICES ASSUME LinkInit PROVE LinkInv
  OBVIOUS
<1>1. IInv
  BY Initially DEF LinkInit
<1>2. /\ up = <<>> /\ down = <<>> /\ half \in {0, 1} /\ card = NoKey
      /\ before = FALSE /\ isAlarmEnabled = FALSE /\ losses = 0 /\ led = 1
      /\ status = [i \in Slot |-> STATUS_OK] /\ lastTime = [i \in Slot |-> 0]
      /\ failedTimeouts = [i \in Slot |-> 0] /\ pc = "wait" /\ cut = FALSE
  BY DEF LinkInit, Init, Base!Init, Base!STATUS_OK, STATUS_OK
<1>3. AirTypes
  <2>1. STATUS_OK \in Status /\ 0 \in 0 .. TimeoutAfter - 1 /\ 0 \in 0 .. LossBound
    BY LockAssumption DEF Status, STATUS_OK, STATUS_TIMEOUT
  <2>2. up \in Seq(Message) /\ down \in Seq({PollMsg(MY_ID), LockMsg, UnlockMsg})
    BY <1>2
  <2>3. status \in [Slot -> Status] /\ lastTime \in [Slot -> Nat]
    BY <1>2, <2>1
  <2>4. failedTimeouts \in [Slot -> 0 .. TimeoutAfter - 1]
    BY <1>2, <2>1
  <2>5. isAlarmEnabled \in BOOLEAN /\ before \in BOOLEAN /\ card \in Card \cup {NoKey}
    BY <1>2
  <2> QED
    BY <1>2, <2>1, <2>2, <2>3, <2>4, <2>5 DEF AirTypes
<1>4. CodeInv
  BY <1>2 DEF CodeInv, CutAtOnce, CodesGone, CodesOfCard, Held
<1>5. CardInv
  BY <1>2, Kinds DEF CardInv, StrangerNeverSwitches, MemberInTransit
<1>6. LedInv
  BY <1>2 DEF LedInv, LastIsVerdict, LedIsVerdict
<1>7. PollInv
  BY <1>2 DEF PollInv, PollsCost, FalseTimeoutTakesLosses, Slot, STATUS_OK, STATUS_TIMEOUT
<1> QED
  BY <1>1, <1>3, <1>4, <1>5, <1>6, <1>7 DEF LinkInv

LEMMA LinkPreserved == LinkInv /\ [LinkNext]_linkVars => LinkInv'
<1> SUFFICES ASSUME LinkInv, [LinkNext]_linkVars PROVE LinkInv'
  OBVIOUS
<1>1. CASE ReaderProcess
  BY <1>1, ProcessKeepsLinkInv
<1>2. CASE Deliver
  BY <1>2, DeliverKeepsLinkInv
<1>3. CASE Lose
  BY <1>3, LoseKeepsLinkInv
<1>4. CASE Hear
  BY <1>4, HearKeepsLinkInv
<1>5. CASE Miss
  BY <1>5, MissKeepsLinkInv
<1>6. CASE HalfSecond
  BY <1>6, TimeKeepsLinkInv
<1>7. CASE ReaderRestart
  BY <1>7, RestartKeepsLinkInv
<1>8. ASSUME NEW key \in Card, CardRead(key) PROVE LinkInv'
  BY <1>8, CardKeepsLinkInv
<1>9. CASE UNCHANGED linkVars
  <2>1. UNCHANGED rfidVars /\ sent' = sent
    BY <1>9 DEF linkVars
  <2>2. IInv'
    BY <2>1 DEF LinkInv, rfidVars, node, IInv, TypeOK
  <2>3. /\ pc' = pc /\ cut' = cut /\ sending' = sending /\ sinceSending' = sinceSending
        /\ string6LOWPAN' = string6LOWPAN /\ uipBuf' = uipBuf /\ led' = led /\ raced' = raced
    BY <2>1 DEF rfidVars, node
  <2>4. /\ status' = status /\ lastTime' = lastTime /\ failedTimeouts' = failedTimeouts
        /\ isAlarmEnabled' = isAlarmEnabled /\ up' = up /\ down' = down /\ half' = half
        /\ card' = card /\ before' = before /\ codeLost' = codeLost
        /\ ledStale' = ledStale /\ losses' = losses /\ restarted' = restarted
    BY <1>9 DEF linkVars, baseVars, cardHistory, linkHistory
  <2>5. AirTypes'
    BY <2>4 DEF LinkInv, AirTypes
  <2>6. CodeInv'
    BY <2>3, <2>4 DEF LinkInv, CodeInv, CutAtOnce, CodesGone, CodesOfCard, Held
  <2>7. CardInv'
    BY <2>3, <2>4 DEF LinkInv, CardInv, StrangerNeverSwitches, MemberInTransit, CodePending
  <2>8. LedInv'
    BY <2>3, <2>4 DEF LinkInv, LedInv, LastIsVerdict, LedIsVerdict, IsLast, Verdict
  <2>9. PollInv'
    BY <2>3, <2>4
    DEF LinkInv, PollInv, PollsCost, FalseTimeoutTakesLosses, Answering, JustPolled
  <2> QED
    BY <2>2, <2>5, <2>6, <2>7, <2>8, <2>9 DEF LinkInv
<1> QED
  BY <1>1, <1>2, <1>3, <1>4, <1>5, <1>6, <1>7, <1>8, <1>9 DEF LinkNext

LEMMA LinkInvariant == LinkSpec => []LinkInv
  BY LinkInitially, LinkPreserved, PTL DEF LinkSpec

-----------------------------------------------------------------------------
(* Whatever cards are read, and however their codes are cut off or lost, no
   card but the member's switches the alarm (e-protect-sensor-3.c:143-184,
   e-protect-base.c:103-140). *)
THEOREM OnlyMembersSwitch == LinkSpec => []StrangerNeverSwitches
<1>1. LinkInv => StrangerNeverSwitches
  BY DEF LinkInv, CardInv
<1> QED
  BY <1>1, LinkInvariant, PTL

(* A member's card switches the alarm over, once: its code is sent once and the
   base toggles on each code it hears, so this holds for the cards whose code
   was not lost and that raced no report of the reader. *)
THEOREM MembersSwitch == LinkSpec => []MemberSwitches
<1>1. LinkInv => MemberSwitches
  BY DEF LinkInv, CardInv, MemberInTransit, CodePending, MemberSwitches, Settled
<1> QED
  BY <1>1, LinkInvariant, PTL

(* Announcements reach the reader in the order in which the base made them, so
   its LED ends up on the state of the alarm unless the last was missed, or the
   reader restarted after it (e-protect-sensor-3.c:94-107). *)
THEOREM LedFollows == LinkSpec => []LedShowsAlarm
<1>1. LinkInv => LedShowsAlarm
  BY DEF LinkInv, LedInv, LedIsVerdict, LedShowsAlarm, Settled
<1> QED
  BY <1>1, LinkInvariant, PTL

(* Whatever cards do to its reports and answers, a reader that runs is only
   declared in TIMEOUT if, for each poll but the last, a message was lost: for
   any period of the reports, hold time and numbers of checks and polls, as
   long as a poll takes more than one check (e-protect-base.c:169-188). *)
THEOREM ReaderTimesOutByLoss == LinkSpec => []FalseTimeoutTakesLosses
<1>1. LinkInv => FalseTimeoutTakesLosses
  BY DEF LinkInv, PollInv
<1> QED
  BY <1>1, LinkInvariant, PTL

(* What was proved of the reader alone holds of the reader on the link, where
   the run checks it: the base's polls and announcements are among the messages
   it was already supposed to get. *)
THEOREM ReaderOnTheLink == LinkSpec => [](OneCodePerCard /\ NeverQuietForLong)
<1>1. LinkInv => OneCodePerCard /\ NeverQuietForLong
  BY RfidAssumption DEF LinkInv, IInv, TypeOK, OneCodePerCard, NeverQuietForLong
<1> QED
  BY <1>1, LinkInvariant, PTL
-----------------------------------------------------------------------------
(* How much is on the air.  What is there now or may still come before time
   passes is three messages: of the send under way, of the turn that is due and
   of the next card, each of which leaves room for what it sends and for what
   the base answers. *)
Coming ==
  (IF pc = "wait" THEN 0 ELSE 1) + (IF timer = 0 THEN 1 ELSE 0) + (IF sending THEN 0 ELSE 1)
AtMostThree == Len(up) + Len(down) + Coming <= 3

(* A send under way while a turn is due answers the last poll. *)
PollFirst ==
  \/ pc # "wait" /\ timer = 0
  \/ \E i \in DOMAIN down : down[i] = PollMsg(MY_ID)
AirInv == AtMostThree /\ (PollFirst => JustPolled)

LEMMA LengthOf ==
  /\ \A s \in Seq(Message) : Len(s) \in Nat /\ (s # <<>> => Len(Tail(s)) = Len(s) - 1)
  /\ \A s \in Seq({PollMsg(MY_ID), LockMsg, UnlockMsg}) :
        Len(s) \in Nat /\ (s # <<>> => Len(Tail(s)) = Len(s) - 1)
  /\ \A air \in Seq(Message), m \in Message : Len(Behind(air, {m})) = Len(air) + 1
  /\ \A air \in Seq({PollMsg(MY_ID), LockMsg, UnlockMsg}), m \in {LockMsg, UnlockMsg} :
        Len(Behind(air, {m})) = Len(air) + 1
<1>1. \A air \in Seq(Message), m \in Message : Len(Append(air, m)) = Len(air) + 1
  OBVIOUS
<1>2. \A s \in Seq(Message) : Len(s) \in Nat /\ (s # <<>> => Len(Tail(s)) = Len(s) - 1)
  OBVIOUS
<1>3. \A s \in Seq({PollMsg(MY_ID), LockMsg, UnlockMsg}) :
        Len(s) \in Nat /\ (s # <<>> => Len(Tail(s)) = Len(s) - 1)
  OBVIOUS
<1>4. \A air \in Seq({PollMsg(MY_ID), LockMsg, UnlockMsg}), m \in {LockMsg, UnlockMsg} :
        Len(Append(air, m)) = Len(air) + 1
  OBVIOUS
<1>5. \A air \in Seq(Message), m \in Message : Len(Behind(air, {m})) = Len(air) + 1
  <2> TAKE air \in Seq(Message), m \in Message
  <2>1. Behind(air, {m}) = Append(air, m)
    BY BehindOf
  <2> QED
    BY <1>1, <2>1
<1>6. \A air \in Seq({PollMsg(MY_ID), LockMsg, UnlockMsg}), m \in {LockMsg, UnlockMsg} :
        Len(Behind(air, {m})) = Len(air) + 1
  <2> TAKE air \in Seq({PollMsg(MY_ID), LockMsg, UnlockMsg}), m \in {LockMsg, UnlockMsg}
  <2>1. Behind(air, {m}) = Append(air, m)
    BY BehindOf
  <2> QED
    BY <1>4, <2>1
<1> QED
  BY <1>2, <1>3, <1>5, <1>6

LEMMA AirNumbers ==
  ASSUME LinkInv
  PROVE  /\ up \in Seq(Message) /\ down \in Seq({PollMsg(MY_ID), LockMsg, UnlockMsg})
         /\ Len(up) \in Nat /\ Len(down) \in Nat /\ sending \in BOOLEAN
         /\ timer \in 0 .. SendInterval /\ SendInterval \in Nat \ {0}
         /\ half \in {0, 1} /\ lastTime[MY_ID] \in Nat
  BY RfidAssumption, LengthOf DEF LinkInv, IInv, TypeOK, AirTypes, Slot

LEMMA ProcessKeepsAirInv == LinkInv /\ AirInv /\ ReaderProcess => AirInv'
<1> SUFFICES ASSUME LinkInv, AirInv, ReaderProcess PROVE AirInv'
  OBVIOUS
<1>1. down' = down /\ half' = half /\ lastTime' = lastTime
  BY IdleBase DEF ReaderProcess
<1>2. CASE Wake
  <2>1. /\ pc = "wait" /\ timer = 0 /\ timer' = SendInterval
        /\ pc' = IF sending THEN "wait" ELSE "format"
        /\ sending' = (sending /\ sinceSending <= HoldTime)
    BY <1>2 DEF Wake
  <2>2. up' = up
    BY <1>2, BehindOf DEF ReaderProcess, Wake, Multicast
  <2>3. Coming' <= Coming
    BY <2>1, AirNumbers DEF Coming
  <2>4. AtMostThree'
    BY <1>1, <2>2, <2>3, AirNumbers DEF AirInv, AtMostThree, Coming
  <2>5. PollFirst' => JustPolled'
    BY <1>1, <2>1, AirNumbers DEF AirInv, PollFirst, JustPolled
  <2> QED
    BY <2>4, <2>5 DEF AirInv
<1>3. CASE Format \/ Hand
  <2>1. /\ pc # "wait" /\ pc' # "wait" /\ timer' = timer /\ sending' = sending
        /\ sent' = {}
    BY <1>3 DEF Format, Hand, Multicast
  <2>2. up' = up
    BY <2>1, BehindOf DEF ReaderProcess
  <2> QED
    BY <1>1, <2>1, <2>2 DEF AirInv, AtMostThree, PollFirst, JustPolled, Coming
<1>4. CASE Transmit
  <2>1. /\ pc = "handed" /\ pc' = "wait" /\ timer' = timer /\ sending' = sending
        /\ sent' = {uipBuf} \ {Nothing} /\ up' = Behind(up, sent')
    BY <1>4 DEF Transmit, Multicast, ReaderProcess
  <2>2. Len(up') <= Len(up) + 1
    <3>1. CASE sent' = {}
      <4>1. up' = up
        BY <2>1, <3>1, BehindOf
      <4> QED
        BY <4>1, AirNumbers
    <3>2. CASE sent' # {}
      <4>1. sent' = {uipBuf} /\ uipBuf \in Message
        <5>1. uipBuf # Nothing /\ sent' = {uipBuf}
          BY <2>1, <3>2
        <5> QED
          BY <5>1 DEF LinkInv, IInv, TypeOK
      <4>2. up' = Behind(up, {uipBuf}) /\ up \in Seq(Message)
        BY <2>1, <4>1, AirNumbers
      <4>3. Len(up') = Len(up) + 1
        BY <4>1, <4>2, LengthOf
      <4> QED
        BY <4>3, AirNumbers
    <3> QED
      BY <3>1, <3>2
  <2>3. Coming' = Coming - 1 /\ Coming \in Nat
    BY <2>1 DEF Coming
  <2>4. Len(up') \in Nat
    BY <1>1, <2>1, LengthOf, ProcessKeepsLinkInv, AirNumbers DEF LinkInv, AirTypes
  <2>5. AtMostThree'
    BY <1>1, <2>2, <2>3, <2>4, AirNumbers DEF AirInv, AtMostThree
  <2>6. PollFirst' => JustPolled'
    BY <1>1, <2>1 DEF AirInv, PollFirst, JustPolled
  <2> QED
    BY <2>5, <2>6 DEF AirInv
<1> QED
  BY <1>2, <1>3, <1>4 DEF ReaderProcess, SendStatus

LEMMA CardKeepsAirInv == ASSUME NEW key \in Card, LinkInv, AirInv, CardRead(key) PROVE AirInv'
<1>1. down' = down /\ half' = half /\ lastTime' = lastTime
  BY IdleBase DEF CardRead
<1>2. CASE SwipeAccepted(key)
  <2>1. /\ ~sending /\ sending' = TRUE /\ timer' = timer /\ pc' = pc
        /\ up' = Behind(up, {Code(key)})
    BY <1>2 DEF CardRead, SwipeAccepted
  <2>2. Len(up') = Len(up) + 1
    BY <2>1, LengthOf, AirNumbers DEF Message
  <2>3. Coming' = Coming - 1 /\ Coming \in Nat
    BY <2>1 DEF Coming
  <2>4. AtMostThree'
    BY <1>1, <2>2, <2>3, AirNumbers DEF AirInv, AtMostThree
  <2>5. PollFirst' => JustPolled'
    BY <1>1, <2>1 DEF AirInv, PollFirst, JustPolled
  <2> QED
    BY <2>4, <2>5 DEF AirInv
<1>3. CASE SwipeIgnored
  <2>1. sent' = {} /\ UNCHANGED <<pc, timer, sending>>
    BY <1>3 DEF SwipeIgnored, Multicast, node
  <2>2. up' = up
    BY <2>1, BehindOf DEF CardRead
  <2> QED
    BY <1>1, <2>1, <2>2 DEF AirInv, AtMostThree, PollFirst, JustPolled, Coming
<1> QED
  BY <1>2, <1>3 DEF CardRead, Swipe

(* A message of the reader makes room for the verdict on it. *)
LEMMA UpTakenAirInv == LinkInv /\ AirInv /\ (Deliver \/ Lose) => AirInv'
<1> SUFFICES ASSUME LinkInv, AirInv, Deliver \/ Lose PROVE AirInv'
  OBVIOUS
<1>1. /\ up # <<>> /\ up' = Tail(up) /\ half' = half
      /\ pc' = pc /\ timer' = timer /\ sending' = sending
  BY DEF Deliver, Lose, RfidIdle, rfidVars, node
<1>2. Len(up') = Len(up) - 1 /\ Coming' = Coming /\ Coming \in Nat
  BY <1>1, LengthOf, AirNumbers DEF Coming
<1>3. CASE Lose
  <2>1. down' = down /\ lastTime' = lastTime
    BY <1>3, IdleBase DEF Lose
  <2>2. AtMostThree'
    BY <1>2, <2>1, AirNumbers DEF AirInv, AtMostThree
  <2>3. PollFirst' => JustPolled'
    BY <1>1, <2>1 DEF AirInv, PollFirst, JustPolled
  <2> QED
    BY <2>2, <2>3 DEF AirInv
<1>4. CASE Deliver
  <2>1. Head(up) \in Message
    BY <1>1, AirNumbers, TailOf
  <2>2. down' = Behind(down, radio') /\ (radio' = {} \/ radio' = {Verdict'})
    BY <1>4, <2>1, HeardEffect DEF Deliver, LinkInv
  <2>3. Len(down') \in Nat /\ Len(down') <= Len(down) + 1
    <3>1. CASE radio' = {}
      BY <2>2, <3>1, BehindOf, AirNumbers
    <3>2. CASE radio' = {Verdict'}
      <4>1. Verdict' \in {LockMsg, UnlockMsg}
        BY DEF Verdict
      <4>2. down' = Behind(down, {Verdict'})
        BY <2>2, <3>2
      <4>3. down \in Seq({PollMsg(MY_ID), LockMsg, UnlockMsg})
        BY AirNumbers
      <4>4. Len(down') = Len(down) + 1
        BY <4>1, <4>2, <4>3, LengthOf
      <4> QED
        BY <4>4, AirNumbers
    <3> QED
      BY <2>2, <3>1, <3>2
  <2>4. AtMostThree'
    BY <1>2, <2>3, AirNumbers DEF AirInv, AtMostThree
  <2>5. lastTime'[MY_ID] = 0
    BY <1>4, AirNumbers
    DEF Deliver, LinkInv, AirTypes, Slot, Base!ReceiveStatus, Base!ReceiveCode, Base!CodeAccepted,
        Base!CodeRefused, Base!Heard
  <2> QED
    BY <2>4, <2>5 DEF AirInv, JustPolled
<1> QED
  BY <1>3, <1>4

LEMMA DownTakenAirInv == LinkInv /\ AirInv /\ (Hear \/ Miss) => AirInv'
<1> SUFFICES ASSUME LinkInv, AirInv, Hear \/ Miss PROVE AirInv'
  OBVIOUS
<1>1. /\ down # <<>> /\ down' = Tail(down) /\ up' = up /\ half' = half /\ lastTime' = lastTime
      /\ timer' = timer /\ sending' = sending
  BY IdleBase DEF Hear, Miss, Poll, Show, RfidIdle, rfidVars, node
<1>2. Len(down') = Len(down) - 1
  BY <1>1, LengthOf, AirNumbers
<1>3. \/ pc' = pc
      \/ pc = "wait" /\ Head(down) = PollMsg(MY_ID)
  BY DEF Hear, Miss, Poll, Show, RfidIdle, rfidVars
<1>4. Coming' <= Coming + 1 /\ Coming \in Nat /\ Coming' \in Nat
  BY <1>1, <1>3 DEF Coming
<1>5. AtMostThree'
  BY <1>1, <1>2, <1>4, AirNumbers DEF AirInv, AtMostThree
<1>6. PollFirst' => PollFirst
  <2>1. \A i \in DOMAIN down' : \E j \in DOMAIN down : down'[i] = down[j]
    BY <1>1, TailOf, AirNumbers
  <2>2. 1 \in DOMAIN down /\ Head(down) = down[1]
    BY <1>1, TailOf, AirNumbers
  <2> QED
    BY <1>1, <1>3, <2>1, <2>2 DEF PollFirst
<1> QED
  BY <1>1, <1>5, <1>6 DEF AirInv, JustPolled

(* A poll is sent into the empty air, and not before the last is answered. *)
LEMMA TimeKeepsAirInv == LinkInv /\ AirInv /\ HalfSecond => AirInv'
<1> SUFFICES ASSUME LinkInv, AirInv, HalfSecond PROVE AirInv'
  OBVIOUS
<1>1. /\ up = <<>> /\ down = <<>> /\ up' = <<>> /\ half' = 1 - half
      /\ down' = Behind(<<>>, radio')
  BY DEF HalfSecond
<1>2. \/ radio' = {} /\ lastTime'[MY_ID] \in {lastTime[MY_ID], lastTime[MY_ID] + 1}
      \/ /\ radio' = {PollMsg(MY_ID)} /\ lastTime'[MY_ID] = 0
         /\ lastTime[MY_ID] + 1 = PollAfter
  BY CheckEffect DEF HalfSecond, LinkInv
<1>3. /\ pc' = pc /\ sending' = sending
      /\ half = 1 => pc = "wait" /\ timer > 0
      /\ half = 0 => timer' = timer
  BY DEF HalfSecond, Second, RfidIdle, rfidVars, node
<1>4. /\ Len(up') = 0
      /\ radio' = {} => down' = <<>> /\ Len(down') = 0
      /\ radio' = {PollMsg(MY_ID)} => Len(down') = 1
  <2>1. radio' = {} => down' = <<>>
    BY <1>1, BehindOf
  <2>2. radio' = {PollMsg(MY_ID)} => down' = Append(<<>>, PollMsg(MY_ID))
    BY <1>1, BehindOf
  <2>3. Len(Append(<<>>, PollMsg(MY_ID))) = 1 /\ Len(<<>>) = 0
    OBVIOUS
  <2> QED
    BY <1>1, <2>1, <2>2, <2>3
<1>5. pc' # "wait" /\ timer' = 0 => half = 0 /\ lastTime[MY_ID] = 0
  BY <1>3, AirNumbers DEF AirInv, PollFirst, JustPolled
<1>6. CASE radio' = {}
  <2>1. AtMostThree'
    BY <1>4, <1>6 DEF AtMostThree, Coming
  <2>2. PollFirst' => JustPolled'
    BY <1>1, <1>2, <1>4, <1>5, <1>6 DEF PollFirst, JustPolled
  <2> QED
    BY <2>1, <2>2 DEF AirInv
<1>7. CASE radio' = {PollMsg(MY_ID)}
  <2>1. lastTime'[MY_ID] = 0 /\ lastTime[MY_ID] # 0
    BY <1>2, <1>7, AirNumbers, LockAssumption
  <2>2. ~(pc' # "wait" /\ timer' = 0)
    BY <1>5, <2>1
  <2>3. Coming' <= 2 /\ Coming' \in Nat
    BY <2>2 DEF Coming
  <2>4. Len(up') = 0 /\ Len(down') = 1
    BY <1>4, <1>7
  <2>5. AtMostThree'
    <3>1. \A a, b, c : a = 0 /\ b = 1 /\ c \in 0 .. 2 => a + b + c <= 3
      OBVIOUS
    <3>2. Coming' \in 0 .. 2
      BY <2>3
    <3>3. Len(up') + Len(down') + Coming' <= 3
      BY <2>4, <3>1, <3>2, Zenon
    <3> QED
      BY <3>3 DEF AtMostThree
  <2> QED
    BY <2>1, <2>5 DEF AirInv, JustPolled
<1> QED
  BY <1>2, <1>6, <1>7

LEMMA AirInitially == LinkInit => AirInv
<1> SUFFICES ASSUME LinkInit PROVE AirInv
  OBVIOUS
<1>1. /\ up = <<>> /\ down = <<>> /\ pc = "wait" /\ timer = SendInterval /\ sending = FALSE
      /\ SendInterval # 0
  BY RfidAssumption DEF LinkInit, Init
<1>2. Len(up) = 0 /\ Len(down) = 0 /\ Coming = 1
  BY <1>1 DEF Coming
<1> QED
  BY <1>1, <1>2 DEF AirInv, AtMostThree, PollFirst

LEMMA AirPreserved == LinkInv /\ AirInv /\ [LinkNext]_linkVars => AirInv'
<1> SUFFICES ASSUME LinkInv, AirInv, [LinkNext]_linkVars PROVE AirInv'
  OBVIOUS
<1>1. CASE ReaderRestart
  <2>1. /\ up' = <<>> /\ down' = <<>> /\ pc' = "wait" /\ timer' = SendInterval /\ sending' = FALSE
        /\ SendInterval # 0
    BY <1>1, RfidAssumption DEF ReaderRestart, Restart
  <2>2. Len(up') = 0 /\ Len(down') = 0 /\ Coming' = 1
    BY <2>1 DEF Coming
  <2> QED
    BY <2>1, <2>2 DEF AirInv, AtMostThree, PollFirst
<1>2. CASE UNCHANGED linkVars
  <2>1. /\ pc' = pc /\ timer' = timer /\ sending' = sending /\ up' = up /\ down' = down
        /\ half' = half /\ lastTime' = lastTime
    BY <1>2 DEF linkVars, rfidVars, node, baseVars
  <2> QED
    BY <2>1 DEF AirInv, AtMostThree, PollFirst, JustPolled, Coming
<1> QED
  BY <1>1, <1>2, ProcessKeepsAirInv, CardKeepsAirInv, UpTakenAirInv, DownTakenAirInv,
     TimeKeepsAirInv DEF LinkNext

-----------------------------------------------------------------------------
(* The base of the link is the base of which BaseProofs proves its theorems. *)
Proven == INSTANCE BaseProofs WITH
  PresetType <- [i \in Slot |-> SENSOR_RFID], ReportedType <- {SENSOR_RFID},
  Key <- Card \cup {NoKey}, AllowedKey <- {Member}, SigfoxAfter <- 0

LEMMA SameNames ==
  /\ Base!Status = Proven!Status /\ Base!ReportedStatus = Proven!ReportedStatus
  /\ Base!SensorType = Proven!SensorType /\ Base!SENSOR_NONE = Proven!SENSOR_NONE
  /\ Base!STATUS_OK = Proven!STATUS_OK /\ Base!STATUS_TIMEOUT = Proven!STATUS_TIMEOUT
  /\ Base!SilenceLimit = Proven!SilenceLimit /\ Base!Monitored = Proven!Monitored
  BY DEF Base!Status, Base!ReportedStatus, Base!SensorType, Base!SENSOR_NONE, Base!SENSOR_RFID,
         Base!STATUS_OK, Base!STATUS_EMERGENCY, Base!STATUS_TIMEOUT,
         Base!SilenceLimit, Base!Monitored,
         Proven!Status, Proven!ReportedStatus, Proven!SensorType, Proven!SENSOR_NONE,
         Proven!SENSOR_RFID, Proven!STATUS_OK, Proven!STATUS_EMERGENCY, Proven!STATUS_TIMEOUT,
         Proven!SilenceLimit, Proven!Monitored

LEMMA SameCheck == Base!Check => Proven!Check
<1>1. Base!Due = Proven!Due /\ Base!Failing = Proven!Failing
  BY SameNames DEF Base!Due, Proven!Due, Base!Failing, Proven!Failing
<1> QED
  BY SameNames, <1>1
  DEF Base!Check, Base!UpTo, Base!PollMsg, Base!StatusMsg,
      Proven!Check, Proven!UpTo, Proven!PollMsg, Proven!StatusMsg

LEMMA SameReceive ==
  ASSUME NEW i \in Slot, NEW st, NEW ty, Base!ReceiveStatus(i, st, ty)
  PROVE  Proven!ReceiveStatus(i, st, ty)
  BY SameNames
  DEF Base!ReceiveStatus, Base!Heard, Base!UpdateDataToServer, Base!StatusMsg,
      Proven!ReceiveStatus, Proven!Heard, Proven!UpdateDataToServer, Proven!StatusMsg

LEMMA SameCode ==
  ASSUME NEW i \in Slot, NEW st, NEW key, Base!ReceiveCode(i, st, key)
  PROVE  Proven!ReceiveCode(i, st, key)
  BY SameNames
  DEF Base!ReceiveCode, Base!CodeAccepted, Base!CodeRefused, Base!Heard,
      Base!UpdateDataToServer, Base!CodeMsg, Base!LockMsg, Base!UnlockMsg,
      Proven!ReceiveCode, Proven!CodeAccepted, Proven!CodeRefused, Proven!Heard,
      Proven!UpdateDataToServer, Proven!CodeMsg, Proven!LockMsg, Proven!UnlockMsg

LEMMA SameSteps == Base!Next => Proven!Next
  BY SameNames, SameCheck, SameReceive, SameCode
  DEF Base!Next, Base!Receive, Proven!Next, Proven!Receive

LEMMA SameAssumption == Proven!BaseAssumption
  BY LockAssumption
  DEF Proven!BaseAssumption, Proven!SensorType, Proven!SENSOR_NONE, Proven!SENSOR_RFID,
      SENSOR_RFID

(* Its inductive invariant is one of the steps the base makes on the link. *)
LEMMA ProvenInitially == Base!Init => Proven!IInv
<1>1. Base!Init => Proven!Init
  BY SameNames DEF Base!Init, Proven!Init
<1> QED
  BY <1>1, SameAssumption, Proven!IInvInitially

LEMMA ProvenPreserved == Proven!IInv /\ [Base!Next]_baseVars => Proven!IInv'
<1>1. Proven!IInv /\ Base!Next => Proven!IInv'
  <2>1. Proven!TypeOK /\ [Proven!Next]_(Proven!vars) => Proven!TypeOK'
    BY SameAssumption, Proven!TypePreserved
  <2>2. Proven!IInv /\ Proven!TypeOK' /\ [Proven!Next]_(Proven!vars) => Proven!IInv'
    BY SameAssumption, Proven!IInvPreserved
  <2> QED
    BY <2>1, <2>2, SameSteps DEF Proven!IInv
<1>2. Proven!IInv /\ UNCHANGED baseVars => Proven!IInv'
  BY SameAssumption, Proven!IInvOfTable DEF baseVars, Proven!table
<1> QED
  BY <1>1, <1>2

LEMMA BaseSteps == LinkInv /\ [LinkNext]_linkVars => [Base!Next]_baseVars
<1> SUFFICES ASSUME LinkInv, [LinkNext]_linkVars PROVE [Base!Next]_baseVars
  OBVIOUS
<1>1. CASE Deliver
  <2>1. Head(up) \in Message
    BY <1>1, TailOf DEF Deliver, LinkInv, AirTypes
  <2>2. CASE Head(up) = StatusReport
    <3>1. /\ Head(up).cmd = "g" /\ Head(up).st \in Base!ReportedStatus
          /\ Head(up).ty \in {SENSOR_RFID}
      BY <2>2 DEF StatusReport, StatusMsg, STATUS_OK,
                  Base!ReportedStatus, Base!STATUS_OK, Base!STATUS_EMERGENCY
    <3>2. Base!ReceiveStatus(MY_ID, Head(up).st, Head(up).ty)
      BY <1>1, <3>1 DEF Deliver
    <3> QED
      BY <3>1, <3>2 DEF Base!Next, Base!Receive, Slot
  <2>3. ASSUME NEW key \in Card \cup {NoKey}, Head(up) = Code(key) PROVE Base!Next
    <3>1. Head(up).cmd = "c" /\ Head(up).st = Base!STATUS_OK /\ Head(up).key = key
      BY <2>3 DEF Code, CodeMsg, STATUS_OK, Base!STATUS_OK
    <3>2. Base!ReceiveCode(MY_ID, Base!STATUS_OK, key)
      BY <1>1, <3>1 DEF Deliver
    <3> QED
      BY <3>2 DEF Base!Next, Base!Receive, Slot
  <2> QED
    BY <2>1, <2>2, <2>3 DEF Message
<1>2. CASE HalfSecond
  BY <1>2 DEF HalfSecond, Base!Next
<1>3. CASE ReaderProcess \/ Lose \/ Hear \/ Miss \/ ReaderRestart \/ \E key \in Card : CardRead(key)
  BY <1>3 DEF ReaderProcess, Lose, Hear, Miss, ReaderRestart, CardRead, BaseIdle
<1>4. CASE UNCHANGED linkVars
  BY <1>4 DEF linkVars
<1> QED
  BY <1>1, <1>2, <1>3, <1>4 DEF LinkNext

(* Base assumes what sensors may send; what the reader does send, its
   garbled codes included, is of that kind, so that the base's half
   of the link implements Base (e-protect-base.c:76-140). *)
THEOREM BaseOfTheLink == LinkSpec => BaseOnTheLink
<1>1. LinkInit => Base!Init
  BY DEF LinkInit
<1> QED
  BY <1>1, BaseSteps, LinkInvariant, PTL DEF LinkSpec, BaseOnTheLink

(* On the link too TIMEOUT is shown exactly for as many silent checks as the
   base has patience for (e-protect-base.c:169-188). *)
THEOREM TimeoutExactOnTheLink == LinkSpec => []Base!TimeoutIffSilent
<1>1. Proven!IInv => Base!TimeoutIffSilent
  BY SameNames DEF Proven!IInv, Proven!TimeoutIffSilent, Base!TimeoutIffSilent
<1>2. LinkInit => Base!Init
  BY DEF LinkInit
<1> QED
  BY <1>1, <1>2, ProvenInitially, ProvenPreserved, BaseSteps, LinkInvariant, PTL DEF LinkSpec

(* Types, and never more than three messages on the air, whatever cards are
   read: for every choice of periods and hold time. *)
THEOREM LinkTypeCorrect == LinkSpec => []LinkTypeOK
<1>1. LinkInv /\ AirInv /\ Proven!IInv => LinkTypeOK
  <2> SUFFICES ASSUME LinkInv, AirInv, Proven!IInv PROVE LinkTypeOK
    OBVIOUS
  <2>1. Base!TypeOK
    BY SameNames DEF Proven!IInv, Proven!TypeOK, Base!TypeOK
  <2>2. Len(up) + Len(down) <= 3
    BY AirNumbers DEF AirInv, AtMostThree, Coming
  <2> QED
    BY <2>1, <2>2 DEF LinkInv, AirTypes, IInv, LinkTypeOK
<1>2. LinkInit => Base!Init
  BY DEF LinkInit
<1> QED
  BY <1>1, <1>2, AirInitially, AirPreserved, ProvenInitially, ProvenPreserved, BaseSteps,
     LinkInvariant, PTL DEF LinkSpec

=============================================================================
